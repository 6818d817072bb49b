------------------------------- MODULE Strand -------------------------------
(***************************************************************************)
(* asio's strand_service on top of the io_service: one strand, that some   *)
(* handlers are wrapped in and others are posted to. Together with         *)
(* IoService this is all that a thread in run does.                        *)
(***************************************************************************)
EXTENDS IoService, Functions

VARIABLES
    locked, waiting_queue, ready_queue,     \* of the strand_impl
    handler,    \* the handler a thread runs
    frame,      \* who called it: "loop", "dispatch" or "do_complete"
    strand_of   \* the handlers the strand has been given

strand == <<locked, waiting_queue, ready_queue, strand_of>>
vars   == <<ioVars, strand, handler, frame>>

Init ==
    /\ IoInit
    /\ locked = FALSE
    /\ waiting_queue = <<>> /\ ready_queue = <<>>
    /\ strand_of = {}
    /\ handler = [t \in Threads |-> Task]
    /\ frame = [t \in Threads |-> "loop"]

InStrand(t) == pc[t] = "handler" /\ frame[t] # "loop"

\* A step of the service that has nothing to do with the strand.
OutsideStrand == UNCHANGED <<strand, handler, frame>>
InsideStrand  == UNCHANGED <<program, service, reactor, cur>>

\* The thread calls a handler, that has commands of its own.
Invoke(t, h, from) ==
    /\ status' = [status EXCEPT ![h] = "running"]
    /\ handler' = [handler EXCEPT ![t] = h]
    /\ frame' = [frame EXCEPT ![t] = from]
    /\ todo' = [todo EXCEPT ![t] = program.does[h]]
    /\ Goto(t, "handler")

\* complete, of an operation whose handler is not wrapped.
CompleteHandler(t) ==
    /\ pc[t] = "complete" /\ Returned(t)
    /\ cur[t].op \in Handlers /\ ~Wrapped(cur[t].op)
    /\ Invoke(t, cur[t].op, "loop")
    /\ InsideStrand
    /\ UNCHANGED <<strand, call, private_work, private_queue>>

\* complete, of one that is: it calls dispatch of the strand.
Dispatch(t) ==
    /\ pc[t] = "complete" /\ Returned(t)
    /\ cur[t].op \in Handlers /\ Wrapped(cur[t].op)
    /\ strand_of' = strand_of \cup {cur[t].op}
    /\ IF locked
       THEN /\ waiting_queue' = Append(waiting_queue, cur[t].op)
            /\ Goto(t, "work_cleanup")
            /\ UNCHANGED <<locked, status, handler, frame, todo>>
       ELSE /\ locked' = TRUE
            /\ Invoke(t, cur[t].op, "dispatch")
            /\ UNCHANGED waiting_queue
    /\ InsideStrand
    /\ UNCHANGED <<ready_queue, call, private_work, private_queue>>

\* do_complete of the strand: it runs what is ready.
CompleteStrand(t) ==
    /\ pc[t] = "complete" /\ Returned(t)
    /\ cur[t].op = Strand
    /\ Goto(t, "strand")
    /\ InsideStrand
    /\ UNCHANGED <<status, strand, handler, frame, call, todo, private_work, private_queue>>

RunReady(t) ==
    /\ pc[t] = "strand" /\ ready_queue # <<>>
    /\ ready_queue' = Tail(ready_queue)
    /\ Invoke(t, Head(ready_queue), "do_complete")
    /\ InsideStrand
    /\ UNCHANGED <<locked, waiting_queue, strand_of, call, private_work, private_queue>>

HandlerEnds(t) ==
    /\ pc[t] = "handler" /\ Returned(t) /\ todo[t] = <<>>
    /\ status' = [status EXCEPT ![handler[t]] = "done"]
    /\ Goto(t, CASE frame[t] = "loop" -> "work_cleanup"
                 [] frame[t] = "dispatch" -> "leave_strand"
                 [] frame[t] = "do_complete" -> "strand")
    /\ InsideStrand
    /\ UNCHANGED <<strand, handler, frame, call, todo, private_work, private_queue>>

\* Mutant for RunnableRuns: what came meanwhile does not keep the strand locked.
ExitForgets(t, is_continuation) ==
    /\ ready_queue' = ready_queue \o waiting_queue
    /\ waiting_queue' = <<>>
    /\ locked' = FALSE
    /\ Goto(t, "work_cleanup")
    /\ UNCHANGED <<call, private_work, private_queue>>

\* on_dispatch_exit and on_do_complete_exit: what came meanwhile becomes ready.
Exit(t, is_continuation) ==
    /\ ready_queue' = ready_queue \o waiting_queue
    /\ waiting_queue' = <<>>
    /\ locked' = (ready_queue' # <<>>)
    /\ Goto(t, "work_cleanup")
    /\ IF locked' THEN PostImmediate(t, Strand, is_continuation, <<>>)
       ELSE UNCHANGED <<call, private_work, private_queue>>

LeaveStrand(t) ==
    /\ \/ pc[t] = "leave_strand" /\ Exit(t, FALSE)
       \/ pc[t] = "strand" /\ ready_queue = <<>> /\ Exit(t, TRUE)
    /\ InsideStrand
    /\ UNCHANGED <<status, strand_of, handler, frame, todo>>

\* Mutant for ReadyQueueOwned: the strand is locked too late.
StrandPostRacy(t) ==
    /\ HandOver(t, "strand")
    /\ LET h == Command(t).op IN
       /\ strand_of' = strand_of \cup {h}
       /\ Calls(t, <<ToReady(h), Work, Push(<<Strand>>)>>)
    /\ InsideStrand
    /\ UNCHANGED <<pc, waiting_queue, locked, ready_queue, handler, frame, private_work, private_queue>>

\* do_post of the strand. Whoever finds it unlocked schedules it, and pushes the
\* handler to ready_queue_ when the strand's mutex has been released.
StrandPost(t) ==
    /\ HandOver(t, "strand")
    /\ LET h == Command(t).op IN
       /\ strand_of' = strand_of \cup {h}
       /\ IF locked
          THEN waiting_queue' = Append(waiting_queue, h) /\ UNCHANGED <<locked, call>>
          ELSE /\ locked' = TRUE
               /\ Calls(t, <<ToReady(h), Work, Push(<<Strand>>)>>)
               /\ UNCHANGED waiting_queue
    /\ InsideStrand
    /\ UNCHANGED <<pc, ready_queue, handler, frame, private_work, private_queue>>

PushReady(t) ==
    /\ Is(t, "ready_queue_.push")
    /\ ready_queue' = Append(ready_queue, Head(call[t]).op)
    /\ Calls(t, Tail(call[t]))
    /\ InsideStrand
    /\ UNCHANGED <<pc, status, locked, waiting_queue, strand_of, handler, frame, todo,
                   private_work, private_queue>>

----------------------------------------------------------------------------
CallSteps(t) == WorkStarted(t) \/ PushOps(t) \/ SignalOne(t) \/ StopAllThreads(t)

Loop(t) ==
    \/ Run(t) \/ RunOne(t) \/ Woken(t) \/ TaskCleanup(t) \/ WorkCleanup(t) \/ PushPrivate(t)
    \/ Poll(t) \/ CheckTimers(t) \/ PerformIo(t)

Commands(t) ==
    \/ Post(t, InStrand(t))
    \/ \E via \in {"read", "write"} : StartOp(t, via, InStrand(t))
    \/ ScheduleTimer(t) \/ CancelTimer(t) \/ CancelOps(t) \/ Stop(t)

StrandSteps(t) ==
    \/ CompleteHandler(t) \/ Dispatch(t) \/ CompleteStrand(t) \/ RunReady(t) \/ HandlerEnds(t)
    \/ LeaveStrand(t) \/ StrandPost(t) \/ PushReady(t)

Step(t) ==
    \/ (CallSteps(t) \/ Loop(t) \/ Commands(t)) /\ OutsideStrand
    \/ StrandSteps(t)

Environment ==
    /\ \/ \E via \in {"read", "write"} : SocketReady(via)
       \/ \E h \in Handlers : TimePasses(h)
       \/ \E t \in Runners : SpuriousWakeup(t)
    /\ OutsideStrand

Next == Environment \/ \E t \in Threads : Step(t)

Spec == Init /\ [][Next]_vars

\* Every thread runs on, handlers end. Neither the socket nor the time has to.
FairSpec == Spec /\ \A t \in Threads : WF_vars(Step(t))

----------------------------------------------------------------------------
(* Properties.                                                             *)

\* Types, and what the intrusive queues rest on: an operation is in one queue at
\* most, and there only once, wherever threads put it.
Queued == op_queue \o ready_queue \o waiting_queue

QueuedOnce ==
    /\ IsInjective(Queued)
    /\ \A t \in Threads : /\ IsInjective(private_queue[t])
                         /\ Range(private_queue[t]) \cap Range(Queued) = {}
    /\ \A t, u \in Threads : t # u => Range(private_queue[t]) \cap Range(private_queue[u]) = {}

TypeOK ==
    /\ status \in [Handlers -> {"new", "pending", "running", "done"}]
    /\ QueuedOnce
    /\ outstanding_work \in Nat
    /\ stopped \in BOOLEAN /\ task_interrupted \in BOOLEAN
    /\ signalled \in BOOLEAN /\ interrupter \in BOOLEAN
    /\ registered \subseteq Handlers /\ armed \subseteq Handlers /\ due \subseteq Handlers
    /\ avail \cup edges \cup task_result \subseteq {"read", "write"}
    /\ locked \in BOOLEAN
    /\ \A t \in Threads : private_work[t] \in Nat

\* strand_service.ipp:161, "No lock is required since the ready queue is accessed
\* only within the strand": no two threads are about to access ready_queue_.
AtReadyQueue(t) == pc[t] \in {"strand", "leave_strand"} \/ Is(t, "ready_queue_.push")
ReadyQueueOwned == \A t, u \in Threads : AtReadyQueue(t) /\ AtReadyQueue(u) => t = u

\* The io_service and its strand implement the event loop. A strand that was
\* locked has taken the handler that is still to be pushed to ready_queue_. The
\* loop is over when stop was called, or will be by a thread that ran out of work.
\* It can run out of work only when no handler is pending or runs, or a thread has
\* still to count one that it hands over: then what it counts, and what has joined
\* it in the strand, may come too late.
ToBePushed == {t \in Threads : Is(t, "ready_queue_.push")}
Taken == (IF ToBePushed = {} THEN <<>>
          ELSE <<Head(call[CHOOSE t \in ToBePushed : TRUE]).op>>) \o ready_queue \o waiting_queue
Over == stopped \/ \E t \in Threads : Is(t, "stop")
Offering == \E t \in Threads : \E k \in 1..(Len(call[t]) - 1) : call[t][k] = Work
MayStop == \E x \in DOMAIN program.does : \E k \in DOMAIN program.does[x] :
              program.does[x][k].do = "stop"

Abstract == INSTANCE EventLoop WITH
    taken <- Taken, strand <- strand_of, over <- Over, 
    offering <- Offering, may_stop <- MayStop
LoopSpec == Abstract!Spec

\* What is ready to run does run, unless the loop is stopped: no wakeup, no
\* interrupt of the reactor and no event of the socket is lost.
Runnable(h) ==
    /\ status[h] = "pending"
    /\ h \in registered => Via(h) \in avail
    /\ h \in armed => h \in due
RunnableRuns == \A h \in Handlers : Runnable(h) ~> status[h] = "done" \/ stopped

\* Once the service is stopped, every thread returns from run, also one that waits
\* in the reactor; and when nothing is left to do, it is stopped.
NothingLeft ==
    /\ \A h \in Handlers : status[h] \in {"new", "done"}
    /\ \A t \in Apps : todo[t] = <<>>
RunReturns == stopped \/ NothingLeft ~> \A t \in Runners : pc[t] = "returned"
=============================================================================
