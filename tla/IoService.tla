----------------------------- MODULE IoService -----------------------------
(***************************************************************************)
(* asio's task_io_service with its reactor (epoll_reactor, with a timerfd) *)
(* and event (posix_event): threads that call run, threads that hand over  *)
(* handlers, and the kernel. What runs under the mutex of the service is   *)
(* one step. The strand is in module Strand, which also has the next-state *)
(* relation.                                                               *)
(*                                                                         *)
(* A handler is handed over by io_service::post ("post"), strand::post     *)
(* ("strand"), an asynchronous operation on a socket ("read", "write") or  *)
(* on a timer ("timer"); it is wrapped in the strand or not, as websocketpp *)
(* does with its own.                                                      *)
(***************************************************************************)
EXTENDS Integers, Sequences, FiniteSets

CONSTANTS
    Runners,    \* threads that call run
    Apps,       \* other threads of the application
    Handlers,
    Programs    \* records: how each handler is handed over (via), whether it is
                \* wrapped, the commands of a thread or handler (does), the
                \* operations already started, and what the socket may yet
                \* become ready for (arrives)

Threads == Runners \cup Apps

\* What is in the queues besides handlers: the reactor, the descriptor of the
\* socket, the strand.
Task       == "task_operation_"
Descriptor == "descriptor_data"
Strand     == "strand_impl"

CommandType == [do : {"hand_over", "cancel"}, op : Handlers] \cup [do : {"cancel_ops", "stop"}]

ASSUME ThreadsAssumption == IsFiniteSet(Runners) /\ Runners \cap Apps = {}
ASSUME HandlersAssumption ==
    IsFiniteSet(Handlers) /\ (Apps \cup {Task, Descriptor, Strand}) \cap Handlers = {}
ASSUME ProgramsAssumption ==
    Programs \subseteq [via : [Handlers -> {"post", "strand", "read", "write", "timer"}],
                        wrapped : [Handlers -> BOOLEAN],
                        does : [Handlers \cup Apps -> Seq(CommandType)],
                        started : SUBSET Handlers,
                        arrives : SUBSET {"read", "write"}]
\* Each call makes an operation of its own: none is handed over twice.
ASSUME HandOverAssumption ==
    \A p \in Programs : \A x, y \in Handlers \cup Apps :
        \A i \in DOMAIN p.does[x], j \in DOMAIN p.does[y] :
            p.does[x][i].do = "hand_over" =>
                /\ p.does[x][i].op \notin p.started
                /\ p.does[y][j].do = "hand_over" /\ p.does[y][j].op = p.does[x][i].op
                       => x = y /\ i = j

VARIABLES
    program,            \* the program that runs, what has arrived taken out
    status,             \* of each handler: "new", "pending", "running", "done"
    op_queue, outstanding_work, stopped, task_interrupted,
    signalled,          \* state_ & 1 of wakeup_event_
    interrupter,        \* epoll has an event of the interrupter
    registered,         \* operations in the descriptor's queues
    avail,              \* what the socket is ready for: "read", "write"
    edges,              \* events of the descriptor that epoll has
    task_result,        \* events of the descriptor when it was queued
    armed, due,         \* timer operations in the timer queue, times passed
    pc,                 \* what a thread is about to do
    call,               \* and the steps it has to take before
    todo,               \* the commands left for the thread or its handler
    cur,                \* o in do_run_one, and its task_result
    private_work, private_queue

service == <<op_queue, outstanding_work, stopped, task_interrupted, signalled>>
kernel  == <<interrupter, registered, avail, edges, armed, due>>
reactor == <<kernel, task_result>>
threads == <<pc, call, todo, cur, private_work, private_queue>>
ioVars  == <<program, status, service, reactor, threads>>

Via(h)   == program.via[h]
Wrapped(h) == program.wrapped[h]

IoInit ==
    /\ program \in Programs
    /\ registered = program.started
    /\ status = [h \in Handlers |-> IF h \in program.started THEN "pending" ELSE "new"]
    /\ op_queue = <<Task>>
    /\ outstanding_work = Cardinality(program.started)
    /\ stopped = FALSE
    /\ task_interrupted = TRUE
    /\ signalled = FALSE
    /\ interrupter = FALSE
    /\ avail = {} /\ edges = {} /\ task_result = {}
    /\ armed = {} /\ due = {}
    /\ pc = [t \in Threads |-> IF t \in Runners THEN "run" ELSE "app"]
    /\ call = [t \in Threads |-> <<>>]
    /\ todo = [t \in Threads |-> IF t \in Apps THEN program.does[t] ELSE <<>>]
    /\ cur = [t \in Threads |-> [op |-> Task, events |-> {}]]
    /\ private_work = [t \in Threads |-> 0]
    /\ private_queue = [t \in Threads |-> <<>>]

Goto(t, label) == pc' = [pc EXCEPT ![t] = label]
Calls(t, steps) == call' = [call EXCEPT ![t] = steps]

\* A definition marked "Mutant" is a plausible bug that no action uses: with it
\* in place of the one it precedes the property it is named for fails.

----------------------------------------------------------------------------
(* The steps of a call.                                                    *)

Work         == [step |-> "work_started"]
Push(ops)    == [step |-> "push", ops |-> ops]
Signal       == [step |-> "signal_one"]
StopLoop     == [step |-> "stop"]
ToReady(h)   == [step |-> "ready_queue_.push", op |-> h]

Is(t, step) == call[t] # <<>> /\ Head(call[t]).step = step
Returned(t) == call[t] = <<>>

\* Threads that state_ counts when t holds the mutex: those that wait, and those that
\* were woken and have not taken the mutex back. t itself has, and no longer counts.
Waiters(t) == {w \in Threads \ {t} : pc[w] \in {"waiting", "woken"}}

Interrupt(interrupted) ==
    /\ task_interrupted' = TRUE
    /\ interrupter' = (interrupter \/ ~interrupted)

\* wake_one_thread_and_unlock, and the steps that follow it: the signal is given
\* when the mutex has been released. task_interrupted_ is passed.
WakeOne(t, interrupted, steps) ==
    /\ signalled' = TRUE
    /\ IF Waiters(t) # {}
       THEN /\ Calls(t, <<Signal>> \o steps)
            /\ task_interrupted' = interrupted
            /\ UNCHANGED interrupter
       ELSE /\ Calls(t, steps)
            /\ Interrupt(interrupted)

WorkStarted(t) ==
    /\ Is(t, "work_started")
    /\ outstanding_work' = outstanding_work + 1
    /\ Calls(t, Tail(call[t]))
    /\ UNCHANGED <<program, status, op_queue, stopped, task_interrupted, signalled, reactor,
                   pc, todo, cur, private_work, private_queue>>

PushOps(t) ==
    /\ Is(t, "push")
    /\ op_queue' = op_queue \o Head(call[t]).ops
    /\ WakeOne(t, task_interrupted, Tail(call[t]))
    /\ UNCHANGED <<program, status, outstanding_work, stopped, registered, avail, edges, armed,
                   due, task_result, pc, todo, cur, private_work, private_queue>>

\* pthread_cond_signal.
SignalOne(t) ==
    /\ Is(t, "signal_one")
    /\ \/ \E w \in Threads : pc[w] = "waiting" /\ Goto(w, "woken")
       \/ (\A w \in Threads : pc[w] # "waiting") /\ UNCHANGED pc
    /\ Calls(t, Tail(call[t]))
    /\ UNCHANGED <<program, status, service, reactor, todo, cur, private_work, private_queue>>

\* Mutant for RunReturns: only the threads that wait are told.
StopUninterrupted(t) ==
    /\ Is(t, "stop")
    /\ stopped' = TRUE
    /\ signalled' = TRUE
    /\ pc' = [w \in Threads |-> IF pc[w] = "waiting" THEN "woken" ELSE pc[w]]
    /\ Calls(t, Tail(call[t]))
    /\ UNCHANGED <<program, status, op_queue, outstanding_work, task_interrupted, reactor,
                   todo, cur, private_work, private_queue>>

StopAllThreads(t) ==
    /\ Is(t, "stop")
    /\ stopped' = TRUE
    /\ signalled' = TRUE
    /\ pc' = [w \in Threads |-> IF pc[w] = "waiting" THEN "woken" ELSE pc[w]]
    /\ Interrupt(task_interrupted)
    /\ Calls(t, Tail(call[t]))
    /\ UNCHANGED <<program, status, op_queue, outstanding_work, registered, avail, edges, armed,
                   due, task_result, todo, cur, private_work, private_queue>>

\* post_immediate_completion, by the steps of the call. A continuation stays
\* with the thread that runs a handler.
PostImmediate(t, op, is_continuation, before) ==
    IF is_continuation /\ t \in Runners
    THEN /\ private_work' = [private_work EXCEPT ![t] = @ + 1]
         /\ private_queue' = [private_queue EXCEPT ![t] = Append(@, op)]
         /\ Calls(t, before)
    ELSE /\ Calls(t, before \o <<Work, Push(<<op>>)>>)
         /\ UNCHANGED <<private_work, private_queue>>

----------------------------------------------------------------------------
(* run and do_run_one.                                                     *)

\* One turn of the loop of do_run_one with this op_queue_ and task_interrupted_,
\* from taking the mutex to releasing it.
Turn(t, queue, interrupted) ==
    IF stopped
    THEN /\ Goto(t, "returned")
         /\ op_queue' = queue
         /\ task_interrupted' = interrupted
         /\ UNCHANGED <<signalled, interrupter, call, cur>>
    ELSE IF queue = <<>>
    THEN /\ Goto(t, "waiting")
         /\ op_queue' = <<>>
         /\ signalled' = FALSE
         /\ task_interrupted' = interrupted
         /\ UNCHANGED <<interrupter, call, cur>>
    ELSE LET more_handlers == Len(queue) > 1 IN
         /\ op_queue' = Tail(queue)
         /\ cur' = [cur EXCEPT ![t] = [op |-> Head(queue), events |-> task_result]]
         /\ IF Head(queue) = Task
            THEN /\ Goto(t, IF more_handlers THEN "poll" ELSE "poll_block")
                 /\ task_interrupted' = more_handlers
                 /\ signalled' = (signalled \/ more_handlers)
                 /\ Calls(t, IF more_handlers /\ Waiters(t) # {} THEN <<Signal>> ELSE <<>>)
                 /\ UNCHANGED interrupter
            ELSE /\ Goto(t, "complete")
                 /\ IF more_handlers THEN WakeOne(t, interrupted, <<>>)
                    ELSE /\ task_interrupted' = interrupted
                         /\ UNCHANGED <<signalled, interrupter, call>>

TurnUnchanged == <<program, status, stopped, registered, avail, edges, armed, due, todo>>

\* run, up to its lock.
Run(t) ==
    /\ pc[t] = "run"
    /\ IF outstanding_work = 0
       THEN Goto(t, "returned") /\ Calls(t, <<StopLoop>>)
       ELSE Goto(t, "lock") /\ UNCHANGED call
    /\ UNCHANGED <<program, status, service, reactor, todo, cur, private_work, private_queue>>

RunOne(t) ==
    /\ pc[t] = "lock" /\ Returned(t)
    /\ Turn(t, op_queue, task_interrupted)
    /\ UNCHANGED <<TurnUnchanged, outstanding_work, task_result, private_work, private_queue>>

\* pthread_cond_wait returns: the thread was signalled, or not.
Woken(t) ==
    /\ pc[t] = "woken"
    /\ IF signalled
       THEN /\ Turn(t, op_queue, task_interrupted)
            /\ UNCHANGED <<TurnUnchanged, outstanding_work, task_result, private_work, private_queue>>
       ELSE /\ Goto(t, "waiting")
            /\ UNCHANGED <<program, status, service, reactor, call, todo, cur, private_work, private_queue>>

SpuriousWakeup(t) ==
    /\ pc[t] = "waiting"
    /\ Goto(t, "woken")
    /\ UNCHANGED <<program, status, service, reactor, call, todo, cur, private_work, private_queue>>

\* task_cleanup, and the next turn.
TaskCleanup(t) ==
    /\ pc[t] = "task_cleanup"
    /\ outstanding_work' = outstanding_work + private_work[t]
    /\ private_work' = [private_work EXCEPT ![t] = 0]
    /\ private_queue' = [private_queue EXCEPT ![t] = <<>>]
    /\ Turn(t, op_queue \o private_queue[t] \o <<Task>>, TRUE)
    /\ UNCHANGED <<TurnUnchanged, task_result>>

\* Mutant for LoopSpec: what the handler has left in the private queue is not
\* counted.
WorkCleanupForgets(t) ==
    /\ pc[t] = "work_cleanup" /\ Returned(t)
    /\ outstanding_work' = outstanding_work - 1
    /\ Calls(t, IF outstanding_work' = 0 THEN <<StopLoop>> ELSE <<>>)
    /\ private_work' = [private_work EXCEPT ![t] = 0]
    /\ Goto(t, IF private_queue[t] = <<>> THEN "lock" ELSE "push_private")
    /\ UNCHANGED <<program, status, op_queue, stopped, task_interrupted, signalled, reactor,
                   todo, cur, private_queue>>

\* work_cleanup up to its lock: the work of the operation that was run is over,
\* if it has not been passed on to one in the private queue.
WorkCleanup(t) ==
    /\ pc[t] = "work_cleanup" /\ Returned(t)
    /\ outstanding_work' = outstanding_work + private_work[t] - 1
    /\ Calls(t, IF private_work[t] = 0 /\ outstanding_work' = 0 THEN <<StopLoop>> ELSE <<>>)
    /\ private_work' = [private_work EXCEPT ![t] = 0]
    /\ Goto(t, IF private_queue[t] = <<>> THEN "lock" ELSE "push_private")
    /\ UNCHANGED <<program, status, op_queue, stopped, task_interrupted, signalled, reactor,
                   todo, cur, private_queue>>

PushPrivate(t) ==
    /\ pc[t] = "push_private" /\ Returned(t)
    /\ private_queue' = [private_queue EXCEPT ![t] = <<>>]
    /\ Turn(t, op_queue \o private_queue[t], task_interrupted)
    /\ UNCHANGED <<TurnUnchanged, outstanding_work, task_result, private_work>>

----------------------------------------------------------------------------
(* The reactor.                                                            *)

TimerEvent == armed \cap due # {}

\* epoll_wait returns everything there is. An event of the descriptor queues it.
Poll(t) ==
    /\ pc[t] \in {"poll", "poll_block"} /\ Returned(t)
    /\ pc[t] = "poll_block" => interrupter \/ edges # {} \/ TimerEvent
    /\ interrupter' = FALSE
    /\ edges' = {}
    /\ IF edges = {} THEN UNCHANGED <<task_result, private_queue>>
       ELSE /\ task_result' = edges
            /\ private_queue' = [private_queue EXCEPT ![t] = Append(@, Descriptor)]
    /\ Goto(t, IF TimerEvent THEN "check_timers" ELSE "task_cleanup")
    /\ UNCHANGED <<program, status, service, registered, avail, armed, due, call, todo, cur, private_work>>

\* get_ready_timers, under the reactor's mutex.
CheckTimers(t) ==
    /\ pc[t] = "check_timers"
    /\ \E ready \in [1..Cardinality(armed \cap due) -> armed \cap due] :
          /\ \A h \in armed \cap due : \E k \in DOMAIN ready : ready[k] = h
          /\ private_queue' = [private_queue EXCEPT ![t] = @ \o ready]
    /\ armed' = armed \ due
    /\ Goto(t, "task_cleanup")
    /\ UNCHANGED <<program, status, service, task_result, interrupter, registered, avail, edges,
                   due, call, todo, cur, private_work>>

\* What the socket, ready for these events, does for the operations that wait: one
\* for each event, after which the next one would block.
Performed(events) ==
    {done \in SUBSET registered :
        /\ \A h \in done : Via(h) \in events
        /\ \A h \in registered : Via(h) \in events => \E g \in done : Via(g) = Via(h)
        /\ \A g, h \in done : Via(g) = Via(h) => g = h}

\* perform_io, under the descriptor's mutex: operations the socket is ready for
\* are done, writes first. The first is completed now, a second one is posted.
\* With none, there is one work more, for that which work_cleanup takes away.
PerformIo(t) ==
    /\ pc[t] = "complete" /\ Returned(t)
    /\ cur[t].op = Descriptor
    /\ \E done \in Performed(cur[t].events \cap avail) :
          /\ registered' = registered \ done
          /\ avail' = avail \ {Via(h) : h \in done}
          /\ \/ /\ done = {}
                /\ Calls(t, <<Work>>)
                /\ Goto(t, "work_cleanup")
                /\ UNCHANGED cur
             \/ \E h \in done :
                /\ (\E g \in done : Via(g) = "write") => Via(h) = "write"
                /\ cur' = [cur EXCEPT ![t].op = h]
                /\ \/ done = {h} /\ UNCHANGED call
                   \/ \E g \in done \ {h} : Calls(t, <<Push(<<g>>)>>)
                /\ UNCHANGED pc
    /\ UNCHANGED <<program, status, service, task_result, interrupter, edges, armed, due, todo,
                   private_work, private_queue>>

\* The socket becomes ready; epoll is edge-triggered.
SocketReady(via) ==
    /\ via \in program.arrives
    /\ program' = [program EXCEPT !.arrives = @ \ {via}]
    /\ avail' = avail \cup {via}
    /\ edges' = edges \cup {via}
    /\ UNCHANGED <<status, service, task_result, interrupter, registered, armed, due, threads>>

TimePasses(h) ==
    /\ h \in armed \ due
    /\ due' = due \cup {h}
    /\ UNCHANGED <<program, status, service, task_result, interrupter, registered, avail, edges,
                   armed, threads>>

----------------------------------------------------------------------------
(* The commands of a thread or of the handler it runs. Only what hands     *)
(* over a handler changes status.                                          *)

Active(t) == pc[t] \in {"app", "handler"} /\ Returned(t) /\ todo[t] # <<>>
Command(t) == Head(todo[t])
NextCommand(t) == todo' = [todo EXCEPT ![t] = Tail(@)]
HandOver(t, via) ==
    /\ Active(t)
    /\ Command(t).do = "hand_over" /\ Via(Command(t).op) = via
    /\ status' = [status EXCEPT ![Command(t).op] = "pending"]
    /\ NextCommand(t)

\* A handler wrapped in the strand that is posted from there is a continuation.
IsContinuation(t, h, in_strand) == Wrapped(h) /\ in_strand

Post(t, in_strand) ==
    /\ HandOver(t, "post")
    /\ LET h == Command(t).op IN PostImmediate(t, h, IsContinuation(t, h, in_strand), <<>>)
    /\ UNCHANGED <<program, service, reactor, pc, cur>>

\* start_op, under the descriptor's mutex: it is tried at once, unless another one
\* waits for the event.
StartOp(t, via, in_strand) ==
    /\ HandOver(t, via)
    /\ LET h == Command(t).op IN
       IF via \in avail /\ \A g \in registered : Via(g) # via
       THEN /\ avail' = avail \ {via}
            /\ PostImmediate(t, h, IsContinuation(t, h, in_strand), <<>>)
            /\ UNCHANGED <<registered, outstanding_work>>
       ELSE /\ registered' = registered \cup {h}
            /\ outstanding_work' = outstanding_work + 1
            /\ UNCHANGED <<avail, call, private_work, private_queue>>
    /\ UNCHANGED <<program, op_queue, stopped, task_interrupted, signalled, task_result,
                   interrupter, edges, armed, due, pc, cur>>

\* schedule_timer, under the reactor's mutex. The timerfd is told.
ScheduleTimer(t) ==
    /\ HandOver(t, "timer")
    /\ armed' = armed \cup {Command(t).op}
    /\ outstanding_work' = outstanding_work + 1
    /\ UNCHANGED <<program, op_queue, stopped, task_interrupted, signalled, task_result,
                   interrupter, registered, avail, edges, due,
                   pc, call, cur, private_work, private_queue>>

\* Mutant for TypeOK: the operation is posted whether or not it is still there.
CancelTimerLate(t) ==
    /\ Active(t) /\ Command(t).do = "cancel"
    /\ armed' = armed \ {Command(t).op}
    /\ Calls(t, <<Push(<<Command(t).op>>)>>)
    /\ NextCommand(t)
    /\ UNCHANGED <<program, status, service, task_result, interrupter, registered, avail, edges,
                   due, pc, cur, private_work, private_queue>>

\* cancel_timer. A timer whose operation has been taken out is too late.
CancelTimer(t) ==
    /\ Active(t) /\ Command(t).do = "cancel"
    /\ armed' = armed \ {Command(t).op}
    /\ Calls(t, IF Command(t).op \in armed THEN <<Push(<<Command(t).op>>)>> ELSE <<>>)
    /\ NextCommand(t)
    /\ UNCHANGED <<program, status, service, task_result, interrupter, registered, avail, edges,
                   due, pc, cur, private_work, private_queue>>

\* cancel_ops, reads first.
CancelOps(t) ==
    /\ Active(t) /\ Command(t).do = "cancel_ops"
    /\ registered' = {}
    /\ \/ registered = {} /\ UNCHANGED call
       \/ \E ops \in [1..Cardinality(registered) -> registered] :
             /\ \A h \in registered : \E k \in DOMAIN ops : ops[k] = h
             /\ Calls(t, <<Push(ops)>>)
    /\ NextCommand(t)
    /\ UNCHANGED <<program, status, service, task_result, interrupter, avail, edges, armed,
                   due, pc, cur, private_work, private_queue>>

Stop(t) ==
    /\ Active(t) /\ Command(t).do = "stop"
    /\ Calls(t, <<StopLoop>>)
    /\ NextCommand(t)
    /\ UNCHANGED <<program, status, service, reactor, pc, cur, private_work, private_queue>>
=============================================================================
