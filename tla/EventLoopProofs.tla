-------------------------- MODULE EventLoopProofs --------------------------
(***************************************************************************)
(* The io_service and its strand implement the event loop, for any number  *)
(* of threads, any handlers and any programs.                              *)
(*                                                                         *)
(* The proof knows the one place of every operation: in a queue, about to  *)
(* be pushed by a thread, being run, or nowhere. From the places follow    *)
(* that no operation is queued twice, in which order the strand runs its   *)
(* handlers, and what outstanding_work_ counts.                            *)
(***************************************************************************)
EXTENDS StrandProofs

\* The operations that are followed. The descriptor's is not: it can be run by
\* two threads at once.
Units == Handlers \cup {Task, Strand}

\* A place is its kind and the thread, or the service.
Service   == "service"
Shared    == {"nowhere", "op_queue_", "registered", "armed", "ready_queue_", "waiting_queue_"}
Held      == {"uncounted", "pushed", "to_ready", "private", "moved", "run"}
Places    == (Shared \X {Service}) \cup (Held \X Threads)

InProgress(t) == pc[t] \in {"complete", "handler", "strand", "leave_strand", "work_cleanup"}
Polls(t)      == pc[t] \in {"poll", "poll_block", "check_timers", "task_cleanup"}
RunsIt(t, x)  ==
    \/ x \in Handlers /\ pc[t] = "complete" /\ cur[t].op = x
    \/ x \in Handlers /\ pc[t] = "handler" /\ handler[t] = x
    \/ x = Strand /\ Runs(t)
    \/ x = Task /\ Polls(t)

\* What a call is about to push, counted or still to be counted, and what it is
\* about to push to ready_queue_.
BeforeLast(steps) == \E k \in 1..(Len(steps) - 1) : steps[k] = Work
Uncounting(steps) == IF BeforeLast(steps) THEN Range(Pending(steps)) ELSE {}
Pushing(steps)    == IF BeforeLast(steps) THEN {} ELSE Range(Pending(steps))
Readying(steps)   == IF steps # <<>> /\ Head(steps).step = "ready_queue_.push"
                     THEN {Head(steps).op} ELSE {}
Uncounted(t) == BeforeLast(call[t])

\* A map from operations to places is right about the places that are shared.
SharedAre(m) ==
    \A x \in Units :
        /\ m[x] = <<"nowhere", Service>> <=> (x \in Handlers /\ status[x] \in {"new", "done"})
                                            \/ (x = Strand /\ ~locked)
        /\ m[x] = <<"op_queue_", Service>> <=> x \in Range(op_queue)
        /\ m[x] = <<"registered", Service>> <=> x \in registered
        /\ m[x] = <<"armed", Service>> <=> x \in armed
        /\ m[x] = <<"ready_queue_", Service>> <=> x \in Range(ready_queue)
        /\ m[x] = <<"waiting_queue_", Service>> <=> x \in Range(waiting_queue)

\* And about what a thread has.
HeldAre(m, t) ==
    \A x \in Units :
        /\ m[x] = <<"uncounted", t>> <=> x \in Uncounting(call[t])
        /\ m[x] = <<"pushed", t>> <=> x \in Pushing(call[t])
        /\ m[x] = <<"to_ready", t>> <=> x \in Readying(call[t])
        /\ m[x] = <<"private", t>> <=> InProgress(t) /\ x \in Range(private_queue[t])
        /\ m[x] = <<"moved", t>> <=> ~InProgress(t) /\ x \in Range(private_queue[t])
        /\ m[x] = <<"run", t>> <=> RunsIt(t, x)

\* Every operation is in one place.
Map(m) == SharedAre(m) /\ \A t \in Threads : HeldAre(m, t)

Placed == \E m \in [Units -> Places] : Map(m)
Where  == CHOOSE m \in [Units -> Places] : Map(m)

Fresh(s) == IsInjective(s)
NoDoubles ==
    /\ Fresh(op_queue) /\ Fresh(ready_queue) /\ Fresh(waiting_queue)
    /\ \A t \in Threads : Fresh(private_queue[t]) /\ Fresh(Pending(call[t]))

\* What outstanding_work_ counts: operations, threads that run one. What a thread
\* has still to count is in private_outstanding_work.
Works     == Handlers \cup {Strand}
Counted   == {x \in Works : Where[x][1] \in {"op_queue_", "registered", "armed", "pushed", "moved"}}
Kept(t)   == {x \in Works : Where[x] = <<"private", t>>}
Busy      == {t \in Runners : /\ InProgress(t)
                              /\ ~(pc[t] = "complete" /\ cur[t].op = Descriptor)
                              /\ call[t] # <<Work>>}
WorkCounted ==
    /\ outstanding_work = Cardinality(Counted) + Cardinality(Busy)
    /\ \A t \in Threads : private_work[t] = Cardinality(Kept(t))

MoreTypes ==
    /\ status \in [Handlers -> {"new", "pending", "running", "done"}]
    /\ handler \in [Threads -> Handlers \cup {Task}]
    /\ private_work \in [Threads -> Nat]
    /\ stopped \in BOOLEAN /\ task_interrupted \in BOOLEAN
    /\ signalled \in BOOLEAN /\ interrupter \in BOOLEAN /\ locked \in BOOLEAN
    /\ due \subseteq Handlers /\ avail \subseteq Events /\ strand_of \subseteq Handlers

\* What a thread can be about to do.
ThreadControl(t) ==
    /\ t \in Apps <=> pc[t] = "app"
    /\ InProgress(t) => cur[t].op # Task
    /\ pc[t] = "handler" => handler[t] \in Handlers
    /\ pc[t] \in {"run", "waiting", "woken", "check_timers", "task_cleanup", "strand", "leave_strand"}
           => call[t] = <<>>
    /\ call[t] = <<Work>> =>
          pc[t] = "work_cleanup" /\ cur[t].op = Descriptor /\ private_queue[t] = <<>>
    /\ Uncounted(t) => \E o \in Works : Pending(call[t]) = <<o>>
    /\ private_queue[t] # <<>> => pc[t] \in {"handler", "strand", "leave_strand", "work_cleanup",
                                            "push_private", "check_timers", "task_cleanup"}

\* A handler runs if a thread is in it.
Running == \A h \in Handlers :
    status[h] = "running" <=> \E t \in Threads : pc[t] = "handler" /\ handler[t] = h

Control == Running /\ \A t \in Threads : ThreadControl(t)

\* The descriptor is queued before the reactor, and not again before it is run.
DescriptorFirst(s) ==
    \A i, j \in DOMAIN s : s[i] = Descriptor /\ s[j] \in {Task, Descriptor} => i <= j
DescriptorOnce ==
    /\ DescriptorFirst(op_queue)
    /\ \A t \in Threads : Polls(t) => Descriptor \notin Range(op_queue)
    /\ \A t \in Threads : Descriptor \in Range(private_queue[t]) => pc[t] \in {"check_timers", "task_cleanup"}
    /\ \A t \in Threads : Descriptor \notin Range(Pending(call[t]))

StrandHas ==
    /\ ~locked => ready_queue = <<>> /\ waiting_queue = <<>>
    /\ \A t \in Threads : Is(t, "ready_queue_.push") => ready_queue = <<>>
    /\ \A h \in Handlers : Where[h][1] \in {"to_ready", "ready_queue_", "waiting_queue_"} => h \in strand_of
    /\ \A h \in strand_of : status[h] # "new"
    /\ \A h \in strand_of : status[h] = "pending" =>
                               Where[h][1] \in {"to_ready", "ready_queue_", "waiting_queue_"}
    /\ \A t \in Threads : pc[t] = "handler" /\ handler[t] \in strand_of => frame[t] # "loop"

\* A handler is handed over once.
Commanded ==
    /\ \A x, y \in DOMAIN program.does :
        \A i \in DOMAIN program.does[x], j \in DOMAIN program.does[y] :
            /\ program.does[x][i].do = "hand_over" /\ program.does[y][j].do = "hand_over"
            /\ program.does[x][i].op = program.does[y][j].op
            => x = y /\ i = j
    /\ \A t \in Threads : \A i \in DOMAIN todo[t] :
          /\ todo[t][i].do = "hand_over" => status[todo[t][i].op] = "new"
          /\ todo[t][i].do = "stop" => MayStop
    /\ \A t, u \in Threads : \A i \in DOMAIN todo[t], j \in DOMAIN todo[u] :
          /\ todo[t][i].do = "hand_over" /\ todo[u][j].do = "hand_over"
          /\ todo[t][i].op = todo[u][j].op
          => t = u /\ i = j
    /\ \A h \in Handlers : status[h] \in {"new", "pending"} =>
          \A i \in DOMAIN program.does[h] : program.does[h][i].do = "hand_over" =>
             /\ status[program.does[h][i].op] = "new"
             /\ \A t \in Threads : \A j \in DOMAIN todo[t] :
                   todo[t][j].do = "hand_over" => todo[t][j].op # program.does[h][i].op

----------------------------------------------------------------------------
(* Sequences.                                                              *)

\* The empty queue, and a queue of one.
LEMMA FewElems ==
    /\ Range(<<>>) = {} /\ Fresh(<<>>)
    /\ \A x : Range(<<x>>) = {x} /\ Fresh(<<x>>)
<1>1. Range(<<>>) = {} /\ Fresh(<<>>)
  BY DEF Range, Fresh, IsInjective
<1>2. ASSUME NEW x PROVE Range(<<x>>) = {x} /\ Fresh(<<x>>)
  <2>1. DOMAIN <<x>> = {1} /\ <<x>>[1] = x
    OBVIOUS
  <2> QED
    BY <2>1 DEF Range, Fresh, IsInjective
<1> QED
  BY <1>1, <1>2

\* Two queues, one behind the other.
LEMMA ConcatElems ==
    ASSUME NEW S, NEW s \in Seq(S), NEW u \in Seq(S)
    PROVE  /\ s \o u \in Seq(S)
           /\ Range(s \o u) = Range(s) \cup Range(u)
           /\ Fresh(s) /\ Fresh(u) /\ Range(s) \cap Range(u) = {} => Fresh(s \o u)
<1> DEFINE w == s \o u
           m == Len(s)
           n == Len(u)
<1>1. /\ m \in Nat /\ n \in Nat /\ DOMAIN s = 1..m /\ DOMAIN u = 1..n
      /\ w \in Seq(S) /\ Len(w) = m + n /\ DOMAIN w = 1..(m + n)
  BY LenProperties, ConcatProperties
<1>2. \A i \in 1..(m + n) : w[i] = IF i <= m THEN s[i] ELSE u[i - m]
  BY ConcatProperties
<1>3. Range(w) = Range(s) \cup Range(u)
  BY RangeConcatenation
<1> HIDE DEF w, m, n
<1>4. ASSUME Fresh(s), Fresh(u), Range(s) \cap Range(u) = {},
             NEW i \in 1..(m + n), NEW j \in 1..(m + n), w[i] = w[j]
      PROVE  i = j
  <2>1. \A k \in 1..m : s[k] \in Range(s)
    BY <1>1 DEF Range
  <2>2. \A k \in 1..n : u[k] \in Range(u)
    BY <1>1 DEF Range
  <2>3. \A k \in 1..(m + n) : \/ k \in 1..m /\ w[k] = s[k]
                              \/ k > m /\ k - m \in 1..n /\ w[k] = u[k - m]
    BY <1>1, <1>2
  <2>4. CASE i \in 1..m /\ w[i] = s[i]
    <3>1. j \in 1..m /\ w[j] = s[j]
      BY <1>4, <2>1, <2>2, <2>3, <2>4
    <3> QED
      BY <1>1, <1>4, <2>4, <3>1 DEF Fresh, IsInjective
  <2>5. CASE i > m /\ i - m \in 1..n /\ w[i] = u[i - m]
    <3>1. j > m /\ j - m \in 1..n /\ w[j] = u[j - m]
      BY <1>4, <2>1, <2>2, <2>3, <2>5
    <3>2. i - m = j - m
      BY <1>1, <1>4, <2>5, <3>1 DEF Fresh, IsInjective
    <3> QED
      BY <1>1, <3>2
  <2> QED
    BY <2>3, <2>4, <2>5
<1>5. Fresh(s) /\ Fresh(u) /\ Range(s) \cap Range(u) = {} => Fresh(w)
  BY <1>1, <1>4 DEF Fresh, IsInjective
<1> QED
  BY <1>1, <1>3, <1>5 DEF w

\* A queue and one more.
LEMMA AppendElems ==
    ASSUME NEW S, NEW s \in Seq(S), NEW x \in S
    PROVE  /\ Append(s, x) \in Seq(S)
           /\ Range(Append(s, x)) = Range(s) \cup {x}
           /\ Fresh(s) /\ x \notin Range(s) => Fresh(Append(s, x))
<1>1. <<x>> \in Seq(S) /\ Append(s, x) = s \o <<x>>
  BY AppendIsConcat
<1>2. Range(<<x>>) = {x} /\ Fresh(<<x>>)
  BY FewElems
<1>3. /\ s \o <<x>> \in Seq(S)
      /\ Range(s \o <<x>>) = Range(s) \cup Range(<<x>>)
      /\ Fresh(s) /\ Fresh(<<x>>) /\ Range(s) \cap Range(<<x>>) = {} => Fresh(s \o <<x>>)
  BY <1>1, ConcatElems
<1>4. x \notin Range(s) => Range(s) \cap {x} = {}
  OBVIOUS
<1> QED
  BY <1>1, <1>2, <1>3, <1>4

\* What is taken from a queue is no longer in it.
LEMMA TailElems ==
    ASSUME NEW S, NEW s \in Seq(S), s # <<>>
    PROVE  /\ Head(s) \in S /\ Tail(s) \in Seq(S)
           /\ Range(s) = {Head(s)} \cup Range(Tail(s))
           /\ Fresh(s) => Fresh(Tail(s)) /\ Head(s) \notin Range(Tail(s))
<1> DEFINE n == Len(s)
           w == Tail(s)
<1>1. n \in Nat \ {0} /\ DOMAIN s = 1..n
  BY LenProperties, EmptySeq
<1>2. /\ Head(s) \in S /\ Head(s) = s[1]
      /\ w \in Seq(S) /\ Len(w) = n - 1 /\ \A i \in 1..Len(w) : w[i] = s[i + 1]
  BY HeadTailProperties
<1>3. DOMAIN w = 1..(n - 1)
  BY <1>2, LenProperties
<1> HIDE DEF n, w
<1>4. \A i \in 1..(n - 1) : i + 1 \in 1..n /\ i + 1 # 1 /\ w[i] = s[i + 1]
  BY <1>1, <1>2
<1>5. \A i \in 1..n : i = 1 \/ (i - 1 \in 1..(n - 1) /\ w[i - 1] = s[i])
  BY <1>1, <1>4
<1>6. Range(w) \subseteq Range(s)
  BY <1>1, <1>3, <1>4 DEF Range
<1>7. Range(s) \subseteq {s[1]} \cup Range(w)
  BY <1>1, <1>3, <1>5 DEF Range
<1>8. s[1] \in Range(s)
  BY <1>1 DEF Range
<1>9. ASSUME Fresh(s) PROVE s[1] \notin Range(w)
  <2>1. SUFFICES ASSUME NEW i \in 1..(n - 1), w[i] = s[1] PROVE FALSE
    BY <1>3 DEF Range
  <2>2. i + 1 \in 1..n /\ i + 1 # 1 /\ s[i + 1] = s[1] /\ 1 \in 1..n
    BY <1>1, <1>4, <2>1
  <2> QED
    BY <1>1, <1>9, <2>2 DEF Fresh, IsInjective
<1>10. ASSUME Fresh(s), NEW i \in 1..(n - 1), NEW j \in 1..(n - 1), w[i] = w[j]
       PROVE  i = j
  <2>1. i + 1 \in 1..n /\ j + 1 \in 1..n /\ s[i + 1] = s[j + 1]
    BY <1>4, <1>10
  <2>2. i + 1 = j + 1
    BY <1>1, <1>10, <2>1 DEF Fresh, IsInjective
  <2> QED
    BY <2>2
<1>11. Fresh(s) => Fresh(w)
  BY <1>3, <1>10 DEF Fresh, IsInjective
<1> QED
  BY <1>2, <1>6, <1>7, <1>8, <1>9, <1>11 DEF w

\* All of a finite set in some order, as CancelOps and CheckTimers take it.
LEMMA ListElems ==
    ASSUME NEW S, IsFiniteSet(S), NEW s \in [1..Cardinality(S) -> S],
           \A h \in S : \E k \in DOMAIN s : s[k] = h
    PROVE  s \in Seq(S) /\ Range(s) = S /\ Fresh(s)
<1> DEFINE n == Cardinality(S)
<1>1. n \in Nat
  BY FS_CardinalityType
<1>2. s \in Seq(S)
  BY <1>1
<1>3. Range(s) = S
  BY DEF Range
<1>4. IsFiniteSet(1..n) /\ Cardinality(1..n) = n
  BY <1>1, FS_Interval
<1>5. s \in Surjection(1..n, S)
  BY DEF Surjection
<1>6. s \in Injection(1..n, S)
  BY <1>4, <1>5, FS_SurjSameCardinalityImpliesInj
<1> QED
  BY <1>2, <1>3, <1>6 DEF Injection, Fresh

----------------------------------------------------------------------------
(* Places.                                                                 *)

\* There is one such map.
LEMMA OneMap ==
    ASSUME NEW m \in [Units -> Places], Map(m)
    PROVE  Placed /\ Where = m
<1>1. Placed
  BY DEF Placed
<1>2. Where \in [Units -> Places] /\ Map(Where)
  BY DEF Where
<1>3. ASSUME NEW x \in Units PROVE Where[x] = m[x]
  <2>1. CASE \E kind \in Shared : m[x] = <<kind, Service>>
    <3>1. PICK kind \in Shared : m[x] = <<kind, Service>>
      BY <2>1
    <3> QED
      BY <1>2, <3>1 DEF Map, SharedAre, Shared
  <2>2. CASE \E kind \in Held, t \in Threads : m[x] = <<kind, t>>
    <3>1. PICK kind \in Held, t \in Threads : m[x] = <<kind, t>>
      BY <2>2
    <3>2. HeldAre(m, t) /\ HeldAre(Where, t)
      BY <1>2 DEF Map
    <3> QED
      BY <3>1, <3>2 DEF HeldAre, Held
  <2> QED
    BY <2>1, <2>2 DEF Places
<1> QED
  BY <1>1, <1>2, <1>3

\* Where things are.
LEMMA WhereIs ==
    Placed => Where \in [Units -> Places] /\ SharedAre(Where) /\ \A t \in Threads : HeldAre(Where, t)
BY DEF Placed, Where, Map

\* The same after a step.
LEMMA NextMap == (\A m \in [Units -> Places] : Map(m) => Placed /\ Where = m)'
<1>1. \A m \in [Units -> Places] : Map(m) => Placed /\ Where = m
  BY OneMap
<1> QED
  BY <1>1, PTL

\* What a step of another thread leaves a thread with.
Keeps(u) ==
    /\ call'[u] = call[u] /\ private_queue'[u] = private_queue[u]
    /\ InProgress(u)' <=> InProgress(u)
    /\ \A x \in Units : RunsIt(u, x)' <=> RunsIt(u, x)

Near(t) == (Shared \X {Service}) \cup (Held \X {t})

\* A thread moves operations between what is shared and itself.
LEMMA Moved ==
    ASSUME Placed, NEW t \in Threads, NEW m \in [Units -> Places],
           \A u \in Threads \ {t} : Keeps(u),
           \A x \in Units : m[x] # Where[x] => Where[x] \in Near(t) /\ m[x] \in Near(t),
           SharedAre(m)', HeldAre(m, t)'
    PROVE  Placed' /\ Where' = m
<1>1. ASSUME NEW u \in Threads \ {t} PROVE HeldAre(m, u)'
  <2>1. HeldAre(Where, u) /\ Keeps(u)
    BY WhereIs
  <2>2. /\ Uncounting(call[u])' = Uncounting(call[u]) /\ Pushing(call[u])' = Pushing(call[u])
        /\ Readying(call[u])' = Readying(call[u])
    BY <2>1 DEF Keeps
  <2>3. ASSUME NEW x \in Units, NEW kind \in Held
        PROVE  m[x] = <<kind, u>> <=> Where[x] = <<kind, u>>
    <3>1. <<kind, u>> \notin Near(t)
      BY DEF Near, Held, Shared
    <3> QED
      BY <3>1
  <2>4. \A x \in Units : /\ m[x] = <<"uncounted", u>> <=> Where[x] = <<"uncounted", u>>
                         /\ m[x] = <<"pushed", u>> <=> Where[x] = <<"pushed", u>>
                         /\ m[x] = <<"to_ready", u>> <=> Where[x] = <<"to_ready", u>>
                         /\ m[x] = <<"private", u>> <=> Where[x] = <<"private", u>>
                         /\ m[x] = <<"moved", u>> <=> Where[x] = <<"moved", u>>
                         /\ m[x] = <<"run", u>> <=> Where[x] = <<"run", u>>
    BY <2>3 DEF Held
  <2> QED
    BY <2>1, <2>2, <2>4 DEF HeldAre, Keeps
<1>2. Map(m)'
  BY <1>1 DEF Map
<1> QED
  BY <1>2, NextMap

----------------------------------------------------------------------------
(* Types.                                                                  *)

\* A turn of the loop.
LEMMA TurnMoreTypes ==
    ASSUME MoreTypes, NEW t \in Threads, NEW queue, NEW interrupted \in BOOLEAN,
           Turn(t, queue, interrupted)
    PROVE  task_interrupted' \in BOOLEAN /\ signalled' \in BOOLEAN /\ interrupter' \in BOOLEAN
<1> DEFINE more_handlers == Len(queue) > 1
<1>1. more_handlers \in BOOLEAN
  OBVIOUS
<1> HIDE DEF more_handlers
<1>2. /\ task_interrupted' \in {interrupted, more_handlers, TRUE}
      /\ signalled' \in {signalled, FALSE, TRUE, signalled \/ more_handlers}
      /\ interrupter' \in {interrupter, interrupter \/ ~interrupted}
  BY DEF Turn, WakeOne, Interrupt, more_handlers
<1> QED
  BY <1>1, <1>2 DEF MoreTypes

\* The steps of a call keep the types.
LEMMA CallMoreTypes ==
    ASSUME MoreTypes, NEW t \in Threads, CallSteps(t), OutsideStrand
    PROVE  MoreTypes'
BY DEF CallSteps, WorkStarted, PushOps, SignalOne, StopAllThreads, OutsideStrand, strand, WakeOne,
       Interrupt, MoreTypes, service, reactor, kernel

\* So do the steps of run,
LEMMA LoopMoreTypes ==
    ASSUME Types, MoreTypes, NEW t \in Threads, Loop(t), OutsideStrand
    PROVE  MoreTypes'
<1> USE DEF OutsideStrand, strand, service, reactor, kernel, TurnUnchanged
<1>1. CASE RunOne(t) \/ (Woken(t) /\ signalled)
  <2>1. Turn(t, op_queue, task_interrupted)
    BY <1>1 DEF RunOne, Woken
  <2>2. task_interrupted' \in BOOLEAN /\ signalled' \in BOOLEAN /\ interrupter' \in BOOLEAN
    BY <2>1, TurnMoreTypes DEF MoreTypes
  <2> QED
    BY <1>1, <2>2 DEF RunOne, Woken, MoreTypes
<1>2. CASE TaskCleanup(t)
  <2>1. Turn(t, op_queue \o private_queue[t] \o <<Task>>, TRUE)
    BY <1>2 DEF TaskCleanup
  <2>2. task_interrupted' \in BOOLEAN /\ signalled' \in BOOLEAN /\ interrupter' \in BOOLEAN
    BY <2>1, TurnMoreTypes
  <2> QED
    BY <1>2, <2>2 DEF TaskCleanup, MoreTypes
<1>3. CASE PushPrivate(t)
  <2>1. Turn(t, op_queue \o private_queue[t], task_interrupted)
    BY <1>3 DEF PushPrivate
  <2>2. task_interrupted' \in BOOLEAN /\ signalled' \in BOOLEAN /\ interrupter' \in BOOLEAN
    BY <2>1, TurnMoreTypes DEF MoreTypes
  <2> QED
    BY <1>3, <2>2 DEF PushPrivate, MoreTypes
<1>4. CASE Run(t) \/ (Woken(t) /\ ~signalled)
  BY <1>4 DEF Run, Woken, MoreTypes
<1>5. CASE WorkCleanup(t)
  BY <1>5 DEF WorkCleanup, MoreTypes
<1>6. CASE Poll(t)
  BY <1>6 DEF Poll, MoreTypes
<1>7. CASE CheckTimers(t)
  BY <1>7 DEF CheckTimers, MoreTypes
<1>8. CASE PerformIo(t)
  BY <1>8 DEF PerformIo, MoreTypes
<1> QED
  BY <1>1, <1>2, <1>3, <1>4, <1>5, <1>6, <1>7, <1>8 DEF Loop

\* a post,
LEMMA PostMoreTypes ==
    ASSUME MoreTypes, NEW t \in Threads, NEW op, NEW is_continuation, NEW before,
           PostImmediate(t, op, is_continuation, before)
    PROVE  private_work' \in [Threads -> Nat]
BY DEF PostImmediate, MoreTypes

\* the commands,
LEMMA CommandMoreTypes ==
    ASSUME Types, MoreTypes, NEW t \in Threads, Commands(t), OutsideStrand
    PROVE  MoreTypes'
<1> USE DEF OutsideStrand, strand, service, reactor, kernel
<1>1. CASE Post(t, InStrand(t))
  BY <1>1, PostMoreTypes DEF Post, HandOver, MoreTypes
<1>2. CASE \E via \in {"read", "write"} : StartOp(t, via, InStrand(t))
  <2>1. PICK via \in {"read", "write"} : StartOp(t, via, InStrand(t))
    BY <1>2
  <2>2. private_work' \in [Threads -> Nat]
    BY <2>1, PostMoreTypes DEF StartOp, MoreTypes
  <2> QED
    BY <2>1, <2>2 DEF StartOp, HandOver, MoreTypes
<1>3. CASE ScheduleTimer(t)
  BY <1>3 DEF ScheduleTimer, HandOver, MoreTypes
<1>4. CASE CancelTimer(t) \/ CancelOps(t) \/ Stop(t)
  BY <1>4 DEF CancelTimer, CancelOps, Stop, MoreTypes
<1> QED
  BY <1>1, <1>2, <1>3, <1>4 DEF Commands

\* the strand,
LEMMA StrandMoreTypes ==
    ASSUME Types, MoreTypes, NEW t \in Threads, StrandSteps(t)
    PROVE  MoreTypes'
<1> USE DEF InsideStrand, strand, service, reactor, kernel
<1>1. CASE CompleteHandler(t)
  BY <1>1 DEF CompleteHandler, Invoke, MoreTypes
<1>2. CASE Dispatch(t)
  BY <1>2 DEF Dispatch, Invoke, MoreTypes
<1>3. CASE CompleteStrand(t)
  BY <1>3 DEF CompleteStrand, MoreTypes
<1>4. CASE RunReady(t)
  <2>1. Head(ready_queue) \in Handlers
    BY <1>4, HeadTailProperties DEF RunReady, Types
  <2> QED
    BY <1>4, <2>1 DEF RunReady, Invoke, MoreTypes
<1>5. CASE HandlerEnds(t)
  BY <1>5 DEF HandlerEnds, MoreTypes
<1>6. CASE LeaveStrand(t)
  <2>1. PICK is_continuation \in BOOLEAN : Exit(t, is_continuation)
    BY <1>6 DEF LeaveStrand
  <2>2. private_work' \in [Threads -> Nat] /\ locked' \in BOOLEAN
    BY <2>1, PostMoreTypes DEF Exit, MoreTypes
  <2> QED
    BY <1>6, <2>2 DEF LeaveStrand, MoreTypes
<1>7. CASE StrandPost(t)
  <2>1. Command(t).op \in Handlers
    BY <1>7, CommandOps DEF StrandPost, HandOver
  <2> QED
    BY <1>7, <2>1 DEF StrandPost, HandOver, MoreTypes
<1>8. CASE PushReady(t)
  BY <1>8 DEF PushReady, MoreTypes
<1> QED
  BY <1>1, <1>2, <1>3, <1>4, <1>5, <1>6, <1>7, <1>8 DEF StrandSteps

\* and the environment.
LEMMA EnvironmentMoreTypes == ASSUME MoreTypes, Environment PROVE MoreTypes'
<1> USE DEF OutsideStrand, strand, service, reactor, kernel, threads
<1>1. CASE \E via \in {"read", "write"} : SocketReady(via)
  BY <1>1 DEF Environment, SocketReady, MoreTypes, Events
<1>2. CASE \E h \in Handlers : TimePasses(h)
  BY <1>2 DEF Environment, TimePasses, MoreTypes
<1>3. CASE \E t \in Runners : SpuriousWakeup(t)
  BY <1>3 DEF Environment, SpuriousWakeup, MoreTypes
<1> QED
  BY <1>1, <1>2, <1>3 DEF Environment

----------------------------------------------------------------------------
(* The other threads.                                                      *)

\* A step of a thread leaves the others where they are, and what they have.
Others(t) ==
    \A u \in Threads \ {t} :
        /\ pc'[u] = pc[u] /\ call'[u] = call[u] /\ todo'[u] = todo[u] /\ cur'[u] = cur[u]
        /\ private_work'[u] = private_work[u] /\ private_queue'[u] = private_queue[u]
        /\ handler'[u] = handler[u] /\ frame'[u] = frame[u]

\* A turn of do_run_one is about its own thread,
LEMMA TurnOthers ==
    ASSUME Types, NEW t \in Threads, NEW queue, NEW interrupted, Turn(t, queue, interrupted)
    PROVE  \A u \in Threads \ {t} : pc'[u] = pc[u] /\ call'[u] = call[u] /\ cur'[u] = cur[u]
BY DEF Turn, WakeOne, Goto, Calls, Types

\* as are all steps of run,
LEMMA LoopOthers ==
    ASSUME Types, MoreTypes, NEW t \in Threads, Loop(t), OutsideStrand
    PROVE  Others(t)
<1> USE DEF Others, OutsideStrand, Types, MoreTypes, TurnUnchanged
<1>1. CASE RunOne(t) \/ (Woken(t) /\ signalled) \/ TaskCleanup(t) \/ PushPrivate(t)
  <2>1. \/ Turn(t, op_queue, task_interrupted)
        \/ Turn(t, op_queue \o private_queue[t] \o <<Task>>, TRUE)
        \/ Turn(t, op_queue \o private_queue[t], task_interrupted)
    BY <1>1 DEF RunOne, Woken, TaskCleanup, PushPrivate
  <2>2. \A u \in Threads \ {t} : pc'[u] = pc[u] /\ call'[u] = call[u] /\ cur'[u] = cur[u]
    BY <2>1, TurnOthers
  <2> QED
    BY <1>1, <2>2 DEF RunOne, Woken, TaskCleanup, PushPrivate
<1>2. CASE Run(t) \/ (Woken(t) /\ ~signalled)
  BY <1>2 DEF Run, Woken, Goto, Calls
<1>3. CASE WorkCleanup(t)
  BY <1>3 DEF WorkCleanup, Goto, Calls
<1>4. CASE Poll(t)
  BY <1>4 DEF Poll, Goto
<1>5. CASE CheckTimers(t)
  BY <1>5 DEF CheckTimers, Goto
<1>6. CASE PerformIo(t)
  <2>1. /\ todo' = todo /\ private_work' = private_work /\ private_queue' = private_queue
        /\ handler' = handler /\ frame' = frame
    BY <1>6 DEF PerformIo
  <2>2. /\ pc' = pc \/ pc' = [pc EXCEPT ![t] = "work_cleanup"]
        /\ cur' = cur \/ \E h : cur' = [cur EXCEPT ![t].op = h]
        /\ call' = call \/ \E steps : call' = [call EXCEPT ![t] = steps]
    BY <1>6 DEF PerformIo, Goto, Calls
  <2> QED
    BY <2>1, <2>2
<1> QED
  BY <1>1, <1>2, <1>3, <1>4, <1>5, <1>6 DEF Loop

\* a post,
LEMMA PostOthers ==
    ASSUME Types, MoreTypes, NEW t \in Threads, NEW op, NEW is_continuation, NEW before,
           PostImmediate(t, op, is_continuation, before)
    PROVE  \A u \in Threads \ {t} : /\ call'[u] = call[u] /\ private_work'[u] = private_work[u]
                                    /\ private_queue'[u] = private_queue[u]
BY DEF PostImmediate, Calls, Types, MoreTypes

\* the commands,
LEMMA CommandOthers ==
    ASSUME Types, MoreTypes, NEW t \in Threads, Commands(t), OutsideStrand
    PROVE  Others(t)
<1> USE DEF Others, OutsideStrand, Types, MoreTypes, NextCommand, HandOver
<1>1. CASE Post(t, InStrand(t))
  <2>1. \A u \in Threads \ {t} : /\ call'[u] = call[u] /\ private_work'[u] = private_work[u]
                                 /\ private_queue'[u] = private_queue[u]
    BY <1>1, PostOthers DEF Post
  <2> QED
    BY <1>1, <2>1 DEF Post
<1>2. CASE \E via \in {"read", "write"} : StartOp(t, via, InStrand(t))
  <2>1. PICK via \in {"read", "write"} : StartOp(t, via, InStrand(t))
    BY <1>2
  <2>2. \A u \in Threads \ {t} : /\ call'[u] = call[u] /\ private_work'[u] = private_work[u]
                                 /\ private_queue'[u] = private_queue[u]
    BY <2>1, PostOthers DEF StartOp
  <2> QED
    BY <2>1, <2>2 DEF StartOp
<1>3. CASE ScheduleTimer(t)
  BY <1>3 DEF ScheduleTimer
<1>4. CASE CancelTimer(t)
  BY <1>4 DEF CancelTimer, Calls
<1>5. CASE CancelOps(t)
  BY <1>5 DEF CancelOps, Calls
<1>6. CASE Stop(t)
  BY <1>6 DEF Stop, Calls
<1> QED
  BY <1>1, <1>2, <1>3, <1>4, <1>5, <1>6 DEF Commands

\* and the strand. Only calls can wake another thread.
LEMMA StrandOthers ==
    ASSUME Types, MoreTypes, NEW t \in Threads, StrandSteps(t)
    PROVE  Others(t)
<1> USE DEF Others, InsideStrand, strand, Types, MoreTypes, Goto, Calls
<1>1. CASE CompleteHandler(t)
  BY <1>1 DEF CompleteHandler, Invoke
<1>2. CASE Dispatch(t)
  BY <1>2 DEF Dispatch, Invoke
<1>3. CASE CompleteStrand(t)
  BY <1>3 DEF CompleteStrand
<1>4. CASE RunReady(t)
  BY <1>4 DEF RunReady, Invoke
<1>5. CASE HandlerEnds(t)
  BY <1>5 DEF HandlerEnds
<1>6. CASE LeaveStrand(t)
  <2>1. PICK is_continuation \in BOOLEAN : Exit(t, is_continuation)
    BY <1>6 DEF LeaveStrand
  <2>2. \A u \in Threads \ {t} : /\ call'[u] = call[u] /\ private_work'[u] = private_work[u]
                                 /\ private_queue'[u] = private_queue[u]
    BY <2>1, PostOthers DEF Exit
  <2>3. pc' = [pc EXCEPT ![t] = "work_cleanup"]
    BY <2>1 DEF Exit
  <2> QED
    BY <1>6, <2>2, <2>3 DEF LeaveStrand
<1>7. CASE StrandPost(t)
  BY <1>7 DEF StrandPost, HandOver, NextCommand
<1>8. CASE PushReady(t)
  BY <1>8 DEF PushReady
<1> QED
  BY <1>1, <1>2, <1>3, <1>4, <1>5, <1>6, <1>7, <1>8 DEF StrandSteps

\* What a thread has does not change when nothing of it does.
LEMMA OthersKeep == ASSUME NEW t \in Threads, Others(t) PROVE \A u \in Threads \ {t} : Keeps(u)
BY DEF Others, Keeps, InProgress, RunsIt, Runs, Polls

----------------------------------------------------------------------------
(* What a thread can be about to do.                                       *)

\* The calls, and whether they count what they push.
LEMMA Forms ==
    /\ ~BeforeLast(<<>>) /\ ~BeforeLast(<<Signal>>) /\ ~BeforeLast(<<StopLoop>>)
    /\ ~BeforeLast(<<Work>>) /\ <<>> # <<Work>> /\ <<Signal>> # <<Work>> /\ <<StopLoop>> # <<Work>>
    /\ \A ops : /\ ~BeforeLast(<<Push(ops)>>) /\ BeforeLast(<<Work, Push(ops)>>)
                /\ <<Push(ops)>> # <<Work>> /\ <<Work, Push(ops)>> # <<Work>>
    /\ \A h, ops : /\ BeforeLast(<<ToReady(h), Work, Push(ops)>>)
                   /\ <<ToReady(h), Work, Push(ops)>> # <<Work>>
<1> USE DEF BeforeLast
<1>1. /\ ~BeforeLast(<<>>) /\ ~BeforeLast(<<Signal>>) /\ ~BeforeLast(<<StopLoop>>)
      /\ ~BeforeLast(<<Work>>) /\ \A ops : ~BeforeLast(<<Push(ops)>>)
  OBVIOUS
<1>2. ASSUME NEW ops PROVE BeforeLast(<<Work, Push(ops)>>) /\ <<Work, Push(ops)>> # <<Work>>
  <2>1. 1 \in 1..(Len(<<Work, Push(ops)>>) - 1) /\ <<Work, Push(ops)>>[1] = Work
    OBVIOUS
  <2> QED
    BY <2>1
<1>3. ASSUME NEW ops, NEW h
      PROVE  /\ BeforeLast(<<ToReady(h), Work, Push(ops)>>)
             /\ <<ToReady(h), Work, Push(ops)>> # <<Work>>
  <2>1. /\ 2 \in 1..(Len(<<ToReady(h), Work, Push(ops)>>) - 1)
        /\ <<ToReady(h), Work, Push(ops)>>[2] = Work
    OBVIOUS
  <2> QED
    BY <2>1
<1>4. Signal # Work /\ StopLoop # Work /\ \A ops : Push(ops) # Work
  BY DEF Signal, Work, StopLoop, Push
<1>5. <<>> # <<Work>> /\ <<Signal>> # <<Work>> /\ <<StopLoop>> # <<Work>> /\ \A ops : <<Push(ops)>> # <<Work>>
  BY <1>4
<1> QED
  BY <1>1, <1>2, <1>3, <1>5

\* The other threads are not affected.
LEMMA ControlOfOthers ==
    ASSUME Control, NEW t \in Threads, Others(t), ThreadControl(t)', Running'
    PROVE  Control'
<1>1. ASSUME NEW u \in Threads \ {t} PROVE ThreadControl(u)'
  <2>1. ThreadControl(u)
    BY DEF Control
  <2>2. /\ pc'[u] = pc[u] /\ call'[u] = call[u] /\ cur'[u] = cur[u]
        /\ private_queue'[u] = private_queue[u] /\ handler'[u] = handler[u]
    BY DEF Others
  <2>3. Pending(call[u])' = Pending(call[u]) /\ (Uncounted(u)' <=> Uncounted(u))
    BY <2>2 DEF Pending, Uncounted, BeforeLast
  <2> QED
    BY <2>1, <2>2, <2>3 DEF ThreadControl, InProgress
<1> QED
  BY <1>1 DEF Control

\* An operation is run by one thread.
LEMMA RunByOne ==
    ASSUME Placed, NEW t \in Threads, NEW u \in Threads, NEW x \in Units, RunsIt(t, x), RunsIt(u, x)
    PROVE  t = u
<1>1. Where[x] = <<"run", t>> /\ Where[x] = <<"run", u>>
  BY WhereIs DEF HeldAre
<1> QED
  BY <1>1

\* No handler starts or ends.
LEMMA SameRunning ==
    ASSUME Running, status' = status, handler' = handler,
           \A t \in Threads : pc'[t] = "handler" <=> pc[t] = "handler"
    PROVE  Running'
BY DEF Running

\* The steps of a call.
LEMMA CallControl ==
    ASSUME Types, Control, NEW t \in Threads, CallSteps(t), OutsideStrand
    PROVE  Control'
<1>1. /\ cur' = cur /\ private_queue' = private_queue /\ handler' = handler /\ status' = status
      /\ \A u \in Threads : pc'[u] = pc[u] \/ (pc[u] = "waiting" /\ pc'[u] = "woken")
      /\ \/ call' = [call EXCEPT ![t] = Tail(call[t])]
         \/ call' = [call EXCEPT ![t] = <<Signal>> \o Tail(call[t])]
      /\ call[t] # <<>>
  <2> USE DEF Calls, Goto, Is, OutsideStrand, service, reactor, Types
  <2>1. CASE WorkStarted(t)
    BY <2>1 DEF WorkStarted
  <2>2. CASE PushOps(t)
    BY <2>2 DEF PushOps, WakeOne
  <2>3. CASE SignalOne(t)
    BY <2>3 DEF SignalOne
  <2>4. CASE StopAllThreads(t)
    BY <2>4 DEF StopAllThreads
  <2> QED
    BY <2>1, <2>2, <2>3, <2>4 DEF CallSteps
<1>2. /\ \A u \in Threads \ {t} : call'[u] = call[u]
      /\ call'[t] # <<Work>>
      /\ Uncounted(t)' => Uncounted(t) /\ Pending(call[t])' = Pending(call[t])
  <2>1. CASE WorkStarted(t)
    <3>1. call' = [call EXCEPT ![t] = Tail(call[t])] /\ Is(t, "work_started")
      BY <2>1 DEF WorkStarted, Calls
    <3>2. CASE Tail(call[t]) = <<>>
      BY <3>1, <3>2, Forms DEF Uncounted, Types
    <3>3. ASSUME NEW ops \in Seq(Ops), Tail(call[t]) = <<Push(ops)>>
          PROVE  call'[t] # <<Work>> /\ ~Uncounted(t)'
      BY <3>1, <3>3, Forms DEF Uncounted, Types
    <3> QED
      BY <3>1, <3>2, <3>3, StepForms, Forms DEF Types, Uncounted
  <2>2. CASE PushOps(t) \/ SignalOne(t) \/ StopAllThreads(t)
    <3>1. Tail(call[t]) = <<>>
      BY <2>2, StepForms DEF PushOps, SignalOne, StopAllThreads
    <3>2. <<Signal>> \o <<>> = <<Signal>>
      BY DEF Signal
    <3>3. call' = [call EXCEPT ![t] = <<>>] \/ call' = [call EXCEPT ![t] = <<Signal>>]
      BY <1>1, <3>1, <3>2
    <3> QED
      BY <3>3, Forms DEF Types, Uncounted
  <2> QED
    BY <2>1, <2>2 DEF CallSteps
<1>3. ASSUME NEW u \in Threads PROVE ThreadControl(u)'
  <2>1. ThreadControl(u)
    BY DEF Control
  <2>2. CASE u # t
    <3>1. Pending(call[u])' = Pending(call[u]) /\ (Uncounted(u)' <=> Uncounted(u))
      BY <1>2, <2>2 DEF Pending, Uncounted, BeforeLast
    <3> QED
      BY <1>1, <1>2, <2>1, <2>2, <3>1 DEF ThreadControl, InProgress
  <2>3. CASE u = t
    BY <1>1, <1>2, <2>1, <2>3 DEF ThreadControl, InProgress
  <2> QED
    BY <2>2, <2>3
<1>4. Running'
  BY <1>1, SameRunning DEF Control
<1> QED
  BY <1>3, <1>4 DEF Control

\* What a turn of the loop does to the thread.
LEMMA TurnResult ==
    ASSUME Types, NEW t \in Threads, NEW queue, NEW interrupted,
           Turn(t, queue, interrupted), call[t] = <<>>
    PROVE  /\ call'[t] \in {<<>>, <<Signal>>}
           /\ \/ pc'[t] \in {"returned", "waiting"} /\ op_queue' = queue /\ cur'[t] = cur[t]
              \/ /\ queue # <<>> /\ op_queue' = Tail(queue) /\ cur'[t].op = Head(queue)
                 /\ pc'[t] \in (IF Head(queue) = Task THEN {"poll", "poll_block"} ELSE {"complete"})
<1> USE DEF Types, Goto, Calls
<1>1. CASE stopped
  BY <1>1 DEF Turn
<1>2. CASE ~stopped /\ queue = <<>>
  BY <1>2 DEF Turn
<1>3. CASE ~stopped /\ queue # <<>>
  <2>1. op_queue' = Tail(queue)
        /\ cur' = [cur EXCEPT ![t] = [op |-> Head(queue), events |-> task_result]]
    BY <1>3 DEF Turn
  <2>2. cur'[t].op = Head(queue)
    BY <2>1
  <2>3. <<Signal>> \o <<>> = <<Signal>>
    BY DEF Signal
  <2>4. \/ call' = call \/ call' = [call EXCEPT ![t] = <<>>]
        \/ call' = [call EXCEPT ![t] = <<Signal>>]
    BY <1>3, <2>3 DEF Turn, WakeOne
  <2>5. pc'[t] \in (IF Head(queue) = Task THEN {"poll", "poll_block"} ELSE {"complete"})
    BY <1>3 DEF Turn
  <2> QED
    BY <1>3, <2>1, <2>2, <2>4, <2>5
<1> QED
  BY <1>1, <1>2, <1>3

\* The thread begins a turn with no call under way and leaves no queue of its own.
LEMMA TurnBegins ==
    ASSUME Types, Control, NEW t \in Threads, OutsideStrand,
           RunOne(t) \/ (Woken(t) /\ signalled) \/ TaskCleanup(t) \/ PushPrivate(t)
    PROVE  /\ call[t] = <<>> /\ private_queue'[t] = <<>>
           /\ pc[t] \in {"lock", "woken", "task_cleanup", "push_private"}
           /\ \E interrupted :
                \/ Turn(t, op_queue, interrupted) /\ private_queue[t] = <<>> /\ pc[t] \in {"lock", "woken"}
                \/ Turn(t, op_queue \o private_queue[t], interrupted) /\ pc[t] = "push_private"
                \/ Turn(t, op_queue \o private_queue[t] \o <<Task>>, interrupted) /\ pc[t] = "task_cleanup"
<1>1. ThreadControl(t)
  BY DEF Control
<1>2. CASE RunOne(t) \/ (Woken(t) /\ signalled)
  BY <1>1, <1>2 DEF RunOne, Woken, Returned, ThreadControl
<1>3. CASE TaskCleanup(t)
  BY <1>1, <1>3 DEF TaskCleanup, ThreadControl, Types
<1>4. CASE PushPrivate(t)
  BY <1>4 DEF PushPrivate, Returned, Types
<1> QED
  BY <1>2, <1>3, <1>4

\* What a thread can be about to do after a step of run,
LEMMA LoopControl ==
    ASSUME Types, MoreTypes, Control, NEW t \in Threads, Loop(t), OutsideStrand
    PROVE  Control'
<1> USE Forms DEF Uncounted
<1>1. Others(t)
  BY LoopOthers
<1>2. ThreadControl(t)
  BY DEF Control
<1>3. /\ handler' = handler /\ status' = status
  BY DEF Loop, RunOne, Woken, TaskCleanup, PushPrivate, Run, WorkCleanup, Poll, CheckTimers,
         PerformIo, OutsideStrand, TurnUnchanged
<1>4. SUFFICES ThreadControl(t)' /\ pc'[t] # "handler" /\ pc[t] # "handler"
  <2>1. ASSUME pc'[t] # "handler", pc[t] # "handler" PROVE Running'
    BY <1>1, <1>3, <2>1, SameRunning DEF Control, Others
  <2> QED
    BY <1>1, <2>1, ControlOfOthers
<1>5. CASE RunOne(t) \/ (Woken(t) /\ signalled) \/ TaskCleanup(t) \/ PushPrivate(t)
  <2>1. /\ call[t] = <<>> /\ private_queue'[t] = <<>>
        /\ pc[t] \in {"lock", "woken", "task_cleanup", "push_private"}
        /\ \E queue, interrupted : Turn(t, queue, interrupted)
    BY <1>5, TurnBegins
  <2>2. PICK queue, interrupted : Turn(t, queue, interrupted)
    BY <2>1
  <2>3. /\ call'[t] \in {<<>>, <<Signal>>}
        /\ \/ pc'[t] \in {"returned", "waiting"} /\ op_queue' = queue /\ cur'[t] = cur[t]
           \/ /\ queue # <<>> /\ op_queue' = Tail(queue) /\ cur'[t].op = Head(queue)
              /\ pc'[t] \in (IF Head(queue) = Task THEN {"poll", "poll_block"} ELSE {"complete"})
    BY <2>1, <2>2, TurnResult
  <2>4. pc'[t] = "waiting" => call'[t] = <<>>
    <3>1. pc'[t] = "waiting" => call' = call
      BY <2>2 DEF Turn, Goto, Types
    <3> QED
      BY <2>1, <3>1
  <2> QED
    BY <1>2, <2>1, <2>3, <2>4 DEF ThreadControl, InProgress
<1>6. CASE Run(t) \/ (Woken(t) /\ ~signalled)
  <2>1. /\ call[t] = <<>> /\ cur' = cur /\ private_queue' = private_queue
        /\ pc[t] \in {"run", "woken"} /\ pc'[t] \in {"returned", "lock", "waiting"}
        /\ call'[t] \in {<<>>, <<StopLoop>>}
        /\ pc'[t] = "waiting" => call'[t] = <<>>
    BY <1>2, <1>6 DEF Run, Woken, Goto, Calls, Types, ThreadControl
  <2> QED
    BY <1>2, <2>1 DEF ThreadControl, InProgress
<1>7. CASE WorkCleanup(t)
  <2>1. /\ pc[t] = "work_cleanup" /\ call[t] = <<>> /\ cur' = cur /\ private_queue' = private_queue
        /\ pc'[t] = IF private_queue[t] = <<>> THEN "lock" ELSE "push_private"
        /\ call'[t] \in {<<>>, <<StopLoop>>}
    BY <1>7 DEF WorkCleanup, Goto, Calls, Types, Returned
  <2> QED
    BY <1>2, <2>1 DEF ThreadControl, InProgress
<1>8. CASE Poll(t)
  <2>1. /\ pc[t] \in {"poll", "poll_block"} /\ call[t] = <<>> /\ cur' = cur /\ call' = call
        /\ pc'[t] \in {"check_timers", "task_cleanup"}
    BY <1>8 DEF Poll, Goto, Types, Returned
  <2> QED
    BY <1>2, <2>1 DEF ThreadControl, InProgress
<1>9. CASE CheckTimers(t)
  <2>1. /\ pc[t] = "check_timers" /\ cur' = cur /\ call' = call /\ pc'[t] = "task_cleanup"
    BY <1>9 DEF CheckTimers, Goto, Types
  <2> QED
    BY <1>2, <2>1 DEF ThreadControl, InProgress
<1>10. CASE PerformIo(t)
  <2>1. /\ pc[t] = "complete" /\ call[t] = <<>> /\ cur[t].op = Descriptor
        /\ private_queue' = private_queue
        /\ \/ pc'[t] = "work_cleanup" /\ cur' = cur /\ call'[t] = <<Work>>
           \/ /\ pc' = pc /\ \E h \in Handlers : cur' = [cur EXCEPT ![t].op = h]
              /\ call' = call \/ \E ops : call'[t] = <<Push(ops)>>
    <3>1. \/ /\ call' = [call EXCEPT ![t] = <<Work>>] /\ cur' = cur
             /\ pc' = [pc EXCEPT ![t] = "work_cleanup"]
          \/ \E h \in registered :
                /\ cur' = [cur EXCEPT ![t].op = h] /\ pc' = pc
                /\ call' = call \/ \E g \in registered : call' = [call EXCEPT ![t] = <<Push(<<g>>)>>]
      BY <1>10 DEF PerformIo, Performed, Goto, Calls
    <3>2. pc[t] = "complete" /\ call[t] = <<>> /\ cur[t].op = Descriptor /\ private_queue' = private_queue
      BY <1>10 DEF PerformIo, Returned
    <3>3. ASSUME NEW g, call' = [call EXCEPT ![t] = <<Push(<<g>>)>>]
          PROVE  \E ops : call'[t] = <<Push(ops)>>
      <4>1. call'[t] = <<Push(<<g>>)>>
        BY <3>3 DEF Types
      <4> QED
        BY <4>1
    <3> QED
      BY <3>1, <3>2, <3>3 DEF Types
  <2>2. Descriptor # Task /\ \A h \in Handlers : h # Task
    BY HandlersAssumption DEF Task, Descriptor
  <2>3. ASSUME NEW h \in Handlers, cur' = [cur EXCEPT ![t].op = h] PROVE cur'[t].op = h
    BY <2>3 DEF Types
  <2> QED
    BY <1>2, <2>1, <2>2, <2>3 DEF ThreadControl, InProgress
<1> QED
  BY <1>5, <1>6, <1>7, <1>8, <1>9, <1>10 DEF Loop

\* The operation goes to the private queue or is about to be counted and pushed.
LEMMA PostResult ==
    ASSUME Types, MoreTypes, NEW t \in Threads, call[t] = <<>>, NEW op, NEW is_continuation,
           PostImmediate(t, op, is_continuation, <<>>)
    PROVE  \/ /\ t \in Runners /\ call'[t] = <<>> /\ private_work'[t] = private_work[t] + 1
              /\ private_queue'[t] = Append(private_queue[t], op)
           \/ /\ call'[t] = <<Work, Push(<<op>>)>> /\ private_work'[t] = private_work[t]
              /\ private_queue'[t] = private_queue[t]
<1>1. <<>> \o <<Work, Push(<<op>>)>> = <<Work, Push(<<op>>)>>
  BY DEF Work, Push
<1>2. CASE is_continuation /\ t \in Runners
  BY <1>2 DEF PostImmediate, Calls, Types, MoreTypes
<1>3. CASE ~(is_continuation /\ t \in Runners)
  BY <1>1, <1>3 DEF PostImmediate, Calls, Types, MoreTypes
<1> QED
  BY <1>2, <1>3

\* What a handler is handed over to has it for the first time.
LEMMA HandedOver ==
    ASSUME Types, MoreTypes, Commanded, NEW t \in Threads, NEW via, HandOver(t, via)
    PROVE  /\ Active(t) /\ Command(t).op \in Handlers /\ status[Command(t).op] = "new"
           /\ status' = [status EXCEPT ![Command(t).op] = "pending"]
           /\ call[t] = <<>> /\ pc[t] \in {"app", "handler"}
<1>1. Active(t) /\ Command(t).do = "hand_over" /\ todo[t] # <<>>
  BY DEF HandOver, Active
<1>2. Command(t).op \in Handlers
  BY <1>1, CommandOps
<1>3. 1 \in DOMAIN todo[t] /\ Command(t) = todo[t][1]
  BY <1>1, LenProperties, EmptySeq, HeadTailProperties DEF Types, Command
<1>4. status[Command(t).op] = "new"
  BY <1>1, <1>3 DEF Commanded
<1> QED
  BY <1>1, <1>2, <1>4 DEF HandOver, Active, Returned

\* A command of a thread.
LEMMA CommandResult ==
    ASSUME Types, MoreTypes, Commanded, NEW t \in Threads, Commands(t), OutsideStrand
    PROVE  /\ call[t] = <<>> /\ pc[t] \in {"app", "handler"}
           /\ pc' = pc /\ cur' = cur /\ handler' = handler /\ frame' = frame
           /\ \/ call'[t] = <<>> /\ private_queue'[t] = private_queue[t]
              \/ call'[t] = <<StopLoop>> /\ private_queue'[t] = private_queue[t]
              \/ (\E ops : call'[t] = <<Push(ops)>>) /\ private_queue'[t] = private_queue[t]
              \/ (\E h \in Handlers : call'[t] = <<Work, Push(<<h>>)>>) /\ private_queue'[t] = private_queue[t]
              \/ call'[t] = <<>> /\ t \in Runners
           /\ \/ status' = status
              \/ \E h \in Handlers : status[h] = "new" /\ status' = [status EXCEPT ![h] = "pending"]
<1> USE DEF Types, OutsideStrand, service, reactor, kernel
<1>1. CASE Post(t, InStrand(t))
  <2>1. PICK h \in Handlers : /\ h = Command(t).op /\ status[h] = "new" /\ call[t] = <<>>
                              /\ status' = [status EXCEPT ![h] = "pending"]
                              /\ pc[t] \in {"app", "handler"}
    BY <1>1, HandedOver DEF Post
  <2>2. PostImmediate(t, h, IsContinuation(t, h, InStrand(t)), <<>>)
    BY <1>1, <2>1 DEF Post
  <2>3. \/ call'[t] = <<>> /\ t \in Runners
        \/ call'[t] = <<Work, Push(<<h>>)>> /\ private_queue'[t] = private_queue[t]
    BY <2>1, <2>2, PostResult
  <2> QED
    BY <1>1, <2>1, <2>3 DEF Post
<1>2. CASE \E via \in {"read", "write"} : StartOp(t, via, InStrand(t))
  <2>1. PICK via \in {"read", "write"} : StartOp(t, via, InStrand(t))
    BY <1>2
  <2>2. PICK h \in Handlers : /\ h = Command(t).op /\ status[h] = "new" /\ call[t] = <<>>
                              /\ status' = [status EXCEPT ![h] = "pending"]
                              /\ pc[t] \in {"app", "handler"}
    BY <2>1, HandedOver DEF StartOp
  <2>3. CASE via \in avail /\ \A g \in registered : Via(g) # via
    <3>1. PostImmediate(t, h, IsContinuation(t, h, InStrand(t)), <<>>)
      BY <2>1, <2>2, <2>3 DEF StartOp
    <3>2. \/ call'[t] = <<>> /\ t \in Runners
          \/ call'[t] = <<Work, Push(<<h>>)>> /\ private_queue'[t] = private_queue[t]
      BY <2>2, <3>1, PostResult
    <3> QED
      BY <2>1, <2>2, <3>2 DEF StartOp
  <2>4. CASE ~(via \in avail /\ \A g \in registered : Via(g) # via)
    BY <2>1, <2>2, <2>4 DEF StartOp
  <2> QED
    BY <2>3, <2>4
<1>3. CASE ScheduleTimer(t)
  BY <1>3, HandedOver DEF ScheduleTimer
<1>4. CASE CancelTimer(t)
  <2>1. \/ call' = [call EXCEPT ![t] = <<>>]
        \/ call' = [call EXCEPT ![t] = <<Push(<<Command(t).op>>)>>]
    BY <1>4 DEF CancelTimer, Calls
  <2>2. call'[t] = <<>> \/ call'[t] = <<Push(<<Command(t).op>>)>>
    BY <2>1
  <2> QED
    BY <1>4, <2>2 DEF CancelTimer, Active, Returned
<1>5. CASE CancelOps(t)
  <2>1. call' = call \/ \E ops : call' = [call EXCEPT ![t] = <<Push(ops)>>]
    BY <1>5 DEF CancelOps, Calls
  <2>2. ASSUME NEW ops, call' = [call EXCEPT ![t] = <<Push(ops)>>]
        PROVE  call'[t] = <<Push(ops)>>
    BY <2>2
  <2>3. call'[t] = call[t] \/ \E ops : call'[t] = <<Push(ops)>>
    BY <2>1, <2>2
  <2> QED
    BY <1>5, <2>3 DEF CancelOps, Active, Returned
<1>6. CASE Stop(t)
  BY <1>6 DEF Stop, Calls, Active, Returned
<1> QED
  BY <1>1, <1>2, <1>3, <1>4, <1>5, <1>6 DEF Commands

\* and after a command.
LEMMA CommandControl ==
    ASSUME Types, MoreTypes, Control, Commanded, NEW t \in Threads, Commands(t), OutsideStrand
    PROVE  Control'
<1> USE Forms DEF Uncounted
<1>1. /\ call[t] = <<>> /\ pc[t] \in {"app", "handler"}
      /\ pc' = pc /\ cur' = cur /\ handler' = handler
      /\ \/ call'[t] = <<>> /\ private_queue'[t] = private_queue[t]
         \/ call'[t] = <<StopLoop>> /\ private_queue'[t] = private_queue[t]
         \/ (\E ops : call'[t] = <<Push(ops)>>) /\ private_queue'[t] = private_queue[t]
         \/ (\E h \in Handlers : call'[t] = <<Work, Push(<<h>>)>>) /\ private_queue'[t] = private_queue[t]
         \/ call'[t] = <<>> /\ t \in Runners
      /\ \/ status' = status
         \/ \E h \in Handlers : status[h] = "new" /\ status' = [status EXCEPT ![h] = "pending"]
  BY CommandResult
<1>2. Others(t)
  BY CommandOthers
<1>3. Running'
  BY <1>1 DEF Control, Running, MoreTypes
<1>4. ThreadControl(t)
  BY DEF Control
<1>5. t \in Runners => pc[t] = "handler"
  BY <1>1, <1>4, ThreadsAssumption DEF ThreadControl
<1>6. ASSUME NEW h \in Handlers, call'[t] = <<Work, Push(<<h>>)>>
      PROVE  h \in Works /\ Pending(call'[t]) = <<h>>
  BY <1>6, PendingForms DEF Works
<1>7. ThreadControl(t)'
  BY <1>1, <1>4, <1>5, <1>6 DEF ThreadControl, InProgress
<1> QED
  BY <1>2, <1>3, <1>7, ControlOfOthers


\* The strand's steps: a handler starts when no other thread runs it.
LEMMA StrandControl ==
    ASSUME Types, MoreTypes, Placed, Control, Commanded, NEW t \in Threads, StrandSteps(t)
    PROVE  Control'
<1> USE Forms DEF Uncounted, InsideStrand
<1>1. Others(t)
  BY StrandOthers
<1>2. ThreadControl(t)
  BY DEF Control
<1>3. cur' = cur
  BY DEF StrandSteps, CompleteHandler, Dispatch, CompleteStrand, RunReady, HandlerEnds, LeaveStrand,
         StrandPost, PushReady
<1>4. Task # Strand /\ \A h \in Handlers : h # Task /\ h # Strand
  BY HandlersAssumption DEF Task, Strand
<1>5. ASSUME NEW h \in Handlers, NEW from, Invoke(t, h, from), pc[t] # "handler",
             call' = call, call[t] = <<>>, private_queue' = private_queue,
             InProgress(t)
      PROVE  Control'
  <2>1. /\ status' = [status EXCEPT ![h] = "running"] /\ handler'[t] = h /\ pc'[t] = "handler"
    BY <1>5 DEF Invoke, Goto, Types, MoreTypes
  <2>2. ThreadControl(t)'
    BY <1>2, <1>3, <1>5, <2>1 DEF ThreadControl, InProgress
  <2>3. ASSUME NEW g \in Handlers
        PROVE  (status[g] = "running")' <=> \E u \in Threads : (pc[u] = "handler" /\ handler[u] = g)'
    <3>1. CASE g = h
      BY <2>1, <3>1 DEF MoreTypes
    <3>2. CASE g # h
      <4>1. status'[g] = status[g]
        BY <2>1, <3>2 DEF MoreTypes
      <4>2. \A u \in Threads : (pc[u] = "handler" /\ handler[u] = g)' <=> (pc[u] = "handler" /\ handler[u] = g)
        BY <1>1, <1>5, <2>1, <3>2 DEF Others
      <4> QED
        BY <4>1, <4>2 DEF Control, Running
    <3> QED
      BY <3>1, <3>2
  <2>4. Running'
    BY <2>3 DEF Running
  <2> QED
    BY <1>1, <2>2, <2>4, ControlOfOthers
<1>6. CASE CompleteHandler(t)
  BY <1>5, <1>6 DEF CompleteHandler, Returned, InProgress
<1>7. CASE Dispatch(t)
  <2>1. CASE ~locked
    BY <1>5, <1>7, <2>1 DEF Dispatch, Returned, InProgress
  <2>2. CASE locked
    <3>1. /\ pc[t] = "complete" /\ call[t] = <<>> /\ call' = call /\ private_queue' = private_queue
          /\ pc'[t] = "work_cleanup" /\ handler' = handler /\ status' = status
      BY <1>7, <2>2 DEF Dispatch, Returned, Goto, Types
    <3>2. Running'
      BY <1>1, <3>1, SameRunning DEF Control, Others
    <3>3. ThreadControl(t)'
      BY <1>2, <1>3, <3>1 DEF ThreadControl, InProgress
    <3> QED
      BY <1>1, <3>2, <3>3, ControlOfOthers
  <2> QED
    BY <2>1, <2>2
<1>8. CASE CompleteStrand(t)
  <2>1. /\ pc[t] = "complete" /\ call[t] = <<>> /\ call' = call /\ private_queue' = private_queue
        /\ pc'[t] = "strand" /\ handler' = handler /\ status' = status
    BY <1>8 DEF CompleteStrand, Returned, Goto, Types, strand
  <2>2. Running'
    BY <1>1, <2>1, SameRunning DEF Control, Others
  <2>3. ThreadControl(t)'
    BY <1>2, <1>3, <2>1 DEF ThreadControl, InProgress
  <2> QED
    BY <1>1, <2>2, <2>3, ControlOfOthers
<1>9. CASE RunReady(t)
  <2>1. Head(ready_queue) \in Handlers
    BY <1>9, HeadTailProperties DEF RunReady, Types
  <2>2. call[t] = <<>> /\ pc[t] = "strand"
    BY <1>2, <1>9 DEF RunReady, ThreadControl
  <2> QED
    BY <1>5, <1>9, <2>1, <2>2 DEF RunReady, InProgress
<1>10. CASE HandlerEnds(t)
  <2>1. /\ pc[t] = "handler" /\ call[t] = <<>> /\ call' = call /\ private_queue' = private_queue
        /\ pc'[t] \in {"work_cleanup", "leave_strand", "strand"} /\ handler' = handler
        /\ status' = [status EXCEPT ![handler[t]] = "done"]
    BY <1>10 DEF HandlerEnds, Returned, Goto, Types
  <2>2. handler[t] \in Handlers
    BY <1>2, <2>1 DEF ThreadControl
  <2>3. ASSUME NEW g \in Handlers
        PROVE  (status[g] = "running")' <=> \E u \in Threads : (pc[u] = "handler" /\ handler[u] = g)'
    <3>1. CASE g = handler[t]
      <4>1. status'[g] = "done"
        BY <2>1, <3>1 DEF MoreTypes
      <4>2. ASSUME NEW u \in Threads, pc'[u] = "handler", handler'[u] = g PROVE FALSE
        <5>1. u # t /\ pc[u] = "handler" /\ handler[u] = g
          BY <1>1, <2>1, <4>2 DEF Others
        <5>2. RunsIt(u, g) /\ RunsIt(t, g) /\ g \in Units
          BY <2>1, <3>1, <5>1 DEF RunsIt, Units
        <5> QED
          BY <5>1, <5>2, RunByOne
      <4> QED
        BY <4>1, <4>2
    <3>2. CASE g # handler[t]
      <4>1. status'[g] = status[g]
        BY <2>1, <3>2 DEF MoreTypes
      <4>2. \A u \in Threads : (pc[u] = "handler" /\ handler[u] = g)' <=> (pc[u] = "handler" /\ handler[u] = g)
        BY <1>1, <2>1, <3>2 DEF Others
      <4> QED
        BY <4>1, <4>2 DEF Control, Running
    <3> QED
      BY <3>1, <3>2
  <2>4. Running'
    BY <2>3 DEF Running
  <2>5. ThreadControl(t)'
    BY <1>2, <1>3, <2>1 DEF ThreadControl, InProgress
  <2> QED
    BY <1>1, <2>4, <2>5, ControlOfOthers
<1>11. CASE LeaveStrand(t)
  <2>1. PICK is_continuation \in BOOLEAN : Exit(t, is_continuation)
    BY <1>11 DEF LeaveStrand
  <2>2. pc[t] \in {"leave_strand", "strand"} /\ call[t] = <<>> /\ status' = status /\ handler' = handler
    BY <1>2, <1>11 DEF LeaveStrand, ThreadControl
  <2>3. pc'[t] = "work_cleanup"
    BY <2>1 DEF Exit, Goto, Types
  <2>4. call'[t] = <<>> \/ call'[t] = <<Work, Push(<<Strand>>)>>
    BY <2>1, <2>2, PostResult DEF Exit
  <2>5. Running'
    BY <1>1, <2>2, <2>3, SameRunning DEF Control, Others
  <2>6. Strand \in Works /\ Pending(<<Work, Push(<<Strand>>)>>) = <<Strand>>
    BY PendingForms DEF Works
  <2>7. ThreadControl(t)'
    BY <1>2, <1>3, <2>2, <2>3, <2>4, <2>6 DEF ThreadControl, InProgress
  <2> QED
    BY <1>1, <2>5, <2>7, ControlOfOthers
<1>12. CASE StrandPost(t)
  <2>1. HandOver(t, "strand")
    BY <1>12 DEF StrandPost
  <2>2. PICK h \in Handlers : /\ h = Command(t).op /\ status[h] = "new" /\ call[t] = <<>>
                              /\ status' = [status EXCEPT ![h] = "pending"]
                              /\ pc[t] \in {"app", "handler"}
    BY <2>1, HandedOver
  <2>3. /\ pc' = pc /\ handler' = handler /\ private_queue' = private_queue
        /\ call'[t] = <<>> \/ call'[t] = <<ToReady(h), Work, Push(<<Strand>>)>>
    BY <1>12, <2>2 DEF StrandPost, Calls, Types
  <2>4. Running'
    BY <2>2, <2>3 DEF Control, Running, MoreTypes
  <2>5. Strand \in Works /\ \A g : Pending(<<ToReady(g), Work, Push(<<Strand>>)>>) = <<Strand>>
    BY PendingForms DEF Works
  <2>6. ThreadControl(t)'
    BY <1>2, <1>3, <2>2, <2>3, <2>5 DEF ThreadControl, InProgress
  <2> QED
    BY <1>1, <2>4, <2>6, ControlOfOthers
<1>13. CASE PushReady(t)
  <2>1. /\ pc' = pc /\ handler' = handler /\ private_queue' = private_queue /\ status' = status
        /\ call' = [call EXCEPT ![t] = Tail(call[t])] /\ call[t] # <<>>
        /\ Is(t, "ready_queue_.push")
    BY <1>13 DEF PushReady, Calls, Is
  <2>2. call'[t] = <<Work, Push(<<Strand>>)>>
    BY <2>1, StepForms DEF Types
  <2>3. Running'
    BY <2>1, SameRunning DEF Control
  <2>4. Strand \in Works /\ Pending(<<Work, Push(<<Strand>>)>>) = <<Strand>>
    BY PendingForms DEF Works
  <2>5. ThreadControl(t)'
    BY <1>2, <1>3, <2>1, <2>2, <2>4 DEF ThreadControl, InProgress
  <2> QED
    BY <1>1, <2>3, <2>5, ControlOfOthers
<1> QED
  BY <1>6, <1>7, <1>8, <1>9, <1>10, <1>11, <1>12, <1>13 DEF StrandSteps

\* The socket, the time, a thread that wakes up by itself.
LEMMA EnvironmentControl == ASSUME Types, Control, Environment PROVE Control'
<1>1. /\ cur' = cur /\ private_queue' = private_queue /\ handler' = handler /\ status' = status
      /\ call' = call
      /\ \A u \in Threads : pc'[u] = pc[u] \/ (pc[u] = "waiting" /\ pc'[u] = "woken")
  BY DEF Environment, SocketReady, TimePasses, SpuriousWakeup, OutsideStrand, threads, Goto, Types
<1>2. ASSUME NEW u \in Threads PROVE ThreadControl(u)'
  <2>1. ThreadControl(u)
    BY DEF Control
  <2>2. Pending(call[u])' = Pending(call[u]) /\ (Uncounted(u)' <=> Uncounted(u))
    BY <1>1 DEF Pending, Uncounted, BeforeLast
  <2> QED
    BY <1>1, <2>1, <2>2 DEF ThreadControl, InProgress
<1>3. Running'
  BY <1>1, SameRunning DEF Control
<1> QED
  BY <1>2, <1>3 DEF Control


----------------------------------------------------------------------------
(* How operations move.                                                    *)

\* What a thread is about to push, by the call it is in.
LEMMA CallHolds ==
    /\ \A steps \in {<<>>, <<Signal>>, <<StopLoop>>, <<Work>>} :
          Uncounting(steps) = {} /\ Pushing(steps) = {} /\ Readying(steps) = {}
    /\ \A ops : /\ Uncounting(<<Push(ops)>>) = {} /\ Pushing(<<Push(ops)>>) = Range(ops)
                /\ Readying(<<Push(ops)>>) = {}
                /\ Uncounting(<<Work, Push(ops)>>) = Range(ops) /\ Pushing(<<Work, Push(ops)>>) = {}
                /\ Readying(<<Work, Push(ops)>>) = {}
    /\ \A h : LET steps == <<ToReady(h), Work, Push(<<Strand>>)>> IN
          Uncounting(steps) = {Strand} /\ Pushing(steps) = {} /\ Readying(steps) = {h}
<1>1. /\ Readying(<<>>) = {} /\ Readying(<<Signal>>) = {} /\ Readying(<<StopLoop>>) = {}
      /\ Readying(<<Work>>) = {}
      /\ \A ops : Readying(<<Push(ops)>>) = {} /\ Readying(<<Work, Push(ops)>>) = {}
      /\ \A h : Readying(<<ToReady(h), Work, Push(<<Strand>>)>>) = {h}
  BY DEF Readying, Signal, StopLoop, Work, Push, ToReady
<1> QED
  BY <1>1, PendingForms, Forms, FewElems DEF Uncounting, Pushing

\* Whatever a thread is about to push or has in its queue is known.
LEMMA CallCases ==
    ASSUME Types, NEW t \in Threads
    PROVE  \/ call[t] \in {<<>>, <<Signal>>, <<StopLoop>>, <<Work>>}
           \/ \E ops \in Seq(Ops) : call[t] \in {<<Push(ops)>>, <<Work, Push(ops)>>}
           \/ \E h \in Handlers : call[t] = <<ToReady(h), Work, Push(<<Strand>>)>>
<1>1. call[t] \in CallForms
  BY DEF Types
<1> QED
  BY <1>1 DEF CallForms

\* A thread has what it had.
HasSame(u) ==
    /\ Uncounting(call'[u]) = Uncounting(call[u]) /\ Pushing(call'[u]) = Pushing(call[u])
    /\ Readying(call'[u]) = Readying(call[u])
    /\ \A x \in Units : /\ x \in Range(private_queue'[u]) <=> x \in Range(private_queue[u])
                        /\ RunsIt(u, x)' <=> RunsIt(u, x)
                        /\ x \in Range(private_queue[u]) => (InProgress(u)' <=> InProgress(u))

\* A thread that keeps everything has the same at each place.
LEMMA KeepsSame == \A u \in Threads : Keeps(u) => HasSame(u)
BY DEF Keeps, HasSame

\* No operation moves.
LEMMA NothingMoves ==
    ASSUME Placed, \A u \in Threads : HasSame(u), locked' = locked,
           registered' = registered, armed' = armed,
           \A h \in Handlers : status'[h] \in {"new", "done"} <=> status[h] \in {"new", "done"},
           op_queue' = op_queue, ready_queue' = ready_queue, waiting_queue' = waiting_queue
    PROVE  Placed' /\ Where' = Where
<1>1. PICK m \in [Units -> Places] : m = Where
  BY WhereIs
<1>2. SharedAre(m)'
  <2>1. SharedAre(m)
    BY <1>1, WhereIs
  <2> QED
    BY <2>1 DEF SharedAre
<1>3. ASSUME NEW u \in Threads PROVE HeldAre(m, u)'
  <2>1. HeldAre(m, u) /\ HasSame(u)
    BY <1>1, WhereIs
  <2> QED
    BY <2>1 DEF HeldAre, HasSame
<1>4. Map(m)'
  BY <1>2, <1>3 DEF Map
<1> QED
  BY <1>1, <1>4, NextMap

\* What is pushed, and that it is signalled then if a thread waits.
LEMMA PushOpsFacts ==
    ASSUME Types, NEW t \in Threads, PushOps(t)
    PROVE  \E ops \in Seq(Ops) : /\ call[t] = <<Push(ops)>> /\ op_queue' = op_queue \o ops
                                 /\ call'[t] \in {<<>>, <<Signal>>}
<1>1. PICK ops \in Seq(Ops) : /\ call[t] = <<Push(ops)>>
                              /\ Head(call[t]).ops = ops /\ Tail(call[t]) = <<>>
  BY StepForms DEF PushOps
<1>2. <<Signal>> \o <<>> = <<Signal>>
  BY DEF Signal
<1>3. op_queue' = op_queue \o ops /\ WakeOne(t, task_interrupted, <<>>)
  BY <1>1 DEF PushOps
<1>4. call' = [call EXCEPT ![t] = <<Signal>>] \/ call' = [call EXCEPT ![t] = <<>>]
  BY <1>2, <1>3 DEF WakeOne, Calls
<1>5. call'[t] \in {<<>>, <<Signal>>}
  BY <1>4 DEF Types
<1> QED
  BY <1>1, <1>3, <1>5

\* What is counted, and pushed then.
LEMMA WorkStartedFacts ==
    ASSUME Types, NEW t \in Threads, WorkStarted(t)
    PROVE  /\ op_queue' = op_queue
           /\ \/ call'[t] = <<>>
              \/ \E ops \in Seq(Ops) : call[t] = <<Work, Push(ops)>> /\ call'[t] = <<Push(ops)>>
<1>1. call' = [call EXCEPT ![t] = Tail(call[t])] /\ Is(t, "work_started") /\ op_queue' = op_queue
  BY DEF WorkStarted, Calls
<1>2. call'[t] = Tail(call[t])
  BY <1>1 DEF Types
<1>3. \/ Tail(call[t]) = <<>>
      \/ \E ops \in Seq(Ops) : call[t] = <<Work, Push(ops)>> /\ Tail(call[t]) = <<Push(ops)>>
  BY <1>1, StepForms
<1> QED
  BY <1>1, <1>2, <1>3

\* The calls and queues of a thread, after it has moved operations from one place to
\* another.
Put(M, place, m) == [x \in Units |-> IF x \in M THEN place ELSE m[x]]

\* What has been counted is only to be pushed.
LEMMA WorkStartedMoves ==
    ASSUME Types, Placed, NEW t \in Threads, WorkStarted(t), OutsideStrand
    PROVE  Placed' /\ Where' = Put(Uncounting(call[t]), <<"pushed", t>>, Where)
<1>1. PICK m \in [Units -> Places] : m = Put(Uncounting(call[t]), <<"pushed", t>>, Where)
  BY WhereIs DEF Put, Places, Held
<1>2. /\ Uncounting(call'[t]) = {} /\ Pushing(call'[t]) = Uncounting(call[t]) /\ Pushing(call[t]) = {}
      /\ Readying(call'[t]) = {} /\ Readying(call[t]) = {}
  <2>1. call' = [call EXCEPT ![t] = Tail(call[t])] /\ Is(t, "work_started")
    BY DEF WorkStarted, Calls
  <2>2. \/ call[t] = <<Work>> /\ call'[t] = <<>>
        \/ \E ops \in Seq(Ops) : call[t] = <<Work, Push(ops)>> /\ call'[t] = <<Push(ops)>>
    BY <2>1, StepForms DEF Types
  <2>3. CASE call[t] = <<Work>> /\ call'[t] = <<>>
    BY <2>3, CallHolds
  <2>4. ASSUME NEW ops, call[t] = <<Work, Push(ops)>>, call'[t] = <<Push(ops)>>
        PROVE  /\ Uncounting(call[t]) = Range(ops) /\ Pushing(call[t]) = {} /\ Readying(call[t]) = {}
               /\ Uncounting(call'[t]) = {} /\ Pushing(call'[t]) = Range(ops) /\ Readying(call'[t]) = {}
    BY <2>4, CallHolds
  <2> QED
    BY <2>2, <2>3, <2>4
<1>3. SharedAre(Where) /\ HeldAre(Where, t)
  BY WhereIs
<1>4. SharedAre(m)'
  BY <1>1, <1>3 DEF SharedAre, HeldAre, WorkStarted, OutsideStrand, strand, Put, reactor, kernel
<1>5. /\ private_queue' = private_queue /\ (InProgress(t)' <=> InProgress(t))
      /\ \A x : RunsIt(t, x)' <=> RunsIt(t, x)
  BY DEF WorkStarted, OutsideStrand, InProgress, RunsIt, Runs, Polls
<1>6. HeldAre(m, t)'
  BY <1>1, <1>2, <1>3, <1>5 DEF HeldAre, Put
<1>7. \A u \in Threads \ {t} : Keeps(u)
  BY DEF Keeps, WorkStarted, OutsideStrand, Calls, Types, InProgress, RunsIt, Runs, Polls
<1>8. \A x \in Units : m[x] # Where[x] => Where[x] \in Near(t) /\ m[x] \in Near(t)
  BY <1>1, <1>3 DEF Put, HeldAre, Near, Held
<1>9. Placed' /\ Where' = m
  BY <1>4, <1>6, <1>7, <1>8, Moved
<1> QED
  BY <1>1, <1>9


\* It gets to op_queue_.
LEMMA PushOpsMoves ==
    ASSUME Types, Placed, NEW t \in Threads, PushOps(t), OutsideStrand
    PROVE  Placed' /\ Where' = Put(Pushing(call[t]), <<"op_queue_", Service>>, Where)
<1>1. PICK m \in [Units -> Places] : m = Put(Pushing(call[t]), <<"op_queue_", Service>>, Where)
  BY WhereIs DEF Put, Places, Shared
<1>2. /\ Uncounting(call[t]) = {} /\ Readying(call[t]) = {}
      /\ Uncounting(call'[t]) = {} /\ Pushing(call'[t]) = {} /\ Readying(call'[t]) = {}
      /\ Range(op_queue)' = Range(op_queue) \cup Pushing(call[t])
  <2>1. PICK ops \in Seq(Ops) : /\ call[t] = <<Push(ops)>> /\ op_queue' = op_queue \o ops
                                /\ call'[t] \in {<<>>, <<Signal>>}
    BY PushOpsFacts
  <2>3. op_queue' = op_queue \o ops /\ call'[t] \in {<<>>, <<Signal>>}
    BY <2>1 DEF Types
  <2>4. Range(op_queue') = Range(op_queue) \cup Range(ops)
    BY <2>3, ConcatElems DEF Types
  <2> QED
    BY <2>1, <2>3, <2>4, CallHolds
<1>3. SharedAre(Where) /\ HeldAre(Where, t)
  BY WhereIs
<1>4. SharedAre(m)'
  BY <1>1, <1>2, <1>3 DEF SharedAre, HeldAre, PushOps, OutsideStrand, strand, Put
<1>5. /\ private_queue' = private_queue /\ (InProgress(t)' <=> InProgress(t))
      /\ \A x : RunsIt(t, x)' <=> RunsIt(t, x)
  BY DEF PushOps, OutsideStrand, InProgress, RunsIt, Runs, Polls
<1>6. HeldAre(m, t)'
  BY <1>1, <1>2, <1>3, <1>5 DEF HeldAre, Put
<1>7. \A u \in Threads \ {t} : Keeps(u)
  BY DEF Keeps, PushOps, WakeOne, OutsideStrand, Calls, Types, InProgress, RunsIt, Runs, Polls
<1>8. \A x \in Units : m[x] # Where[x] => Where[x] \in Near(t) /\ m[x] \in Near(t)
  BY <1>1, <1>3 DEF Put, HeldAre, Near, Held, Shared
<1>9. Placed' /\ Where' = m
  BY <1>4, <1>6, <1>7, <1>8, Moved
<1> QED
  BY <1>1, <1>9

\* The two calls that push nothing.
LEMMA SignalForms ==
    ASSUME Types, NEW t \in Threads, Is(t, "signal_one") \/ Is(t, "stop")
    PROVE  call[t] \in {<<Signal>>, <<StopLoop>>}
<1> USE DEF Is, Work, Push, Signal, StopLoop, ToReady
<1>1. CASE call[t] \in {<<>>, <<Signal>>, <<StopLoop>>, <<Work>>}
  BY <1>1
<1>2. ASSUME NEW ops, call[t] \in {<<Push(ops)>>, <<Work, Push(ops)>>} PROVE FALSE
  BY <1>2
<1>3. ASSUME NEW h, call[t] = <<ToReady(h), Work, Push(<<Strand>>)>> PROVE FALSE
  BY <1>3
<1> HIDE DEF Is, Work, Push, Signal, StopLoop, ToReady
<1> QED
  BY <1>1, <1>2, <1>3, CallCases

\* Steps that only wake threads up.
LEMMA NothingHeld ==
    ASSUME Types, Placed, NEW t \in Threads,
           /\ SignalOne(t) \/ StopAllThreads(t)
           /\ OutsideStrand
    PROVE  Placed' /\ Where' = Where
<1>1. /\ call' = [call EXCEPT ![t] = <<>>]
      /\ cur' = cur /\ private_queue' = private_queue /\ handler' = handler /\ frame' = frame
      /\ \A u \in Threads : pc'[u] = pc[u] \/ (pc[u] = "waiting" /\ pc'[u] = "woken")
      /\ locked' = locked /\ registered' = registered /\ armed' = armed /\ status' = status
      /\ op_queue' = op_queue /\ ready_queue' = ready_queue /\ waiting_queue' = waiting_queue
  <2>1. Tail(call[t]) = <<>>
    BY StepForms DEF SignalOne, StopAllThreads
  <2>2. call' = [call EXCEPT ![t] = <<>>]
    BY <2>1 DEF SignalOne, StopAllThreads, Calls
  <2>3. \A u \in Threads : pc'[u] = pc[u] \/ (pc[u] = "waiting" /\ pc'[u] = "woken")
    BY DEF SignalOne, StopAllThreads, Goto, Types
  <2> QED
    BY <2>2, <2>3 DEF SignalOne, StopAllThreads, OutsideStrand, strand, service, reactor, kernel
<1>2. call[t] \in {<<Signal>>, <<StopLoop>>}
  BY SignalForms DEF SignalOne, StopAllThreads
<1>3. ASSUME NEW u \in Threads PROVE HasSame(u)
  <2>1. /\ Uncounting(call'[u]) = Uncounting(call[u]) /\ Pushing(call'[u]) = Pushing(call[u])
        /\ Readying(call'[u]) = Readying(call[u])
    <3>1. CASE u = t
      BY <1>1, <1>2, <3>1, CallHolds DEF Types
    <3>2. CASE u # t
      BY <1>1, <3>2
    <3> QED
      BY <3>1, <3>2
  <2>2. InProgress(u)' <=> InProgress(u)
    BY <1>1 DEF InProgress
  <2>3. \A x \in Units : RunsIt(u, x)' <=> RunsIt(u, x)
    BY <1>1 DEF RunsIt, Runs, Polls
  <2> QED
    BY <1>1, <2>1, <2>2, <2>3 DEF HasSame
<1> QED
  BY <1>1, <1>3, NothingMoves

\* A turn of the loop: what the thread has collected joins op_queue_, and the thread
\* takes its head.
Joins(t) == Range(private_queue[t]) \cup (IF pc[t] = "task_cleanup" THEN {Task} ELSE {})
Takes(t) == {x \in Units : RunsIt(t, x)'}

\* What a thread takes its turn with: the queue of the service and what it has
\* collected.
LEMMA TurnQueue ==
    ASSUME Types, Placed, Control, NoDoubles, DescriptorOnce, NEW t \in Threads, OutsideStrand,
           RunOne(t) \/ (Woken(t) /\ signalled) \/ TaskCleanup(t) \/ PushPrivate(t)
    PROVE  \E queue \in Seq(Ops) :
              /\ \E interrupted : Turn(t, queue, interrupted)
              /\ Range(queue) = Range(op_queue) \cup Joins(t) /\ Fresh(queue)
              /\ queue \in {op_queue, op_queue \o private_queue[t], op_queue \o private_queue[t] \o <<Task>>}
<1>1. /\ call[t] = <<>> /\ private_queue'[t] = <<>>
      /\ pc[t] \in {"lock", "woken", "task_cleanup", "push_private"}
      /\ \E interrupted :
           \/ Turn(t, op_queue, interrupted) /\ private_queue[t] = <<>> /\ pc[t] \in {"lock", "woken"}
           \/ Turn(t, op_queue \o private_queue[t], interrupted) /\ pc[t] = "push_private"
           \/ Turn(t, op_queue \o private_queue[t] \o <<Task>>, interrupted) /\ pc[t] = "task_cleanup"
  BY TurnBegins
<1>2. op_queue \in Seq(Ops) /\ private_queue[t] \in Seq(Ops) /\ <<Task>> \in Seq(Ops)
      /\ Range(op_queue) \subseteq Ops /\ Range(private_queue[t]) \subseteq Ops
  BY DEF Types, Ops, Range
<1>3. SharedAre(Where) /\ HeldAre(Where, t)
  BY WhereIs
<1>4. Fresh(op_queue) /\ Fresh(private_queue[t])
  BY DEF NoDoubles
<1>5. Range(op_queue) \cap Range(private_queue[t]) = {}
  <2>1. ASSUME NEW x \in Units, x \in Range(op_queue), x \in Range(private_queue[t]) PROVE FALSE
    BY <1>3, <2>1 DEF SharedAre, HeldAre
  <2>2. CASE pc[t] = "task_cleanup"
    <3>1. Descriptor \notin Range(op_queue)
      BY <2>2 DEF DescriptorOnce, Polls
    <3> QED
      BY <1>2, <2>1, <3>1 DEF Units, Ops
  <2>3. CASE pc[t] # "task_cleanup"
    <3>1. Descriptor \notin Range(private_queue[t])
      BY <1>1, <2>3 DEF DescriptorOnce
    <3> QED
      BY <1>2, <2>1, <3>1 DEF Units, Ops
  <2> QED
    BY <2>2, <2>3
<1>6. PICK q \in Seq(Ops) : /\ q = op_queue \o private_queue[t]
                            /\ Range(q) = Range(op_queue) \cup Range(private_queue[t]) /\ Fresh(q)
  BY <1>2, <1>4, <1>5, ConcatElems
<1>7. ASSUME pc[t] = "task_cleanup"
      PROVE  q \o <<Task>> \in Seq(Ops) /\ Range(q \o <<Task>>) = Range(q) \cup {Task} /\ Fresh(q \o <<Task>>)
  <2>1. Task \notin Range(q)
    <3>1. RunsIt(t, Task) /\ Task \in Units
      BY <1>7 DEF RunsIt, Polls, Units
    <3>2. Where[Task] = <<"run", t>>
      BY <1>3, <3>1 DEF HeldAre
    <3> QED
      BY <1>3, <1>6, <3>1, <3>2 DEF SharedAre, HeldAre
  <2>2. Range(<<Task>>) = {Task} /\ Fresh(<<Task>>)
    BY FewElems
  <2>3. Range(q) \cap Range(<<Task>>) = {}
    BY <2>1, <2>2
  <2> HIDE DEF Fresh
  <2>4. /\ q \o <<Task>> \in Seq(Ops)
        /\ Range(q \o <<Task>>) = Range(q) \cup Range(<<Task>>)
        /\ Fresh(q) /\ Fresh(<<Task>>) /\ Range(q) \cap Range(<<Task>>) = {} => Fresh(q \o <<Task>>)
    BY <1>2, ConcatElems
  <2> QED
    BY <1>6, <2>2, <2>3, <2>4
<1>8. CASE pc[t] \in {"lock", "woken"}
  <2>1. Joins(t) = {}
    BY <1>1, <1>8, FewElems DEF Joins
  <2> QED
    BY <1>1, <1>2, <1>4, <1>8, <2>1
<1>9. CASE pc[t] = "push_private"
  <2>1. Joins(t) = Range(private_queue[t])
    BY <1>9 DEF Joins
  <2> QED
    BY <1>1, <1>6, <1>9, <2>1
<1>10. CASE pc[t] = "task_cleanup"
  <2>1. Joins(t) = Range(private_queue[t]) \cup {Task}
    BY <1>10 DEF Joins
  <2>2. \E interrupted : Turn(t, q \o <<Task>>, interrupted)
    BY <1>1, <1>6, <1>10
  <2>3. Range(q \o <<Task>>) = Range(op_queue) \cup Joins(t)
    BY <1>6, <1>7, <1>10, <2>1
  <2> QED
    BY <1>6, <1>7, <1>10, <2>2, <2>3
<1> QED
  BY <1>1, <1>8, <1>9, <1>10

\* A turn runs the first in the queue, after what the thread has handed back.
LEMMA TurnMoves ==
    ASSUME Types, Placed, Control, NoDoubles, DescriptorOnce, NEW t \in Threads, OutsideStrand, Others(t),
           RunOne(t) \/ (Woken(t) /\ signalled) \/ TaskCleanup(t) \/ PushPrivate(t)
    PROVE  /\ Placed'
           /\ Where' = Put(Takes(t), <<"run", t>>, Put(Joins(t), <<"op_queue_", Service>>, Where))
           /\ Takes(t) \subseteq Range(op_queue) \cup Joins(t)
           /\ Fresh(op_queue)'
<1>1. /\ call[t] = <<>> /\ private_queue'[t] = <<>>
      /\ pc[t] \in {"lock", "woken", "task_cleanup", "push_private"}
  BY TurnBegins
<1>2. PICK queue \in Seq(Ops) : /\ \E interrupted : Turn(t, queue, interrupted)
                                /\ Range(queue) = Range(op_queue) \cup Joins(t) /\ Fresh(queue)
  BY TurnQueue
<1>3. /\ call'[t] \in {<<>>, <<Signal>>}
      /\ \/ pc'[t] \in {"returned", "waiting"} /\ op_queue' = queue /\ cur'[t] = cur[t]
         \/ /\ queue # <<>> /\ op_queue' = Tail(queue) /\ cur'[t].op = Head(queue)
            /\ pc'[t] \in (IF Head(queue) = Task THEN {"poll", "poll_block"} ELSE {"complete"})
  BY <1>1, <1>2, TurnResult
<1>4. queue # <<>> =>
         /\ Head(queue) \in Ops /\ Range(queue) = {Head(queue)} \cup Range(Tail(queue))
         /\ Head(queue) \notin Range(Tail(queue)) /\ Fresh(Tail(queue))
  BY <1>2, TailElems
<1>5. \A x \in Units : x \in Takes(t) <=> pc'[t] \notin {"returned", "waiting"} /\ x = Head(queue)
  BY <1>3, HandlersAssumption DEF Takes, RunsIt, Runs, Polls, Task, Strand, Units
<1>6. /\ Takes(t) \subseteq Range(queue)
      /\ \A x \in Units : x \in Range(op_queue)' <=> x \in Range(queue) /\ x \notin Takes(t)
  BY <1>3, <1>4, <1>5 DEF Takes
<1>7. PICK m \in [Units -> Places] :
         m = Put(Takes(t), <<"run", t>>, Put(Joins(t), <<"op_queue_", Service>>, Where))
  BY WhereIs DEF Put, Places, Shared, Held
<1>8. SharedAre(Where) /\ HeldAre(Where, t)
  BY WhereIs
<1>9. /\ registered' = registered /\ armed' = armed /\ status' = status /\ locked' = locked
      /\ ready_queue' = ready_queue /\ waiting_queue' = waiting_queue
  BY DEF RunOne, Woken, TaskCleanup, PushPrivate, TurnUnchanged, OutsideStrand, strand
<1>10. \A x \in Units : x \in Joins(t) <=> Where[x] = <<"moved", t>> \/ (x = Task /\ Where[x] = <<"run", t>>)
  <2>1. ~InProgress(t)
    BY <1>1 DEF InProgress
  <2>2. \A x \in Units : RunsIt(t, x) <=> pc[t] = "task_cleanup" /\ x = Task
    BY <1>1 DEF RunsIt, Runs, Polls
  <2>3. Task \in Units
    BY DEF Units
  <2>4. \A x \in Units : x \in Range(private_queue[t]) <=> Where[x] = <<"moved", t>>
    BY <1>8, <2>1 DEF HeldAre
  <2>5. \A x \in Units : Where[x] = <<"run", t>> <=> pc[t] = "task_cleanup" /\ x = Task
    BY <1>8, <2>2 DEF HeldAre
  <2> QED
    BY <2>3, <2>4, <2>5 DEF Joins
<1>11. SharedAre(m)'
  <2>1. ASSUME NEW x \in Units
        PROVE  /\ m[x] = <<"op_queue_", Service>> <=> x \in Range(op_queue)'
               /\ \A kind \in Shared \ {"op_queue_"} : m[x] = <<kind, Service>> <=> Where[x] = <<kind, Service>>
    <3>1. Where[x] = <<"op_queue_", Service>> <=> x \in Range(op_queue)
      BY <1>8 DEF SharedAre
    <3>2. CASE x \in Takes(t)
      <4>1. m[x] = <<"run", t>> /\ x \in Range(op_queue) \cup Joins(t) /\ x \notin Range(op_queue)'
        BY <1>2, <1>6, <1>7, <3>2 DEF Put
      <4>2. \A kind \in Shared : m[x] # <<kind, Service>>
        BY <4>1 DEF Shared
      <4>3. \A kind \in Shared \ {"op_queue_"} : Where[x] # <<kind, Service>>
        BY <1>10, <3>1, <4>1 DEF Shared
      <4> QED
        BY <4>1, <4>2, <4>3 DEF Shared
    <3>3. CASE x \notin Takes(t) /\ x \in Joins(t)
      <4>1. m[x] = <<"op_queue_", Service>> /\ x \in Range(op_queue)'
        BY <1>2, <1>6, <1>7, <3>3 DEF Put
      <4>2. \A kind \in Shared \ {"op_queue_"} : Where[x] # <<kind, Service>>
        BY <1>10, <3>3 DEF Shared
      <4> QED
        BY <4>1, <4>2
    <3>4. CASE x \notin Takes(t) /\ x \notin Joins(t)
      <4>1. m[x] = Where[x] /\ (x \in Range(op_queue)' <=> x \in Range(op_queue))
        BY <1>2, <1>6, <1>7, <3>4 DEF Put
      <4> QED
        BY <3>1, <4>1
    <3> QED
      BY <3>2, <3>3, <3>4
  <2> QED
    BY <1>8, <1>9, <2>1 DEF SharedAre, Shared
<1>12. HeldAre(m, t)'
  <2>1. /\ Uncounting(call[t]) = {} /\ Pushing(call[t]) = {} /\ Readying(call[t]) = {}
        /\ Uncounting(call'[t]) = {} /\ Pushing(call'[t]) = {} /\ Readying(call'[t]) = {}
    BY <1>1, <1>3, CallHolds
  <2>2. Range(private_queue'[t]) = {}
    BY <1>1, FewElems
  <2>3. \A x \in Units : m[x] = <<"run", t>> <=> RunsIt(t, x)'
    <3>1. \A x \in Units : RunsIt(t, x) => x \in Joins(t)
      BY <1>1 DEF RunsIt, Runs, Polls, Joins
    <3>2. \A x \in Units : Where[x] = <<"run", t>> => x \in Joins(t)
      BY <1>8, <3>1 DEF HeldAre
    <3> QED
      BY <1>7, <3>2 DEF Put, Takes
  <2>4. ASSUME NEW x \in Units
        PROVE  /\ m[x] # <<"uncounted", t>> /\ m[x] # <<"pushed", t>> /\ m[x] # <<"to_ready", t>>
               /\ m[x] # <<"private", t>> /\ m[x] # <<"moved", t>>
    <3>1. /\ Where[x] # <<"uncounted", t>> /\ Where[x] # <<"pushed", t>> /\ Where[x] # <<"to_ready", t>>
          /\ Where[x] # <<"private", t>>
      BY <1>1, <1>8, <2>1 DEF HeldAre, InProgress
    <3>2. Where[x] = <<"moved", t>> => x \in Joins(t)
      BY <1>10
    <3>3. m[x] \in {<<"run", t>>, <<"op_queue_", Service>>} \/ (m[x] = Where[x] /\ x \notin Joins(t))
      BY <1>7 DEF Put
    <3> QED
      BY <3>1, <3>2, <3>3
  <2> QED
    BY <2>1, <2>2, <2>3, <2>4 DEF HeldAre
<1>13. \A x \in Units : m[x] # Where[x] => Where[x] \in Near(t) /\ m[x] \in Near(t)
  BY <1>2, <1>6, <1>7, <1>8, <1>10 DEF Put, SharedAre, Near, Held, Shared
<1>14. Placed' /\ Where' = m
  BY <1>11, <1>12, <1>13, OthersKeep, Moved
<1> QED
  BY <1>2, <1>3, <1>4, <1>6, <1>7, <1>14

\* Steps of the loop that leave everything where it is.
LEMMA LoopStays ==
    ASSUME Types, Placed, Control, NEW t \in Threads, OutsideStrand, Others(t),
           \/ Run(t) \/ (Woken(t) /\ ~signalled) \/ Poll(t)
           \/ PerformIo(t) /\ pc'[t] = "work_cleanup"
    PROVE  Placed' /\ Where' = Where
<1>1. ThreadControl(t)
  BY DEF Control
<1>2. /\ locked' = locked /\ registered' = registered /\ armed' = armed /\ status' = status
      /\ op_queue' = op_queue /\ ready_queue' = ready_queue /\ waiting_queue' = waiting_queue
  <2>1. CASE PerformIo(t) /\ pc'[t] = "work_cleanup"
    BY <2>1 DEF PerformIo, Types, service, OutsideStrand, strand
  <2> QED
    BY <2>1 DEF Run, Woken, Poll, service, OutsideStrand, strand, reactor, kernel
<1>3. Descriptor \notin Units
  BY HandlersAssumption DEF Units, Task, Strand, Descriptor
<1>4. HasSame(t)
  <2>1. CASE Run(t) \/ (Woken(t) /\ ~signalled)
    <3>1. /\ call[t] = <<>> /\ cur' = cur /\ private_queue' = private_queue
          /\ pc[t] \in {"run", "woken"} /\ pc'[t] \in {"returned", "lock", "waiting"}
          /\ call'[t] \in {<<>>, <<StopLoop>>}
      BY <1>1, <2>1 DEF Run, Woken, Goto, Calls, Types, ThreadControl
    <3> QED
      BY <3>1, CallHolds DEF HasSame, InProgress, RunsIt, Runs, Polls
  <2>2. CASE Poll(t)
    <3>1. /\ pc[t] \in {"poll", "poll_block"} /\ call' = call /\ cur' = cur
          /\ pc'[t] \in {"check_timers", "task_cleanup"}
          /\ private_queue'[t] \in {private_queue[t], Append(private_queue[t], Descriptor)}
      BY <2>2 DEF Poll, Goto, Types
    <3>2. \A x \in Units : x \in Range(private_queue'[t]) <=> x \in Range(private_queue[t])
      <4>1. Range(Append(private_queue[t], Descriptor)) = Range(private_queue[t]) \cup {Descriptor}
        <5>1. private_queue[t] \in Seq(Ops) /\ Descriptor \in Ops
          BY DEF Types, Ops
        <5> QED
          BY <5>1, AppendElems
      <4> QED
        BY <1>3, <3>1, <4>1
    <3> QED
      BY <3>1, <3>2 DEF HasSame, InProgress, RunsIt, Runs, Polls
  <2>3. CASE PerformIo(t) /\ pc'[t] = "work_cleanup"
    <3>1. /\ pc[t] = "complete" /\ call[t] = <<>> /\ cur[t].op = Descriptor
          /\ call' = [call EXCEPT ![t] = <<Work>>] /\ cur' = cur /\ private_queue' = private_queue
      BY <2>3 DEF PerformIo, Types, Calls, Returned
    <3>2. call'[t] = <<Work>>
      BY <3>1 DEF Types
    <3>3. \A x \in Units : ~RunsIt(t, x) /\ ~RunsIt(t, x)'
      BY <1>3, <2>3, <3>1 DEF RunsIt, Runs, Polls, Units
    <3> QED
      BY <2>3, <3>1, <3>2, <3>3, CallHolds DEF HasSame, InProgress
  <2> QED
    BY <2>1, <2>2, <2>3
<1>5. \A u \in Threads : HasSame(u)
  BY <1>4, OthersKeep, KeepsSame
<1> QED
  BY <1>2, <1>5, NothingMoves

\* work_cleanup leaves the private queue to be moved.
LEMMA WorkCleanupMoves ==
    ASSUME Types, Placed, NEW t \in Threads, OutsideStrand, Others(t), WorkCleanup(t)
    PROVE  Placed' /\ Where' = Put(Range(private_queue[t]), <<"moved", t>>, Where)
<1>1. PICK m \in [Units -> Places] : m = Put(Range(private_queue[t]), <<"moved", t>>, Where)
  BY WhereIs DEF Put, Places, Held
<1>2. SharedAre(Where) /\ HeldAre(Where, t)
  BY WhereIs
<1>3. /\ pc[t] = "work_cleanup" /\ call[t] = <<>> /\ cur' = cur /\ private_queue' = private_queue
      /\ pc'[t] \in {"lock", "push_private"} /\ call'[t] \in {<<>>, <<StopLoop>>}
      /\ locked' = locked /\ registered' = registered /\ armed' = armed /\ status' = status
      /\ op_queue' = op_queue /\ ready_queue' = ready_queue /\ waiting_queue' = waiting_queue
  BY DEF WorkCleanup, Goto, Calls, Types, Returned, OutsideStrand, strand, reactor, kernel
<1>4. \A x \in Units : /\ x \in Range(private_queue[t]) <=> Where[x] = <<"private", t>>
                       /\ Where[x] # <<"moved", t>>
                       /\ ~RunsIt(t, x) /\ ~RunsIt(t, x)'
  BY <1>2, <1>3 DEF HeldAre, InProgress, RunsIt, Runs, Polls
<1>5. SharedAre(m)'
  BY <1>1, <1>2, <1>3, <1>4 DEF SharedAre, Put
<1>6. HeldAre(m, t)'
  BY <1>1, <1>2, <1>3, <1>4, CallHolds DEF HeldAre, Put, InProgress
<1>7. \A x \in Units : m[x] # Where[x] => Where[x] \in Near(t) /\ m[x] \in Near(t)
  BY <1>1, <1>4 DEF Put, Near, Held
<1>8. Placed' /\ Where' = m
  BY <1>5, <1>6, <1>7, OthersKeep, Moved
<1> QED
  BY <1>1, <1>8

\* The operations of the timers that are due are collected.
LEMMA CheckTimersMoves ==
    ASSUME Types, Placed, NEW t \in Threads, OutsideStrand, Others(t), CheckTimers(t)
    PROVE  /\ Placed' /\ Where' = Put(armed \cap due, <<"moved", t>>, Where)
           /\ \E ready \in Seq(Ops) : /\ private_queue'[t] = private_queue[t] \o ready
                                      /\ Range(ready) = armed \cap due /\ Fresh(ready)
<1>1. PICK m \in [Units -> Places] : m = Put(armed \cap due, <<"moved", t>>, Where)
  BY WhereIs DEF Put, Places, Held
<1>2. SharedAre(Where) /\ HeldAre(Where, t)
  BY WhereIs
<1>3. PICK ready \in Seq(Ops) : /\ private_queue'[t] = private_queue[t] \o ready
                                /\ Range(ready) = armed \cap due /\ Fresh(ready)
  <2>1. IsFiniteSet(armed \cap due)
    BY HandlersAssumption, FS_Subset DEF Types
  <2>2. PICK ready \in [1..Cardinality(armed \cap due) -> armed \cap due] :
           /\ \A h \in armed \cap due : \E k \in DOMAIN ready : ready[k] = h
           /\ private_queue' = [private_queue EXCEPT ![t] = @ \o ready]
    BY DEF CheckTimers
  <2>3. ready \in Seq(armed \cap due) /\ Range(ready) = armed \cap due /\ Fresh(ready)
    BY <2>1, <2>2, ListElems
  <2>4. armed \cap due \subseteq Ops
    BY DEF Types, Ops
  <2>5. ready \in Seq(Ops)
    BY <2>3, <2>4
  <2> QED
    BY <2>2, <2>3, <2>5 DEF Types
<1>4. /\ pc[t] = "check_timers" /\ call' = call /\ pc'[t] = "task_cleanup"
      /\ locked' = locked /\ registered' = registered /\ armed' = armed \ due /\ status' = status
      /\ op_queue' = op_queue /\ ready_queue' = ready_queue /\ waiting_queue' = waiting_queue
      /\ Range(private_queue'[t]) = Range(private_queue[t]) \cup (armed \cap due)
  <2>1. Range(private_queue[t] \o ready) = Range(private_queue[t]) \cup Range(ready)
    BY <1>3, ConcatElems DEF Types
  <2> QED
    BY <1>3, <2>1 DEF CheckTimers, Goto, Types, OutsideStrand, strand, service
<1>5. \A x \in Units : RunsIt(t, x)' <=> RunsIt(t, x)
  BY <1>4 DEF RunsIt, Runs, Polls
<1>6. SharedAre(m)'
  BY <1>1, <1>2, <1>4 DEF SharedAre, Put
<1>7. HeldAre(m, t)'
  BY <1>1, <1>2, <1>4, <1>5 DEF SharedAre, HeldAre, Put, InProgress
<1>8. \A x \in Units : m[x] # Where[x] => Where[x] \in Near(t) /\ m[x] \in Near(t)
  BY <1>1, <1>2 DEF Put, SharedAre, Near, Held, Shared
<1>9. Placed' /\ Where' = m
  BY <1>6, <1>7, <1>8, OthersKeep, Moved
<1> QED
  BY <1>1, <1>3, <1>9

\* An operation of the socket that is done is completed by the thread, a second one is
\* to be pushed.
LEMMA PerformIoMoves ==
    ASSUME Types, Placed, NEW t \in Threads, OutsideStrand, Others(t), PerformIo(t),
           pc'[t] # "work_cleanup"
    PROVE  \E h \in registered :
              /\ cur'[t].op = h /\ Placed'
              /\ \/ call'[t] = <<>> /\ Where' = Put({h}, <<"run", t>>, Where)
                 \/ \E g \in registered \ {h} :
                       /\ call'[t] = <<Push(<<g>>)>>
                       /\ Where' = Put({g}, <<"pushed", t>>, Put({h}, <<"run", t>>, Where))
<1>1. /\ pc[t] = "complete" /\ call[t] = <<>> /\ cur[t].op = Descriptor
      /\ private_queue' = private_queue /\ armed' = armed /\ status' = status
      /\ op_queue' = op_queue /\ locked' = locked /\ ready_queue' = ready_queue
      /\ waiting_queue' = waiting_queue /\ pc'[t] \in {"complete", "work_cleanup"}
  BY DEF PerformIo, Returned, service, OutsideStrand, strand, Goto, Types
<1>2. PICK h \in registered :
         /\ cur' = [cur EXCEPT ![t].op = h] /\ pc' = pc
         /\ \/ call' = call /\ registered' = registered \ {h}
            \/ \E g \in registered \ {h} :
                  call' = [call EXCEPT ![t] = <<Push(<<g>>)>>] /\ registered' = registered \ {h, g}
  <2>1. PICK done \in Performed(cur[t].events \cap avail) :
           /\ registered' = registered \ done
           /\ \/ pc' = [pc EXCEPT ![t] = "work_cleanup"]
              \/ \E h \in done :
                    /\ (\E g \in done : Via(g) = "write") => Via(h) = "write"
                    /\ cur' = [cur EXCEPT ![t].op = h]
                    /\ \/ done = {h} /\ UNCHANGED call
                       \/ \E g \in done \ {h} : call' = [call EXCEPT ![t] = <<Push(<<g>>)>>]
                    /\ UNCHANGED pc
    BY DEF PerformIo, Goto, Calls
  <2>2. PICK h \in done :
           /\ (\E g \in done : Via(g) = "write") => Via(h) = "write"
           /\ cur' = [cur EXCEPT ![t].op = h]
           /\ \/ done = {h} /\ UNCHANGED call
              \/ \E g \in done \ {h} : call' = [call EXCEPT ![t] = <<Push(<<g>>)>>]
           /\ UNCHANGED pc
    BY <2>1 DEF Types
  <2>3. done \subseteq registered /\ done \subseteq Handlers
    BY DEF Performed, Types
  <2>4. ASSUME NEW g \in done \ {h} PROVE done = {h, g}
    <3>1. \A x \in done : Via(x) \in Events
      BY DEF Performed, Types, Events
    <3>2. \A x, y \in done : Via(x) = Via(y) => x = y
      BY DEF Performed
    <3> QED
      BY <2>4, <3>1, <3>2 DEF Events
  <2> QED
    BY <2>1, <2>2, <2>3, <2>4
<1>3. /\ cur'[t].op = h /\ h \in Units /\ h \in Handlers
      /\ \A x \in Units : RunsIt(t, x)' <=> x = h
  <2>1. cur'[t].op = h /\ h \in Handlers /\ h # Strand
    BY <1>2, HandlersAssumption DEF Types, Strand
  <2> QED
    BY <1>1, <1>2, <2>1 DEF RunsIt, Runs, Polls, Units
<1>4. SharedAre(Where) /\ HeldAre(Where, t)
  BY WhereIs
<1>5. Descriptor \notin Units
  BY HandlersAssumption DEF Units, Task, Strand, Descriptor
<1>6. \A x \in Units : ~RunsIt(t, x)
  BY <1>1, <1>5 DEF RunsIt, Runs, Polls, Units
<1>7. CASE call' = call /\ registered' = registered \ {h}
  <2>1. PICK m \in [Units -> Places] : m = Put({h}, <<"run", t>>, Where)
    BY WhereIs DEF Put, Places, Held
  <2>2. SharedAre(m)'
    BY <1>1, <1>3, <1>4, <1>7, <2>1 DEF SharedAre, Put
  <2>3. HeldAre(m, t)'
    <3>1. /\ Uncounting(call[t]) = {} /\ Pushing(call[t]) = {} /\ Readying(call[t]) = {}
          /\ Uncounting(call'[t]) = {} /\ Pushing(call'[t]) = {} /\ Readying(call'[t]) = {}
      BY <1>1, <1>7, CallHolds
    <3>2. m[h] = <<"run", t>> /\ Where[h] = <<"registered", Service>>
          /\ \A x \in Units \ {h} : m[x] = Where[x]
      BY <1>3, <1>4, <2>1 DEF Put, SharedAre
    <3> QED
      BY <1>1, <1>2, <1>3, <1>4, <1>6, <3>1, <3>2 DEF HeldAre, InProgress
  <2>4. \A x \in Units : m[x] # Where[x] => Where[x] \in Near(t) /\ m[x] \in Near(t)
    BY <1>3, <1>4, <2>1 DEF Put, SharedAre, Near, Held, Shared
  <2>5. Placed' /\ Where' = m
    BY <2>2, <2>3, <2>4, OthersKeep, Moved
  <2> QED
    BY <1>1, <1>3, <1>7, <2>1, <2>5
<1>8. ASSUME NEW g \in registered \ {h}, call' = [call EXCEPT ![t] = <<Push(<<g>>)>>],
             registered' = registered \ {h, g}
      PROVE  /\ Placed' /\ call'[t] = <<Push(<<g>>)>>
             /\ Where' = Put({g}, <<"pushed", t>>, Put({h}, <<"run", t>>, Where))
  <2>1. PICK m \in [Units -> Places] : m = Put({g}, <<"pushed", t>>, Put({h}, <<"run", t>>, Where))
    BY WhereIs DEF Put, Places, Held
  <2>2. SharedAre(m)'
    BY <1>1, <1>3, <1>4, <1>8, <2>1 DEF SharedAre, Put
  <2>3. call'[t] = <<Push(<<g>>)>> /\ g \in Handlers
    BY <1>8 DEF Types
  <2>4. Uncounting(call'[t]) = {} /\ Pushing(call'[t]) = {g} /\ Readying(call'[t]) = {}
    BY <2>3, CallHolds, FewElems
  <2>5. Uncounting(call[t]) = {} /\ Pushing(call[t]) = {} /\ Readying(call[t]) = {}
    BY <1>1, CallHolds
  <2>6. HeldAre(m, t)'
    <3>1. /\ g # h /\ g \in Units
          /\ m[h] = <<"run", t>> /\ Where[h] = <<"registered", Service>>
          /\ m[g] = <<"pushed", t>> /\ Where[g] = <<"registered", Service>>
          /\ \A x \in Units \ {h, g} : m[x] = Where[x]
      BY <1>3, <1>4, <1>8, <2>1, <2>3 DEF Put, SharedAre, Units
    <3>2. private_queue'[t] = private_queue[t] /\ (InProgress(t)' <=> InProgress(t))
      BY <1>1, <1>2 DEF InProgress
    <3>3. ASSUME NEW x \in Units \ {h, g}
          PROVE  /\ m[x] # <<"uncounted", t>> /\ m[x] # <<"pushed", t>> /\ m[x] # <<"to_ready", t>>
                 /\ m[x] = <<"private", t>> <=> InProgress(t) /\ x \in Range(private_queue[t])
                 /\ m[x] = <<"moved", t>> <=> ~InProgress(t) /\ x \in Range(private_queue[t])
                 /\ m[x] # <<"run", t>>
      BY <1>4, <1>6, <2>5, <3>1 DEF HeldAre
    <3>4. h \notin Range(private_queue[t]) /\ g \notin Range(private_queue[t])
      BY <1>3, <1>4, <3>1 DEF HeldAre
    <3> QED
      BY <1>3, <2>4, <3>1, <3>2, <3>3, <3>4 DEF HeldAre
  <2>7. \A x \in Units : m[x] # Where[x] => Where[x] \in Near(t) /\ m[x] \in Near(t)
    BY <1>3, <1>4, <1>8, <2>1 DEF Put, SharedAre, Near, Held, Shared
  <2>8. Placed' /\ Where' = m
    BY <2>2, <2>6, <2>7, OthersKeep, Moved
  <2> QED
    BY <2>1, <2>3, <2>8
<1> QED
  BY <1>2, <1>3, <1>7, <1>8


\* A handler is handed over: it goes to the private queue or is about to be pushed.
Posted(t, h) ==
    \/ /\ t \in Runners /\ call'[t] = <<>> /\ private_work'[t] = private_work[t] + 1
       /\ private_queue'[t] = Append(private_queue[t], h)
       /\ Where' = Put({h}, <<"private", t>>, Where)
    \/ /\ call'[t] = <<Work, Push(<<h>>)>> /\ private_work'[t] = private_work[t]
       /\ private_queue'[t] = private_queue[t]
       /\ Where' = Put({h}, <<"uncounted", t>>, Where)

\* What is posted goes to the private queue, or is still to be counted.
LEMMA PostMoves ==
    ASSUME Types, MoreTypes, Placed, Control, NEW t \in Threads, Others(t), call[t] = <<>>,
           pc[t] \in {"app", "handler"}, pc' = pc, cur' = cur, handler' = handler, frame' = frame,
           NEW h \in Handlers, status[h] = "new", status' = [status EXCEPT ![h] = "pending"],
           NEW is_continuation, PostImmediate(t, h, is_continuation, <<>>),
           registered' = registered, armed' = armed, op_queue' = op_queue, locked' = locked,
           ready_queue' = ready_queue, waiting_queue' = waiting_queue
    PROVE  Placed' /\ Posted(t, h)
<1>1. SharedAre(Where) /\ HeldAre(Where, t)
  BY WhereIs
<1>2. h \in Units /\ Where[h] = <<"nowhere", Service>>
  BY <1>1 DEF Units, SharedAre
<1>3. \A x \in Units : RunsIt(t, x)' <=> RunsIt(t, x)
  BY DEF RunsIt, Runs, Polls
<1>4. \A x \in Handlers \ {h} : status'[x] = status[x]
  BY DEF MoreTypes
<1>5. status'[h] = "pending"
  BY DEF MoreTypes
<1>6. ASSUME NEW place, NEW m \in [Units -> Places], m = Put({h}, place, Where), place \in Held \X {t}
      PROVE  /\ SharedAre(m)' /\ m[h] = place /\ \A x \in Units \ {h} : m[x] = Where[x]
             /\ \A x \in Units : m[x] # Where[x] => Where[x] \in Near(t) /\ m[x] \in Near(t)
  <2>1. m[h] = place /\ \A x \in Units \ {h} : m[x] = Where[x]
    BY <1>2, <1>6 DEF Put
  <2>2. \A kind \in Shared : place # <<kind, Service>>
    BY <1>6 DEF Held, Shared
  <2>3. ASSUME NEW x \in Units \ {h}
        PROVE  (x \in Handlers /\ status'[x] \in {"new", "done"}) <=> (x \in Handlers /\ status[x] \in {"new", "done"})
    BY <1>4
  <2>4. h # Strand
    BY HandlersAssumption DEF Strand
  <2>5. /\ h \notin Range(op_queue) /\ h \notin registered /\ h \notin armed
        /\ h \notin Range(ready_queue) /\ h \notin Range(waiting_queue)
    BY <1>1, <1>2 DEF SharedAre
  <2>6. /\ m[h] # <<"nowhere", Service>> /\ m[h] # <<"op_queue_", Service>>
        /\ m[h] # <<"registered", Service>> /\ m[h] # <<"armed", Service>>
        /\ m[h] # <<"ready_queue_", Service>> /\ m[h] # <<"waiting_queue_", Service>>
    BY <2>1, <2>2 DEF Shared
  <2>7. ~((h \in Handlers /\ status'[h] \in {"new", "done"}) \/ (h = Strand /\ ~locked))
    BY <1>5, <2>4
  <2>8. SharedAre(m)'
    <3> SUFFICES ASSUME NEW x \in Units
                 PROVE  /\ m[x] = <<"nowhere", Service>> <=> (x \in Handlers /\ status'[x] \in {"new", "done"})
                                                            \/ (x = Strand /\ ~locked')
                        /\ m[x] = <<"op_queue_", Service>> <=> x \in Range(op_queue')
                        /\ m[x] = <<"registered", Service>> <=> x \in registered'
                        /\ m[x] = <<"armed", Service>> <=> x \in armed'
                        /\ m[x] = <<"ready_queue_", Service>> <=> x \in Range(ready_queue')
                        /\ m[x] = <<"waiting_queue_", Service>> <=> x \in Range(waiting_queue')
      BY DEF SharedAre
    <3>1. CASE x = h
      BY <2>5, <2>6, <2>7, <3>1
    <3>2. CASE x # h
      BY <1>1, <2>1, <2>3, <3>2 DEF SharedAre
    <3> QED
      BY <3>1, <3>2
  <2>9. place \in Near(t) /\ Where[h] \in Near(t)
    BY <1>2, <1>6 DEF Near, Shared
  <2> QED
    BY <2>1, <2>8, <2>9
<1>7. CASE /\ t \in Runners /\ call'[t] = <<>> /\ private_work'[t] = private_work[t] + 1
           /\ private_queue'[t] = Append(private_queue[t], h)
  <2>1. PICK m \in [Units -> Places] : m = Put({h}, <<"private", t>>, Where)
    BY WhereIs DEF Put, Places, Held
  <2>2. <<"private", t>> \in Held \X {t}
    BY DEF Held
  <2>3. /\ SharedAre(m)' /\ m[h] = <<"private", t>> /\ \A x \in Units \ {h} : m[x] = Where[x]
        /\ \A x \in Units : m[x] # Where[x] => Where[x] \in Near(t) /\ m[x] \in Near(t)
    <3> DEFINE place == <<"private", t>>
    <3>1. place \in Held \X {t}
      BY <2>2
    <3>2. m = Put({h}, place, Where)
      BY <2>1
    <3> HIDE DEF place
    <3>3. /\ SharedAre(m)' /\ m[h] = place /\ \A x \in Units \ {h} : m[x] = Where[x]
          /\ \A x \in Units : m[x] # Where[x] => Where[x] \in Near(t) /\ m[x] \in Near(t)
      BY <1>6, <3>1, <3>2
    <3> QED
      BY <3>3 DEF place
  <2>4. InProgress(t) /\ InProgress(t)'
    BY <1>7, ThreadsAssumption DEF Control, ThreadControl, InProgress
  <2>5. Range(private_queue'[t]) = Range(private_queue[t]) \cup {h}
    <3>1. private_queue[t] \in Seq(Ops) /\ h \in Ops
      BY DEF Types, Ops
    <3> QED
      BY <1>7, <3>1, AppendElems
  <2>6. /\ Uncounting(call[t]) = {} /\ Pushing(call[t]) = {} /\ Readying(call[t]) = {}
        /\ Uncounting(call'[t]) = {} /\ Pushing(call'[t]) = {} /\ Readying(call'[t]) = {}
    BY <1>7, CallHolds
  <2>7. ~RunsIt(t, h)
    BY <1>1, <1>2 DEF HeldAre
  <2>8. HeldAre(m, t)'
    BY <1>1, <1>2, <1>3, <2>3, <2>4, <2>5, <2>6, <2>7 DEF HeldAre
  <2>9. Placed' /\ Where' = m
    BY <2>3, <2>8, OthersKeep, Moved
  <2> QED
    BY <1>7, <2>1, <2>9 DEF Posted
<1>8. CASE /\ call'[t] = <<Work, Push(<<h>>)>> /\ private_work'[t] = private_work[t]
           /\ private_queue'[t] = private_queue[t]
  <2>1. PICK m \in [Units -> Places] : m = Put({h}, <<"uncounted", t>>, Where)
    BY WhereIs DEF Put, Places, Held
  <2>2. <<"uncounted", t>> \in Held \X {t}
    BY DEF Held
  <2>3. /\ SharedAre(m)' /\ m[h] = <<"uncounted", t>> /\ \A x \in Units \ {h} : m[x] = Where[x]
        /\ \A x \in Units : m[x] # Where[x] => Where[x] \in Near(t) /\ m[x] \in Near(t)
    <3> DEFINE place == <<"uncounted", t>>
    <3>1. place \in Held \X {t}
      BY <2>2
    <3>2. m = Put({h}, place, Where)
      BY <2>1
    <3> HIDE DEF place
    <3>3. /\ SharedAre(m)' /\ m[h] = place /\ \A x \in Units \ {h} : m[x] = Where[x]
          /\ \A x \in Units : m[x] # Where[x] => Where[x] \in Near(t) /\ m[x] \in Near(t)
      BY <1>6, <3>1, <3>2
    <3> QED
      BY <3>3 DEF place
  <2>4. InProgress(t)' <=> InProgress(t)
    BY DEF InProgress
  <2>5. /\ Uncounting(call[t]) = {} /\ Pushing(call[t]) = {} /\ Readying(call[t]) = {}
        /\ Uncounting(call'[t]) = {h} /\ Pushing(call'[t]) = {} /\ Readying(call'[t]) = {}
    BY <1>8, CallHolds, FewElems
  <2>6. ~RunsIt(t, h) /\ h \notin Range(private_queue[t])
    BY <1>1, <1>2 DEF HeldAre
  <2>7. HeldAre(m, t)'
    BY <1>1, <1>2, <1>3, <1>8, <2>3, <2>4, <2>5, <2>6 DEF HeldAre
  <2>8. Placed' /\ Where' = m
    BY <2>3, <2>7, OthersKeep, Moved
  <2> QED
    BY <1>8, <2>1, <2>8 DEF Posted
<1> QED
  BY <1>7, <1>8, PostResult

\* An operation of a socket or of a timer waits for it.
LEMMA WaitMoves ==
    ASSUME Types, MoreTypes, Placed, NEW t \in Threads, Others(t),
           call' = call, private_queue' = private_queue, pc' = pc, cur' = cur, handler' = handler,
           frame' = frame,
           NEW h \in Handlers, status[h] = "new", status' = [status EXCEPT ![h] = "pending"],
           op_queue' = op_queue, locked' = locked,
           ready_queue' = ready_queue, waiting_queue' = waiting_queue,
           NEW kind,
           \/ kind = "registered" /\ registered' = registered \cup {h} /\ armed' = armed
           \/ kind = "armed" /\ armed' = armed \cup {h} /\ registered' = registered
    PROVE  Placed' /\ Where' = Put({h}, <<kind, Service>>, Where)
<1>1. SharedAre(Where) /\ HeldAre(Where, t)
  BY WhereIs
<1>2. h \in Units /\ Where[h] = <<"nowhere", Service>> /\ h # Strand
  BY <1>1, HandlersAssumption DEF Units, SharedAre, Strand
<1>3. PICK m \in [Units -> Places] : m = Put({h}, <<kind, Service>>, Where)
  BY WhereIs DEF Put, Places, Shared
<1>4. /\ m[h] = <<kind, Service>> /\ \A x \in Units \ {h} : m[x] = Where[x]
      /\ status'[h] = "pending" /\ \A x \in Handlers \ {h} : status'[x] = status[x]
  BY <1>2, <1>3 DEF Put, MoreTypes
<1>5. SharedAre(m)'
  BY <1>1, <1>2, <1>4 DEF SharedAre
<1>6. Keeps(t)
  BY DEF Keeps, RunsIt, Runs, Polls, InProgress
<1>7. HeldAre(m, t)'
  <2>1. HeldAre(m, t)
    BY <1>1, <1>2, <1>4 DEF HeldAre
  <2> QED
    BY <1>6, <2>1 DEF HeldAre, Keeps
<1>8. \A x \in Units : m[x] # Where[x] => Where[x] \in Near(t) /\ m[x] \in Near(t)
  BY <1>2, <1>4 DEF Near, Shared
<1>9. Placed' /\ Where' = m
  BY <1>5, <1>7, <1>8, OthersKeep, Moved
<1> QED
  BY <1>3, <1>9

\* Operations that are cancelled are to be pushed.
LEMMA CancelMoves ==
    ASSUME Types, Placed, NEW t \in Threads, Others(t), call[t] = <<>>,
           private_queue' = private_queue, pc' = pc, cur' = cur, handler' = handler,
           frame' = frame, status' = status, op_queue' = op_queue, locked' = locked,
           ready_queue' = ready_queue, waiting_queue' = waiting_queue,
           NEW M \in SUBSET Handlers,
           Uncounting(call'[t]) = {}, Pushing(call'[t]) = M, Readying(call'[t]) = {},
           \/ M \subseteq registered /\ registered' = registered \ M /\ armed' = armed
           \/ M \subseteq armed /\ armed' = armed \ M /\ registered' = registered
    PROVE  Placed' /\ Where' = Put(M, <<"pushed", t>>, Where)
<1>1. SharedAre(Where) /\ HeldAre(Where, t)
  BY WhereIs
<1>2. \A x \in M : x \in Units /\ Where[x] \in {<<"registered", Service>>, <<"armed", Service>>}
  BY <1>1 DEF Units, SharedAre
<1>3. PICK m \in [Units -> Places] : m = Put(M, <<"pushed", t>>, Where)
  BY WhereIs DEF Put, Places, Held
<1>4. /\ \A x \in M : m[x] = <<"pushed", t>>
      /\ \A x \in Units \ M : m[x] = Where[x]
  BY <1>2, <1>3 DEF Put
<1>5. SharedAre(m)'
  <2>1. ASSUME NEW x \in M
        PROVE  /\ x \notin Range(op_queue) /\ x \notin Range(ready_queue) /\ x \notin Range(waiting_queue)
               /\ ~(x \in Handlers /\ status[x] \in {"new", "done"}) /\ ~(x = Strand /\ ~locked)
               /\ x \notin registered' /\ x \notin armed'
    BY <1>1, <1>2 DEF SharedAre
  <2>2. \A x \in Units \ M : (x \in registered' <=> x \in registered) /\ (x \in armed' <=> x \in armed)
    OBVIOUS
  <2> QED
    BY <1>1, <1>4, <2>1, <2>2 DEF SharedAre
<1>6. \A x \in Units : RunsIt(t, x)' <=> RunsIt(t, x)
  BY DEF RunsIt, Runs, Polls
<1>7. HeldAre(m, t)'
  <2>1. Uncounting(call[t]) = {} /\ Pushing(call[t]) = {} /\ Readying(call[t]) = {}
    BY CallHolds
  <2>2. InProgress(t)' <=> InProgress(t)
    BY DEF InProgress
  <2>3. \A x \in M : x \notin Range(private_queue[t]) /\ ~RunsIt(t, x)
    BY <1>1, <1>2 DEF HeldAre
  <2>4. ASSUME NEW x \in Units \ M
        PROVE  /\ m[x] # <<"uncounted", t>> /\ m[x] # <<"pushed", t>> /\ m[x] # <<"to_ready", t>>
               /\ m[x] = <<"private", t>> <=> InProgress(t) /\ x \in Range(private_queue[t])
               /\ m[x] = <<"moved", t>> <=> ~InProgress(t) /\ x \in Range(private_queue[t])
               /\ m[x] = <<"run", t>> <=> RunsIt(t, x)
    BY <1>1, <1>4, <2>1 DEF HeldAre
  <2> QED
    BY <1>4, <1>6, <2>2, <2>3, <2>4 DEF HeldAre
<1>8. \A x \in Units : m[x] # Where[x] => Where[x] \in Near(t) /\ m[x] \in Near(t)
  BY <1>2, <1>4 DEF Near, Shared, Held
<1>9. Placed' /\ Where' = m
  BY <1>5, <1>7, <1>8, OthersKeep, Moved
<1> QED
  BY <1>3, <1>9


\* A thread completes an operation: a handler that is not wrapped, or the strand.
LEMMA CompleteStays ==
    ASSUME Types, MoreTypes, Placed, NEW t \in Threads, Others(t),
           CompleteHandler(t) \/ CompleteStrand(t)
    PROVE  Placed' /\ Where' = Where
<1>1. SharedAre(Where) /\ HeldAre(Where, t)
  BY WhereIs
<1>2. /\ locked' = locked /\ registered' = registered /\ armed' = armed /\ call' = call
      /\ op_queue' = op_queue /\ ready_queue' = ready_queue /\ waiting_queue' = waiting_queue
      /\ private_queue' = private_queue /\ pc[t] = "complete"
  BY DEF CompleteHandler, CompleteStrand, InsideStrand, strand, service, reactor, kernel
<1>3. HasSame(t) /\ \A h \in Handlers : status'[h] \in {"new", "done"} <=> status[h] \in {"new", "done"}
  <2>1. CASE CompleteHandler(t)
    <3>1. PICK h \in Handlers : /\ cur[t].op = h /\ h # Strand /\ status' = [status EXCEPT ![h] = "running"]
                                /\ handler'[t] = h /\ frame'[t] = "loop" /\ pc'[t] = "handler"
      BY <2>1, HandlersAssumption DEF CompleteHandler, Invoke, Goto, Types, MoreTypes, Strand
    <3>2. RunsIt(t, h) /\ h \in Units
      BY <1>2, <3>1 DEF RunsIt, Units
    <3>3. status[h] \notin {"new", "done"}
      BY <1>1, <3>1, <3>2 DEF SharedAre, HeldAre
    <3>4. \A x \in Units : RunsIt(t, x)' <=> RunsIt(t, x)
      BY <1>2, <3>1 DEF RunsIt, Runs, Polls
    <3> QED
      BY <1>2, <3>1, <3>3, <3>4 DEF HasSame, InProgress, MoreTypes
  <2>2. CASE CompleteStrand(t)
    <3>1. cur[t].op = Strand /\ pc'[t] = "strand" /\ status' = status
      BY <2>2 DEF CompleteStrand, Goto, Types
    <3>2. \A x \in Units : RunsIt(t, x)' <=> RunsIt(t, x)
      BY <1>2, <3>1, HandlersAssumption DEF RunsIt, Runs, Polls, Strand
    <3> QED
      BY <1>2, <3>1, <3>2 DEF HasSame, InProgress
  <2> QED
    BY <2>1, <2>2
<1>4. \A u \in Threads : HasSame(u)
  BY <1>3, OthersKeep, KeepsSame
<1> QED
  BY <1>2, <1>3, <1>4, NothingMoves

\* Where the strand and its handlers can be while the thread is in the strand, and
\* whether an operation is at such a place.
InStrandAt(place, t) ==
    place \in {<<"nowhere", Service>>, <<"ready_queue_", Service>>, <<"waiting_queue_", Service>>, <<"run", t>>}
IsAt(place, t, x) ==
    /\ place = <<"nowhere", Service>> <=> (x \in Handlers /\ status[x] \in {"new", "done"})
                                         \/ (x = Strand /\ ~locked)
    /\ place = <<"ready_queue_", Service>> <=> x \in Range(ready_queue)
    /\ place = <<"waiting_queue_", Service>> <=> x \in Range(waiting_queue)
    /\ place = <<"run", t>> <=> RunsIt(t, x)
SameAt(t, x) ==
    /\ x \in Handlers => (status'[x] \in {"new", "done"} <=> status[x] \in {"new", "done"})
    /\ x = Strand => (locked' <=> locked)
    /\ x \in Range(ready_queue)' <=> x \in Range(ready_queue)
    /\ x \in Range(waiting_queue)' <=> x \in Range(waiting_queue)
    /\ RunsIt(t, x)' <=> RunsIt(t, x)

\* The strand and its handlers are rearranged.
LEMMA Rearranged ==
    ASSUME Placed, NEW t \in Threads, Others(t), NEW M \in SUBSET Units, NEW m \in [Units -> Places],
           call' = call, InProgress(t)' <=> InProgress(t), private_queue' = private_queue,
           op_queue' = op_queue, registered' = registered, armed' = armed,
           \A x \in Units \ M : m[x] = Where[x] /\ SameAt(t, x),
           \A x \in M : InStrandAt(Where[x], t) /\ InStrandAt(m[x], t) /\ IsAt(m[x], t, x)'
    PROVE  Placed' /\ Where' = m
<1>1. SharedAre(Where) /\ HeldAre(Where, t)
  BY WhereIs
<1>2. ASSUME NEW x \in M
      PROVE  /\ x \notin Range(op_queue) /\ x \notin registered /\ x \notin armed
             /\ x \notin Uncounting(call[t]) /\ x \notin Pushing(call[t]) /\ x \notin Readying(call[t])
             /\ x \notin Range(private_queue[t])
             /\ m[x] # <<"op_queue_", Service>> /\ m[x] # <<"registered", Service>> /\ m[x] # <<"armed", Service>>
             /\ m[x] # <<"uncounted", t>> /\ m[x] # <<"pushed", t>> /\ m[x] # <<"to_ready", t>>
             /\ m[x] # <<"private", t>> /\ m[x] # <<"moved", t>>
             /\ Where[x] \in Near(t) /\ m[x] \in Near(t)
             /\ IsAt(m[x], t, x)'
  <2>1. InStrandAt(Where[x], t) /\ InStrandAt(m[x], t) /\ IsAt(m[x], t, x)'
    OBVIOUS
  <2>2. \A kind \in {"op_queue_", "registered", "armed"} : Where[x] # <<kind, Service>> /\ m[x] # <<kind, Service>>
    BY <2>1 DEF InStrandAt
  <2>3. \A kind \in Held \ {"run"} : Where[x] # <<kind, t>> /\ m[x] # <<kind, t>>
    BY <2>1 DEF InStrandAt, Held
  <2>4. x \notin Range(op_queue) /\ x \notin registered /\ x \notin armed
    BY <1>1, <2>2 DEF SharedAre
  <2>5. /\ x \notin Uncounting(call[t]) /\ x \notin Pushing(call[t]) /\ x \notin Readying(call[t])
        /\ x \notin Range(private_queue[t])
    BY <1>1, <2>3 DEF HeldAre, Held
  <2>6. Where[x] \in Near(t) /\ m[x] \in Near(t)
    BY <2>1 DEF InStrandAt, Near, Shared, Held
  <2> QED
    BY <2>1, <2>2, <2>3, <2>4, <2>5, <2>6 DEF Held
<1>3. SharedAre(m)'
  <2>1. ASSUME NEW x \in Units \ M
        PROVE  /\ m[x] = <<"nowhere", Service>> <=> (x \in Handlers /\ status'[x] \in {"new", "done"})
                                                   \/ (x = Strand /\ ~locked')
               /\ m[x] = <<"op_queue_", Service>> <=> x \in Range(op_queue)'
               /\ m[x] = <<"registered", Service>> <=> x \in registered'
               /\ m[x] = <<"armed", Service>> <=> x \in armed'
               /\ m[x] = <<"ready_queue_", Service>> <=> x \in Range(ready_queue)'
               /\ m[x] = <<"waiting_queue_", Service>> <=> x \in Range(waiting_queue)'
    BY <1>1 DEF SharedAre, SameAt
  <2> QED
    BY <1>2, <2>1 DEF SharedAre, IsAt
<1>4. HeldAre(m, t)'
  <2>1. ASSUME NEW x \in Units \ M
        PROVE  /\ m[x] = <<"uncounted", t>> <=> x \in Uncounting(call[t])
               /\ m[x] = <<"pushed", t>> <=> x \in Pushing(call[t])
               /\ m[x] = <<"to_ready", t>> <=> x \in Readying(call[t])
               /\ m[x] = <<"private", t>> <=> InProgress(t) /\ x \in Range(private_queue[t])
               /\ m[x] = <<"moved", t>> <=> ~InProgress(t) /\ x \in Range(private_queue[t])
               /\ m[x] = <<"run", t>> <=> RunsIt(t, x)'
    BY <1>1 DEF HeldAre, SameAt
  <2> QED
    BY <1>2, <2>1 DEF HeldAre, IsAt
<1>5. \A x \in Units : m[x] # Where[x] => Where[x] \in Near(t) /\ m[x] \in Near(t)
  BY <1>2
<1> QED
  BY <1>3, <1>4, <1>5, OthersKeep, Moved

\* The strand is entered, or the handler waits for it.
LEMMA DispatchMoves ==
    ASSUME Types, MoreTypes, Placed, NEW t \in Threads, Others(t), Dispatch(t)
    PROVE  /\ Placed'
           /\ IF locked THEN Where' = Put({cur[t].op}, <<"waiting_queue_", Service>>, Where)
              ELSE Where' = Put({Strand}, <<"run", t>>, Where)
<1>1. SharedAre(Where) /\ HeldAre(Where, t)
  BY WhereIs
<1>2. PICK h \in Handlers : h = cur[t].op
  BY DEF Dispatch
<1>3. /\ h \in Units /\ Strand \in Units /\ h # Strand /\ Strand \notin Handlers
      /\ h # Task /\ Task # Strand /\ Task \notin Handlers
  BY HandlersAssumption DEF Units, Task, Strand
<1>4. /\ call' = call /\ private_queue' = private_queue /\ op_queue' = op_queue
      /\ registered' = registered /\ armed' = armed /\ ready_queue' = ready_queue
      /\ cur' = cur /\ pc[t] = "complete" /\ pc'[t] \in {"work_cleanup", "handler"}
  BY DEF Dispatch, Invoke, Goto, Types, InsideStrand, service, reactor, kernel
<1>5. InProgress(t)' <=> InProgress(t)
  BY <1>4 DEF InProgress
<1>6. \A x \in Units : RunsIt(t, x) <=> x = h
  BY <1>2, <1>3, <1>4 DEF RunsIt, Runs, Polls, Units
<1>7. Where[h] = <<"run", t>> /\ status[h] \notin {"new", "done"}
      /\ h \notin Range(waiting_queue) /\ h \notin Range(ready_queue)
  BY <1>1, <1>3, <1>6 DEF HeldAre, SharedAre
<1>8. CASE locked
  <2>1. PICK m \in [Units -> Places] : m = Put({h}, <<"waiting_queue_", Service>>, Where)
    BY WhereIs DEF Put, Places, Shared
  <2>2. m[h] = <<"waiting_queue_", Service>> /\ \A x \in Units \ {h} : m[x] = Where[x]
    BY <1>3, <2>1 DEF Put
  <2>3. /\ Range(waiting_queue') = Range(waiting_queue) \cup {h} /\ status' = status /\ locked' = locked
        /\ pc'[t] = "work_cleanup"
    <3>1. waiting_queue' = Append(waiting_queue, h) /\ waiting_queue \in Seq(Handlers)
      BY <1>2, <1>8 DEF Dispatch, Types
    <3> QED
      BY <1>8, <3>1, AppendElems DEF Dispatch, Goto, Types
  <2>4. \A x \in Units : ~RunsIt(t, x)'
    BY <2>3 DEF RunsIt, Runs, Polls
  <2>5. {h} \in SUBSET Units
    BY <1>3
  <2>6. ASSUME NEW x \in {h}
        PROVE  InStrandAt(Where[x], t) /\ InStrandAt(m[x], t) /\ IsAt(m[x], t, x)'
    BY <1>3, <1>4, <1>7, <2>2, <2>3, <2>4 DEF InStrandAt, IsAt
  <2>7. \A x \in Units \ {h} : SameAt(t, x)
    BY <1>4, <1>6, <2>3, <2>4 DEF SameAt
  <2>8. Placed' /\ Where' = m
    BY <1>4, <1>5, <2>2, <2>5, <2>6, <2>7, Rearranged
  <2> QED
    BY <1>2, <1>8, <2>1, <2>8
<1>9. CASE ~locked
  <2>1. PICK m \in [Units -> Places] : m = Put({Strand}, <<"run", t>>, Where)
    BY WhereIs DEF Put, Places, Held
  <2>2. m[Strand] = <<"run", t>> /\ \A x \in Units \ {Strand} : m[x] = Where[x]
    BY <1>3, <2>1 DEF Put
  <2>3. /\ waiting_queue' = waiting_queue /\ locked' = TRUE /\ pc'[t] = "handler" /\ handler'[t] = h
        /\ frame'[t] = "dispatch" /\ status' = [status EXCEPT ![h] = "running"]
    BY <1>2, <1>9 DEF Dispatch, Invoke, Goto, Types, MoreTypes
  <2>4. \A x \in Units : RunsIt(t, x)' <=> x \in {h, Strand}
    BY <1>3, <2>3 DEF RunsIt, Runs, Polls, Units
  <2>5. {Strand} \in SUBSET Units
    BY <1>3
  <2>6. Where[Strand] = <<"nowhere", Service>>
    BY <1>1, <1>3, <1>9 DEF SharedAre
  <2>7. Strand \notin Range(ready_queue) /\ Strand \notin Range(waiting_queue)
    BY <1>1, <1>3, <2>6 DEF SharedAre
  <2>8. \A x \in Handlers : status'[x] \in {"new", "done"} <=> status[x] \in {"new", "done"}
    BY <1>7, <2>3 DEF MoreTypes
  <2>9. ASSUME NEW x \in {Strand}
        PROVE  InStrandAt(Where[x], t) /\ InStrandAt(m[x], t) /\ IsAt(m[x], t, x)'
    <3>1. InStrandAt(Where[Strand], t)
      BY <2>6 DEF InStrandAt
    <3>2. InStrandAt(m[Strand], t)
      BY <2>2 DEF InStrandAt
    <3>3. Strand \notin Range(ready_queue') /\ Strand \notin Range(waiting_queue')
      BY <1>4, <2>3, <2>7
    <3>4. RunsIt(t, Strand)' /\ Strand \notin Handlers
      BY <1>3, <2>4
    <3>5. IsAt(m[Strand], t, Strand)'
      BY <2>2, <2>3, <3>3, <3>4 DEF IsAt
    <3> QED
      BY <3>1, <3>2, <3>5
  <2>10. \A x \in Units \ {Strand} : SameAt(t, x)
    BY <1>4, <1>6, <2>3, <2>4, <2>8 DEF SameAt
  <2>11. Placed' /\ Where' = m
    BY <1>4, <1>5, <2>2, <2>5, <2>9, <2>10, Rearranged
  <2> QED
    BY <1>9, <2>1, <2>11
<1> QED
  BY <1>8, <1>9


\* The strand calls the next handler that is ready.
LEMMA RunReadyMoves ==
    ASSUME Types, MoreTypes, Placed, NoDoubles, NEW t \in Threads, Others(t), RunReady(t)
    PROVE  Placed' /\ Where' = Put({Head(ready_queue)}, <<"run", t>>, Where)
<1>1. SharedAre(Where) /\ HeldAre(Where, t)
  BY WhereIs
<1>2. PICK h \in Handlers : /\ h = Head(ready_queue) /\ Range(ready_queue) = {h} \cup Range(Tail(ready_queue))
                            /\ h \notin Range(Tail(ready_queue))
  BY TailElems DEF RunReady, Types, NoDoubles
<1>3. /\ h \in Units /\ Strand \in Units /\ h # Strand /\ Strand \notin Handlers
      /\ h # Task /\ Task # Strand /\ Task \notin Handlers
  BY HandlersAssumption DEF Units, Task, Strand
<1>4. /\ call' = call /\ private_queue' = private_queue /\ op_queue' = op_queue
      /\ registered' = registered /\ armed' = armed /\ waiting_queue' = waiting_queue
      /\ ready_queue' = Tail(ready_queue) /\ locked' = locked
      /\ cur' = cur /\ pc[t] = "strand" /\ pc'[t] = "handler" /\ handler'[t] = h
      /\ frame'[t] = "do_complete" /\ status' = [status EXCEPT ![h] = "running"]
  BY <1>2 DEF RunReady, Invoke, Goto, Types, MoreTypes, InsideStrand, service, reactor, kernel
<1>5. InProgress(t)' <=> InProgress(t)
  BY <1>4 DEF InProgress
<1>6. \A x \in Units : /\ RunsIt(t, x) <=> x = Strand
                       /\ RunsIt(t, x)' <=> x \in {h, Strand}
  BY <1>3, <1>4 DEF RunsIt, Runs, Polls, Units
<1>7. Where[h] = <<"ready_queue_", Service>>
  BY <1>1, <1>2, <1>3 DEF SharedAre
<1>8. h \notin Range(waiting_queue) /\ status[h] \notin {"new", "done"}
  BY <1>1, <1>3, <1>7 DEF SharedAre
<1>9. PICK m \in [Units -> Places] : m = Put({h}, <<"run", t>>, Where)
  BY WhereIs DEF Put, Places, Held
<1>10. m[h] = <<"run", t>> /\ \A x \in Units \ {h} : m[x] = Where[x]
  BY <1>3, <1>9 DEF Put
<1>11. \A x \in Handlers : status'[x] \in {"new", "done"} <=> status[x] \in {"new", "done"}
  BY <1>4, <1>8 DEF MoreTypes
<1>12. status'[h] = "running"
  BY <1>4 DEF MoreTypes
<1>13. ASSUME NEW x \in {h}
       PROVE  InStrandAt(Where[x], t) /\ InStrandAt(m[x], t) /\ IsAt(m[x], t, x)'
  <2>1. /\ h \notin Range(ready_queue)' /\ h \notin Range(waiting_queue)'
        /\ ~((h \in Handlers /\ status'[h] \in {"new", "done"}) \/ (h = Strand /\ ~locked'))
        /\ RunsIt(t, h)'
    BY <1>2, <1>3, <1>4, <1>6, <1>8, <1>12
  <2>2. Where[h] = <<"ready_queue_", Service>> /\ m[h] = <<"run", t>>
    BY <1>7, <1>10
  <2> QED
    BY <2>1, <2>2 DEF InStrandAt, IsAt
<1>14. \A x \in Units \ {h} : SameAt(t, x)
  BY <1>2, <1>4, <1>6, <1>11 DEF SameAt
<1>15. {h} \in SUBSET Units
  BY <1>3
<1>16. Placed' /\ Where' = m
  BY <1>4, <1>5, <1>10, <1>13, <1>14, <1>15, Rearranged
<1> QED
  BY <1>2, <1>9, <1>16

\* A handler returns.
LEMMA HandlerEndsMoves ==
    ASSUME Types, MoreTypes, Placed, Control, NEW t \in Threads, Others(t), HandlerEnds(t)
    PROVE  Placed' /\ Where' = Put({handler[t]}, <<"nowhere", Service>>, Where)
<1>1. SharedAre(Where) /\ HeldAre(Where, t)
  BY WhereIs
<1>2. PICK h \in Handlers : h = handler[t]
  BY DEF Control, ThreadControl, HandlerEnds
<1>3. /\ h \in Units /\ Strand \in Units /\ h # Strand /\ Strand \notin Handlers
      /\ h # Task /\ Task # Strand /\ Task \notin Handlers
  BY HandlersAssumption DEF Units, Task, Strand
<1>4. /\ call' = call /\ private_queue' = private_queue /\ op_queue' = op_queue
      /\ registered' = registered /\ armed' = armed /\ waiting_queue' = waiting_queue
      /\ ready_queue' = ready_queue /\ locked' = locked
      /\ cur' = cur /\ pc[t] = "handler" /\ status' = [status EXCEPT ![h] = "done"]
      /\ pc'[t] = CASE frame[t] = "loop" -> "work_cleanup"
                    [] frame[t] = "dispatch" -> "leave_strand"
                    [] frame[t] = "do_complete" -> "strand"
  BY <1>2 DEF HandlerEnds, Goto, Types, InsideStrand, service, reactor, kernel, strand
<1>5. frame[t] \in {"loop", "dispatch", "do_complete"}
  BY DEF Types
<1>6. InProgress(t)' <=> InProgress(t)
  BY <1>4, <1>5 DEF InProgress
<1>7. \A x \in Units : /\ RunsIt(t, x) <=> x = h \/ (x = Strand /\ frame[t] # "loop")
                       /\ RunsIt(t, x)' <=> x = Strand /\ frame[t] # "loop"
  BY <1>2, <1>3, <1>4, <1>5 DEF RunsIt, Runs, Polls, Units
<1>8. Where[h] = <<"run", t>>
  BY <1>1, <1>3, <1>7 DEF HeldAre
<1>9. h \notin Range(waiting_queue) /\ h \notin Range(ready_queue)
  BY <1>1, <1>3, <1>8 DEF SharedAre
<1>10. PICK m \in [Units -> Places] : m = Put({h}, <<"nowhere", Service>>, Where)
  BY WhereIs DEF Put, Places, Shared
<1>11. m[h] = <<"nowhere", Service>> /\ \A x \in Units \ {h} : m[x] = Where[x]
  BY <1>3, <1>10 DEF Put
<1>12. status'[h] = "done" /\ \A x \in Handlers \ {h} : status'[x] = status[x]
  BY <1>4 DEF MoreTypes
<1>13. ASSUME NEW x \in {h}
       PROVE  InStrandAt(Where[x], t) /\ InStrandAt(m[x], t) /\ IsAt(m[x], t, x)'
  BY <1>3, <1>4, <1>7, <1>8, <1>9, <1>11, <1>12 DEF InStrandAt, IsAt
<1>14. \A x \in Units \ {h} : SameAt(t, x)
  BY <1>4, <1>7, <1>12 DEF SameAt
<1>15. {h} \in SUBSET Units
  BY <1>3
<1>16. Placed' /\ Where' = m
  BY <1>4, <1>6, <1>11, <1>13, <1>14, <1>15, Rearranged
<1> QED
  BY <1>2, <1>10, <1>16

\* The strand is left: unlocked, or still to be counted and pushed, or in the private
\* queue.
Left(t) ==
    IF ~locked' THEN <<"nowhere", Service>>
    ELSE IF call'[t] = <<>> THEN <<"private", t>> ELSE <<"uncounted", t>>

\* What leaving the strand does: it is scheduled again if its ready queue is not empty.
LEMMA LeaveStrandFacts ==
    ASSUME Types, MoreTypes, Placed, Control, NEW t \in Threads, Others(t), LeaveStrand(t)
    PROVE  /\ call[t] = <<>> /\ pc[t] \in {"strand", "leave_strand"} /\ pc'[t] = "work_cleanup"
           /\ cur' = cur /\ op_queue' = op_queue /\ registered' = registered /\ armed' = armed
           /\ status' = status /\ handler' = handler /\ frame' = frame
           /\ waiting_queue' = <<>> /\ ready_queue' = ready_queue \o waiting_queue
           /\ Range(ready_queue)' = Range(ready_queue) \cup Range(waiting_queue)
           /\ locked' \in BOOLEAN
           /\ locked' <=> ready_queue' # <<>>
           /\ \/ ~locked' /\ call'[t] = <<>> /\ private_queue'[t] = private_queue[t]
                 /\ private_work'[t] = private_work[t]
              \/ /\ locked' /\ t \in Runners /\ call'[t] = <<>>
                 /\ private_queue'[t] = Append(private_queue[t], Strand)
                 /\ private_work'[t] = private_work[t] + 1
              \/ locked' /\ call'[t] = <<Work, Push(<<Strand>>)>> /\ private_queue'[t] = private_queue[t]
                 /\ private_work'[t] = private_work[t]
<1>1. PICK is_continuation \in BOOLEAN : Exit(t, is_continuation)
  BY DEF LeaveStrand
<1>2. pc[t] \in {"strand", "leave_strand"} /\ call[t] = <<>>
  BY DEF LeaveStrand, Control, ThreadControl
<1>3. ready_queue' = ready_queue \o waiting_queue
  BY <1>1 DEF Exit
<1>4. Range(ready_queue') = Range(ready_queue) \cup Range(waiting_queue)
  BY <1>3, ConcatElems DEF Types
<1>5. locked' = (ready_queue' # <<>>)
  BY <1>1 DEF Exit
<1>6. CASE locked'
  <2>1. PostImmediate(t, Strand, is_continuation, <<>>)
    BY <1>1, <1>6 DEF Exit
  <2>2. \/ /\ t \in Runners /\ call'[t] = <<>> /\ private_work'[t] = private_work[t] + 1
           /\ private_queue'[t] = Append(private_queue[t], Strand)
        \/ /\ call'[t] = <<Work, Push(<<Strand>>)>> /\ private_work'[t] = private_work[t]
           /\ private_queue'[t] = private_queue[t]
    BY <1>2, <2>1, PostResult
  <2> QED
    BY <1>1, <1>2, <1>3, <1>4, <1>5, <1>6, <2>2 DEF LeaveStrand, Exit, Goto, Types, InsideStrand, service, reactor, kernel
<1>7. CASE ~locked'
  BY <1>1, <1>2, <1>3, <1>4, <1>5, <1>7 DEF LeaveStrand, Exit, Goto, Types, InsideStrand, service, reactor, kernel
<1> QED
  BY <1>6, <1>7

\* What waited becomes ready, and the strand is posted.
LEMMA LeaveStrandMoves ==
    ASSUME Types, MoreTypes, Placed, Control, NEW t \in Threads, Others(t), LeaveStrand(t)
    PROVE  /\ Placed'
           /\ Where' = Put({Strand}, Left(t), Put(Range(waiting_queue), <<"ready_queue_", Service>>, Where))
<1>1. SharedAre(Where) /\ HeldAre(Where, t)
  BY WhereIs
<1>2. /\ call[t] = <<>> /\ pc[t] \in {"strand", "leave_strand"} /\ pc'[t] = "work_cleanup"
      /\ cur' = cur /\ op_queue' = op_queue /\ registered' = registered /\ armed' = armed
      /\ status' = status
      /\ waiting_queue' = <<>> /\ ready_queue' = ready_queue \o waiting_queue
      /\ Range(ready_queue)' = Range(ready_queue) \cup Range(waiting_queue)
      /\ \/ ~locked' /\ call'[t] = <<>> /\ private_queue'[t] = private_queue[t]
         \/ locked' /\ call'[t] = <<>> /\ private_queue'[t] = Append(private_queue[t], Strand)
         \/ locked' /\ call'[t] = <<Work, Push(<<Strand>>)>> /\ private_queue'[t] = private_queue[t]
  BY LeaveStrandFacts
<1>3. Strand \in Units /\ Strand \notin Handlers /\ Task # Strand
  BY HandlersAssumption DEF Units, Task, Strand
<1>4. \A x \in Units : (RunsIt(t, x) <=> x = Strand) /\ ~RunsIt(t, x)'
  BY <1>2, <1>3 DEF RunsIt, Runs, Polls, Units
<1>5. Where[Strand] = <<"run", t>>
  BY <1>1, <1>3, <1>4 DEF HeldAre
<1>6. PICK place : place = Left(t)
  OBVIOUS
<1>7. place \in Places /\ place \in Near(t)
  BY <1>6 DEF Left, Places, Near, Shared, Held
<1>8. PICK m \in [Units -> Places] :
        m = Put({Strand}, place, Put(Range(waiting_queue), <<"ready_queue_", Service>>, Where))
  BY <1>7, WhereIs DEF Put, Places, Shared
<1>9. /\ m[Strand] = place /\ Strand \notin Range(waiting_queue)
      /\ \A x \in Units \ {Strand} :
            m[x] = IF x \in Range(waiting_queue) THEN <<"ready_queue_", Service>> ELSE Where[x]
  BY <1>1, <1>3, <1>5, <1>8 DEF Put, SharedAre
<1>10. \A x \in Units : x \in Range(waiting_queue) <=> Where[x] = <<"waiting_queue_", Service>>
  BY <1>1 DEF SharedAre
<1>11. /\ Strand \notin Range(op_queue) /\ Strand \notin registered /\ Strand \notin armed
       /\ Strand \notin Range(ready_queue) /\ Strand \notin Range(private_queue[t])
       /\ locked
  BY <1>1, <1>3, <1>5 DEF SharedAre, HeldAre
<1>12. Range(waiting_queue') = {}
  BY <1>2, FewElems
<1>13. place = <<"nowhere", Service>> <=> ~locked'
  BY <1>6 DEF Left
<1>14. /\ place # <<"op_queue_", Service>> /\ place # <<"registered", Service>> /\ place # <<"armed", Service>>
       /\ place # <<"ready_queue_", Service>> /\ place # <<"waiting_queue_", Service>>
       /\ place # <<"pushed", t>> /\ place # <<"to_ready", t>> /\ place # <<"moved", t>> /\ place # <<"run", t>>
       /\ place = <<"private", t>> <=> locked' /\ call'[t] = <<>>
       /\ place = <<"uncounted", t>> <=> locked' /\ call'[t] # <<>>
  BY <1>6 DEF Left
<1>15. SharedAre(m)'
  <2>1. ASSUME NEW x \in Units \ {Strand}
        PROVE  /\ m[x] = <<"nowhere", Service>> <=> x \in Handlers /\ status[x] \in {"new", "done"}
               /\ m[x] = <<"op_queue_", Service>> <=> x \in Range(op_queue)
               /\ m[x] = <<"registered", Service>> <=> x \in registered
               /\ m[x] = <<"armed", Service>> <=> x \in armed
               /\ m[x] = <<"ready_queue_", Service>> <=> x \in Range(ready_queue) \cup Range(waiting_queue)
               /\ m[x] # <<"waiting_queue_", Service>>
    BY <1>1, <1>9, <1>10 DEF SharedAre
  <2> QED
    BY <1>2, <1>3, <1>9, <1>11, <1>12, <1>13, <1>14, <2>1 DEF SharedAre
<1>16. HeldAre(m, t)'
  <2>1. InProgress(t) /\ InProgress(t)'
    BY <1>2 DEF InProgress
  <2>2. Uncounting(call[t]) = {} /\ Pushing(call[t]) = {} /\ Readying(call[t]) = {}
    BY <1>2, CallHolds
  <2>3. ASSUME NEW x \in Units \ {Strand}
        PROVE  /\ m[x] # <<"uncounted", t>> /\ m[x] # <<"pushed", t>> /\ m[x] # <<"to_ready", t>>
               /\ m[x] = <<"private", t>> <=> x \in Range(private_queue[t])
               /\ m[x] # <<"moved", t>> /\ m[x] # <<"run", t>>
    BY <1>1, <1>4, <1>9, <1>10, <2>1, <2>2 DEF HeldAre
  <2>4. Range(Append(private_queue[t], Strand)) = Range(private_queue[t]) \cup {Strand}
    <3>1. private_queue[t] \in Seq(Ops) /\ Strand \in Ops
      BY DEF Types, Ops
    <3> QED
      BY <3>1, AppendElems
  <2>5. /\ Pushing(call'[t]) = {} /\ Readying(call'[t]) = {}
        /\ Uncounting(call'[t]) = IF call'[t] = <<>> THEN {} ELSE {Strand}
        /\ Range(private_queue'[t]) = Range(private_queue[t])
                                        \cup (IF locked' /\ call'[t] = <<>> THEN {Strand} ELSE {})
    <3>1. <<Work, Push(<<Strand>>)>> # <<>>
      OBVIOUS
    <3>2. /\ Uncounting(<<>>) = {} /\ Pushing(<<>>) = {} /\ Readying(<<>>) = {}
          /\ Uncounting(<<Work, Push(<<Strand>>)>>) = {Strand}
          /\ Pushing(<<Work, Push(<<Strand>>)>>) = {} /\ Readying(<<Work, Push(<<Strand>>)>>) = {}
      BY CallHolds, FewElems
    <3> QED
      BY <1>2, <2>4, <3>1, <3>2
  <2>6. ~locked' => call'[t] = <<>>
    BY <1>2
  <2> QED
    BY <1>4, <1>9, <1>11, <1>14, <2>1, <2>3, <2>5, <2>6 DEF HeldAre
<1>17. \A x \in Units : m[x] # Where[x] => Where[x] \in Near(t) /\ m[x] \in Near(t)
  BY <1>5, <1>7, <1>9, <1>10 DEF Near, Shared, Held
<1>18. Placed' /\ Where' = m
  BY <1>15, <1>16, <1>17, OthersKeep, Moved
<1> QED
  BY <1>6, <1>8, <1>18


\* A handler is posted to the strand: it waits, or the strand is scheduled with it.
LEMMA StrandPostMoves ==
    ASSUME Types, MoreTypes, Placed, Commanded, NEW t \in Threads, Others(t), StrandPost(t)
    PROVE  \E h \in Handlers :
              /\ h = Command(t).op /\ Placed'
              /\ IF locked THEN /\ call'[t] = <<>>
                                /\ Where' = Put({h}, <<"waiting_queue_", Service>>, Where)
                 ELSE /\ call'[t] = <<ToReady(h), Work, Push(<<Strand>>)>>
                      /\ Where' = Put({Strand}, <<"uncounted", t>>, Put({h}, <<"to_ready", t>>, Where))
<1>1. SharedAre(Where) /\ HeldAre(Where, t)
  BY WhereIs
<1>2. PICK h \in Handlers : /\ h = Command(t).op /\ status[h] = "new" /\ call[t] = <<>>
                            /\ status' = [status EXCEPT ![h] = "pending"]
  BY HandedOver DEF StrandPost
<1>3. /\ h \in Units /\ Strand \in Units /\ h # Strand /\ Strand \notin Handlers
  BY HandlersAssumption DEF Units, Strand
<1>4. /\ private_queue' = private_queue /\ op_queue' = op_queue
      /\ registered' = registered /\ armed' = armed /\ ready_queue' = ready_queue
      /\ cur' = cur /\ pc' = pc /\ handler' = handler /\ frame' = frame
  BY DEF StrandPost, InsideStrand, service, reactor, kernel
<1>5. (InProgress(t)' <=> InProgress(t)) /\ \A x \in Units : RunsIt(t, x)' <=> RunsIt(t, x)
  BY <1>4 DEF InProgress, RunsIt, Runs, Polls
<1>6. Where[h] = <<"nowhere", Service>>
  BY <1>1, <1>2, <1>3 DEF SharedAre
<1>7. /\ h \notin Range(op_queue) /\ h \notin registered /\ h \notin armed /\ h \notin Range(private_queue[t])
      /\ h \notin Range(ready_queue) /\ h \notin Range(waiting_queue) /\ ~RunsIt(t, h)
  BY <1>1, <1>3, <1>6 DEF SharedAre, HeldAre
<1>8. status'[h] = "pending" /\ \A x \in Handlers \ {h} : status'[x] = status[x]
  BY <1>2 DEF MoreTypes
<1>9. CASE locked
  <2>1. PICK m \in [Units -> Places] : m = Put({h}, <<"waiting_queue_", Service>>, Where)
    BY WhereIs DEF Put, Places, Shared
  <2>2. m[h] = <<"waiting_queue_", Service>> /\ \A x \in Units \ {h} : m[x] = Where[x]
    BY <1>3, <2>1 DEF Put
  <2>3. Range(waiting_queue') = Range(waiting_queue) \cup {h} /\ locked' = locked /\ call' = call
    <3>1. waiting_queue' = Append(waiting_queue, h) /\ waiting_queue \in Seq(Handlers)
      BY <1>2, <1>9 DEF StrandPost, Types
    <3> QED
      BY <1>9, <3>1, AppendElems DEF StrandPost
  <2>4. ASSUME NEW x \in {h}
        PROVE  InStrandAt(Where[x], t) /\ InStrandAt(m[x], t) /\ IsAt(m[x], t, x)'
    BY <1>3, <1>4, <1>5, <1>6, <1>7, <1>8, <2>2, <2>3 DEF InStrandAt, IsAt
  <2>5. \A x \in Units \ {h} : SameAt(t, x)
    BY <1>4, <1>5, <1>8, <2>3 DEF SameAt
  <2>6. {h} \in SUBSET Units
    BY <1>3
  <2>7. Placed' /\ Where' = m
    BY <1>4, <1>5, <2>2, <2>3, <2>4, <2>5, <2>6, Rearranged
  <2> QED
    BY <1>2, <1>9, <2>1, <2>3, <2>7
<1>10. CASE ~locked
  <2>1. PICK m \in [Units -> Places] :
           m = Put({Strand}, <<"uncounted", t>>, Put({h}, <<"to_ready", t>>, Where))
    BY WhereIs DEF Put, Places, Held
  <2>2. /\ m[h] = <<"to_ready", t>> /\ m[Strand] = <<"uncounted", t>>
        /\ \A x \in Units \ {h, Strand} : m[x] = Where[x]
    BY <1>3, <2>1 DEF Put
  <2>3. /\ call'[t] = <<ToReady(h), Work, Push(<<Strand>>)>> /\ locked' /\ waiting_queue' = waiting_queue
    BY <1>2, <1>10 DEF StrandPost, Calls, Types
  <2>4. /\ Uncounting(call[t]) = {} /\ Pushing(call[t]) = {} /\ Readying(call[t]) = {}
        /\ Uncounting(call'[t]) = {Strand} /\ Pushing(call'[t]) = {} /\ Readying(call'[t]) = {h}
    BY <1>2, <2>3, CallHolds
  <2>5. Where[Strand] = <<"nowhere", Service>>
    BY <1>1, <1>3, <1>10 DEF SharedAre
  <2>6. /\ Strand \notin Range(op_queue) /\ Strand \notin registered /\ Strand \notin armed
        /\ Strand \notin Range(private_queue[t])
        /\ Strand \notin Range(ready_queue) /\ Strand \notin Range(waiting_queue) /\ ~RunsIt(t, Strand)
    BY <1>1, <1>3, <2>5 DEF SharedAre, HeldAre
  <2>7. ASSUME NEW x \in Units \ {h, Strand}
        PROVE  /\ m[x] = <<"nowhere", Service>> <=> x \in Handlers /\ status'[x] \in {"new", "done"}
               /\ m[x] = <<"op_queue_", Service>> <=> x \in Range(op_queue)
               /\ m[x] = <<"registered", Service>> <=> x \in registered
               /\ m[x] = <<"armed", Service>> <=> x \in armed
               /\ m[x] = <<"ready_queue_", Service>> <=> x \in Range(ready_queue)
               /\ m[x] = <<"waiting_queue_", Service>> <=> x \in Range(waiting_queue)
               /\ m[x] # <<"uncounted", t>> /\ m[x] # <<"pushed", t>> /\ m[x] # <<"to_ready", t>>
               /\ m[x] = <<"private", t>> <=> InProgress(t) /\ x \in Range(private_queue[t])
               /\ m[x] = <<"moved", t>> <=> ~InProgress(t) /\ x \in Range(private_queue[t])
               /\ m[x] = <<"run", t>> <=> RunsIt(t, x)
    BY <1>1, <1>8, <2>2, <2>4 DEF SharedAre, HeldAre
  <2>8. SharedAre(m)'
    BY <1>3, <1>4, <1>7, <1>8, <2>2, <2>3, <2>6, <2>7 DEF SharedAre
  <2>9. HeldAre(m, t)'
    BY <1>3, <1>4, <1>5, <1>7, <2>2, <2>4, <2>6, <2>7 DEF HeldAre
  <2>10. \A x \in Units : m[x] # Where[x] => Where[x] \in Near(t) /\ m[x] \in Near(t)
    BY <1>6, <2>2, <2>5 DEF Near, Shared, Held
  <2>11. Placed' /\ Where' = m
    BY <2>8, <2>9, <2>10, OthersKeep, Moved
  <2> QED
    BY <1>2, <1>10, <2>1, <2>3, <2>11
<1> QED
  BY <1>9, <1>10

\* The handler the strand was scheduled with comes into ready_queue_.
LEMMA PushReadyMoves ==
    ASSUME Types, MoreTypes, Placed, NEW t \in Threads, Others(t), PushReady(t)
    PROVE  \E h \in Handlers :
              /\ call[t] = <<ToReady(h), Work, Push(<<Strand>>)>> /\ call'[t] = <<Work, Push(<<Strand>>)>>
              /\ ready_queue' = Append(ready_queue, h)
              /\ Placed' /\ Where' = Put({h}, <<"ready_queue_", Service>>, Where)
<1>1. SharedAre(Where) /\ HeldAre(Where, t)
  BY WhereIs
<1>2. PICK h \in Handlers : /\ call[t] = <<ToReady(h), Work, Push(<<Strand>>)>>
                            /\ Head(call[t]).op = h /\ Tail(call[t]) = <<Work, Push(<<Strand>>)>>
  BY StepForms DEF PushReady
<1>3. h \in Units /\ h # Strand
  BY HandlersAssumption DEF Units, Strand
<1>4. /\ private_queue' = private_queue /\ op_queue' = op_queue /\ status' = status /\ locked' = locked
      /\ registered' = registered /\ armed' = armed /\ waiting_queue' = waiting_queue
      /\ cur' = cur /\ pc' = pc /\ handler' = handler /\ frame' = frame
      /\ ready_queue' = Append(ready_queue, h) /\ call'[t] = <<Work, Push(<<Strand>>)>>
  BY <1>2 DEF PushReady, Calls, Types, InsideStrand, service, reactor, kernel
<1>5. (InProgress(t)' <=> InProgress(t)) /\ \A x \in Units : RunsIt(t, x)' <=> RunsIt(t, x)
  BY <1>4 DEF InProgress, RunsIt, Runs, Polls
<1>6. /\ Uncounting(call[t]) = {Strand} /\ Pushing(call[t]) = {} /\ Readying(call[t]) = {h}
      /\ Uncounting(call'[t]) = {Strand} /\ Pushing(call'[t]) = {} /\ Readying(call'[t]) = {}
  BY <1>2, <1>4, CallHolds, FewElems
<1>7. Where[h] = <<"to_ready", t>>
  BY <1>1, <1>3, <1>6 DEF HeldAre
<1>8. PICK m \in [Units -> Places] : m = Put({h}, <<"ready_queue_", Service>>, Where)
  BY WhereIs DEF Put, Places, Shared
<1>9. m[h] = <<"ready_queue_", Service>> /\ \A x \in Units \ {h} : m[x] = Where[x]
  BY <1>3, <1>8 DEF Put
<1>10. Range(ready_queue') = Range(ready_queue) \cup {h}
  <2>1. ready_queue \in Seq(Handlers)
    BY DEF Types
  <2> QED
    BY <1>4, <2>1, AppendElems
<1>11. /\ h \notin Range(op_queue) /\ h \notin registered /\ h \notin armed /\ h \notin Range(private_queue[t])
       /\ h \notin Range(ready_queue) /\ h \notin Range(waiting_queue) /\ ~RunsIt(t, h)
       /\ ~(h \in Handlers /\ status[h] \in {"new", "done"})
  BY <1>1, <1>3, <1>7 DEF SharedAre, HeldAre
<1>12. SharedAre(m)'
  BY <1>1, <1>3, <1>4, <1>9, <1>10, <1>11 DEF SharedAre
<1>13. HeldAre(m, t)'
  <2>1. ASSUME NEW x \in Units \ {h}
        PROVE  /\ m[x] = <<"uncounted", t>> <=> x = Strand
               /\ m[x] # <<"pushed", t>> /\ m[x] # <<"to_ready", t>>
               /\ m[x] = <<"private", t>> <=> InProgress(t) /\ x \in Range(private_queue[t])
               /\ m[x] = <<"moved", t>> <=> ~InProgress(t) /\ x \in Range(private_queue[t])
               /\ m[x] = <<"run", t>> <=> RunsIt(t, x)
    BY <1>1, <1>6, <1>9 DEF HeldAre
  <2>2. private_queue'[t] = private_queue[t]
    BY <1>4
  <2>3. /\ m[h] # <<"uncounted", t>> /\ m[h] # <<"pushed", t>> /\ m[h] # <<"to_ready", t>>
        /\ m[h] # <<"private", t>> /\ m[h] # <<"moved", t>> /\ m[h] # <<"run", t>>
    BY <1>9
  <2> QED
    BY <1>3, <1>5, <1>6, <1>11, <2>1, <2>2, <2>3 DEF HeldAre
<1>14. \A x \in Units : m[x] # Where[x] => Where[x] \in Near(t) /\ m[x] \in Near(t)
  BY <1>7, <1>9 DEF Near, Shared, Held
<1>15. Placed' /\ Where' = m
  BY <1>12, <1>13, <1>14, OthersKeep, Moved
<1> QED
  BY <1>2, <1>4, <1>8, <1>15

\* The socket, the time, a thread that wakes up by itself.
LEMMA EnvironmentStays == ASSUME Types, Placed, Environment PROVE Placed' /\ Where' = Where
<1>1. /\ call' = call
      /\ cur' = cur /\ private_queue' = private_queue /\ handler' = handler /\ frame' = frame
      /\ \A u \in Threads : pc'[u] = pc[u] \/ (pc[u] = "waiting" /\ pc'[u] = "woken")
      /\ locked' = locked /\ registered' = registered /\ armed' = armed /\ status' = status
      /\ op_queue' = op_queue /\ ready_queue' = ready_queue /\ waiting_queue' = waiting_queue
  BY DEF Environment, SocketReady, TimePasses, SpuriousWakeup, OutsideStrand, threads, Goto, Types,
         strand, service, reactor, kernel
<1>2. \A u \in Threads : HasSame(u)
  BY <1>1 DEF HasSame, InProgress, RunsIt, Runs, Polls
<1> QED
  BY <1>1, <1>2, NothingMoves


----------------------------------------------------------------------------
(* No operation is in a queue twice.                                       *)

\* What a thread may be about to push.
LEMMA FreshForms ==
    /\ \A steps \in {<<>>, <<Signal>>, <<StopLoop>>, <<Work>>} : Fresh(Pending(steps))
    /\ \A x : Fresh(Pending(<<Push(<<x>>)>>)) /\ Fresh(Pending(<<Work, Push(<<x>>)>>))
    /\ \A h : Fresh(Pending(<<ToReady(h), Work, Push(<<Strand>>)>>))
<1>1. Fresh(<<>>) /\ \A x : Fresh(<<x>>)
  BY FewElems
<1> HIDE DEF Fresh
<1> QED
  BY <1>1, PendingForms

\* The queues of the other threads stay as they are.
LEMMA NoDoublesOf ==
    ASSUME NoDoubles, NEW t \in Threads,
           \A u \in Threads \ {t} : call'[u] = call[u] /\ private_queue'[u] = private_queue[u],
           Fresh(op_queue)', Fresh(ready_queue)', Fresh(waiting_queue)',
           Fresh(private_queue'[t]), Fresh(Pending(call'[t]))
    PROVE  NoDoubles'
BY DEF NoDoubles

\* Nothing is queued twice by the steps of a call,
LEMMA CallNoDoubles ==
    ASSUME Types, Placed, NoDoubles, DescriptorOnce, NEW t \in Threads, CallSteps(t), OutsideStrand
    PROVE  NoDoubles'
<1>1. /\ private_queue' = private_queue /\ ready_queue' = ready_queue /\ waiting_queue' = waiting_queue
      /\ \A u \in Threads \ {t} : call'[u] = call[u]
      /\ \A u \in Threads : Fresh(private_queue[u])
      /\ Fresh(op_queue) /\ Fresh(ready_queue) /\ Fresh(waiting_queue) /\ Fresh(Pending(call[t]))
  BY DEF CallSteps, WorkStarted, PushOps, SignalOne, StopAllThreads, WakeOne, Calls, OutsideStrand,
         strand, NoDoubles, Types
<1> HIDE DEF Fresh
<1>2. CASE WorkStarted(t)
  <2>1. op_queue' = op_queue
    BY <1>2, WorkStartedFacts
  <2>2. \/ call'[t] = <<>>
        \/ \E ops \in Seq(Ops) : call[t] = <<Work, Push(ops)>> /\ call'[t] = <<Push(ops)>>
    BY <1>2, WorkStartedFacts
  <2>3. Pending(call'[t]) = Pending(call[t]) \/ call'[t] = <<>>
    BY <2>2, PendingForms
  <2>4. Fresh(Pending(call'[t]))
    BY <1>1, <2>3, FreshForms
  <2> QED
    BY <1>1, <2>1, <2>4, NoDoublesOf
<1>3. CASE PushOps(t)
  <2>1. PICK ops \in Seq(Ops) : /\ call[t] = <<Push(ops)>> /\ op_queue' = op_queue \o ops
                                /\ call'[t] \in {<<>>, <<Signal>>}
    BY <1>3, PushOpsFacts
  <2>3. op_queue' = op_queue \o ops /\ call'[t] \in {<<>>, <<Signal>>}
    BY <2>1 DEF Types
  <2>4. Pending(call[t]) = ops /\ Pushing(call[t]) = Range(ops)
    BY <2>1, PendingForms, CallHolds
  <2>5. Range(op_queue) \cap Range(ops) = {}
    <3>1. SharedAre(Where) /\ HeldAre(Where, t)
      BY WhereIs
    <3>2. \A x \in Units : ~(x \in Range(op_queue) /\ x \in Range(ops))
      BY <2>4, <3>1 DEF SharedAre, HeldAre
    <3>3. Descriptor \notin Range(ops)
      BY <2>4 DEF DescriptorOnce
    <3>4. Range(ops) \subseteq Units \cup {Descriptor}
      BY DEF Range, Ops, Units
    <3> QED
      BY <3>2, <3>3, <3>4
  <2>6. Fresh(op_queue')
    <3>1. op_queue \in Seq(Ops) /\ Fresh(ops)
      BY <1>1, <2>4 DEF Types
    <3> QED
      BY <1>1, <2>3, <2>5, <3>1, ConcatElems
  <2>7. Fresh(Pending(call'[t]))
    BY <2>3, FreshForms
  <2> QED
    BY <1>1, <2>6, <2>7, NoDoublesOf
<1>4. CASE SignalOne(t) \/ StopAllThreads(t)
  <2>1. Tail(call[t]) = <<>> /\ call' = [call EXCEPT ![t] = Tail(call[t])] /\ op_queue' = op_queue
    BY <1>4, StepForms DEF SignalOne, StopAllThreads, Calls, service
  <2>2. call'[t] = <<>>
    BY <2>1 DEF Types
  <2>3. Fresh(Pending(call'[t]))
    BY <2>2, FreshForms
  <2> QED
    BY <1>1, <2>1, <2>3, NoDoublesOf
<1> QED
  BY <1>2, <1>3, <1>4 DEF CallSteps

\* nor by run,
LEMMA LoopNoDoubles ==
    ASSUME Types, Placed, Control, NoDoubles, DescriptorOnce, NEW t \in Threads, Loop(t), OutsideStrand,
           Others(t)
    PROVE  NoDoubles'
<1>1. /\ ready_queue' = ready_queue /\ waiting_queue' = waiting_queue
      /\ \A u \in Threads \ {t} : call'[u] = call[u] /\ private_queue'[u] = private_queue[u]
      /\ Fresh(op_queue) /\ Fresh(ready_queue) /\ Fresh(waiting_queue)
      /\ Fresh(private_queue[t])
  BY DEF OutsideStrand, strand, NoDoubles, Others
<1> HIDE DEF Fresh
<1>2. ThreadControl(t)
  BY DEF Control
<1>3. CASE RunOne(t) \/ (Woken(t) /\ signalled) \/ TaskCleanup(t) \/ PushPrivate(t)
  <2>1. /\ call[t] = <<>> /\ private_queue'[t] = <<>> /\ \E queue, interrupted : Turn(t, queue, interrupted)
    BY <1>3, TurnBegins
  <2>2. call'[t] \in {<<>>, <<Signal>>}
    BY <2>1, TurnResult
  <2>3. Fresh(op_queue')
    BY <1>3, TurnMoves
  <2>4. Fresh(private_queue'[t]) /\ Fresh(Pending(call'[t]))
    BY <2>1, <2>2, FreshForms, FewElems
  <2> QED
    BY <1>1, <2>3, <2>4, NoDoublesOf
<1>4. CASE Run(t) \/ (Woken(t) /\ ~signalled) \/ WorkCleanup(t)
  <2>1. call[t] = <<>> /\ private_queue' = private_queue /\ op_queue' = op_queue
    BY <1>2, <1>4 DEF Run, Woken, WorkCleanup, ThreadControl, Returned, service
  <2>2. call'[t] \in {<<>>, <<StopLoop>>}
    BY <1>4, <2>1 DEF Run, Woken, WorkCleanup, Calls, Types
  <2>3. Fresh(Pending(call'[t]))
    BY <2>2, FreshForms
  <2> QED
    BY <1>1, <2>1, <2>3, NoDoublesOf
<1>5. CASE Poll(t)
  <2>1. /\ call' = call /\ op_queue' = op_queue /\ call[t] = <<>> /\ private_queue[t] = <<>>
        /\ private_queue'[t] \in {<<>>, <<Descriptor>>}
    <3>1. /\ call' = call /\ op_queue' = op_queue /\ call[t] = <<>> /\ private_queue[t] = <<>>
      BY <1>2, <1>5 DEF Poll, ThreadControl, service, Returned
    <3>2. private_queue'[t] \in {private_queue[t], Append(private_queue[t], Descriptor)}
      BY <1>5 DEF Poll, Types
    <3>3. Append(<<>>, Descriptor) = <<Descriptor>>
      OBVIOUS
    <3> QED
      BY <3>1, <3>2, <3>3
  <2>2. Fresh(private_queue'[t]) /\ Fresh(Pending(call'[t]))
    BY <2>1, FreshForms, FewElems
  <2> QED
    BY <1>1, <2>1, <2>2, NoDoublesOf
<1>6. CASE CheckTimers(t)
  <2>1. call' = call /\ op_queue' = op_queue
    BY <1>6 DEF CheckTimers, service
  <2>2. PICK ready \in Seq(Ops) : /\ private_queue'[t] = private_queue[t] \o ready
                                  /\ Range(ready) = armed \cap due /\ Fresh(ready)
    BY <1>6, CheckTimersMoves
  <2>3. Range(private_queue[t]) \cap Range(ready) = {}
    <3>1. SharedAre(Where) /\ HeldAre(Where, t)
      BY WhereIs
    <3>2. armed \subseteq Units
      BY DEF Types, Units
    <3> QED
      BY <2>2, <3>1, <3>2 DEF SharedAre, HeldAre
  <2>4. Fresh(private_queue'[t])
    <3>1. private_queue[t] \in Seq(Ops)
      BY DEF Types
    <3> QED
      BY <1>1, <2>2, <2>3, <3>1, ConcatElems
  <2>5. Fresh(Pending(call'[t]))
    BY <2>1 DEF NoDoubles
  <2> QED
    BY <1>1, <2>1, <2>4, <2>5, NoDoublesOf
<1>7. CASE PerformIo(t)
  <2>1. /\ private_queue' = private_queue /\ op_queue' = op_queue /\ call[t] = <<>>
    BY <1>7 DEF PerformIo, service, Returned
  <2>2. call'[t] = <<Work>> \/ call'[t] = <<>> \/ \E g : call'[t] = <<Push(<<g>>)>>
    <3>1. CASE pc'[t] = "work_cleanup"
      <4>1. call' = [call EXCEPT ![t] = <<Work>>]
        BY <1>7, <3>1 DEF PerformIo, Calls, Types
      <4> QED
        BY <4>1 DEF Types
    <3>2. CASE pc'[t] # "work_cleanup"
      BY <1>7, <3>2, PerformIoMoves
    <3> QED
      BY <3>1, <3>2
  <2>3. Fresh(Pending(call'[t]))
    BY <2>2, FreshForms
  <2> QED
    BY <1>1, <2>1, <2>3, NoDoublesOf
<1> QED
  BY <1>3, <1>4, <1>5, <1>6, <1>7 DEF Loop

\* An operation that was nowhere, or run, comes into the private queue once.
LEMMA PostNoDoubles ==
    ASSUME Types, MoreTypes, Placed, NoDoubles, NEW t \in Threads, call[t] = <<>>, NEW x \in Units,
           Where[x] \in {<<"nowhere", Service>>, <<"run", t>>}, NEW is_continuation,
           PostImmediate(t, x, is_continuation, <<>>)
    PROVE  Fresh(private_queue'[t]) /\ Fresh(Pending(call'[t]))
<1>1. /\ private_queue[t] \in Seq(Ops) /\ x \in Ops /\ Fresh(private_queue[t]) /\ HeldAre(Where, t)
  BY WhereIs DEF Types, NoDoubles, Units, Ops
<1>2. x \notin Range(private_queue[t])
  BY <1>1 DEF HeldAre
<1> HIDE DEF Fresh
<1>3. Fresh(Append(private_queue[t], x))
  BY <1>1, <1>2, AppendElems
<1>4. Fresh(Pending(<<>>)) /\ Fresh(Pending(<<Work, Push(<<x>>)>>))
  BY FreshForms
<1> QED
  BY <1>1, <1>3, <1>4, PostResult

\* the commands,
LEMMA CommandNoDoubles ==
    ASSUME Types, MoreTypes, Placed, Commanded, NoDoubles, NEW t \in Threads, Commands(t), OutsideStrand,
           Others(t)
    PROVE  NoDoubles'
<1>1. /\ ready_queue' = ready_queue /\ waiting_queue' = waiting_queue /\ op_queue' = op_queue
      /\ \A u \in Threads \ {t} : call'[u] = call[u] /\ private_queue'[u] = private_queue[u]
      /\ Fresh(op_queue) /\ Fresh(ready_queue) /\ Fresh(waiting_queue)
      /\ Fresh(private_queue[t]) /\ call[t] = <<>>
  BY DEF OutsideStrand, strand, NoDoubles, Others, Commands, Post, StartOp, ScheduleTimer, CancelTimer,
         CancelOps, Stop, service, HandOver, Active, Returned
<1> HIDE DEF Fresh
<1>2. SUFFICES Fresh(private_queue'[t]) /\ Fresh(Pending(call'[t]))
  BY <1>1, <1>2, NoDoublesOf
<1>3. ASSUME NEW via, HandOver(t, via)
      PROVE  Command(t).op \in Units /\ Where[Command(t).op] = <<"nowhere", Service>>
  <2>1. Command(t).op \in Handlers /\ status[Command(t).op] = "new"
    BY <1>3, HandedOver
  <2> QED
    BY <2>1, WhereIs DEF SharedAre, Units
<1>4. CASE Post(t, InStrand(t))
  <2>1. HandOver(t, "post")
        /\ PostImmediate(t, Command(t).op, IsContinuation(t, Command(t).op, InStrand(t)), <<>>)
    BY <1>4 DEF Post
  <2> QED
    BY <1>1, <1>3, <2>1, PostNoDoubles
<1>5. CASE \E via \in {"read", "write"} : StartOp(t, via, InStrand(t))
  <2>1. PICK via \in {"read", "write"} : StartOp(t, via, InStrand(t))
    BY <1>5
  <2>2. CASE via \in avail /\ \A g \in registered : Via(g) # via
    <3>1. HandOver(t, via)
          /\ PostImmediate(t, Command(t).op, IsContinuation(t, Command(t).op, InStrand(t)), <<>>)
      BY <2>1, <2>2 DEF StartOp
    <3> QED
      BY <1>1, <1>3, <3>1, PostNoDoubles
  <2>3. CASE ~(via \in avail /\ \A g \in registered : Via(g) # via)
    BY <1>1, <2>1, <2>3, FreshForms DEF StartOp
  <2> QED
    BY <2>2, <2>3
<1>6. CASE ScheduleTimer(t)
  BY <1>1, <1>6, FreshForms DEF ScheduleTimer
<1>7. CASE CancelTimer(t)
  <2>1. \/ call' = [call EXCEPT ![t] = <<>>]
        \/ call' = [call EXCEPT ![t] = <<Push(<<Command(t).op>>)>>]
    BY <1>7 DEF CancelTimer, Calls
  <2>2. call'[t] = <<>> \/ call'[t] = <<Push(<<Command(t).op>>)>>
    BY <2>1 DEF Types
  <2> QED
    BY <1>1, <1>7, <2>2, FreshForms DEF CancelTimer
<1>8. CASE CancelOps(t)
  <2>1. CASE call' = call
    BY <1>1, <1>8, <2>1, FreshForms DEF CancelOps
  <2>2. ASSUME NEW ops \in [1..Cardinality(registered) -> registered],
               \A h \in registered : \E k \in DOMAIN ops : ops[k] = h, Calls(t, <<Push(ops)>>)
        PROVE  Fresh(Pending(call'[t]))
    <3>1. call' = [call EXCEPT ![t] = <<Push(ops)>>]
      BY <2>2 DEF Calls
    <3>2. call'[t] = <<Push(ops)>>
      BY <3>1 DEF Types
    <3>3. IsFiniteSet(registered)
      BY HandlersAssumption, FS_Subset DEF Types
    <3>4. Fresh(ops)
      BY <2>2, <3>3, ListElems
    <3>5. Pending(<<Push(ops)>>) = ops
      BY PendingForms
    <3> QED
      BY <3>2, <3>4, <3>5
  <2> QED
    BY <1>1, <1>8, <2>1, <2>2 DEF CancelOps
<1>9. CASE Stop(t)
  <2>1. call' = [call EXCEPT ![t] = <<StopLoop>>]
    BY <1>9 DEF Stop, Calls
  <2>2. call'[t] = <<StopLoop>>
    BY <2>1 DEF Types
  <2> QED
    BY <1>1, <1>9, <2>2, FreshForms DEF Stop
<1> QED
  BY <1>4, <1>5, <1>6, <1>7, <1>8, <1>9 DEF Commands


\* or the strand.
LEMMA StrandNoDoubles ==
    ASSUME Types, MoreTypes, Placed, Control, Commanded, NoDoubles, NEW t \in Threads, StrandSteps(t),
           Others(t)
    PROVE  NoDoubles'
<1>1. /\ op_queue' = op_queue
      /\ \A u \in Threads \ {t} : call'[u] = call[u] /\ private_queue'[u] = private_queue[u]
      /\ Fresh(op_queue) /\ Fresh(ready_queue) /\ Fresh(waiting_queue)
      /\ Fresh(private_queue[t]) /\ Fresh(Pending(call[t]))
      /\ ready_queue \in Seq(Handlers) /\ waiting_queue \in Seq(Handlers)
  BY DEF NoDoubles, Others, StrandSteps, CompleteHandler, Dispatch, CompleteStrand, RunReady, HandlerEnds,
         LeaveStrand, StrandPost, PushReady, InsideStrand, service, Types
<1> HIDE DEF Fresh
<1>2. SharedAre(Where) /\ HeldAre(Where, t)
  BY WhereIs
<1>3. CASE CompleteHandler(t) \/ CompleteStrand(t) \/ HandlerEnds(t)
  BY <1>1, <1>3, NoDoublesOf DEF CompleteHandler, CompleteStrand, HandlerEnds, strand
<1>4. CASE Dispatch(t)
  <2>1. /\ ready_queue' = ready_queue /\ call' = call /\ private_queue' = private_queue
        /\ waiting_queue' \in {waiting_queue, Append(waiting_queue, cur[t].op)}
        /\ cur[t].op \in Handlers /\ pc[t] = "complete"
    BY <1>4 DEF Dispatch
  <2>2. cur[t].op \in Units /\ RunsIt(t, cur[t].op)
    BY <2>1 DEF Units, RunsIt
  <2>3. cur[t].op \notin Range(waiting_queue)
    BY <1>2, <2>2 DEF SharedAre, HeldAre
  <2>4. Fresh(Append(waiting_queue, cur[t].op))
    BY <1>1, <2>1, <2>3, AppendElems
  <2> QED
    BY <1>1, <2>1, <2>4, NoDoublesOf
<1>5. CASE RunReady(t)
  <2>1. /\ ready_queue' = Tail(ready_queue) /\ ready_queue # <<>> /\ call' = call
        /\ private_queue' = private_queue /\ waiting_queue' = waiting_queue
    BY <1>5 DEF RunReady
  <2>2. Fresh(Tail(ready_queue))
    BY <1>1, <2>1, TailElems
  <2> QED
    BY <1>1, <2>1, <2>2, NoDoublesOf
<1>6. CASE LeaveStrand(t)
  <2>1. PICK is_continuation \in BOOLEAN : Exit(t, is_continuation)
    BY <1>6 DEF LeaveStrand
  <2>2. call[t] = <<>> /\ pc[t] \in {"strand", "leave_strand"}
    BY <1>6, LeaveStrandFacts
  <2>3. ready_queue' = ready_queue \o waiting_queue /\ waiting_queue' = <<>>
    BY <2>1 DEF Exit
  <2>4. Range(ready_queue) \cap Range(waiting_queue) = {}
    <3>1. Range(ready_queue) \subseteq Units
      BY <1>1 DEF Range, Units
    <3> QED
      BY <1>2, <3>1 DEF SharedAre
  <2>5. Fresh(ready_queue') /\ Fresh(waiting_queue')
    BY <1>1, <2>3, <2>4, ConcatElems, FewElems
  <2>6. Fresh(private_queue'[t]) /\ Fresh(Pending(call'[t]))
    <3>1. CASE PostImmediate(t, Strand, is_continuation, <<>>)
      <4>1. Strand \in Units /\ RunsIt(t, Strand)
        BY <2>2 DEF Units, RunsIt, Runs
      <4>2. Where[Strand] = <<"run", t>>
        BY <1>2, <4>1 DEF HeldAre
      <4> QED
        BY <2>2, <3>1, <4>1, <4>2, PostNoDoubles
    <3>2. CASE call' = call /\ private_queue' = private_queue
      BY <1>1, <3>2
    <3> QED
      BY <2>1, <3>1, <3>2 DEF Exit
  <2> QED
    BY <1>1, <2>5, <2>6, NoDoublesOf
<1>7. CASE StrandPost(t)
  <2>1. PICK h \in Handlers : h = Command(t).op /\ status[h] = "new" /\ call[t] = <<>>
    BY <1>7, HandedOver DEF StrandPost
  <2>2. /\ ready_queue' = ready_queue /\ private_queue' = private_queue
        /\ waiting_queue' \in {waiting_queue, Append(waiting_queue, h)}
        /\ call'[t] \in {call[t], <<ToReady(h), Work, Push(<<Strand>>)>>}
    BY <1>7, <2>1 DEF StrandPost, Calls, Types
  <2>3. h \notin Range(waiting_queue)
    BY <1>2, <2>1 DEF SharedAre, Units
  <2>4. Fresh(Append(waiting_queue, h))
    BY <1>1, <2>3, AppendElems
  <2>5. Fresh(Pending(call'[t]))
    BY <1>1, <2>2, FreshForms
  <2> QED
    BY <1>1, <2>2, <2>4, <2>5, NoDoublesOf
<1>8. CASE PushReady(t)
  <2>1. PICK h \in Handlers : /\ call[t] = <<ToReady(h), Work, Push(<<Strand>>)>>
                              /\ Head(call[t]).op = h /\ Tail(call[t]) = <<Work, Push(<<Strand>>)>>
    BY <1>8, StepForms DEF PushReady
  <2>2. /\ private_queue' = private_queue /\ waiting_queue' = waiting_queue
        /\ ready_queue' = Append(ready_queue, h) /\ call'[t] = <<Work, Push(<<Strand>>)>>
    BY <1>8, <2>1 DEF PushReady, Calls, Types
  <2>3. h \notin Range(ready_queue)
    <3>1. h \in Readying(call[t]) /\ h \in Units
      BY <2>1, CallHolds DEF Units
    <3> QED
      BY <1>2, <3>1 DEF SharedAre, HeldAre
  <2>4. Fresh(Append(ready_queue, h)) /\ Fresh(Pending(call'[t]))
    BY <1>1, <2>2, <2>3, AppendElems, FreshForms
  <2> QED
    BY <1>1, <2>2, <2>4, NoDoublesOf
<1> QED
  BY <1>3, <1>4, <1>5, <1>6, <1>7, <1>8 DEF StrandSteps

----------------------------------------------------------------------------
(* The descriptor.                                                         *)

\* A queue behind another one, in which the descriptor is not, or the reactor neither.
LEMMA FirstOfTwo ==
    ASSUME NEW s \in Seq(Ops), NEW u \in Seq(Ops), DescriptorFirst(s), DescriptorFirst(u),
           \/ Descriptor \notin Range(u)
           \/ Descriptor \notin Range(s) /\ Task \notin Range(s)
    PROVE  DescriptorFirst(s \o u)
<1> DEFINE w == s \o u
           m == Len(s)
           n == Len(u)
<1>1. /\ m \in Nat /\ n \in Nat /\ DOMAIN s = 1..m /\ DOMAIN u = 1..n
      /\ w \in Seq(Ops) /\ Len(w) = m + n /\ DOMAIN w = 1..(m + n)
  BY LenProperties, ConcatProperties
<1>2. \A i \in 1..(m + n) : w[i] = IF i <= m THEN s[i] ELSE u[i - m]
  BY ConcatProperties
<1> HIDE DEF w, m, n
<1>3. \A k \in 1..m : s[k] \in Range(s)
  BY <1>1 DEF Range
<1>4. \A k \in 1..n : u[k] \in Range(u)
  BY <1>1 DEF Range
<1>5. \A k \in 1..(m + n) : \/ k \in 1..m /\ w[k] = s[k]
                            \/ k > m /\ k - m \in 1..n /\ w[k] = u[k - m]
  BY <1>1, <1>2
<1>6. ASSUME NEW i \in 1..(m + n), NEW j \in 1..(m + n), w[i] = Descriptor, w[j] \in {Task, Descriptor}
      PROVE  i <= j
  <2>1. CASE i \in 1..m /\ w[i] = s[i] /\ j \in 1..m /\ w[j] = s[j]
    BY <1>1, <1>6, <2>1 DEF DescriptorFirst
  <2>2. CASE i \in 1..m /\ j > m
    BY <1>1, <2>2
  <2>3. CASE i > m /\ i - m \in 1..n /\ w[i] = u[i - m]
    <3>1. Descriptor \in Range(u)
      BY <1>4, <1>6, <2>3
    <3>2. j > m /\ j - m \in 1..n /\ w[j] = u[j - m]
      BY <1>3, <1>5, <1>6, <3>1
    <3>3. i - m <= j - m
      BY <1>1, <1>6, <2>3, <3>2 DEF DescriptorFirst
    <3> QED
      BY <1>1, <3>3
  <2> QED
    BY <1>5, <2>1, <2>2, <2>3
<1> QED
  BY <1>1, <1>6 DEF DescriptorFirst, w

\* What is taken is the reactor or the descriptor: then the descriptor is not behind it.
LEMMA FirstTaken ==
    ASSUME NEW s \in Seq(Ops), s # <<>>, DescriptorFirst(s)
    PROVE  /\ DescriptorFirst(Tail(s))
           /\ Head(s) \in {Task, Descriptor} => Descriptor \notin Range(Tail(s))
<1> DEFINE n == Len(s)
           w == Tail(s)
<1>1. n \in Nat \ {0} /\ DOMAIN s = 1..n
  BY LenProperties, EmptySeq
<1>2. /\ Head(s) = s[1]
      /\ w \in Seq(Ops) /\ Len(w) = n - 1 /\ \A i \in 1..Len(w) : w[i] = s[i + 1]
  BY HeadTailProperties
<1>3. DOMAIN w = 1..(n - 1)
  BY <1>2, LenProperties
<1> HIDE DEF n, w
<1>4. \A i \in 1..(n - 1) : i + 1 \in 1..n /\ w[i] = s[i + 1]
  BY <1>1, <1>2
<1>5. ASSUME NEW i \in 1..(n - 1), NEW j \in 1..(n - 1), w[i] = Descriptor, w[j] \in {Task, Descriptor}
      PROVE  i <= j
  <2>1. /\ i + 1 \in 1..n /\ j + 1 \in 1..n
        /\ s[i + 1] = Descriptor /\ s[j + 1] \in {Task, Descriptor}
    BY <1>4, <1>5
  <2>2. i + 1 <= j + 1
    BY <1>1, <2>1 DEF DescriptorFirst
  <2> QED
    BY <2>2
<1>6. ASSUME s[1] \in {Task, Descriptor}, NEW i \in 1..(n - 1), w[i] = Descriptor PROVE FALSE
  <2>1. i + 1 \in 1..n /\ 1 \in 1..n /\ s[i + 1] = Descriptor
    BY <1>1, <1>4, <1>6
  <2>2. i + 1 <= 1
    BY <1>1, <1>6, <2>1 DEF DescriptorFirst
  <2> QED
    BY <2>2
<1>7. Descriptor \in Range(w) => \E i \in 1..(n - 1) : w[i] = Descriptor
  BY <1>3 DEF Range
<1> QED
  BY <1>2, <1>3, <1>5, <1>6, <1>7 DEF DescriptorFirst, w

\* The descriptor is at most once in a queue in which nothing is twice.
LEMMA FreshFirst ==
    ASSUME NEW s \in Seq(Ops), Fresh(s), Task \notin Range(s) PROVE DescriptorFirst(s)
<1>1. DOMAIN s = 1..Len(s) /\ Len(s) \in Nat
  BY LenProperties
<1>2. \A i \in DOMAIN s : s[i] # Task
  BY DEF Range
<1>3. \A i, j \in DOMAIN s : s[i] = s[j] => i = j
  BY DEF Fresh, IsInjective
<1> QED
  BY <1>1, <1>2, <1>3 DEF DescriptorFirst

\* Nothing of this in a short queue, or in one of handlers.
LEMMA FirstAlone == \A x : DescriptorFirst(<<>>) /\ DescriptorFirst(<<x>>)
BY DEF DescriptorFirst

\* A queue without the descriptor needs no order.
LEMMA NoDescriptor ==
    ASSUME NEW s \in Seq(Ops), Descriptor \notin Range(s) PROVE DescriptorFirst(s)
BY DEF DescriptorFirst, Range

\* The other threads stay as they are.
LEMMA DescriptorOf ==
    ASSUME DescriptorOnce, NEW t \in Threads,
           \A u \in Threads \ {t} : /\ Polls(u)' <=> Polls(u)
                                    /\ pc'[u] = pc[u] \/ pc[u] = "waiting"
                                    /\ private_queue'[u] = private_queue[u] /\ call'[u] = call[u],
           DescriptorFirst(op_queue)', Polls(t)' => Descriptor \notin Range(op_queue)',
           \A u \in Threads \ {t} : Polls(u) => Descriptor \notin Range(op_queue)',
           Descriptor \in Range(private_queue'[t]) => pc'[t] \in {"check_timers", "task_cleanup"},
           Descriptor \notin Range(Pending(call'[t]))
    PROVE  DescriptorOnce'
<1>1. ASSUME NEW u \in Threads \ {t}
      PROVE  /\ Polls(u)' => Descriptor \notin Range(op_queue)'
             /\ Descriptor \in Range(private_queue[u])' => pc'[u] \in {"check_timers", "task_cleanup"}
             /\ Descriptor \notin Range(Pending(call[u]))'
  <2>1. Pending(call'[u]) = Pending(call[u])
    OBVIOUS
  <2> QED
    BY <2>1 DEF DescriptorOnce
<1> QED
  BY <1>1 DEF DescriptorOnce

\* The calls that are under way do not push it.
LEMMA PendingPlain ==
    /\ \A steps \in {<<>>, <<Signal>>, <<StopLoop>>, <<Work>>} : Range(Pending(steps)) = {}
    /\ \A ops : Pending(<<Push(ops)>>) = ops /\ Pending(<<Work, Push(ops)>>) = ops
    /\ \A h : Range(Pending(<<ToReady(h), Work, Push(<<Strand>>)>>)) = {Strand}
BY PendingForms, FewElems

\* The descriptor is queued once after the steps of a call,
LEMMA CallDescriptor ==
    ASSUME Types, DescriptorOnce, NEW t \in Threads, CallSteps(t), OutsideStrand
    PROVE  DescriptorOnce'
<1>1. /\ private_queue' = private_queue
      /\ \A u \in Threads : pc'[u] = pc[u] \/ (pc[u] = "waiting" /\ pc'[u] = "woken")
      /\ \A u \in Threads \ {t} : call'[u] = call[u]
  BY DEF CallSteps, WorkStarted, PushOps, SignalOne, StopAllThreads, WakeOne, Calls, Goto, Types
<1>2. \A u \in Threads : Polls(u)' <=> Polls(u)
  BY <1>1 DEF Polls
<1>3. Descriptor \in Range(private_queue'[t]) => pc'[t] \in {"check_timers", "task_cleanup"}
  BY <1>1 DEF DescriptorOnce
<1>4. CASE WorkStarted(t)
  <2>1. op_queue' = op_queue
    BY <1>4, WorkStartedFacts
  <2>2. \/ call'[t] = <<>>
        \/ \E ops \in Seq(Ops) : call[t] = <<Work, Push(ops)>> /\ call'[t] = <<Push(ops)>>
    BY <1>4, WorkStartedFacts
  <2>3. Pending(call'[t]) = Pending(call[t]) \/ call'[t] = <<>>
    BY <2>2, PendingForms
  <2>4. Descriptor \notin Range(Pending(call'[t]))
    BY <2>3, PendingPlain DEF DescriptorOnce
  <2>5. DescriptorFirst(op_queue)' /\ \A u \in Threads : Polls(u) => Descriptor \notin Range(op_queue)'
    BY <2>1 DEF DescriptorOnce
  <2> QED
    BY <1>1, <1>2, <1>3, <2>4, <2>5, DescriptorOf
<1>5. CASE PushOps(t)
  <2>1. PICK ops \in Seq(Ops) : /\ call[t] = <<Push(ops)>> /\ op_queue' = op_queue \o ops
                                /\ call'[t] \in {<<>>, <<Signal>>}
    BY <1>5, PushOpsFacts
  <2>3. op_queue' = op_queue \o ops /\ call'[t] \in {<<>>, <<Signal>>} /\ op_queue \in Seq(Ops)
    BY <2>1 DEF Types
  <2>4. Descriptor \notin Range(ops)
    BY <2>1, PendingForms DEF DescriptorOnce
  <2>5. DescriptorFirst(op_queue')
    BY <2>3, <2>4, NoDescriptor, FirstOfTwo DEF DescriptorOnce
  <2>6. \A u \in Threads : Polls(u) => Descriptor \notin Range(op_queue')
    BY <2>3, <2>4, ConcatElems DEF DescriptorOnce
  <2>7. Descriptor \notin Range(Pending(call'[t]))
    BY <2>3, PendingPlain
  <2> QED
    BY <1>1, <1>2, <1>3, <2>5, <2>6, <2>7, DescriptorOf
<1>6. CASE SignalOne(t) \/ StopAllThreads(t)
  <2>1. Tail(call[t]) = <<>> /\ call' = [call EXCEPT ![t] = Tail(call[t])] /\ op_queue' = op_queue
    BY <1>6, StepForms DEF SignalOne, StopAllThreads, Calls, service
  <2>2. call'[t] = <<>>
    BY <2>1 DEF Types
  <2>3. Descriptor \notin Range(Pending(call'[t]))
    BY <2>2, PendingPlain
  <2>4. DescriptorFirst(op_queue)' /\ \A u \in Threads : Polls(u) => Descriptor \notin Range(op_queue)'
    BY <2>1 DEF DescriptorOnce
  <2> QED
    BY <1>1, <1>2, <1>3, <2>3, <2>4, DescriptorOf
<1> QED
  BY <1>4, <1>5, <1>6 DEF CallSteps

\* a turn of do_run_one,
LEMMA TurnDescriptor ==
    ASSUME Types, Placed, Control, NoDoubles, DescriptorOnce, NEW t \in Threads, OutsideStrand, Others(t),
           RunOne(t) \/ (Woken(t) /\ signalled) \/ TaskCleanup(t) \/ PushPrivate(t)
    PROVE  DescriptorOnce'
<1>1. /\ call[t] = <<>> /\ private_queue'[t] = <<>>
      /\ pc[t] \in {"lock", "woken", "task_cleanup", "push_private"}
  BY TurnBegins
<1>2. PICK queue \in Seq(Ops) :
         /\ \E interrupted : Turn(t, queue, interrupted)
         /\ Range(queue) = Range(op_queue) \cup Joins(t)
         /\ queue \in {op_queue, op_queue \o private_queue[t], op_queue \o private_queue[t] \o <<Task>>}
  BY TurnQueue
<1>3. /\ call'[t] \in {<<>>, <<Signal>>}
      /\ \/ pc'[t] \in {"returned", "waiting"} /\ op_queue' = queue /\ cur'[t] = cur[t]
         \/ /\ queue # <<>> /\ op_queue' = Tail(queue) /\ cur'[t].op = Head(queue)
            /\ pc'[t] \in (IF Head(queue) = Task THEN {"poll", "poll_block"} ELSE {"complete"})
  BY <1>1, <1>2, TurnResult
<1>4. SharedAre(Where) /\ HeldAre(Where, t)
  BY WhereIs
<1>5. /\ op_queue \in Seq(Ops) /\ private_queue[t] \in Seq(Ops) /\ <<Task>> \in Seq(Ops)
      /\ DescriptorFirst(op_queue) /\ Fresh(private_queue[t])
  BY DEF Types, Ops, DescriptorOnce, NoDoubles
<1>6. Task \in Units /\ Task # Descriptor
  BY DEF Units, Task, Descriptor
<1>7. CASE pc[t] # "task_cleanup"
  <2>1. Descriptor \notin Range(private_queue[t])
    BY <1>1, <1>7 DEF DescriptorOnce
  <2>2. /\ op_queue \o private_queue[t] \in Seq(Ops) /\ DescriptorFirst(op_queue \o private_queue[t])
    BY <1>5, <2>1, NoDescriptor, FirstOfTwo, ConcatElems
  <2>3. Range(<<Task>>) = {Task}
    BY FewElems
  <2>4. DescriptorFirst(op_queue \o private_queue[t] \o <<Task>>)
    BY <1>5, <1>6, <2>2, <2>3, FirstAlone, FirstOfTwo
  <2>5. DescriptorFirst(queue)
    BY <1>2, <1>5, <2>2, <2>4
  <2>6. Descriptor \in Range(queue) => Descriptor \in Range(op_queue)
    BY <1>2, <1>6, <1>7, <2>1 DEF Joins
  <2>7. DescriptorFirst(op_queue')
    BY <1>2, <1>3, <2>5, FirstTaken
  <2>8. Polls(t)' => Descriptor \notin Range(op_queue')
    BY <1>2, <1>3, <2>5, FirstTaken DEF Polls
  <2>9. \A u \in Threads : Polls(u) => Descriptor \notin Range(op_queue')
    <3>1. queue # <<>> => Range(Tail(queue)) \subseteq Range(queue)
      BY <1>2, TailElems
    <3> QED
      BY <1>3, <2>6, <3>1 DEF DescriptorOnce
  <2>10. Descriptor \notin Range(private_queue'[t]) /\ Descriptor \notin Range(Pending(call'[t]))
    BY <1>1, <1>3, FewElems, PendingPlain
  <2>11. \A u \in Threads \ {t} : /\ Polls(u)' <=> Polls(u)
                                  /\ pc'[u] = pc[u] \/ pc[u] = "waiting"
                                  /\ private_queue'[u] = private_queue[u] /\ call'[u] = call[u]
    BY DEF Others, Polls
  <2> QED
    BY <2>7, <2>8, <2>9, <2>10, <2>11, DescriptorOf
<1>8. CASE pc[t] = "task_cleanup"
  <2>1. RunsIt(t, Task)
    BY <1>8 DEF RunsIt, Polls
  <2>2. Where[Task] = <<"run", t>>
    BY <1>4, <1>6, <2>1 DEF HeldAre
  <2>3. Task \notin Range(op_queue) /\ Task \notin Range(private_queue[t])
    BY <1>4, <1>6, <2>2 DEF SharedAre, HeldAre
  <2>4. Descriptor \notin Range(op_queue)
    BY <1>8 DEF DescriptorOnce, Polls
  <2>5. DescriptorFirst(private_queue[t])
    BY <1>5, <2>3, FreshFirst
  <2>6. op_queue \o private_queue[t] \in Seq(Ops) /\ DescriptorFirst(op_queue \o private_queue[t])
    BY <1>5, <2>3, <2>4, <2>5, FirstOfTwo, ConcatElems
  <2>7. Range(<<Task>>) = {Task}
    BY FewElems
  <2>8. DescriptorFirst(op_queue \o private_queue[t] \o <<Task>>)
    BY <1>5, <1>6, <2>6, <2>7, FirstAlone, FirstOfTwo
  <2>9. DescriptorFirst(queue)
    BY <1>2, <1>5, <2>6, <2>8
  <2>10. DescriptorFirst(op_queue')
    BY <1>2, <1>3, <2>9, FirstTaken
  <2>11. Polls(t)' => Descriptor \notin Range(op_queue')
    BY <1>2, <1>3, <2>9, FirstTaken DEF Polls
  <2>12. \A u \in Threads \ {t} : ~Polls(u)
    <3>1. ASSUME NEW u \in Threads, Polls(u) PROVE u = t
      BY <1>6, <2>1, <3>1, RunByOne DEF RunsIt
    <3> QED
      BY <3>1
  <2>13. Descriptor \notin Range(private_queue'[t]) /\ Descriptor \notin Range(Pending(call'[t]))
    BY <1>1, <1>3, FewElems, PendingPlain
  <2>14. \A u \in Threads \ {t} : /\ Polls(u)' <=> Polls(u)
                                  /\ pc'[u] = pc[u] \/ pc[u] = "waiting"
                                  /\ private_queue'[u] = private_queue[u] /\ call'[u] = call[u]
    BY DEF Others, Polls
  <2> QED
    BY <2>10, <2>11, <2>12, <2>13, <2>14, DescriptorOf
<1> QED
  BY <1>7, <1>8


\* the other steps of run,
LEMMA LoopDescriptor ==
    ASSUME Types, Placed, Control, NoDoubles, DescriptorOnce, NEW t \in Threads, Loop(t), OutsideStrand,
           Others(t)
    PROVE  DescriptorOnce'
<1>1. \A u \in Threads \ {t} : /\ Polls(u)' <=> Polls(u)
                               /\ pc'[u] = pc[u] \/ pc[u] = "waiting"
                               /\ private_queue'[u] = private_queue[u] /\ call'[u] = call[u]
  BY DEF Others, Polls
<1>2. ThreadControl(t)
  BY DEF Control
<1>3. CASE RunOne(t) \/ (Woken(t) /\ signalled) \/ TaskCleanup(t) \/ PushPrivate(t)
  BY <1>3, TurnDescriptor
<1>4. ASSUME op_queue' = op_queue, Polls(t)' => Polls(t),
             Descriptor \in Range(private_queue'[t]) => pc'[t] \in {"check_timers", "task_cleanup"},
             Descriptor \notin Range(Pending(call'[t]))
      PROVE  DescriptorOnce'
  BY <1>1, <1>4, DescriptorOf DEF DescriptorOnce
<1>5. CASE Run(t) \/ (Woken(t) /\ ~signalled) \/ WorkCleanup(t)
  <2>1. call[t] = <<>> /\ private_queue' = private_queue /\ op_queue' = op_queue
    BY <1>2, <1>5 DEF Run, Woken, WorkCleanup, ThreadControl, Returned, service
  <2>2. /\ call'[t] \in {<<>>, <<StopLoop>>} /\ pc[t] \in {"run", "woken", "work_cleanup"}
        /\ pc'[t] \in {"returned", "lock", "waiting", "push_private"}
    BY <1>5, <2>1 DEF Run, Woken, WorkCleanup, Calls, Types, Goto
  <2>3. Descriptor \notin Range(Pending(call'[t]))
    BY <2>2, PendingPlain
  <2> QED
    BY <1>4, <2>1, <2>2, <2>3 DEF Polls, DescriptorOnce
<1>6. CASE Poll(t) \/ CheckTimers(t)
  <2>1. /\ call' = call /\ op_queue' = op_queue /\ pc'[t] \in {"check_timers", "task_cleanup"}
        /\ pc[t] \in {"poll", "poll_block", "check_timers"}
    BY <1>6 DEF Poll, CheckTimers, service, Goto, Types
  <2> QED
    BY <1>4, <2>1 DEF Polls, DescriptorOnce
<1>7. CASE PerformIo(t)
  <2>1. /\ private_queue' = private_queue /\ op_queue' = op_queue /\ call[t] = <<>>
        /\ pc[t] = "complete" /\ pc'[t] \in {"complete", "work_cleanup"}
    BY <1>7 DEF PerformIo, service, Returned, Goto, Types
  <2>2. Descriptor \notin Range(Pending(call'[t]))
    <3>1. CASE pc'[t] = "work_cleanup"
      <4>1. call' = [call EXCEPT ![t] = <<Work>>]
        BY <1>7, <3>1 DEF PerformIo, Calls, Types
      <4>2. call'[t] = <<Work>>
        BY <4>1 DEF Types
      <4> QED
        BY <4>2, PendingPlain
    <3>2. CASE pc'[t] # "work_cleanup"
      <4>1. call'[t] = <<>> \/ \E g \in registered : call'[t] = <<Push(<<g>>)>>
        BY <1>7, <3>2, PerformIoMoves
      <4>2. CASE call'[t] = <<>>
        BY <4>2, PendingPlain
      <4>3. ASSUME NEW g \in registered, call'[t] = <<Push(<<g>>)>>
            PROVE  Descriptor \notin Range(Pending(call'[t]))
        <5>1. Descriptor # g
          BY HandlersAssumption DEF Types, Descriptor
        <5>2. Pending(call'[t]) = <<g>> /\ Range(<<g>>) = {g}
          BY <4>3, PendingPlain, FewElems
        <5> QED
          BY <5>1, <5>2
      <4> QED
        BY <4>1, <4>2, <4>3
    <3> QED
      BY <3>1, <3>2
  <2> QED
    BY <1>4, <2>1, <2>2 DEF Polls, DescriptorOnce
<1> QED
  BY <1>3, <1>5, <1>6, <1>7 DEF Loop

\* Neither does a command, nor the strand.
LEMMA PostDescriptor ==
    ASSUME Types, MoreTypes, DescriptorOnce, NEW t \in Threads, call[t] = <<>>, NEW x \in Ops \ {Descriptor},
           pc[t] \notin {"check_timers", "task_cleanup"}, NEW is_continuation,
           PostImmediate(t, x, is_continuation, <<>>)
    PROVE  Descriptor \notin Range(private_queue'[t]) /\ Descriptor \notin Range(Pending(call'[t]))
<1>1. Descriptor \notin Range(private_queue[t]) /\ private_queue[t] \in Seq(Ops)
  BY DEF DescriptorOnce, Types
<1>2. Range(Append(private_queue[t], x)) = Range(private_queue[t]) \cup {x}
  BY <1>1, AppendElems
<1>3. Range(Pending(<<>>)) = {} /\ Range(Pending(<<Work, Push(<<x>>)>>)) = {x}
  BY PendingPlain, FewElems
<1>4. \/ call'[t] = <<>> /\ private_queue'[t] = Append(private_queue[t], x)
      \/ call'[t] = <<Work, Push(<<x>>)>> /\ private_queue'[t] = private_queue[t]
  BY PostResult
<1> QED
  BY <1>1, <1>2, <1>3, <1>4

\* the commands,
LEMMA CommandDescriptor ==
    ASSUME Types, MoreTypes, Commanded, DescriptorOnce, NEW t \in Threads, Commands(t), OutsideStrand,
           Others(t)
    PROVE  DescriptorOnce'
<1>1. \A u \in Threads \ {t} : /\ Polls(u)' <=> Polls(u)
                               /\ pc'[u] = pc[u] \/ pc[u] = "waiting"
                               /\ private_queue'[u] = private_queue[u] /\ call'[u] = call[u]
  BY DEF Others, Polls
<1>2. call[t] = <<>> /\ pc[t] \in {"app", "handler"} /\ pc' = pc
  BY CommandResult
<1>3. op_queue' = op_queue /\ \A u \in Threads : Polls(u)' <=> Polls(u)
  BY <1>2 DEF Commands, Post, StartOp, ScheduleTimer, CancelTimer, CancelOps, Stop, service, Polls
<1>4. SUFFICES Descriptor \notin Range(private_queue'[t]) /\ Descriptor \notin Range(Pending(call'[t]))
  BY <1>1, <1>3, <1>4, DescriptorOf DEF DescriptorOnce
<1>5. Descriptor \notin Range(private_queue[t]) /\ Range(Pending(<<>>)) = {}
      /\ Range(Pending(<<StopLoop>>)) = {}
  BY <1>2, PendingPlain DEF DescriptorOnce
<1>6. Handlers \subseteq Ops \ {Descriptor}
  BY HandlersAssumption DEF Ops, Descriptor
<1>7. ASSUME NEW via, HandOver(t, via) PROVE Command(t).op \in Ops \ {Descriptor}
  BY <1>6, <1>7, HandedOver
<1>8. CASE Post(t, InStrand(t))
  <2>1. HandOver(t, "post")
        /\ PostImmediate(t, Command(t).op, IsContinuation(t, Command(t).op, InStrand(t)), <<>>)
    BY <1>8 DEF Post
  <2> QED
    BY <1>2, <1>7, <2>1, PostDescriptor
<1>9. CASE \E via \in {"read", "write"} : StartOp(t, via, InStrand(t))
  <2>1. PICK via \in {"read", "write"} : StartOp(t, via, InStrand(t))
    BY <1>9
  <2>2. CASE via \in avail /\ \A g \in registered : Via(g) # via
    <3>1. HandOver(t, via)
          /\ PostImmediate(t, Command(t).op, IsContinuation(t, Command(t).op, InStrand(t)), <<>>)
      BY <2>1, <2>2 DEF StartOp
    <3> QED
      BY <1>2, <1>7, <3>1, PostDescriptor
  <2>3. CASE ~(via \in avail /\ \A g \in registered : Via(g) # via)
    BY <1>2, <1>5, <2>1, <2>3 DEF StartOp
  <2> QED
    BY <2>2, <2>3
<1>10. CASE ScheduleTimer(t)
  BY <1>2, <1>5, <1>10 DEF ScheduleTimer
<1>11. CASE CancelTimer(t)
  <2>1. \/ call' = [call EXCEPT ![t] = <<>>]
        \/ call' = [call EXCEPT ![t] = <<Push(<<Command(t).op>>)>>] /\ Command(t).op \in armed
    BY <1>11 DEF CancelTimer, Calls
  <2>2. CASE call' = [call EXCEPT ![t] = <<>>]
    <3>1. call'[t] = <<>>
      BY <2>2 DEF Types
    <3> QED
      BY <1>5, <1>11, <3>1 DEF CancelTimer
  <2>3. CASE call' = [call EXCEPT ![t] = <<Push(<<Command(t).op>>)>>] /\ Command(t).op \in armed
    <3> DEFINE g == Command(t).op
    <3>1. call'[t] = <<Push(<<g>>)>>
      BY <2>3 DEF Types
    <3>2. g # Descriptor
      BY <1>6, <2>3 DEF Types
    <3>3. Pending(call'[t]) = <<g>> /\ Range(<<g>>) = {g}
      BY <3>1, PendingPlain, FewElems
    <3> HIDE DEF g
    <3>4. Descriptor \notin Range(Pending(call'[t]))
      BY <3>2, <3>3
    <3> QED
      BY <1>5, <1>11, <3>4 DEF CancelTimer
  <2> QED
    BY <2>1, <2>2, <2>3
<1>12. CASE CancelOps(t)
  <2>1. CASE call' = call
    BY <1>2, <1>5, <1>12, <2>1 DEF CancelOps
  <2>2. ASSUME NEW ops \in [1..Cardinality(registered) -> registered], Calls(t, <<Push(ops)>>)
        PROVE  Descriptor \notin Range(Pending(call'[t]))
    <3>1. call' = [call EXCEPT ![t] = <<Push(ops)>>]
      BY <2>2 DEF Calls
    <3>2. call'[t] = <<Push(ops)>>
      BY <3>1 DEF Types
    <3>3. Descriptor \notin Range(ops)
      BY <1>6 DEF Range, Types
    <3> QED
      BY <3>2, <3>3, PendingPlain
  <2> QED
    BY <1>5, <1>12, <2>1, <2>2 DEF CancelOps
<1>13. CASE Stop(t)
  <2>1. call' = [call EXCEPT ![t] = <<StopLoop>>]
    BY <1>13 DEF Stop, Calls
  <2>2. call'[t] = <<StopLoop>>
    BY <2>1 DEF Types
  <2> QED
    BY <1>5, <1>13, <2>2 DEF Stop
<1> QED
  BY <1>8, <1>9, <1>10, <1>11, <1>12, <1>13 DEF Commands

\* and the strand.
LEMMA StrandDescriptor ==
    ASSUME Types, MoreTypes, Placed, Control, Commanded, DescriptorOnce, NEW t \in Threads, StrandSteps(t),
           Others(t)
    PROVE  DescriptorOnce'
<1>1. \A u \in Threads \ {t} : /\ Polls(u)' <=> Polls(u)
                               /\ pc'[u] = pc[u] \/ pc[u] = "waiting"
                               /\ private_queue'[u] = private_queue[u] /\ call'[u] = call[u]
  BY DEF Others, Polls
<1>2. op_queue' = op_queue
  BY DEF StrandSteps, CompleteHandler, Dispatch, CompleteStrand, RunReady, HandlerEnds,
         LeaveStrand, StrandPost, PushReady, InsideStrand, service
<1>3. ASSUME Polls(t)' => Polls(t),
             Descriptor \in Range(private_queue'[t]) => pc'[t] \in {"check_timers", "task_cleanup"},
             Descriptor \notin Range(Pending(call'[t]))
      PROVE  DescriptorOnce'
  BY <1>1, <1>2, <1>3, DescriptorOf DEF DescriptorOnce
<1>4. Descriptor \notin Range(Pending(call[t]))
  BY DEF DescriptorOnce
<1>5. CASE CompleteHandler(t) \/ CompleteStrand(t) \/ HandlerEnds(t) \/ Dispatch(t) \/ RunReady(t)
  <2>1. /\ call' = call /\ private_queue' = private_queue
        /\ pc[t] \in {"complete", "handler", "strand"}
        /\ pc'[t] \in {"handler", "strand", "leave_strand", "work_cleanup"}
    BY <1>5 DEF CompleteHandler, CompleteStrand, HandlerEnds, Dispatch, RunReady, Invoke, Goto, Types
  <2>2. Descriptor \notin Range(private_queue[t])
    BY <2>1 DEF DescriptorOnce
  <2> QED
    BY <1>3, <1>4, <2>1, <2>2 DEF Polls
<1>6. CASE LeaveStrand(t)
  <2>1. /\ call[t] = <<>> /\ pc[t] \in {"strand", "leave_strand"} /\ pc'[t] = "work_cleanup"
    BY <1>6, LeaveStrandFacts
  <2>2. PICK is_continuation \in BOOLEAN : Exit(t, is_continuation)
    BY <1>6 DEF LeaveStrand
  <2>3. Strand \in Ops \ {Descriptor}
    BY DEF Strand, Descriptor, Ops
  <2>4. Descriptor \notin Range(private_queue[t])
    BY <2>1 DEF DescriptorOnce
  <2>5. Descriptor \notin Range(private_queue'[t]) /\ Descriptor \notin Range(Pending(call'[t]))
    <3>1. CASE PostImmediate(t, Strand, is_continuation, <<>>)
      BY <2>1, <2>3, <3>1, PostDescriptor
    <3>2. CASE call' = call /\ private_queue' = private_queue
      BY <1>4, <2>4, <3>2
    <3> QED
      BY <2>2, <3>1, <3>2 DEF Exit
  <2> QED
    BY <1>3, <2>1, <2>5 DEF Polls
<1>7. CASE StrandPost(t) \/ PushReady(t)
  <2>1. private_queue' = private_queue /\ pc' = pc
    BY <1>7 DEF StrandPost, PushReady
  <2>2. Descriptor \notin Range(Pending(call'[t]))
    <3>1. CASE StrandPost(t)
      <4>1. PICK h : call'[t] \in {call[t], <<ToReady(h), Work, Push(<<Strand>>)>>}
        <5>1. \/ call' = call
              \/ call' = [call EXCEPT ![t] = <<ToReady(Command(t).op), Work, Push(<<Strand>>)>>]
          BY <3>1 DEF StrandPost, Calls
        <5>2. call'[t] \in {call[t], <<ToReady(Command(t).op), Work, Push(<<Strand>>)>>}
          BY <5>1 DEF Types
        <5> QED
          BY <5>2
      <4>2. Range(Pending(<<ToReady(h), Work, Push(<<Strand>>)>>)) = {Strand} /\ Strand # Descriptor
        BY PendingPlain DEF Strand, Descriptor
      <4> QED
        BY <1>4, <4>1, <4>2
    <3>2. CASE PushReady(t)
      <4>1. call'[t] = <<Work, Push(<<Strand>>)>>
        BY <3>2, PushReadyMoves
      <4>2. Range(Pending(<<Work, Push(<<Strand>>)>>)) = {Strand} /\ Strand # Descriptor
        BY PendingPlain, FewElems DEF Strand, Descriptor
      <4> QED
        BY <4>1, <4>2
    <3> QED
      BY <1>7, <3>1, <3>2
  <2> QED
    BY <1>3, <2>1, <2>2 DEF Polls, DescriptorOnce
<1> QED
  BY <1>5, <1>6, <1>7 DEF StrandSteps


----------------------------------------------------------------------------
(* What is handed over.                                                    *)

\* Nothing is handed over or told.
LEMMA CommandedSame ==
    ASSUME Commanded, program'.does = program.does, status' = status, todo' = todo PROVE Commanded'
BY DEF Commanded, MayStop

\* A thread is done with a command that hands nothing over.
LEMMA CommandedNext ==
    ASSUME Types, Commanded, NEW t \in Threads, todo[t] # <<>>, NextCommand(t),
           program' = program, status' = status
    PROVE  Commanded'
<1>1. \A u \in Threads \ {t} : todo'[u] = todo[u]
  BY DEF NextCommand, Types
<1>2. todo'[t] = Tail(todo[t]) /\ todo[t] \in Seq(CommandType)
  BY DEF NextCommand, Types
<1>3. \A i \in DOMAIN todo'[t] : i + 1 \in DOMAIN todo[t] /\ todo'[t][i] = todo[t][i + 1] /\ i \in Int
  BY <1>2
<1>4. \A u \in Threads : \A i \in DOMAIN todo'[u] : \E j \in DOMAIN todo[u] : todo'[u][i] = todo[u][j]
  BY <1>1, <1>3
<1>5. \A u, v \in Threads : \A i \in DOMAIN todo'[u], j \in DOMAIN todo'[v] :
         /\ todo'[u][i].do = "hand_over" /\ todo'[v][j].do = "hand_over"
         /\ todo'[u][i].op = todo'[v][j].op
         => u = v /\ i = j
  <2> SUFFICES ASSUME NEW u \in Threads, NEW v \in Threads,
                      NEW i \in DOMAIN todo'[u], NEW j \in DOMAIN todo'[v],
                      todo'[u][i].do = "hand_over", todo'[v][j].do = "hand_over",
                      todo'[u][i].op = todo'[v][j].op
               PROVE  u = v /\ i = j
    OBVIOUS
  <2>1. u = v
    BY <1>4 DEF Commanded
  <2>2. CASE u = t
    <3>1. i + 1 = j + 1 /\ i \in Int /\ j \in Int
      BY <1>3, <2>1, <2>2 DEF Commanded
    <3> QED
      BY <2>1, <3>1
  <2>3. CASE u # t
    BY <1>1, <2>1, <2>3 DEF Commanded
  <2> QED
    BY <2>2, <2>3
<1>6. MayStop' <=> MayStop
  BY DEF MayStop
<1> QED
  BY <1>4, <1>5, <1>6 DEF Commanded

\* A thread hands a handler over.
LEMMA CommandedHandOver ==
    ASSUME Types, MoreTypes, Commanded, NEW t \in Threads, NEW via, HandOver(t, via), program' = program
    PROVE  Commanded'
<1> DEFINE h == Command(t).op
<1>1. /\ todo[t] # <<>> /\ h \in Handlers /\ status[h] = "new" /\ Command(t).do = "hand_over"
      /\ status' = [status EXCEPT ![h] = "pending"] /\ NextCommand(t)
  BY HandedOver DEF HandOver, Active
<1>2. \A u \in Threads \ {t} : todo'[u] = todo[u]
  BY <1>1 DEF NextCommand, Types
<1>3. todo'[t] = Tail(todo[t]) /\ todo[t] \in Seq(CommandType)
  BY <1>1 DEF NextCommand, Types
<1>4. \A i \in DOMAIN todo'[t] : /\ i + 1 \in DOMAIN todo[t] /\ todo'[t][i] = todo[t][i + 1] /\ i \in Int
                                 /\ i + 1 # 1
  BY <1>1, <1>3
<1>5. 1 \in DOMAIN todo[t] /\ todo[t][1] = Command(t)
  BY <1>1, <1>3 DEF Command
<1>6. \A u \in Threads : \A i \in DOMAIN todo'[u] : \E j \in DOMAIN todo[u] :
          /\ todo'[u][i] = todo[u][j]
          /\ todo[u][j].do = "hand_over" => todo[u][j].op # h
  <2>1. ASSUME NEW u \in Threads \ {t}, NEW i \in DOMAIN todo'[u]
        PROVE  todo[u][i].do = "hand_over" => todo[u][i].op # h
    <3>1. i \in DOMAIN todo[u]
      BY <1>2, <2>1
    <3> QED
      BY <1>1, <1>5, <2>1, <3>1 DEF Commanded
  <2>2. ASSUME NEW i \in DOMAIN todo'[t]
        PROVE  todo[t][i + 1].do = "hand_over" => todo[t][i + 1].op # h
    BY <1>1, <1>4, <1>5, <2>2 DEF Commanded
  <2> QED
    BY <1>2, <1>4, <2>1, <2>2
<1>7. \A u, v \in Threads : \A i \in DOMAIN todo'[u], j \in DOMAIN todo'[v] :
         /\ todo'[u][i].do = "hand_over" /\ todo'[v][j].do = "hand_over"
         /\ todo'[u][i].op = todo'[v][j].op
         => u = v /\ i = j
  <2> SUFFICES ASSUME NEW u \in Threads, NEW v \in Threads,
                      NEW i \in DOMAIN todo'[u], NEW j \in DOMAIN todo'[v],
                      todo'[u][i].do = "hand_over", todo'[v][j].do = "hand_over",
                      todo'[u][i].op = todo'[v][j].op
               PROVE  u = v /\ i = j
    OBVIOUS
  <2>1. u = v
    BY <1>6 DEF Commanded
  <2>2. CASE u = t
    <3>1. i + 1 = j + 1 /\ i \in Int /\ j \in Int
      BY <1>4, <2>1, <2>2 DEF Commanded
    <3> QED
      BY <2>1, <3>1
  <2>3. CASE u # t
    BY <1>2, <2>1, <2>3 DEF Commanded
  <2> QED
    BY <2>2, <2>3
<1>8. MayStop' <=> MayStop
  BY DEF MayStop
<1>9. ASSUME NEW x \in Handlers, status[x] = "new", x # h PROVE status'[x] = "new"
  BY <1>1, <1>9
<1>10. \A u \in Threads : \A i \in DOMAIN todo'[u] :
          /\ todo'[u][i].do = "hand_over" => status'[todo'[u][i].op] = "new"
          /\ todo'[u][i].do = "stop" => MayStop
  <2> SUFFICES ASSUME NEW u \in Threads, NEW i \in DOMAIN todo'[u]
               PROVE  /\ todo'[u][i].do = "hand_over" => status'[todo'[u][i].op] = "new"
                      /\ todo'[u][i].do = "stop" => MayStop
    OBVIOUS
  <2>1. PICK j \in DOMAIN todo[u] : /\ todo'[u][i] = todo[u][j]
                                    /\ todo[u][j].do = "hand_over" => todo[u][j].op # h
    BY <1>6
  <2>2. todo[u][j] \in CommandType
    BY DEF Types
  <2>3. todo[u][j].do = "hand_over" => todo[u][j].op \in Handlers
    BY <2>2 DEF CommandType
  <2> QED
    BY <1>9, <2>1, <2>3 DEF Commanded
<1>11. ASSUME NEW x \in Handlers, status'[x] \in {"new", "pending"}, NEW i \in DOMAIN program.does[x],
              program.does[x][i].do = "hand_over"
       PROVE  /\ status'[program.does[x][i].op] = "new"
              /\ \A u \in Threads : \A j \in DOMAIN todo'[u] :
                   todo'[u][j].do = "hand_over" => todo'[u][j].op # program.does[x][i].op
  <2> DEFINE o == program.does[x][i].op
  <2>1. status[x] \in {"new", "pending"}
    BY <1>1, <1>11
  <2>2. /\ status[o] = "new"
        /\ \A u \in Threads : \A j \in DOMAIN todo[u] : todo[u][j].do = "hand_over" => todo[u][j].op # o
    BY <1>11, <2>1 DEF Commanded
  <2>3. o # h
    BY <1>1, <1>5, <2>2
  <2>4. program.does[x] \in Seq(CommandType)
    BY DEF Types
  <2>5. program.does[x][i] \in CommandType
    BY <2>4
  <2>6. o \in Handlers
    BY <1>11, <2>5 DEF CommandType
  <2> HIDE DEF o, h
  <2>7. status'[o] = "new"
    BY <1>9, <2>2, <2>3, <2>6
  <2>8. \A u \in Threads : \A j \in DOMAIN todo'[u] : todo'[u][j].do = "hand_over" => todo'[u][j].op # o
    BY <1>6, <2>2
  <2> QED
    BY <2>7, <2>8 DEF o
<1> QED
  BY <1>7, <1>8, <1>10, <1>11 DEF Commanded

\* A thread calls a handler, that has not run before.
LEMMA CommandedInvoke ==
    ASSUME Types, MoreTypes, Commanded, NEW t \in Threads, NEW h \in Handlers, status[h] = "pending",
           NEW from, Invoke(t, h, from), program' = program
    PROVE  Commanded'
<1>1. /\ status' = [status EXCEPT ![h] = "running"] /\ todo'[t] = program.does[h]
      /\ \A u \in Threads \ {t} : todo'[u] = todo[u]
  BY DEF Invoke, Types
<1>2. h \in DOMAIN program.does /\ program.does[h] \in Seq(CommandType)
  BY DEF Types
<1>3. \A i \in DOMAIN program.does[h] :
         program.does[h][i].do = "hand_over" =>
             /\ status[program.does[h][i].op] = "new"
             /\ \A u \in Threads : \A j \in DOMAIN todo[u] :
                   todo[u][j].do = "hand_over" => todo[u][j].op # program.does[h][i].op
  BY DEF Commanded
<1>4. MayStop' <=> MayStop
  BY DEF MayStop
<1>5. \A x : status[x] = "new" => status'[x] = "new"
  BY <1>1 DEF MoreTypes
<1>6. \A u \in Threads : \A i \in DOMAIN todo'[u] :
          /\ todo'[u][i].do = "hand_over" => status'[todo'[u][i].op] = "new"
          /\ todo'[u][i].do = "stop" => MayStop
  <2>1. ASSUME NEW i \in DOMAIN program.does[h], program.does[h][i].do = "stop" PROVE MayStop
    BY <1>2, <2>1 DEF MayStop
  <2>2. \A i \in DOMAIN todo'[t] : /\ todo'[t][i].do = "hand_over" => status'[todo'[t][i].op] = "new"
                                   /\ todo'[t][i].do = "stop" => MayStop
    BY <1>1, <1>3, <1>5, <2>1
  <2>3. ASSUME NEW u \in Threads \ {t}
        PROVE  \A i \in DOMAIN todo'[u] : /\ todo'[u][i].do = "hand_over" => status'[todo'[u][i].op] = "new"
                                          /\ todo'[u][i].do = "stop" => MayStop
    BY <1>1, <1>5 DEF Commanded
  <2> QED
    BY <2>2, <2>3
<1>7. \A u, v \in Threads : \A i \in DOMAIN todo'[u], j \in DOMAIN todo'[v] :
         /\ todo'[u][i].do = "hand_over" /\ todo'[v][j].do = "hand_over"
         /\ todo'[u][i].op = todo'[v][j].op
         => u = v /\ i = j
  <2> SUFFICES ASSUME NEW u \in Threads, NEW v \in Threads,
                      NEW i \in DOMAIN todo'[u], NEW j \in DOMAIN todo'[v],
                      todo'[u][i].do = "hand_over", todo'[v][j].do = "hand_over",
                      todo'[u][i].op = todo'[v][j].op
               PROVE  u = v /\ i = j
    OBVIOUS
  <2>1. CASE u = t /\ v = t
    BY <1>1, <1>2, <2>1 DEF Commanded
  <2>2. CASE u # t /\ v # t
    BY <1>1, <2>2 DEF Commanded
  <2>3. CASE u = t /\ v # t
    BY <1>1, <1>3, <2>3
  <2>4. CASE u # t /\ v = t
    BY <1>1, <1>3, <2>4
  <2> QED
    BY <2>1, <2>2, <2>3, <2>4
<1>8. ASSUME NEW x \in Handlers, status'[x] \in {"new", "pending"}, NEW i \in DOMAIN program.does[x],
             program.does[x][i].do = "hand_over"
      PROVE  /\ status'[program.does[x][i].op] = "new"
             /\ \A u \in Threads : \A j \in DOMAIN todo'[u] :
                  todo'[u][j].do = "hand_over" => todo'[u][j].op # program.does[x][i].op
  <2>1. x # h /\ status[x] \in {"new", "pending"}
    BY <1>1, <1>8 DEF MoreTypes
  <2>2. /\ status[program.does[x][i].op] = "new"
        /\ \A u \in Threads : \A j \in DOMAIN todo[u] :
              todo[u][j].do = "hand_over" => todo[u][j].op # program.does[x][i].op
    BY <1>8, <2>1 DEF Commanded
  <2>3. x \in DOMAIN program.does
    BY DEF Types
  <2>4. \A j \in DOMAIN todo'[t] : todo'[t][j].do = "hand_over" => todo'[t][j].op # program.does[x][i].op
    BY <1>1, <1>2, <1>8, <2>1, <2>3 DEF Commanded
  <2> QED
    BY <1>1, <1>5, <2>2, <2>4
<1> QED
  BY <1>4, <1>6, <1>7, <1>8 DEF Commanded

\* A handler ends.
LEMMA CommandedEnds ==
    ASSUME MoreTypes, Commanded, NEW h, status[h] = "running",
           status' = [status EXCEPT ![h] = "done"], todo' = todo, program' = program
    PROVE  Commanded'
<1>1. MayStop' <=> MayStop
  BY DEF MayStop
<1>2. \A x : status[x] = "new" => status'[x] = "new"
  BY DEF MoreTypes
<1>3. \A x \in Handlers : status'[x] \in {"new", "pending"} => status[x] \in {"new", "pending"}
  BY DEF MoreTypes
<1> QED
  BY <1>1, <1>2, <1>3 DEF Commanded


\* What a thread is about to run has not run yet.
LEMMA BeforeRun ==
    ASSUME Types, MoreTypes, Placed, Running, NEW t \in Threads, NEW h \in Handlers,
           \/ pc[t] = "complete" /\ cur[t].op = h
           \/ h \in Range(ready_queue)
    PROVE  status[h] = "pending"
<1>1. h \in Units /\ Where \in [Units -> Places] /\ SharedAre(Where) /\ HeldAre(Where, t)
  BY WhereIs DEF Units
<1>2. Where[h] = <<"run", t>> \/ Where[h] = <<"ready_queue_", Service>>
  BY <1>1 DEF SharedAre, HeldAre, RunsIt
<1>3. status[h] \notin {"new", "done"}
  BY <1>1, <1>2 DEF SharedAre
<1>4. ASSUME NEW u \in Threads, pc[u] = "handler", handler[u] = h PROVE FALSE
  <2>1. RunsIt(u, h)
    BY <1>4 DEF RunsIt
  <2>2. Where[h] = <<"run", u>>
    BY <1>1, <2>1, WhereIs DEF HeldAre
  <2>3. u = t /\ h \notin Range(ready_queue)
    BY <1>1, <1>2, <2>2 DEF SharedAre
  <2> QED
    BY <1>4, <2>3
<1> QED
  BY <1>3, <1>4 DEF MoreTypes, Running

\* The steps of a call hand over nothing,
LEMMA CallCommanded ==
    ASSUME Commanded, NEW t \in Threads, CallSteps(t) PROVE Commanded'
<1>1. program' = program /\ status' = status /\ todo' = todo
  BY DEF CallSteps, WorkStarted, PushOps, SignalOne, StopAllThreads
<1> QED
  BY <1>1, CommandedSame

\* nor does run.
LEMMA LoopCommanded ==
    ASSUME Commanded, NEW t \in Threads, Loop(t) PROVE Commanded'
<1>1. program' = program /\ status' = status /\ todo' = todo
  BY DEF Loop, Run, RunOne, Woken, TaskCleanup, WorkCleanup, PushPrivate, Poll, CheckTimers, PerformIo,
         TurnUnchanged
<1> QED
  BY <1>1, CommandedSame

\* A command hands over what no other command does,
LEMMA CommandCommanded ==
    ASSUME Types, MoreTypes, Commanded, NEW t \in Threads, Commands(t) PROVE Commanded'
<1>1. program' = program
  BY DEF Commands, Post, StartOp, ScheduleTimer, CancelTimer, CancelOps, Stop
<1>2. CASE \E via : HandOver(t, via)
  BY <1>1, <1>2, CommandedHandOver
<1>3. CASE CancelTimer(t) \/ CancelOps(t) \/ Stop(t)
  <2>1. status' = status /\ todo[t] # <<>> /\ NextCommand(t)
    BY <1>3 DEF CancelTimer, CancelOps, Stop, Active
  <2> QED
    BY <1>1, <2>1, CommandedNext
<1> QED
  BY <1>2, <1>3 DEF Commands, Post, StartOp, ScheduleTimer

\* also when the strand is posted to or calls a handler.
LEMMA StrandCommanded ==
    ASSUME Types, MoreTypes, Placed, Control, Commanded, NEW t \in Threads, StrandSteps(t)
    PROVE  Commanded'
<1>1. program' = program
  BY DEF StrandSteps, CompleteHandler, Dispatch, CompleteStrand, RunReady, HandlerEnds, LeaveStrand,
         StrandPost, PushReady, InsideStrand
<1>2. CASE CompleteHandler(t)
  <2>1. pc[t] = "complete" /\ cur[t].op \in Handlers /\ Invoke(t, cur[t].op, "loop")
    BY <1>2 DEF CompleteHandler
  <2>2. status[cur[t].op] = "pending"
    BY <2>1, BeforeRun DEF Control
  <2> QED
    BY <1>1, <2>1, <2>2, CommandedInvoke
<1>3. CASE Dispatch(t)
  <2>1. CASE locked
    BY <1>1, <1>3, <2>1, CommandedSame DEF Dispatch
  <2>2. CASE ~locked
    <3>1. pc[t] = "complete" /\ cur[t].op \in Handlers /\ Invoke(t, cur[t].op, "dispatch")
      BY <1>3, <2>2 DEF Dispatch
    <3>2. status[cur[t].op] = "pending"
      BY <3>1, BeforeRun DEF Control
    <3> QED
      BY <1>1, <3>1, <3>2, CommandedInvoke
  <2> QED
    BY <2>1, <2>2
<1>4. CASE CompleteStrand(t) \/ LeaveStrand(t) \/ PushReady(t)
  <2>1. status' = status /\ todo' = todo
    BY <1>4 DEF CompleteStrand, LeaveStrand, PushReady
  <2> QED
    BY <1>1, <2>1, CommandedSame
<1>5. CASE RunReady(t)
  <2>1. ready_queue # <<>> /\ Invoke(t, Head(ready_queue), "do_complete")
    BY <1>5 DEF RunReady
  <2>2. Head(ready_queue) \in Handlers /\ Head(ready_queue) \in Range(ready_queue)
    BY <2>1, TailElems DEF Types
  <2>3. status[Head(ready_queue)] = "pending"
    BY <2>2, BeforeRun DEF Control
  <2> QED
    BY <1>1, <2>1, <2>2, <2>3, CommandedInvoke
<1>6. CASE HandlerEnds(t)
  <2>1. pc[t] = "handler" /\ status' = [status EXCEPT ![handler[t]] = "done"] /\ todo' = todo
    BY <1>6 DEF HandlerEnds
  <2>2. handler[t] \in Handlers
    BY <2>1 DEF Control, ThreadControl
  <2>3. status[handler[t]] = "running"
    BY <2>1, <2>2 DEF Control, Running
  <2> QED
    BY <1>1, <2>1, <2>3, CommandedEnds
<1>7. CASE StrandPost(t)
  <2>1. HandOver(t, "strand")
    BY <1>7 DEF StrandPost
  <2> QED
    BY <1>1, <2>1, CommandedHandOver
<1> QED
  BY <1>2, <1>3, <1>4, <1>5, <1>6, <1>7 DEF StrandSteps

\* Nothing outside the process hands anything over.
LEMMA EnvironmentCommanded ==
    ASSUME Types, Commanded, Environment PROVE Commanded'
<1>1. status' = status /\ todo' = todo
  BY DEF Environment, SocketReady, TimePasses, SpuriousWakeup, threads
<1>2. program'.does = program.does
  BY DEF Environment, SocketReady, TimePasses, SpuriousWakeup, Types
<1> QED
  BY <1>1, <1>2, CommandedSame

\* Nor does it change the queues.
LEMMA EnvironmentQueues ==
    ASSUME Types, NoDoubles, DescriptorOnce, Environment PROVE NoDoubles' /\ DescriptorOnce'
<1>1. op_queue' = op_queue /\ ready_queue' = ready_queue /\ waiting_queue' = waiting_queue
      /\ private_queue' = private_queue /\ call' = call
  BY DEF Environment, SocketReady, TimePasses, SpuriousWakeup, threads, service, OutsideStrand, strand
<1>2. \A t \in Threads : pc'[t] = pc[t] \/ (pc[t] = "waiting" /\ pc'[t] = "woken")
  BY DEF Environment, SocketReady, TimePasses, SpuriousWakeup, threads, Goto, Types
<1>3. NoDoubles'
  BY <1>1 DEF NoDoubles
<1>4. \A t \in Threads : Polls(t)' <=> Polls(t)
  BY <1>2 DEF Polls
<1>5. DescriptorOnce'
  BY <1>1, <1>2, <1>4 DEF DescriptorOnce
<1> QED
  BY <1>3, <1>5


----------------------------------------------------------------------------
(* The initial states.                                                     *)

\* The initial states have the types,
LEMMA InitTypes == Init => Types /\ MoreTypes
<1> SUFFICES ASSUME Init PROVE Types /\ MoreTypes
  OBVIOUS
<1>1. Types
  BY InitScheduled
<1> QED
  BY <1>1 DEF Init, IoInit, MoreTypes, Types

\* The reactor is queued, what was started is registered.
LEMMA InitPlaced ==
    ASSUME Init
    PROVE  Placed /\ Where = [x \in Units |-> IF x = Task THEN <<"op_queue_", Service>>
                                              ELSE IF x \in program.started THEN <<"registered", Service>>
                                              ELSE <<"nowhere", Service>>]
<1>1. PICK m \in [Units -> Places] :
         m = [x \in Units |-> IF x = Task THEN <<"op_queue_", Service>>
                              ELSE IF x \in program.started THEN <<"registered", Service>>
                              ELSE <<"nowhere", Service>>]
  BY DEF Places, Shared
<1>2. program.started \subseteq Handlers /\ Types
  BY InitTypes DEF Types
<1>3. Task \notin Handlers /\ Strand \notin Handlers /\ Task # Strand
  BY HandlersAssumption DEF Task, Strand
<1>4. /\ Range(op_queue) = {Task} /\ Range(ready_queue) = {} /\ Range(waiting_queue) = {}
      /\ registered = program.started /\ armed = {} /\ ~locked
  BY FewElems DEF Init, IoInit
<1>5. \A h \in Handlers : status[h] \in {"new", "done"} <=> h \notin program.started
  BY DEF Init, IoInit
<1>6. SharedAre(m)
  BY <1>1, <1>2, <1>3, <1>4, <1>5 DEF SharedAre, Units
<1>7. ASSUME NEW t \in Threads PROVE HeldAre(m, t)
  <2>1. call[t] = <<>> /\ pc[t] \in {"run", "app"} /\ private_queue[t] = <<>>
    BY DEF Init, IoInit
  <2>2. Uncounting(call[t]) = {} /\ Pushing(call[t]) = {} /\ Readying(call[t]) = {}
    BY <2>1, CallHolds
  <2>3. Range(private_queue[t]) = {}
    BY <2>1, FewElems
  <2>4. \A x \in Units : ~RunsIt(t, x)
    BY <2>1 DEF RunsIt, Runs, Polls
  <2> QED
    BY <1>1, <2>2, <2>3, <2>4 DEF HeldAre
<1> QED
  BY <1>1, <1>6, <1>7, OneMap DEF Map

\* and the threads begin in run or in their program.
LEMMA InitControl ==
    ASSUME Init PROVE Control /\ NoDoubles /\ DescriptorOnce /\ Commanded
<1>1. /\ \A t \in Threads : /\ call[t] = <<>> /\ private_queue[t] = <<>>
                            /\ pc[t] = (IF t \in Runners THEN "run" ELSE "app")
                            /\ todo[t] = (IF t \in Apps THEN program.does[t] ELSE <<>>)
      /\ op_queue = <<Task>> /\ ready_queue = <<>> /\ waiting_queue = <<>>
      /\ \A h \in Handlers : status[h] = IF h \in program.started THEN "pending" ELSE "new"
  BY DEF Init, IoInit
<1>2. program \in Programs /\ Types
  BY InitTypes DEF Init, IoInit
<1>3. Control
  <2>1. Running
    BY <1>1 DEF Running
  <2>2. ASSUME NEW t \in Threads PROVE ThreadControl(t)
    <3>1. ~Uncounted(t)
      BY <1>1, Forms DEF Uncounted
    <3>2. t \in Apps <=> t \notin Runners
      BY ThreadsAssumption DEF Threads
    <3> QED
      BY <1>1, <3>1, <3>2, Forms DEF ThreadControl, InProgress
  <2> QED
    BY <2>1, <2>2 DEF Control
<1>4. NoDoubles
  <2>1. Pending(<<>>) = <<>>
    BY DEF Pending
  <2> QED
    BY <1>1, <2>1, FewElems DEF NoDoubles
<1>5. DescriptorOnce
  <2>1. Range(Pending(<<>>)) = {} /\ Range(<<>>) = {}
    BY PendingPlain, FewElems
  <2> QED
    BY <1>1, <2>1, FirstAlone DEF DescriptorOnce, Polls
<1>6. \A x, y \in DOMAIN program.does :
        \A i \in DOMAIN program.does[x], j \in DOMAIN program.does[y] :
            program.does[x][i].do = "hand_over" =>
                /\ program.does[x][i].op \notin program.started
                /\ program.does[y][j].do = "hand_over" /\ program.does[y][j].op = program.does[x][i].op
                       => x = y /\ i = j
  <2>1. DOMAIN program.does = Handlers \cup Apps
    BY <1>2 DEF Types
  <2> QED
    BY <1>2, <2>1, HandOverAssumption
<1>7. \A x \in DOMAIN program.does : \A i \in DOMAIN program.does[x] :
         /\ program.does[x][i].do = "hand_over" => status[program.does[x][i].op] = "new"
         /\ program.does[x][i].do = "stop" => MayStop
  <2> SUFFICES ASSUME NEW x \in DOMAIN program.does, NEW i \in DOMAIN program.does[x]
               PROVE  /\ program.does[x][i].do = "hand_over" => status[program.does[x][i].op] = "new"
                      /\ program.does[x][i].do = "stop" => MayStop
    OBVIOUS
  <2>1. program.does[x] \in Seq(CommandType)
    BY <1>2 DEF Types
  <2>2. program.does[x][i] \in CommandType
    BY <2>1
  <2>3. program.does[x][i].do = "hand_over" => program.does[x][i].op \in Handlers
    BY <2>2 DEF CommandType
  <2> QED
    BY <1>1, <1>6, <2>3 DEF MayStop
<1>8. \A t \in Threads : \A i \in DOMAIN todo[t] : t \in Apps /\ todo[t] = program.does[t]
  BY <1>1
<1>9. Apps \subseteq DOMAIN program.does /\ Handlers \subseteq DOMAIN program.does
  BY <1>2 DEF Types
<1>10. \A t \in Threads : \A i \in DOMAIN todo[t] :
          /\ todo[t][i].do = "hand_over" => status[todo[t][i].op] = "new"
          /\ todo[t][i].do = "stop" => MayStop
  BY <1>7, <1>8, <1>9
<1>11. \A t, u \in Threads : \A i \in DOMAIN todo[t], j \in DOMAIN todo[u] :
          /\ todo[t][i].do = "hand_over" /\ todo[u][j].do = "hand_over"
          /\ todo[t][i].op = todo[u][j].op
          => t = u /\ i = j
  BY <1>6, <1>8, <1>9
<1>12. ASSUME NEW h \in Handlers, NEW i \in DOMAIN program.does[h], program.does[h][i].do = "hand_over",
              NEW t \in Threads, NEW j \in DOMAIN todo[t], todo[t][j].do = "hand_over",
              todo[t][j].op = program.does[h][i].op
       PROVE  FALSE
  <2>1. t = h /\ t \in Apps
    BY <1>6, <1>8, <1>9, <1>12
  <2> QED
    BY <2>1, HandlersAssumption
<1>13. Commanded
  BY <1>6, <1>7, <1>9, <1>10, <1>11, <1>12 DEF Commanded
<1> QED
  BY <1>3, <1>4, <1>5, <1>13


----------------------------------------------------------------------------
(* What outstanding_work_ counts.                                          *)

CountedAt == {"op_queue_", "registered", "armed", "pushed", "moved"}

\* There is no end of neither.
LEMMA FiniteWork ==
    /\ IsFiniteSet(Counted) /\ Cardinality(Counted) \in Nat
    /\ IsFiniteSet(Busy) /\ Cardinality(Busy) \in Nat
    /\ \A t : IsFiniteSet(Kept(t)) /\ Cardinality(Kept(t)) \in Nat
<1>1. IsFiniteSet(Works)
  BY HandlersAssumption, FS_AddElement DEF Works
<1>2. IsFiniteSet(Counted) /\ \A t : IsFiniteSet(Kept(t))
  <2>1. Counted \in SUBSET Works /\ \A t : Kept(t) \in SUBSET Works
    BY DEF Counted, Kept
  <2> QED
    BY <1>1, <2>1, FS_Subset
<1>3. IsFiniteSet(Busy)
  <2>1. Busy \in SUBSET Runners
    BY DEF Busy
  <2> QED
    BY <2>1, ThreadsAssumption, FS_Subset
<1> QED
  BY <1>2, <1>3, FS_CardinalityType

\* What a thread has in its private queue is what it has still to count.
LEMMA KeptIs ==
    Placed => \A t \in Threads :
                 Kept(t) = IF InProgress(t) THEN Works \cap Range(private_queue[t]) ELSE {}
<1> SUFFICES ASSUME Placed, NEW t \in Threads
             PROVE  Kept(t) = IF InProgress(t) THEN Works \cap Range(private_queue[t]) ELSE {}
  OBVIOUS
<1>1. HeldAre(Where, t) /\ Works \subseteq Units
  BY WhereIs DEF Works, Units
<1> QED
  BY <1>1 DEF HeldAre, Kept

\* The same after a step.
LEMMA KeptIsNext ==
    (Placed => \A t \in Threads :
                  Kept(t) = IF InProgress(t) THEN Works \cap Range(private_queue[t]) ELSE {})'
BY KeptIs, PTL

\* What is done to the count is done to what it counts.
LEMMA Balance ==
    ASSUME WorkCounted, NEW t, NEW x, NEW K, IsFiniteSet(K),
           \/ Counted' = Counted /\ Busy' = Busy /\ outstanding_work' = outstanding_work
           \/ /\ x \notin Counted /\ Counted' = Counted \cup {x} /\ Busy' = Busy
              /\ outstanding_work' = outstanding_work + 1
           \/ /\ Counted' = Counted /\ t \notin Busy /\ Busy' = Busy \cup {t}
              /\ outstanding_work' = outstanding_work + 1
           \/ /\ x \in Counted /\ Counted' = Counted \ {x} /\ t \notin Busy /\ Busy' = Busy \cup {t}
              /\ outstanding_work' = outstanding_work
           \/ /\ Counted \cap K = {} /\ Counted' = Counted \cup K /\ t \in Busy /\ Busy' = Busy \ {t}
              /\ outstanding_work' = outstanding_work + Cardinality(K) - 1
    PROVE  outstanding_work' = Cardinality(Counted)' + Cardinality(Busy)'
<1>1. outstanding_work = Cardinality(Counted) + Cardinality(Busy)
  BY DEF WorkCounted
<1>2. /\ IsFiniteSet(Counted) /\ Cardinality(Counted) \in Nat
      /\ IsFiniteSet(Busy) /\ Cardinality(Busy) \in Nat
  BY FiniteWork
<1>3. Cardinality(Counted)' = Cardinality(Counted') /\ Cardinality(Busy)' = Cardinality(Busy')
  OBVIOUS
<1>4. Cardinality(K) \in Nat
  BY FS_CardinalityType
<1>5. /\ x \notin Counted => Cardinality(Counted \cup {x}) = Cardinality(Counted) + 1
      /\ x \in Counted => Cardinality(Counted \ {x}) = Cardinality(Counted) - 1
      /\ t \notin Busy => Cardinality(Busy \cup {t}) = Cardinality(Busy) + 1
      /\ t \in Busy => Cardinality(Busy \ {t}) = Cardinality(Busy) - 1
  BY <1>2, FS_AddElement, FS_RemoveElement
<1>6. Counted \cap K = {} => Cardinality(Counted \cup K) = Cardinality(Counted) + Cardinality(K)
  <2> SUFFICES ASSUME Counted \cap K = {}
               PROVE  Cardinality(Counted \cup K) = Cardinality(Counted) + Cardinality(K)
    OBVIOUS
  <2> DEFINE a == Cardinality(Counted)
             k == Cardinality(K)
             both == Cardinality(Counted \cap K)
             all == Cardinality(Counted \cup K)
  <2>1. all = a + k - both
    BY <1>2, FS_Union
  <2>2. both = 0 /\ a \in Nat /\ k \in Nat
    BY <1>2, <1>4, FS_EmptySet
  <2> HIDE DEF a, k, both, all
  <2>3. all = a + k
    BY <2>1, <2>2
  <2> QED
    BY <2>3 DEF a, k, all
<1> DEFINE a == Cardinality(Counted)
           b == Cardinality(Busy)
           k == Cardinality(K)
<1>7. a \in Nat /\ b \in Nat /\ k \in Nat /\ outstanding_work = a + b
  BY <1>1, <1>2, <1>4
<1>8. \/ Cardinality(Counted') = a /\ Cardinality(Busy') = b /\ outstanding_work' = outstanding_work
      \/ Cardinality(Counted') = a + 1 /\ Cardinality(Busy') = b /\ outstanding_work' = outstanding_work + 1
      \/ Cardinality(Counted') = a /\ Cardinality(Busy') = b + 1 /\ outstanding_work' = outstanding_work + 1
      \/ Cardinality(Counted') = a - 1 /\ Cardinality(Busy') = b + 1 /\ outstanding_work' = outstanding_work
      \/ /\ Cardinality(Counted') = a + k /\ Cardinality(Busy') = b - 1
         /\ outstanding_work' = outstanding_work + k - 1
  BY <1>5, <1>6
<1> HIDE DEF a, b, k
<1> QED
  BY <1>3, <1>7, <1>8

\* The rest of the invariant, from the thread that takes the step.
LEMMA WorkFrom ==
    ASSUME WorkCounted, Placed, Placed', NEW t \in Threads,
           \A u \in Threads \ {t} : /\ private_work'[u] = private_work[u]
                                    /\ private_queue'[u] = private_queue[u]
                                    /\ InProgress(u)' <=> InProgress(u),
           private_work'[t] = Cardinality(Kept(t)'),
           outstanding_work' = Cardinality(Counted)' + Cardinality(Busy)'
    PROVE  WorkCounted'
<1>1. ASSUME NEW u \in Threads \ {t} PROVE private_work'[u] = Cardinality(Kept(u)')
  <2>1. Kept(u)' = Kept(u)
    BY KeptIs, KeptIsNext
  <2> QED
    BY <2>1 DEF WorkCounted
<1>2. \A u \in Threads : private_work'[u] = Cardinality(Kept(u)')
  BY <1>1
<1> QED
  BY <1>2 DEF WorkCounted

\* It keeps what it had.
LEMMA KeptSame ==
    ASSUME WorkCounted, Placed, Placed', NEW t \in Threads, private_work'[t] = private_work[t],
           \/ private_queue'[t] = private_queue[t] /\ (InProgress(t)' <=> InProgress(t))
           \/ ~InProgress(t) /\ ~InProgress(t)'
    PROVE  private_work'[t] = Cardinality(Kept(t)')
<1>1. Kept(t)' = Kept(t)
  BY KeptIs, KeptIsNext
<1> QED
  BY <1>1 DEF WorkCounted

\* What the other threads do is the same.
LEMMA BusyOthers ==
    ASSUME NEW t \in Threads,
           \A u \in Threads \ {t} : /\ InProgress(u)' <=> InProgress(u)
                                    /\ pc'[u] = "complete" <=> pc[u] = "complete"
                                    /\ cur'[u] = cur[u] /\ call'[u] = call[u]
    PROVE  /\ \A u \in Runners \ {t} : u \in Busy' <=> u \in Busy
           /\ (t \in Busy' <=> t \in Busy) => Busy' = Busy
           /\ t \in Busy' => Busy' = Busy \cup {t}
           /\ t \notin Busy' => Busy' = Busy \ {t}
<1>1. \A u \in Runners \ {t} : u \in Busy' <=> u \in Busy
  BY DEF Busy, Threads
<1>2. Busy \subseteq Runners /\ Busy' \subseteq Runners
  BY DEF Busy
<1> QED
  BY <1>1, <1>2


\* What is counted after operations have been put in another place.
LEMMA CountedPut ==
    ASSUME NEW M \in SUBSET Units, NEW kind, NEW whose, Where' = Put(M, <<kind, whose>>, Where)
    PROVE  /\ kind \in CountedAt => Counted' = Counted \cup (M \cap Works)
           /\ kind \notin CountedAt => Counted' = Counted \ M
<1>1. Works \subseteq Units
  BY DEF Works, Units
<1>2. \A x \in Works : Where'[x] = IF x \in M THEN <<kind, whose>> ELSE Where[x]
  BY <1>1 DEF Put
<1> QED
  BY <1>2 DEF Counted, CountedAt

\* The steps of a call count what it pushes before it does so.
LEMMA CallWork ==
    ASSUME Types, MoreTypes, Placed, Control, WorkCounted, NEW t \in Threads, CallSteps(t), OutsideStrand
    PROVE  WorkCounted'
<1>1. /\ private_work' = private_work /\ private_queue' = private_queue /\ cur' = cur
      /\ \A u \in Threads : pc'[u] = pc[u] \/ (pc[u] = "waiting" /\ pc'[u] = "woken")
      /\ call' = [call EXCEPT ![t] = call'[t]]
  BY DEF CallSteps, WorkStarted, PushOps, SignalOne, StopAllThreads, Goto, Calls, WakeOne, Types
<1>2. \A u \in Threads : (InProgress(u)' <=> InProgress(u)) /\ (pc'[u] = "complete" <=> pc[u] = "complete")
  BY <1>1 DEF InProgress
<1>3. \A u \in Threads \ {t} : call'[u] = call[u]
  BY <1>1 DEF Types
<1>4. /\ (t \in Busy' <=> t \in Busy) => Busy' = Busy
      /\ t \in Busy' => Busy' = Busy \cup {t}
  BY <1>1, <1>2, <1>3, BusyOthers
<1>5. (call'[t] = <<Work>> <=> call[t] = <<Work>>) => Busy' = Busy
  BY <1>1, <1>2, <1>4 DEF Busy
<1>6. ASSUME Placed', outstanding_work' = Cardinality(Counted)' + Cardinality(Busy)'
      PROVE  WorkCounted'
  <2>1. private_work'[t] = Cardinality(Kept(t)')
    BY <1>1, <1>2, <1>6, KeptSame
  <2> QED
    BY <1>1, <1>2, <1>6, <2>1, WorkFrom
<1>7. HeldAre(Where, t) /\ Where \in [Units -> Places] /\ Works \subseteq Units
  BY WhereIs DEF Works, Units
<1>8. ThreadControl(t)
  BY DEF Control
<1>9. IsFiniteSet({})
  BY FS_EmptySet
<1>10. CASE WorkStarted(t)
  <2>1. /\ call'[t] = Tail(call[t]) /\ Head(call[t]).step = "work_started" /\ call[t] # <<>>
        /\ outstanding_work' = outstanding_work + 1
    BY <1>10 DEF WorkStarted, Is, Calls, Types
  <2>2. Placed' /\ Where' = Put(Uncounting(call[t]), <<"pushed", t>>, Where)
    BY <1>10, WorkStartedMoves
  <2>3. CASE call[t] = <<Work>>
    <3>1. Uncounting(call[t]) = {}
      BY <2>3, CallHolds
    <3>2. Counted' = Counted
      BY <2>2, <3>1, CountedPut
    <3>3. call'[t] = <<>> /\ call'[t] # <<Work>>
      BY <2>1, <2>3, Forms
    <3>4. pc[t] = "work_cleanup" /\ t \notin Apps
      BY <1>8, <2>3 DEF ThreadControl
    <3>5. pc'[t] = "work_cleanup" /\ t \in Runners
      BY <1>1, <3>4 DEF Threads
    <3>6. t \notin Busy /\ t \in Busy'
      BY <2>3, <3>3, <3>5 DEF Busy, InProgress
    <3>7. Busy' = Busy \cup {t}
      BY <1>4, <3>6
    <3>8. outstanding_work' = Cardinality(Counted)' + Cardinality(Busy)'
      BY <1>9, <2>1, <3>2, <3>6, <3>7, Balance
    <3> QED
      BY <1>6, <2>2, <3>8
  <2>4. ASSUME NEW ops \in Seq(Ops), call[t] = <<Work, Push(ops)>> PROVE WorkCounted'
    <3>1. Uncounting(call[t]) = Range(ops) /\ Uncounted(t) /\ Pending(call[t]) = ops
      BY <2>4, CallHolds, Forms, PendingPlain DEF Uncounted
    <3>2. PICK o \in Works : ops = <<o>>
      BY <1>8, <3>1 DEF ThreadControl
    <3>3. Uncounting(call[t]) = {o}
      BY <3>1, <3>2, FewElems
    <3>4. Where[o] = <<"uncounted", t>>
      BY <1>7, <3>3 DEF HeldAre
    <3>5. o \notin Counted /\ {o} \in SUBSET Units
      BY <1>7, <3>4 DEF Counted
    <3>6. Counted' = Counted \cup {o}
      BY <2>2, <3>3, <3>5, CountedPut DEF CountedAt
    <3>7. call'[t] = <<Push(ops)>>
      BY <2>1, <2>4
    <3>8. Busy' = Busy
      BY <1>5, <2>4, <3>7, Forms
    <3>9. outstanding_work' = Cardinality(Counted)' + Cardinality(Busy)'
      BY <1>9, <2>1, <3>5, <3>6, <3>8, Balance
    <3> QED
      BY <1>6, <2>2, <3>9
  <2>5. CASE call[t] \in {<<>>, <<Signal>>, <<StopLoop>>}
    BY <2>1, <2>5 DEF Signal, StopLoop
  <2>6. ASSUME NEW ops \in Seq(Ops), call[t] = <<Push(ops)>> PROVE FALSE
    BY <2>1, <2>6 DEF Push
  <2>7. ASSUME NEW h \in Handlers, call[t] = <<ToReady(h), Work, Push(<<Strand>>)>> PROVE FALSE
    BY <2>1, <2>7 DEF ToReady
  <2> QED
    BY <2>3, <2>4, <2>5, <2>6, <2>7, CallCases
<1>11. CASE PushOps(t)
  <2>1. Placed' /\ Where' = Put(Pushing(call[t]), <<"op_queue_", Service>>, Where)
    BY <1>11, PushOpsMoves
  <2>2. /\ call'[t] \in {Tail(call[t]), <<Signal>> \o Tail(call[t])} /\ Is(t, "push")
        /\ outstanding_work' = outstanding_work
    BY <1>11 DEF PushOps, WakeOne, Calls, Types
  <2>3. PICK ops \in Seq(Ops) : call[t] = <<Push(ops)>>
    <3>1. call[t] # <<Work>> /\ call[t] # <<>> /\ call[t] # <<Signal>> /\ call[t] # <<StopLoop>>
      BY <2>2 DEF Is, Work, Signal, StopLoop
    <3>2. \A ops : call[t] # <<Work, Push(ops)>>
      BY <2>2 DEF Is, Work
    <3>3. \A h : call[t] # <<ToReady(h), Work, Push(<<Strand>>)>>
      BY <2>2 DEF Is, ToReady
    <3> QED
      BY <3>1, <3>2, <3>3, CallCases
  <2>4. call'[t] \in {<<>>, <<Signal>>}
    BY <2>2, <2>3
  <2>5. Busy' = Busy
    BY <1>5, <2>3, <2>4, Forms
  <2>6. \A x \in Pushing(call[t]) \cap Works : Where[x] = <<"pushed", t>>
    BY <1>7 DEF HeldAre
  <2>7. Pushing(call[t]) \cap Works \subseteq Counted
    BY <2>6 DEF Counted
  <2>8. \A x \in Works : Where'[x] = IF x \in Pushing(call[t]) THEN <<"op_queue_", Service>> ELSE Where[x]
    BY <1>7, <2>1 DEF Put
  <2>9. Counted' = Counted
    BY <2>6, <2>8 DEF Counted
  <2>10. outstanding_work' = Cardinality(Counted)' + Cardinality(Busy)'
    BY <1>9, <2>2, <2>5, <2>9, Balance
  <2> QED
    BY <1>6, <2>1, <2>10
<1>12. CASE SignalOne(t) \/ StopAllThreads(t)
  <2>1. Placed' /\ Where' = Where
    BY <1>12, NothingHeld
  <2>2. Is(t, "signal_one") \/ Is(t, "stop")
    BY <1>12 DEF SignalOne, StopAllThreads
  <2>3. call[t] \in {<<Signal>>, <<StopLoop>>}
    BY <2>2, SignalForms
  <2>4. call'[t] = Tail(call[t]) /\ outstanding_work' = outstanding_work
    BY <1>12 DEF SignalOne, StopAllThreads, Calls, Types, service
  <2>5. call'[t] = <<>>
    <3>1. \A step : Tail(<<step>>) = <<>>
      OBVIOUS
    <3> QED
      BY <2>3, <2>4, <3>1
  <2>6. Busy' = Busy
    BY <1>5, <2>3, <2>5, Forms
  <2>7. Counted' = Counted
    BY <2>1 DEF Counted
  <2>8. outstanding_work' = Cardinality(Counted)' + Cardinality(Busy)'
    BY <1>9, <2>4, <2>6, <2>7, Balance
  <2> QED
    BY <1>6, <2>1, <2>8
<1> QED
  BY <1>10, <1>11, <1>12 DEF CallSteps


\* A turn: what it takes from the queue is run from then on.
LEMMA TurnWork ==
    ASSUME Types, MoreTypes, Placed, Control, NoDoubles, DescriptorOnce, WorkCounted, NEW t \in Threads,
           OutsideStrand, Others(t),
           RunOne(t) \/ (Woken(t) /\ signalled) \/ TaskCleanup(t) \/ PushPrivate(t)
    PROVE  WorkCounted'
<1>1. /\ Placed'
      /\ Where' = Put(Takes(t), <<"run", t>>, Put(Joins(t), <<"op_queue_", Service>>, Where))
      /\ Takes(t) \subseteq Range(op_queue) \cup Joins(t)
  BY TurnMoves
<1>2. SharedAre(Where) /\ HeldAre(Where, t) /\ Where \in [Units -> Places] /\ Works \subseteq Units
  BY WhereIs DEF Works, Units
<1>3. call[t] = <<>> /\ private_queue'[t] = <<>> /\ pc[t] \in {"lock", "woken", "task_cleanup", "push_private"}
  BY TurnBegins
<1>4. PICK queue \in Seq(Ops) : \E interrupted : Turn(t, queue, interrupted)
  BY TurnQueue
<1>5. /\ call'[t] \in {<<>>, <<Signal>>}
      /\ \/ pc'[t] \in {"returned", "waiting"}
         \/ /\ queue # <<>> /\ cur'[t].op = Head(queue)
            /\ pc'[t] \in (IF Head(queue) = Task THEN {"poll", "poll_block"} ELSE {"complete"})
  BY <1>3, <1>4, TurnResult
<1>6. ~InProgress(t) /\ t \notin Apps /\ t \in Runners /\ t \notin Busy
  <2>1. t \notin Apps
    BY <1>3 DEF Control, ThreadControl
  <2> QED
    BY <1>3, <2>1 DEF InProgress, Busy, Threads
<1>7. /\ (t \in Busy' <=> t \in Busy) => Busy' = Busy
      /\ t \in Busy' => Busy' = Busy \cup {t}
  BY BusyOthers DEF Others, InProgress
<1>8. \A x \in Joins(t) \cap Works : Where[x] = <<"moved", t>>
  <2>1. Task \notin Works
    BY HandlersAssumption DEF Works, Task, Strand
  <2> QED
    BY <1>2, <1>6, <2>1 DEF Joins, HeldAre
<1>9. \A x \in Works \cap (Range(op_queue) \cup Joins(t)) : x \in Counted
  <2>1. \A x \in Works \cap Range(op_queue) : Where[x] = <<"op_queue_", Service>>
    BY <1>2 DEF SharedAre
  <2> QED
    BY <1>8, <2>1 DEF Counted
<1>10. Counted' = Counted \ Takes(t)
  <2>1. \A x \in Works : Where'[x] = IF x \in Takes(t) THEN <<"run", t>>
                                     ELSE IF x \in Joins(t) THEN <<"op_queue_", Service>> ELSE Where[x]
    BY <1>1, <1>2 DEF Put
  <2> QED
    BY <1>8, <2>1 DEF Counted
<1>11. private_work[t] = 0 /\ private_work'[t] = 0 /\ outstanding_work' = outstanding_work
  <2>1. Kept(t) = {}
    BY <1>6, KeptIs
  <2>2. private_work[t] = 0
    BY <2>1, FS_EmptySet DEF WorkCounted
  <2>3. outstanding_work = Cardinality(Counted) + Cardinality(Busy)
    BY DEF WorkCounted
  <2>4. outstanding_work \in Nat
    BY <2>3, FiniteWork
  <2>5. outstanding_work' = outstanding_work \/ outstanding_work' = outstanding_work + private_work[t]
    BY DEF RunOne, Woken, TaskCleanup, PushPrivate
  <2>6. private_work'[t] = private_work[t] \/ private_work'[t] = 0
    BY DEF RunOne, Woken, TaskCleanup, PushPrivate, MoreTypes
  <2> QED
    BY <2>2, <2>4, <2>5, <2>6
<1>12. Kept(t)' = {}
  BY <1>1, <1>3, FewElems, KeptIsNext
<1>13. private_work'[t] = Cardinality(Kept(t)')
  BY <1>11, <1>12, FS_EmptySet
<1>14. ASSUME Takes(t) \cap Works = {}, t \notin Busy'
       PROVE  outstanding_work' = Cardinality(Counted)' + Cardinality(Busy)'
  <2>1. Counted' = Counted
    BY <1>10, <1>14 DEF Counted
  <2> QED
    BY <1>6, <1>7, <1>11, <1>14, <2>1, Balance, FS_EmptySet
<1>15. CASE pc'[t] \in {"returned", "waiting", "poll", "poll_block"}
  <2>1. t \notin Busy'
    BY <1>15 DEF Busy, InProgress
  <2>2. Takes(t) \cap Works = {}
    <3>1. \A x \in Works : ~RunsIt(t, x)'
      <4>1. Task \notin Works /\ Task # Strand
        BY HandlersAssumption DEF Works, Task, Strand
      <4> QED
        BY <1>15, <4>1 DEF RunsIt, Runs, Polls
    <3> QED
      BY <3>1 DEF Takes
  <2>3. outstanding_work' = Cardinality(Counted)' + Cardinality(Busy)'
    BY <1>14, <2>1, <2>2
  <2> QED
    BY <1>1, <1>13, <2>3, WorkFrom DEF Others, InProgress
<1>16. CASE pc'[t] = "complete"
  <2>1. queue # <<>> /\ cur'[t].op = Head(queue) /\ Head(queue) # Task
    BY <1>5, <1>16
  <2>2. Head(queue) \in Ops
    BY <2>1, TailElems
  <2>3. \A x \in Works : RunsIt(t, x)' <=> x = Head(queue)
    <3>1. Task \notin Works /\ Strand \notin Handlers
      BY HandlersAssumption DEF Works, Task, Strand
    <3> QED
      BY <1>16, <2>1, <3>1 DEF RunsIt, Runs, Polls, Works
  <2>4. call'[t] # <<Work>>
    BY <1>5, Forms
  <2>5. CASE Head(queue) = Descriptor
    <3>1. t \notin Busy'
      BY <1>16, <2>1, <2>5 DEF Busy
    <3>2. Descriptor \notin Works
      BY HandlersAssumption DEF Works, Descriptor, Strand
    <3>3. Takes(t) \cap Works = {}
      BY <2>3, <2>5, <3>2 DEF Takes
    <3>4. outstanding_work' = Cardinality(Counted)' + Cardinality(Busy)'
      BY <1>14, <3>1, <3>3
    <3> QED
      BY <1>1, <1>13, <3>4, WorkFrom DEF Others, InProgress
  <2>6. CASE Head(queue) # Descriptor
    <3> DEFINE o == Head(queue)
    <3>1. o \in Works
      BY <2>1, <2>2, <2>6 DEF Works, Ops
    <3>2. Takes(t) \cap Works = {o}
      BY <1>2, <2>3, <3>1 DEF Takes
    <3>3. o \in Counted
      BY <1>1, <1>9, <3>2
    <3>4. t \in Busy'
      BY <1>6, <1>16, <2>1, <2>4, <2>6 DEF Busy, InProgress
    <3>5. Counted' = Counted \ {o} /\ Busy' = Busy \cup {t}
      BY <1>7, <1>10, <3>2, <3>4 DEF Counted
    <3> HIDE DEF o
    <3>6. outstanding_work' = Cardinality(Counted)' + Cardinality(Busy)'
      BY <1>6, <1>11, <3>3, <3>5, Balance, FS_EmptySet
    <3> QED
      BY <1>1, <1>13, <3>6, WorkFrom DEF Others, InProgress
  <2> QED
    BY <2>5, <2>6
<1> QED
  BY <1>5, <1>15, <1>16


\* Nothing that is counted changes.
LEMMA SameWork ==
    ASSUME WorkCounted, Placed, Placed', NEW t \in Threads, Others(t),
           Counted' = Counted, t \in Busy' <=> t \in Busy, outstanding_work' = outstanding_work,
           private_work'[t] = Cardinality(Kept(t)')
    PROVE  WorkCounted'
<1>1. Busy' = Busy
  BY BusyOthers DEF Others, InProgress
<1>2. outstanding_work' = Cardinality(Counted)' + Cardinality(Busy)'
  BY <1>1, Balance, FS_EmptySet
<1> QED
  BY <1>2, WorkFrom DEF Others, InProgress

\* Every other step of run keeps the count, and work_cleanup brings it up to date.
LEMMA LoopWork ==
    ASSUME Types, MoreTypes, Placed, Control, NoDoubles, DescriptorOnce, WorkCounted, NEW t \in Threads,
           Loop(t), OutsideStrand, Others(t)
    PROVE  WorkCounted'
<1>1. SharedAre(Where) /\ HeldAre(Where, t) /\ Where \in [Units -> Places] /\ Works \subseteq Units
  BY WhereIs DEF Works, Units
<1>2. Handlers \subseteq Works /\ Handlers \subseteq Units
  BY DEF Works, Units
<1>3. CASE RunOne(t) \/ (Woken(t) /\ signalled) \/ TaskCleanup(t) \/ PushPrivate(t)
  BY <1>3, TurnWork
<1>4. CASE Run(t) \/ (Woken(t) /\ ~signalled) \/ Poll(t)
  <2>1. Placed' /\ Where' = Where
    BY <1>4, LoopStays
  <2>2. /\ pc[t] \in {"run", "woken", "poll", "poll_block"}
        /\ pc'[t] \in {"returned", "lock", "waiting", "check_timers", "task_cleanup"}
        /\ private_work' = private_work /\ outstanding_work' = outstanding_work
    BY <1>4 DEF Run, Woken, Poll, Goto, Types, service
  <2>3. ~InProgress(t) /\ ~InProgress(t)'
    BY <2>2 DEF InProgress
  <2>4. private_work'[t] = Cardinality(Kept(t)')
    BY <2>1, <2>2, <2>3, KeptSame
  <2>5. Counted' = Counted
    BY <2>1 DEF Counted
  <2>6. t \in Busy' <=> t \in Busy
    BY <2>3 DEF Busy
  <2> QED
    BY <2>1, <2>2, <2>4, <2>5, <2>6, SameWork
<1>5. CASE CheckTimers(t)
  <2>1. Placed' /\ Where' = Put(armed \cap due, <<"moved", t>>, Where)
    BY <1>5, CheckTimersMoves
  <2>2. /\ pc[t] = "check_timers" /\ pc'[t] = "task_cleanup"
        /\ private_work' = private_work /\ outstanding_work' = outstanding_work
    BY <1>5 DEF CheckTimers, Goto, Types, service
  <2>3. ~InProgress(t) /\ ~InProgress(t)'
    BY <2>2 DEF InProgress
  <2>4. private_work'[t] = Cardinality(Kept(t)')
    BY <2>1, <2>2, <2>3, KeptSame
  <2>5. \A x \in Works : x \in armed \cap due => Where[x] = <<"armed", Service>>
    BY <1>1 DEF SharedAre
  <2>6. \A x \in Works : Where'[x] = IF x \in armed \cap due THEN <<"moved", t>> ELSE Where[x]
    BY <1>1, <2>1 DEF Put
  <2>7. Counted' = Counted
    BY <2>5, <2>6 DEF Counted
  <2>8. t \in Busy' <=> t \in Busy
    BY <2>3 DEF Busy
  <2> QED
    BY <2>1, <2>2, <2>4, <2>7, <2>8, SameWork
<1>6. CASE WorkCleanup(t)
  <2>1. Placed' /\ Where' = Put(Range(private_queue[t]), <<"moved", t>>, Where)
    BY <1>6, WorkCleanupMoves
  <2>2. /\ pc[t] = "work_cleanup" /\ call[t] = <<>> /\ pc'[t] \in {"lock", "push_private"}
        /\ private_work'[t] = 0 /\ outstanding_work' = outstanding_work + private_work[t] - 1
    BY <1>6 DEF WorkCleanup, Returned, Goto, Types, MoreTypes
  <2>3. t \notin Apps /\ t \in Runners
    BY <2>2 DEF Control, ThreadControl, Threads
  <2>4. t \in Busy /\ t \notin Busy'
    BY <2>2, <2>3, Forms DEF Busy, InProgress
  <2>5. Busy' = Busy \ {t}
    BY <2>4, BusyOthers DEF Others, InProgress
  <2>6. Kept(t) = Works \cap Range(private_queue[t])
    BY <2>2, KeptIs DEF InProgress
  <2>7. \A x \in Works : Where'[x] = IF x \in Range(private_queue[t]) THEN <<"moved", t>> ELSE Where[x]
    BY <1>1, <2>1 DEF Put
  <2>8. Counted' = Counted \cup Kept(t)
    BY <2>6, <2>7 DEF Counted
  <2>9. Counted \cap Kept(t) = {}
    BY DEF Counted, Kept
  <2>10. IsFiniteSet(Kept(t)) /\ private_work[t] = Cardinality(Kept(t))
    BY FiniteWork DEF WorkCounted
  <2>11. outstanding_work' = Cardinality(Counted)' + Cardinality(Busy)'
    BY <2>2, <2>4, <2>5, <2>8, <2>9, <2>10, Balance
  <2>12. Kept(t)' = {}
    BY <2>1, <2>2, KeptIsNext DEF InProgress
  <2>13. private_work'[t] = Cardinality(Kept(t)')
    BY <2>2, <2>12, FS_EmptySet
  <2> QED
    BY <2>1, <2>11, <2>13, WorkFrom DEF Others, InProgress
<1>7. CASE PerformIo(t)
  <2>1. /\ pc[t] = "complete" /\ cur[t].op = Descriptor /\ call[t] = <<>>
        /\ pc'[t] \in {"complete", "work_cleanup"}
        /\ private_work' = private_work /\ private_queue' = private_queue
        /\ outstanding_work' = outstanding_work
    BY <1>7 DEF PerformIo, Returned, Goto, Types, service
  <2>2. t \notin Busy /\ InProgress(t) /\ InProgress(t)' /\ t \in Runners
    BY <2>1 DEF Busy, InProgress, Control, ThreadControl, Threads
  <2>3. ASSUME Placed' PROVE private_work'[t] = Cardinality(Kept(t)')
    BY <2>1, <2>2, <2>3, KeptSame
  <2>4. CASE pc'[t] = "work_cleanup"
    <3>1. Placed' /\ Where' = Where
      BY <1>7, <2>4, LoopStays
    <3>2. call' = [call EXCEPT ![t] = <<Work>>]
      BY <1>7, <2>4 DEF PerformIo, Calls, Types
    <3>3. t \notin Busy'
      BY <3>2 DEF Busy, Types
    <3>4. Counted' = Counted
      BY <3>1 DEF Counted
    <3> QED
      BY <2>1, <2>2, <2>3, <3>1, <3>3, <3>4, SameWork
  <2>5. CASE pc'[t] # "work_cleanup"
    <3>1. PICK h \in registered :
              /\ cur'[t].op = h /\ Placed'
              /\ \/ call'[t] = <<>> /\ Where' = Put({h}, <<"run", t>>, Where)
                 \/ \E g \in registered \ {h} :
                       /\ call'[t] = <<Push(<<g>>)>>
                       /\ Where' = Put({g}, <<"pushed", t>>, Put({h}, <<"run", t>>, Where))
      BY <1>7, <2>5, PerformIoMoves
    <3>2. h \in Works /\ h \in Units /\ Where[h] = <<"registered", Service>> /\ h # Descriptor
      BY <1>1, <1>2, HandlersAssumption DEF SharedAre, Types, Descriptor
    <3>3. h \in Counted
      BY <3>2 DEF Counted
    <3>4. Counted' = Counted \ {h}
      <4>1. CASE Where' = Put({h}, <<"run", t>>, Where)
        <5>1. \A x \in Works : Where'[x] = IF x = h THEN <<"run", t>> ELSE Where[x]
          BY <1>1, <4>1 DEF Put
        <5> QED
          BY <5>1 DEF Counted
      <4>2. ASSUME NEW g \in registered \ {h},
                   Where' = Put({g}, <<"pushed", t>>, Put({h}, <<"run", t>>, Where))
            PROVE  Counted' = Counted \ {h}
        <5>1. \A x \in Works : Where'[x] = IF x = g THEN <<"pushed", t>>
                                           ELSE IF x = h THEN <<"run", t>> ELSE Where[x]
          BY <1>1, <4>2 DEF Put
        <5>2. Where[g] = <<"registered", Service>>
          BY <1>1, <1>2 DEF SharedAre, Types
        <5> QED
          BY <5>1, <5>2 DEF Counted
      <4> QED
        BY <3>1, <4>1, <4>2
    <3>5. call'[t] # <<Work>>
      BY <3>1, Forms
    <3>6. t \in Busy'
      BY <2>2, <3>1, <3>2, <3>5 DEF Busy
    <3>7. Busy' = Busy \cup {t}
      BY <3>6, BusyOthers DEF Others, InProgress
    <3>8. outstanding_work' = Cardinality(Counted)' + Cardinality(Busy)'
      BY <2>1, <2>2, <3>3, <3>4, <3>7, Balance, FS_EmptySet
    <3> QED
      BY <2>3, <3>1, <3>8, WorkFrom DEF Others, InProgress
  <2> QED
    BY <2>4, <2>5
<1> QED
  BY <1>3, <1>4, <1>5, <1>6, <1>7 DEF Loop


\* A handler that is posted is counted when it is pushed, or kept with the work
\* of the handler that posts it.
LEMMA PostWork ==
    ASSUME Types, MoreTypes, Placed, Placed', Control, WorkCounted, NEW t \in Threads, Others(t),
           pc[t] \in {"app", "handler"}, pc' = pc, cur' = cur, call[t] = <<>>,
           NEW h \in Handlers, status[h] = "new", Posted(t, h), outstanding_work' = outstanding_work
    PROVE  WorkCounted'
<1>1. SharedAre(Where) /\ HeldAre(Where, t) /\ Where \in [Units -> Places] /\ Works \subseteq Units
      /\ h \in Works /\ h \in Units
  BY WhereIs DEF Works, Units
<1>2. Where[h] = <<"nowhere", Service>>
  BY <1>1 DEF SharedAre
<1>3. \E kind \in {"private", "uncounted"} : Where' = Put({h}, <<kind, t>>, Where)
  BY DEF Posted
<1>4. \E kind \in {"private", "uncounted"} :
         \A x \in Works : Where'[x] = IF x = h THEN <<kind, t>> ELSE Where[x]
  BY <1>1, <1>3 DEF Put
<1>5. Counted' = Counted
  BY <1>2, <1>4 DEF Counted
<1>6. call'[t] # <<Work>> /\ call[t] # <<Work>>
  BY Forms DEF Posted
<1>7. t \in Busy' <=> t \in Busy
  BY <1>6 DEF Busy, InProgress
<1>8. private_work'[t] = Cardinality(Kept(t)')
  <2>1. CASE /\ call'[t] = <<Work, Push(<<h>>)>> /\ private_work'[t] = private_work[t]
             /\ private_queue'[t] = private_queue[t]
    BY <2>1, KeptSame DEF InProgress
  <2>2. CASE /\ t \in Runners /\ private_work'[t] = private_work[t] + 1
             /\ private_queue'[t] = Append(private_queue[t], h)
    <3>1. t \notin Apps
      BY <2>2, ThreadsAssumption
    <3>2. InProgress(t) /\ InProgress(t)'
      BY <3>1 DEF Control, ThreadControl, InProgress
    <3>3. private_queue[t] \in Seq(Ops) /\ h \in Ops
      BY DEF Types, Ops
    <3>4. Range(private_queue'[t]) = Range(private_queue[t]) \cup {h}
      BY <2>2, <3>3, AppendElems
    <3>5. Kept(t)' = Kept(t) \cup {h}
      BY <1>1, <3>2, <3>4, KeptIs, KeptIsNext
    <3>6. h \notin Kept(t)
      BY <1>2 DEF Kept
    <3>7. Cardinality(Kept(t) \cup {h}) = Cardinality(Kept(t)) + 1
      BY <3>6, FiniteWork, FS_AddElement
    <3> QED
      BY <2>2, <3>5, <3>7 DEF WorkCounted
  <2> QED
    BY <2>1, <2>2 DEF Posted
<1> QED
  BY <1>5, <1>7, <1>8, SameWork

\* An operation that waits is counted from the start.
LEMMA WaitWork ==
    ASSUME Types, MoreTypes, Placed, Placed', WorkCounted, NEW t \in Threads, Others(t),
           pc' = pc, cur' = cur, call' = call, private_queue' = private_queue, private_work' = private_work,
           NEW h \in Handlers, status[h] = "new", NEW kind \in {"registered", "armed"},
           Where' = Put({h}, <<kind, Service>>, Where), outstanding_work' = outstanding_work + 1
    PROVE  WorkCounted'
<1>1. SharedAre(Where) /\ Where \in [Units -> Places] /\ Works \subseteq Units /\ h \in Works /\ h \in Units
  BY WhereIs DEF Works, Units
<1>2. Where[h] = <<"nowhere", Service>>
  BY <1>1 DEF SharedAre
<1>3. \A x \in Works : Where'[x] = IF x = h THEN <<kind, Service>> ELSE Where[x]
  BY <1>1 DEF Put
<1>4. Counted' = Counted \cup {h} /\ h \notin Counted
  BY <1>1, <1>2, <1>3 DEF Counted
<1>5. Busy' = Busy
  BY DEF Busy, InProgress
<1>6. outstanding_work' = Cardinality(Counted)' + Cardinality(Busy)'
  BY <1>4, <1>5, Balance, FS_EmptySet
<1>7. private_work'[t] = Cardinality(Kept(t)')
  BY KeptSame DEF InProgress
<1> QED
  BY <1>6, <1>7, WorkFrom DEF Others, InProgress

\* What is cancelled stays counted.
LEMMA CancelWork ==
    ASSUME Types, MoreTypes, Placed, Placed', WorkCounted, NEW t \in Threads, Others(t),
           pc' = pc, cur' = cur, private_queue' = private_queue, private_work' = private_work,
           call[t] = <<>>, call'[t] # <<Work>>, NEW M \in SUBSET Handlers,
           M \subseteq registered \/ M \subseteq armed,
           Where' = Put(M, <<"pushed", t>>, Where), outstanding_work' = outstanding_work
    PROVE  WorkCounted'
<1>1. SharedAre(Where) /\ Where \in [Units -> Places] /\ Works \subseteq Units /\ Handlers \subseteq Units
  BY WhereIs DEF Works, Units
<1>2. \A x \in M : Where[x] \in {<<"registered", Service>>, <<"armed", Service>>}
  BY <1>1 DEF SharedAre
<1>3. \A x \in Works : Where'[x] = IF x \in M THEN <<"pushed", t>> ELSE Where[x]
  BY <1>1 DEF Put
<1>4. Counted' = Counted
  BY <1>2, <1>3 DEF Counted
<1>5. t \in Busy' <=> t \in Busy
  BY Forms DEF Busy, InProgress
<1>6. private_work'[t] = Cardinality(Kept(t)')
  BY KeptSame DEF InProgress
<1> QED
  BY <1>4, <1>5, <1>6, SameWork


\* A command puts what it hands over or cancels in one place, and counts it.
LEMMA CommandWork ==
    ASSUME Types, MoreTypes, Placed, Control, Commanded, WorkCounted, NEW t \in Threads, Commands(t),
           OutsideStrand, Others(t)
    PROVE  Placed' /\ WorkCounted'
<1>1. /\ locked' = locked /\ ready_queue' = ready_queue /\ waiting_queue' = waiting_queue
      /\ handler' = handler /\ frame' = frame
  BY DEF OutsideStrand, strand
<1>2. call[t] = <<>> /\ pc[t] \in {"app", "handler"} /\ pc' = pc /\ cur' = cur
  BY CommandResult
<1>3. ASSUME NEW via, HandOver(t, via)
      PROVE  /\ Command(t).op \in Handlers /\ status[Command(t).op] = "new"
             /\ status' = [status EXCEPT ![Command(t).op] = "pending"]
  BY <1>3, HandedOver
<1>4. ASSUME NEW via, HandOver(t, via), NEW is_continuation,
             PostImmediate(t, Command(t).op, is_continuation, <<>>),
             registered' = registered, armed' = armed, op_queue' = op_queue,
             outstanding_work' = outstanding_work
      PROVE  Placed' /\ WorkCounted'
  <2>1. Placed' /\ Posted(t, Command(t).op)
    BY <1>1, <1>2, <1>3, <1>4, PostMoves
  <2> QED
    BY <1>2, <1>3, <1>4, <2>1, PostWork
<1>5. CASE Post(t, InStrand(t))
  <2>1. /\ HandOver(t, "post")
        /\ PostImmediate(t, Command(t).op, IsContinuation(t, Command(t).op, InStrand(t)), <<>>)
        /\ registered' = registered /\ armed' = armed /\ op_queue' = op_queue
        /\ outstanding_work' = outstanding_work
    BY <1>5 DEF Post, service, reactor, kernel
  <2> QED
    BY <1>4, <2>1
<1>6. CASE \E via \in {"read", "write"} : StartOp(t, via, InStrand(t))
  <2>1. PICK via \in {"read", "write"} : StartOp(t, via, InStrand(t))
    BY <1>6
  <2>2. CASE via \in avail /\ \A g \in registered : Via(g) # via
    <3>1. /\ HandOver(t, via)
          /\ PostImmediate(t, Command(t).op, IsContinuation(t, Command(t).op, InStrand(t)), <<>>)
          /\ registered' = registered /\ armed' = armed /\ op_queue' = op_queue
          /\ outstanding_work' = outstanding_work
      BY <2>1, <2>2 DEF StartOp
    <3> QED
      BY <1>4, <3>1
  <2>3. CASE ~(via \in avail /\ \A g \in registered : Via(g) # via)
    <3>1. /\ HandOver(t, via) /\ registered' = registered \cup {Command(t).op} /\ armed' = armed
          /\ op_queue' = op_queue /\ call' = call /\ private_queue' = private_queue
          /\ private_work' = private_work /\ outstanding_work' = outstanding_work + 1
      BY <2>1, <2>3 DEF StartOp
    <3>2. Placed' /\ Where' = Put({Command(t).op}, <<"registered", Service>>, Where)
      BY <1>1, <1>2, <1>3, <3>1, WaitMoves
    <3> QED
      BY <1>2, <1>3, <3>1, <3>2, WaitWork
  <2> QED
    BY <2>2, <2>3
<1>7. CASE ScheduleTimer(t)
  <2>1. /\ HandOver(t, "timer") /\ armed' = armed \cup {Command(t).op} /\ registered' = registered
        /\ op_queue' = op_queue /\ call' = call /\ private_queue' = private_queue
        /\ private_work' = private_work /\ outstanding_work' = outstanding_work + 1
    BY <1>7 DEF ScheduleTimer
  <2>2. Placed' /\ Where' = Put({Command(t).op}, <<"armed", Service>>, Where)
    BY <1>1, <1>2, <1>3, <2>1, WaitMoves
  <2> QED
    BY <1>2, <1>3, <2>1, <2>2, WaitWork
<1>8. ASSUME NEW M \in SUBSET Handlers,
             Uncounting(call'[t]) = {}, Pushing(call'[t]) = M, Readying(call'[t]) = {},
             \/ M \subseteq registered /\ registered' = registered \ M /\ armed' = armed
             \/ M \subseteq armed /\ armed' = armed \ M /\ registered' = registered,
             call'[t] # <<Work>>, CancelTimer(t) \/ CancelOps(t) \/ Stop(t)
      PROVE  Placed' /\ WorkCounted'
  <2>1. /\ private_queue' = private_queue /\ private_work' = private_work /\ status' = status
        /\ op_queue' = op_queue /\ outstanding_work' = outstanding_work
    BY <1>8 DEF CancelTimer, CancelOps, Stop, service
  <2>2. Placed' /\ Where' = Put(M, <<"pushed", t>>, Where)
    BY <1>1, <1>2, <1>8, <2>1, CancelMoves
  <2> QED
    BY <1>2, <1>8, <2>1, <2>2, CancelWork
<1>9. CASE CancelTimer(t)
  <2> DEFINE h == Command(t).op
  <2>1. armed' = armed \ {h} /\ registered' = registered
    BY <1>9 DEF CancelTimer
  <2>2. CASE h \in armed
    <3>1. call' = [call EXCEPT ![t] = <<Push(<<h>>)>>]
      BY <1>9, <2>2 DEF CancelTimer, Calls
    <3>2. call'[t] = <<Push(<<h>>)>> /\ {h} \in SUBSET Handlers
      BY <2>2, <3>1 DEF Types
    <3> HIDE DEF h
    <3>3. /\ Uncounting(call'[t]) = {} /\ Pushing(call'[t]) = {h} /\ Readying(call'[t]) = {}
          /\ call'[t] # <<Work>>
      BY <3>2, CallHolds, FewElems, Forms
    <3> QED
      BY <1>8, <1>9, <2>1, <2>2, <3>2, <3>3
  <2>3. CASE h \notin armed
    <3>1. call' = [call EXCEPT ![t] = <<>>]
      BY <1>9, <2>3 DEF CancelTimer, Calls
    <3>2. call'[t] = <<>>
      BY <3>1 DEF Types
    <3>3. /\ Uncounting(call'[t]) = {} /\ Pushing(call'[t]) = {} /\ Readying(call'[t]) = {}
          /\ call'[t] # <<Work>>
      BY <3>2, CallHolds, Forms
    <3>4. armed' = armed \ {}
      BY <2>1, <2>3
    <3> QED
      BY <1>8, <1>9, <2>1, <3>3, <3>4
  <2> QED
    BY <2>2, <2>3
<1>10. CASE CancelOps(t)
  <2>1. registered' = {} /\ armed' = armed
    BY <1>10 DEF CancelOps
  <2>2. CASE registered = {} /\ call' = call
    <3>1. /\ Uncounting(call'[t]) = {} /\ Pushing(call'[t]) = {} /\ Readying(call'[t]) = {}
          /\ call'[t] # <<Work>>
      BY <1>2, <2>2, CallHolds, Forms
    <3> QED
      BY <1>8, <1>10, <2>1, <2>2, <3>1
  <2>3. ASSUME NEW ops \in [1..Cardinality(registered) -> registered],
               \A h \in registered : \E k \in DOMAIN ops : ops[k] = h, Calls(t, <<Push(ops)>>)
        PROVE  Placed' /\ WorkCounted'
    <3>1. call' = [call EXCEPT ![t] = <<Push(ops)>>]
      BY <2>3 DEF Calls
    <3>2. call'[t] = <<Push(ops)>>
      BY <3>1 DEF Types
    <3>3. IsFiniteSet(registered) /\ registered \in SUBSET Handlers
      BY HandlersAssumption, FS_Subset DEF Types
    <3>4. Range(ops) = registered
      BY <2>3, <3>3, ListElems
    <3>5. /\ Uncounting(call'[t]) = {} /\ Pushing(call'[t]) = registered /\ Readying(call'[t]) = {}
          /\ call'[t] # <<Work>>
      BY <3>2, <3>4, CallHolds, Forms
    <3>6. registered' = registered \ registered
      BY <2>1
    <3> QED
      BY <1>8, <1>10, <2>1, <3>3, <3>5, <3>6
  <2> QED
    BY <1>10, <2>2, <2>3 DEF CancelOps
<1>11. CASE Stop(t)
  <2>1. call' = [call EXCEPT ![t] = <<StopLoop>>] /\ registered' = registered /\ armed' = armed
    BY <1>11 DEF Stop, Calls, reactor, kernel
  <2>2. call'[t] = <<StopLoop>>
    BY <2>1 DEF Types
  <2>3. /\ Uncounting(call'[t]) = {} /\ Pushing(call'[t]) = {} /\ Readying(call'[t]) = {}
        /\ call'[t] # <<Work>>
    BY <2>2, CallHolds, Forms
  <2>4. registered' = registered \ {}
    BY <2>1
  <2> QED
    BY <1>8, <1>11, <2>1, <2>3, <2>4
<1> QED
  BY <1>5, <1>6, <1>7, <1>9, <1>10, <1>11 DEF Commands


\* What goes from one place that is not counted to another.
LEMMA NotCounted ==
    ASSUME \A x \in Works : Where'[x] # Where[x] =>
               /\ Where[x][1] \in {"nowhere", "waiting_queue_", "ready_queue_", "to_ready", "run"}
               /\ Where'[x][1] \in {"nowhere", "waiting_queue_", "ready_queue_", "to_ready", "run",
                                    "private", "uncounted"}
    PROVE  Counted' = Counted
BY DEF Counted

\* The strand is part of the work of what runs it, or is counted when it is scheduled.
LEMMA StrandWork ==
    ASSUME Types, MoreTypes, Placed, Control, NoDoubles, Commanded, WorkCounted, NEW t \in Threads,
           StrandSteps(t), Others(t)
    PROVE  Placed' /\ WorkCounted'
<1>1. SharedAre(Where) /\ HeldAre(Where, t) /\ Where \in [Units -> Places] /\ Works \subseteq Units
      /\ Handlers \subseteq Units /\ Strand \in Units /\ Strand \notin Handlers
  BY WhereIs, HandlersAssumption DEF Works, Units, Strand
<1>2. outstanding_work' = outstanding_work
  BY DEF StrandSteps, CompleteHandler, Dispatch, CompleteStrand, RunReady, HandlerEnds, LeaveStrand,
         StrandPost, PushReady, InsideStrand, service
<1>3. ASSUME t \in Runners => (InProgress(t)' <=> InProgress(t)),
             ~(pc[t] = "complete" /\ cur[t].op = Descriptor),
             ~(pc'[t] = "complete" /\ cur'[t].op = Descriptor),
             call[t] # <<Work>>, call'[t] # <<Work>>
      PROVE  t \in Busy' <=> t \in Busy
  BY <1>3 DEF Busy
<1>4. ASSUME Placed', private_work'[t] = private_work[t], private_queue'[t] = private_queue[t],
             InProgress(t)' <=> InProgress(t), Counted' = Counted, t \in Busy' <=> t \in Busy
      PROVE  WorkCounted'
  <2>1. private_work'[t] = Cardinality(Kept(t)')
    BY <1>4, KeptSame
  <2> QED
    BY <1>2, <1>4, <2>1, SameWork
<1>5. \A x \in Handlers : x # Descriptor
  BY HandlersAssumption DEF Descriptor
<1>6. CASE CompleteHandler(t) \/ CompleteStrand(t)
  <2>1. /\ pc[t] = "complete" /\ call[t] = <<>> /\ call'[t] = <<>> /\ private_work' = private_work
        /\ private_queue' = private_queue /\ pc'[t] \in {"handler", "strand"}
        /\ cur[t].op \in Handlers \cup {Strand}
    BY <1>6 DEF CompleteHandler, CompleteStrand, Invoke, Returned, Goto, Types
  <2>2. cur[t].op # Descriptor
    BY <1>5, <2>1 DEF Strand, Descriptor
  <2>3. Placed' /\ Where' = Where
    BY <1>6, CompleteStays
  <2>4. Counted' = Counted
    BY <2>3 DEF Counted
  <2>5. t \in Busy' <=> t \in Busy
    BY <1>3, <2>1, <2>2, Forms DEF InProgress
  <2> QED
    BY <1>4, <2>1, <2>3, <2>4, <2>5 DEF InProgress
<1>7. CASE Dispatch(t)
  <2>1. /\ pc[t] = "complete" /\ call[t] = <<>> /\ call'[t] = <<>> /\ private_work' = private_work
        /\ private_queue' = private_queue /\ pc'[t] \in {"handler", "work_cleanup"}
        /\ cur[t].op \in Handlers /\ locked \in BOOLEAN
    BY <1>7 DEF Dispatch, Invoke, Returned, Goto, Types, MoreTypes
  <2>2. Placed' /\ IF locked THEN Where' = Put({cur[t].op}, <<"waiting_queue_", Service>>, Where)
                   ELSE Where' = Put({Strand}, <<"run", t>>, Where)
    BY <1>7, DispatchMoves
  <2>3. Counted' = Counted
    <3>1. CASE locked
      <4>1. \A x \in Works : Where'[x] = IF x = cur[t].op THEN <<"waiting_queue_", Service>> ELSE Where[x]
        BY <1>1, <2>2, <3>1 DEF Put
      <4>2. Where[cur[t].op] = <<"run", t>>
        BY <1>1, <2>1 DEF HeldAre, RunsIt
      <4> QED
        BY <4>1, <4>2, NotCounted
    <3>2. CASE ~locked
      <4>1. \A x \in Works : Where'[x] = IF x = Strand THEN <<"run", t>> ELSE Where[x]
        BY <1>1, <2>2, <3>2 DEF Put
      <4>2. Where[Strand] = <<"nowhere", Service>>
        BY <1>1, <3>2 DEF SharedAre
      <4> QED
        BY <4>1, <4>2, NotCounted
    <3> QED
      BY <3>1, <3>2
  <2>4. t \in Busy' <=> t \in Busy
    BY <1>3, <1>5, <2>1, Forms DEF InProgress
  <2> QED
    BY <1>4, <2>1, <2>2, <2>3, <2>4 DEF InProgress
<1>8. CASE RunReady(t)
  <2>1. /\ pc[t] = "strand" /\ call' = call /\ private_work' = private_work
        /\ private_queue' = private_queue /\ pc'[t] = "handler" /\ ready_queue # <<>>
    BY <1>8 DEF RunReady, Invoke, Goto, Types
  <2>2. call[t] = <<>>
    BY <2>1 DEF Control, ThreadControl
  <2>3. Placed' /\ Where' = Put({Head(ready_queue)}, <<"run", t>>, Where)
    BY <1>8, RunReadyMoves
  <2>4. Head(ready_queue) \in Handlers /\ Head(ready_queue) \in Range(ready_queue)
    BY <2>1, TailElems DEF Types
  <2>5. Where[Head(ready_queue)] = <<"ready_queue_", Service>>
    BY <1>1, <2>4 DEF SharedAre
  <2>6. \A x \in Works : Where'[x] = IF x = Head(ready_queue) THEN <<"run", t>> ELSE Where[x]
    BY <1>1, <2>3 DEF Put
  <2>7. Counted' = Counted
    BY <2>5, <2>6, NotCounted
  <2>8. t \in Busy' <=> t \in Busy
    BY <1>3, <2>1, <2>2, Forms DEF InProgress
  <2> QED
    BY <1>4, <2>1, <2>3, <2>7, <2>8 DEF InProgress
<1>9. CASE HandlerEnds(t)
  <2>1. /\ pc[t] = "handler" /\ call[t] = <<>> /\ call' = call /\ private_work' = private_work
        /\ private_queue' = private_queue /\ pc'[t] \in {"work_cleanup", "leave_strand", "strand"}
    BY <1>9 DEF HandlerEnds, Returned, Goto, Types
  <2>2. Placed' /\ Where' = Put({handler[t]}, <<"nowhere", Service>>, Where)
    BY <1>9, HandlerEndsMoves
  <2>3. handler[t] \in Handlers
    BY <2>1 DEF Control, ThreadControl
  <2>4. Where[handler[t]] = <<"run", t>>
    BY <1>1, <2>1, <2>3 DEF HeldAre, RunsIt
  <2>5. \A x \in Works : Where'[x] = IF x = handler[t] THEN <<"nowhere", Service>> ELSE Where[x]
    BY <1>1, <2>2 DEF Put
  <2>6. Counted' = Counted
    BY <2>4, <2>5, NotCounted
  <2>7. t \in Busy' <=> t \in Busy
    BY <1>3, <2>1, Forms DEF InProgress
  <2> QED
    BY <1>4, <2>1, <2>2, <2>6, <2>7 DEF InProgress
<1>10. CASE LeaveStrand(t)
  <2>1. /\ call[t] = <<>> /\ pc[t] \in {"strand", "leave_strand"} /\ pc'[t] = "work_cleanup"
        /\ cur' = cur /\ locked' \in BOOLEAN
        /\ \/ ~locked' /\ call'[t] = <<>> /\ private_queue'[t] = private_queue[t]
              /\ private_work'[t] = private_work[t]
           \/ /\ locked' /\ t \in Runners /\ call'[t] = <<>>
              /\ private_queue'[t] = Append(private_queue[t], Strand)
              /\ private_work'[t] = private_work[t] + 1
           \/ locked' /\ call'[t] = <<Work, Push(<<Strand>>)>> /\ private_queue'[t] = private_queue[t]
              /\ private_work'[t] = private_work[t]
    BY <1>10, LeaveStrandFacts
  <2>2. /\ Placed'
        /\ Where' = Put({Strand}, Left(t), Put(Range(waiting_queue), <<"ready_queue_", Service>>, Where))
    BY <1>10, LeaveStrandMoves
  <2>3. \A x \in Works : Where'[x] = IF x = Strand THEN Left(t)
                                     ELSE IF x \in Range(waiting_queue) THEN <<"ready_queue_", Service>>
                                     ELSE Where[x]
    BY <1>1, <2>2 DEF Put
  <2>4. Where[Strand] = <<"run", t>>
    BY <1>1, <2>1 DEF HeldAre, RunsIt, Runs
  <2>5. \A x \in Works : x \in Range(waiting_queue) => Where[x] = <<"waiting_queue_", Service>>
    BY <1>1 DEF SharedAre
  <2>6. Left(t)[1] \in {"nowhere", "private", "uncounted"}
    BY DEF Left
  <2>7. Counted' = Counted
    BY <2>3, <2>4, <2>5, <2>6, NotCounted
  <2>8. call'[t] # <<Work>> /\ InProgress(t) /\ InProgress(t)'
    BY <2>1, Forms DEF InProgress
  <2>9. t \in Busy' <=> t \in Busy
    BY <1>3, <2>1, <2>8, Forms
  <2>10. CASE private_queue'[t] = private_queue[t] /\ private_work'[t] = private_work[t]
    BY <1>4, <2>2, <2>7, <2>8, <2>9, <2>10
  <2>11. CASE private_queue'[t] = Append(private_queue[t], Strand) /\ private_work'[t] = private_work[t] + 1
    <3>1. private_queue[t] \in Seq(Ops) /\ Strand \in Ops
      BY DEF Types, Ops
    <3>2. Range(private_queue'[t]) = Range(private_queue[t]) \cup {Strand}
      BY <2>11, <3>1, AppendElems
    <3>3. Kept(t)' = Kept(t) \cup {Strand}
      BY <2>2, <2>8, <3>2, KeptIs, KeptIsNext DEF Works
    <3>4. Strand \notin Kept(t)
      BY <2>4 DEF Kept
    <3>5. Cardinality(Kept(t) \cup {Strand}) = Cardinality(Kept(t)) + 1
      BY <3>4, FiniteWork, FS_AddElement
    <3>6. private_work'[t] = Cardinality(Kept(t)')
      BY <2>11, <3>3, <3>5 DEF WorkCounted
    <3> QED
      BY <1>2, <2>2, <2>7, <2>9, <3>6, SameWork
  <2> QED
    BY <2>1, <2>10, <2>11
<1>11. CASE StrandPost(t)
  <2>1. /\ pc[t] \in {"app", "handler"} /\ pc' = pc /\ private_work' = private_work /\ cur' = cur
        /\ private_queue' = private_queue /\ call[t] = <<>>
    BY <1>11 DEF StrandPost, HandOver, Active, Returned, InsideStrand
  <2>2. PICK h \in Handlers :
              /\ h = Command(t).op /\ Placed'
              /\ IF locked THEN /\ call'[t] = <<>>
                                /\ Where' = Put({h}, <<"waiting_queue_", Service>>, Where)
                 ELSE /\ call'[t] = <<ToReady(h), Work, Push(<<Strand>>)>>
                      /\ Where' = Put({Strand}, <<"uncounted", t>>, Put({h}, <<"to_ready", t>>, Where))
    BY <1>11, StrandPostMoves
  <2>3. status[h] = "new"
    BY <1>11, <2>2, HandedOver DEF StrandPost
  <2>4. Where[h] = <<"nowhere", Service>>
    BY <1>1, <2>3 DEF SharedAre
  <2>5. Counted' = Counted
    <3>1. CASE locked
      <4>1. \A x \in Works : Where'[x] = IF x = h THEN <<"waiting_queue_", Service>> ELSE Where[x]
        BY <1>1, <2>2, <3>1 DEF Put
      <4> QED
        BY <2>4, <4>1, NotCounted
    <3>2. CASE ~locked
      <4>1. \A x \in Works : Where'[x] = IF x = Strand THEN <<"uncounted", t>>
                                         ELSE IF x = h THEN <<"to_ready", t>> ELSE Where[x]
        BY <1>1, <2>2, <3>2 DEF Put
      <4>2. Where[Strand] = <<"nowhere", Service>>
        BY <1>1, <3>2 DEF SharedAre
      <4> QED
        BY <2>4, <4>1, <4>2, NotCounted
    <3> QED
      BY <3>1, <3>2
  <2>6. call[t] # <<Work>> /\ call'[t] # <<Work>>
    BY <2>1, <2>2, Forms
  <2>7. t \in Busy' <=> t \in Busy
    BY <1>3, <2>1, <2>6 DEF InProgress
  <2> QED
    BY <1>4, <2>1, <2>2, <2>5, <2>7 DEF InProgress
<1>12. CASE PushReady(t)
  <2>1. /\ pc' = pc /\ private_work' = private_work /\ cur' = cur /\ private_queue' = private_queue
    BY <1>12 DEF PushReady, InsideStrand
  <2>2. PICK h \in Handlers :
              /\ call[t] = <<ToReady(h), Work, Push(<<Strand>>)>> /\ call'[t] = <<Work, Push(<<Strand>>)>>
              /\ Placed' /\ Where' = Put({h}, <<"ready_queue_", Service>>, Where)
    BY <1>12, PushReadyMoves
  <2>3. h \in Readying(call[t])
    BY <2>2, CallHolds
  <2>4. Where[h] = <<"to_ready", t>>
    BY <1>1, <2>3 DEF HeldAre
  <2>5. \A x \in Works : Where'[x] = IF x = h THEN <<"ready_queue_", Service>> ELSE Where[x]
    BY <1>1, <2>2 DEF Put
  <2>6. Counted' = Counted
    BY <2>4, <2>5, NotCounted
  <2>7. call[t] # <<Work>> /\ call'[t] # <<Work>>
    BY <2>2, Forms
  <2>8. t \in Busy' <=> t \in Busy
    BY <2>1, <2>7 DEF Busy, InProgress
  <2> QED
    BY <1>4, <2>1, <2>2, <2>6, <2>8 DEF InProgress
<1> QED
  BY <1>6, <1>7, <1>8, <1>9, <1>10, <1>11, <1>12 DEF StrandSteps


\* Every operation is in one place after a step of a call or of run.
LEMMA CallPlaced ==
    ASSUME Types, Placed, NEW t \in Threads, CallSteps(t), OutsideStrand PROVE Placed'
BY WorkStartedMoves, PushOpsMoves, NothingHeld DEF CallSteps

\* The steps of run keep every operation in one place.
LEMMA LoopPlaced ==
    ASSUME Types, Placed, Control, NoDoubles, DescriptorOnce, NEW t \in Threads, Loop(t), OutsideStrand,
           Others(t)
    PROVE  Placed'
BY TurnMoves, LoopStays, WorkCleanupMoves, CheckTimersMoves, PerformIoMoves DEF Loop

\* Nothing outside the process is counted.
LEMMA EnvironmentWork ==
    ASSUME Types, Placed, WorkCounted, Environment PROVE Placed' /\ WorkCounted'
<1>1. Placed' /\ Where' = Where
  BY EnvironmentStays
<1>2. outstanding_work' = outstanding_work /\ private_work' = private_work /\ call' = call /\ cur' = cur
  BY DEF Environment, SocketReady, TimePasses, SpuriousWakeup, threads, service
<1>3. \A t \in Threads : pc'[t] = pc[t] \/ (pc[t] = "waiting" /\ pc'[t] = "woken")
  BY DEF Environment, SocketReady, TimePasses, SpuriousWakeup, threads, Goto, Types
<1>4. Counted' = Counted /\ \A t \in Threads : Kept(t)' = Kept(t)
  BY <1>1 DEF Counted, Kept
<1>5. Busy' = Busy
  <2>1. \A t \in Threads : (InProgress(t)' <=> InProgress(t)) /\ (pc'[t] = "complete" <=> pc[t] = "complete")
    BY <1>3 DEF InProgress
  <2> QED
    BY <1>2, <2>1 DEF Busy, Threads
<1> QED
  BY <1>1, <1>2, <1>4, <1>5 DEF WorkCounted

\* What was started is what is counted at first.
LEMMA InitWork == ASSUME Init PROVE WorkCounted
<1>1. /\ Placed
      /\ Where = [x \in Units |-> IF x = Task THEN <<"op_queue_", Service>>
                                  ELSE IF x \in program.started THEN <<"registered", Service>>
                                  ELSE <<"nowhere", Service>>]
  BY InitPlaced
<1>2. Types /\ program.started \subseteq Handlers
  BY InitTypes DEF Types
<1>3. Task \notin Works /\ Works \subseteq Units /\ Handlers \subseteq Works
  BY HandlersAssumption DEF Works, Units, Task, Strand
<1>4. \A x \in Works : Where[x] = IF x \in program.started THEN <<"registered", Service>>
                                  ELSE <<"nowhere", Service>>
  BY <1>1, <1>3
<1>5. Counted = program.started
  BY <1>2, <1>3, <1>4 DEF Counted
<1>6. \A t \in Threads : Kept(t) = {}
  BY <1>4 DEF Kept
<1>7. \A t \in Threads : pc[t] \in {"run", "app"} /\ private_work[t] = 0
  BY DEF Init, IoInit
<1>8. Busy = {}
  BY <1>7 DEF Busy, InProgress, Threads
<1>9. outstanding_work = Cardinality(program.started) /\ Cardinality(program.started) \in Nat
  <2>1. IsFiniteSet(program.started)
    BY <1>2, HandlersAssumption, FS_Subset
  <2> QED
    BY <2>1, FS_CardinalityType DEF Init, IoInit
<1>10. Cardinality(Counted) = Cardinality(program.started) /\ Cardinality(Busy) = 0
  BY <1>5, <1>8, FS_EmptySet
<1>11. outstanding_work = Cardinality(Counted) + Cardinality(Busy)
  BY <1>9, <1>10
<1>12. \A t \in Threads : private_work[t] = Cardinality(Kept(t))
  BY <1>6, <1>7, FS_EmptySet
<1> QED
  BY <1>11, <1>12 DEF WorkCounted

----------------------------------------------------------------------------
(* Queues and counts.                                                      *)

QueueInv ==
    Types /\ MoreTypes /\ Placed /\ NoDoubles /\ Control /\ DescriptorOnce /\ Commanded /\ WorkCounted

\* The invariant holds initially,
LEMMA InitQueueInv == Init => QueueInv
BY InitTypes, InitPlaced, InitControl, InitWork DEF QueueInv

\* A thread that takes a step keeps the queues and the counts.
LEMMA StepQueueInv ==
    ASSUME QueueInv, Types', NEW t \in Threads, Step(t) PROVE QueueInv'
<1> USE DEF QueueInv
<1>1. CASE CallSteps(t) /\ OutsideStrand
  <2>1. MoreTypes' /\ Placed' /\ NoDoubles'
    BY <1>1, CallMoreTypes, CallPlaced, CallNoDoubles
  <2>2. Control' /\ DescriptorOnce' /\ Commanded' /\ WorkCounted'
    BY <1>1, CallControl, CallDescriptor, CallCommanded, CallWork
  <2> QED
    BY <2>1, <2>2
<1>2. CASE Loop(t) /\ OutsideStrand
  <2>1. MoreTypes' /\ Others(t)
    BY <1>2, LoopMoreTypes, LoopOthers
  <2>2. Placed' /\ NoDoubles' /\ Control'
    BY <1>2, <2>1, LoopPlaced, LoopNoDoubles, LoopControl
  <2>3. DescriptorOnce' /\ Commanded' /\ WorkCounted'
    BY <1>2, <2>1, LoopDescriptor, LoopCommanded, LoopWork
  <2> QED
    BY <2>1, <2>2, <2>3
<1>3. CASE Commands(t) /\ OutsideStrand
  <2>1. MoreTypes' /\ Others(t)
    BY <1>3, CommandMoreTypes, CommandOthers
  <2>2. Placed' /\ WorkCounted' /\ NoDoubles' /\ Control'
    BY <1>3, <2>1, CommandWork, CommandNoDoubles, CommandControl
  <2>3. DescriptorOnce' /\ Commanded'
    BY <1>3, <2>1, CommandDescriptor, CommandCommanded
  <2> QED
    BY <2>1, <2>2, <2>3
<1>4. CASE StrandSteps(t)
  <2>1. MoreTypes' /\ Others(t)
    BY <1>4, StrandMoreTypes, StrandOthers
  <2>2. Placed' /\ WorkCounted' /\ NoDoubles' /\ Control'
    BY <1>4, <2>1, StrandWork, StrandNoDoubles, StrandControl
  <2>3. DescriptorOnce' /\ Commanded'
    BY <1>4, <2>1, StrandDescriptor, StrandCommanded
  <2> QED
    BY <2>1, <2>2, <2>3
<1> QED
  BY <1>1, <1>2, <1>3, <1>4 DEF Step

\* and every step keeps it.
LEMMA NextQueueInv ==
    QueueInv /\ Types' /\ [Next]_vars => QueueInv'
<1> SUFFICES ASSUME QueueInv, Types', [Next]_vars PROVE QueueInv'
  OBVIOUS
<1>1. CASE UNCHANGED vars
  <2> USE <1>1 DEF vars, ioVars, service, reactor, kernel, threads, strand
  <2>1. MoreTypes' /\ NoDoubles' /\ DescriptorOnce'
    BY DEF QueueInv, MoreTypes, NoDoubles, DescriptorOnce, Polls
  <2>2. Control'
    BY DEF QueueInv, Control, Running, ThreadControl, InProgress, Uncounted
  <2>3. Commanded'
    BY CommandedSame DEF QueueInv
  <2>4. Placed' /\ Where' = Where
    BY NothingMoves DEF QueueInv, HasSame, RunsIt, Runs, Polls, InProgress
  <2>5. WorkCounted'
    BY <2>4 DEF QueueInv, WorkCounted, Counted, Kept, Busy, InProgress
  <2> QED
    BY <2>1, <2>2, <2>3, <2>4, <2>5 DEF QueueInv
<1>2. CASE Environment
  BY <1>2, EnvironmentMoreTypes, EnvironmentControl, EnvironmentWork, EnvironmentQueues,
     EnvironmentCommanded DEF QueueInv
<1>3. CASE \E t \in Threads : Step(t)
  BY <1>3, StepQueueInv
<1> QED
  BY <1>1, <1>2, <1>3 DEF Next

\* From the places: no operation is queued twice.
LEMMA QueuedOnceHolds == QueueInv => QueuedOnce
<1> SUFFICES ASSUME QueueInv PROVE QueuedOnce
  OBVIOUS
<1>1. /\ op_queue \in Seq(Ops) /\ ready_queue \in Seq(Ops) /\ waiting_queue \in Seq(Ops)
      /\ Range(ready_queue) \subseteq Handlers /\ Range(waiting_queue) \subseteq Handlers
      /\ \A t \in Threads : private_queue[t] \in Seq(Ops) /\ Range(private_queue[t]) \subseteq Ops
      /\ Range(op_queue) \subseteq Ops
  <2>1. ready_queue \in Seq(Handlers) /\ waiting_queue \in Seq(Handlers)
    BY DEF QueueInv, Types
  <2>2. op_queue \in Seq(Ops) /\ \A t \in Threads : private_queue[t] \in Seq(Ops)
    BY DEF QueueInv, Types
  <2>3. \A S, s : s \in Seq(S) => Range(s) \subseteq S
    BY DEF Range
  <2>4. \A s \in Seq(Handlers) : s \in Seq(Ops)
    BY DEF Ops
  <2> QED
    BY <2>1, <2>2, <2>3, <2>4
<1>2. SharedAre(Where) /\ \A t \in Threads : HeldAre(Where, t)
  BY WhereIs DEF QueueInv
<1>3. Handlers \subseteq Units /\ Ops = Units \cup {Descriptor} /\ Descriptor \notin Handlers
  BY HandlersAssumption DEF Units, Ops, Descriptor
<1>4. /\ Fresh(op_queue) /\ Fresh(ready_queue) /\ Fresh(waiting_queue)
      /\ \A t \in Threads : Fresh(private_queue[t])
  BY DEF QueueInv, NoDoubles
<1> HIDE DEF Fresh
<1>5. Range(ready_queue) \cap Range(waiting_queue) = {} /\ Range(op_queue) \cap Range(ready_queue) = {}
      /\ Range(op_queue) \cap Range(waiting_queue) = {}
  BY <1>1, <1>2, <1>3 DEF SharedAre
<1>6. /\ op_queue \o ready_queue \in Seq(Ops) /\ Fresh(op_queue \o ready_queue)
      /\ Range(op_queue \o ready_queue) = Range(op_queue) \cup Range(ready_queue)
  BY <1>1, <1>4, <1>5, ConcatElems
<1>7. Fresh(Queued) /\ Range(Queued) = Range(op_queue) \cup Range(ready_queue) \cup Range(waiting_queue)
  <2> DEFINE s == op_queue \o ready_queue
  <2>1. s \in Seq(Ops) /\ Fresh(s) /\ Range(s) \cap Range(waiting_queue) = {}
    BY <1>5, <1>6
  <2> HIDE DEF s
  <2>2. Fresh(s \o waiting_queue) /\ Range(s \o waiting_queue) = Range(s) \cup Range(waiting_queue)
    BY <1>1, <1>4, <2>1, ConcatElems
  <2> QED
    BY <1>6, <2>2 DEF Queued, s
<1>8. ASSUME NEW t \in Threads PROVE Range(private_queue[t]) \cap Range(Queued) = {}
  <2>1. ASSUME NEW x \in Units, x \in Range(private_queue[t]) PROVE x \notin Range(Queued)
    <3>1. Where[x] \in {<<"private", t>>, <<"moved", t>>}
      BY <1>2, <2>1 DEF HeldAre
    <3> QED
      BY <1>2, <1>7, <3>1 DEF SharedAre
  <2>2. ASSUME Descriptor \in Range(private_queue[t]) PROVE Descriptor \notin Range(Queued)
    <3>1. Polls(t)
      BY <2>2 DEF QueueInv, DescriptorOnce, Polls
    <3>2. Descriptor \notin Range(op_queue)
      BY <3>1 DEF QueueInv, DescriptorOnce
    <3> QED
      BY <1>1, <1>3, <1>7, <3>2
  <2> QED
    BY <1>1, <1>3, <2>1, <2>2
<1>9. ASSUME NEW t \in Threads, NEW u \in Threads, t # u
      PROVE  Range(private_queue[t]) \cap Range(private_queue[u]) = {}
  <2>1. ASSUME NEW x \in Units, x \in Range(private_queue[t]), x \in Range(private_queue[u]) PROVE FALSE
    <3>1. Where[x] \in {<<"private", t>>, <<"moved", t>>} /\ Where[x] \in {<<"private", u>>, <<"moved", u>>}
      BY <1>2, <2>1 DEF HeldAre
    <3> QED
      BY <1>9, <3>1
  <2>2. ASSUME Descriptor \in Range(private_queue[t]), Descriptor \in Range(private_queue[u]) PROVE FALSE
    <3>1. Polls(t) /\ Polls(u)
      BY <2>2 DEF QueueInv, DescriptorOnce, Polls
    <3>2. Task \in Units /\ RunsIt(t, Task) /\ RunsIt(u, Task)
      BY <3>1 DEF RunsIt, Units
    <3> QED
      BY <1>9, <3>2, RunByOne DEF QueueInv
  <2> QED
    BY <1>1, <1>3, <2>1, <2>2
<1> QED
  BY <1>4, <1>7, <1>8, <1>9 DEF QueuedOnce, Fresh

\* No operation is in two queues, or in one of them twice, and the count of the
\* work never falls below zero, whatever threads, handlers and programs there are.
THEOREM TypeOKCorrect == Spec => []TypeOK
<1>1. QueueInv => TypeOK
  <2> SUFFICES ASSUME QueueInv PROVE TypeOK
    OBVIOUS
  <2>1. QueuedOnce
    BY QueuedOnceHolds
  <2>2. outstanding_work \in Nat
    <3>1. outstanding_work = Cardinality(Counted) + Cardinality(Busy)
      BY DEF QueueInv, WorkCounted
    <3> QED
      BY <3>1, FiniteWork
  <2>3. avail \cup edges \cup task_result \subseteq {"read", "write"}
    BY DEF QueueInv, Types, MoreTypes, Events
  <2> QED
    BY <2>1, <2>2, <2>3 DEF QueueInv, Types, MoreTypes, TypeOK
<1>2. Types /\ Scheduled /\ QueueInv /\ [Next]_vars => QueueInv'
  BY NextScheduled, NextQueueInv
<1>3. Spec => [](Types /\ Scheduled)
  BY AlwaysScheduled
<1> QED
  BY <1>1, <1>2, <1>3, InitQueueInv, PTL DEF Spec


----------------------------------------------------------------------------
(* What the strand has.                                                    *)

AtStrand == {"to_ready", "ready_queue_", "waiting_queue_"}

\* It is in the queues of the strand, or about to be pushed there.
LEMMA AtStrandIs ==
    Placed => \A h \in Handlers :
                 Where[h][1] \in AtStrand <=> \/ h \in Range(ready_queue) \/ h \in Range(waiting_queue)
                                              \/ \E u \in Threads : h \in Readying(call[u])
<1> SUFFICES ASSUME Placed, NEW h \in Handlers
             PROVE  Where[h][1] \in AtStrand <=> \/ h \in Range(ready_queue) \/ h \in Range(waiting_queue)
                                                 \/ \E u \in Threads : h \in Readying(call[u])
  OBVIOUS
<1>1. h \in Units /\ SharedAre(Where) /\ (\A u \in Threads : HeldAre(Where, u)) /\ Where[h] \in Places
  BY WhereIs DEF Units
<1>2. /\ Where[h] = <<"ready_queue_", Service>> <=> h \in Range(ready_queue)
      /\ Where[h] = <<"waiting_queue_", Service>> <=> h \in Range(waiting_queue)
      /\ \A u \in Threads : Where[h] = <<"to_ready", u>> <=> h \in Readying(call[u])
  BY <1>1 DEF SharedAre, HeldAre
<1>3. Where[h][1] \in AtStrand => \/ Where[h] = <<"ready_queue_", Service>>
                                  \/ Where[h] = <<"waiting_queue_", Service>>
                                  \/ \E u \in Threads : Where[h] = <<"to_ready", u>>
  BY <1>1 DEF Places, Shared, Held, AtStrand
<1> QED
  BY <1>2, <1>3 DEF AtStrand

\* The same after a step.
LEMMA AtStrandIsNext ==
    (Placed => \A h \in Handlers :
                  Where[h][1] \in AtStrand <=> \/ h \in Range(ready_queue) \/ h \in Range(waiting_queue)
                                               \/ \E u \in Threads : h \in Readying(call[u]))'
BY AtStrandIs, PTL

\* Who is about to push to the ready queue is about to schedule the strand, too.
LEMMA PushesReady ==
    ASSUME Types, NEW t \in Threads
    PROVE  /\ Is(t, "ready_queue_.push") <=> Readying(call[t]) # {}
           /\ Is(t, "ready_queue_.push") => \E h \in Handlers :
                 /\ call[t] = <<ToReady(h), Work, Push(<<Strand>>)>>
                 /\ Readying(call[t]) = {h} /\ Uncounting(call[t]) = {Strand}
<1>1. Is(t, "ready_queue_.push") <=> Readying(call[t]) # {}
  BY DEF Is, Readying
<1>2. ASSUME Is(t, "ready_queue_.push")
      PROVE  \E h \in Handlers : call[t] = <<ToReady(h), Work, Push(<<Strand>>)>>
  <2>1. Readying(call[t]) # {}
    BY <1>1, <1>2
  <2> QED
    BY <2>1, CallCases, CallHolds
<1> QED
  BY <1>1, <1>2, CallHolds

\* Only one thread is, and the strand is locked then.
LEMMA OnePushesReady ==
    ASSUME Types, MoreTypes, Placed, NEW t \in Threads, Is(t, "ready_queue_.push")
    PROVE  /\ locked /\ Where[Strand] = <<"uncounted", t>>
           /\ \A u \in Threads : Is(u, "ready_queue_.push") => u = t
           /\ \A u \in Threads : ~Runs(u)
<1>1. SharedAre(Where) /\ (\A u \in Threads : HeldAre(Where, u)) /\ Strand \in Units
  BY WhereIs DEF Units
<1>2. \A u \in Threads : Is(u, "ready_queue_.push") => Where[Strand] = <<"uncounted", u>>
  BY <1>1, PushesReady DEF HeldAre
<1>3. \A u \in Threads : Runs(u) => Where[Strand] = <<"run", u>>
  BY <1>1 DEF HeldAre, RunsIt
<1>4. Where[Strand] = <<"uncounted", t>>
  BY <1>2
<1>5. locked
  BY <1>1, <1>4 DEF SharedAre, MoreTypes
<1> QED
  BY <1>2, <1>3, <1>4, <1>5

\* Who runs the strand is the only one that is there, and has it locked.
LEMMA OneRuns ==
    ASSUME Types, MoreTypes, Placed, NEW t \in Threads, Runs(t)
    PROVE  /\ locked /\ Where[Strand] = <<"run", t>>
           /\ \A u \in Threads : ~Is(u, "ready_queue_.push")
           /\ \A u \in Threads : Runs(u) => u = t
<1>1. SharedAre(Where) /\ (\A u \in Threads : HeldAre(Where, u)) /\ Strand \in Units
  BY WhereIs DEF Units
<1>2. \A u \in Threads : Runs(u) => Where[Strand] = <<"run", u>>
  BY <1>1 DEF HeldAre, RunsIt
<1>3. Where[Strand] = <<"run", t>>
  BY <1>2
<1>4. locked
  BY <1>1, <1>3 DEF SharedAre, MoreTypes
<1> QED
  BY <1>2, <1>3, <1>4, OnePushesReady

\* A step that leaves the strand alone.
LEMMA SameStrand ==
    ASSUME Types, MoreTypes, Placed, Placed', StrandHas, locked' = locked, ready_queue' = ready_queue,
           waiting_queue' = waiting_queue, strand_of' = strand_of,
           \A u \in Threads : /\ Readying(call'[u]) = Readying(call[u])
                              /\ pc'[u] = "handler" /\ handler'[u] \in strand_of =>
                                    /\ pc[u] = "handler" /\ handler'[u] = handler[u]
                                    /\ frame'[u] = frame[u],
           \A h \in Handlers : /\ status'[h] = "new" => status[h] = "new"
                               /\ status'[h] = "pending" => status[h] \in {"new", "pending"}
    PROVE  StrandHas'
<1>1. \A t \in Threads : Is(t, "ready_queue_.push")' <=> Is(t, "ready_queue_.push")
  <2>1. \A t \in Threads : Is(t, "ready_queue_.push") <=> Readying(call[t]) # {}
    BY PushesReady
  <2>2. \A t \in Threads : Is(t, "ready_queue_.push")' <=> Readying(call'[t]) # {}
    BY DEF Is, Readying
  <2> QED
    BY <2>1, <2>2
<1>2. \A h \in Handlers : Where'[h][1] \in AtStrand <=> Where[h][1] \in AtStrand
  BY AtStrandIs, AtStrandIsNext
<1>3. strand_of \subseteq Handlers
  BY DEF MoreTypes
<1>4. \A t \in Threads : Is(t, "ready_queue_.push")' => ready_queue' = <<>>
  BY <1>1 DEF StrandHas
<1>5. \A h \in Handlers : Where'[h][1] \in AtStrand => h \in strand_of'
  BY <1>2 DEF StrandHas, AtStrand
<1>6. \A h \in strand_of' : /\ status'[h] # "new"
                            /\ status'[h] = "pending" => Where'[h][1] \in AtStrand
  BY <1>2, <1>3 DEF StrandHas, AtStrand
<1>7. \A t \in Threads : pc'[t] = "handler" /\ handler'[t] \in strand_of' => frame'[t] # "loop"
  BY DEF StrandHas
<1>8. ~locked' => ready_queue' = <<>> /\ waiting_queue' = <<>>
  BY DEF StrandHas
<1> QED
  BY <1>4, <1>5, <1>6, <1>7, <1>8 DEF StrandHas, AtStrand


\* The forms of a call that are not about the ready queue.
LEMMA NotReadying ==
    \A steps : \/ steps \in {<<>>, <<Signal>>, <<StopLoop>>, <<Work>>}
               \/ \E ops : steps \in {<<Push(ops)>>, <<Work, Push(ops)>>}
               => Readying(steps) = {}
BY CallHolds

\* What the steps of a call leave of it, and of the loop.
LEMMA CallQuiet ==
    ASSUME Types, MoreTypes, NEW t \in Threads, CallSteps(t), OutsideStrand
    PROVE  /\ \A u \in Threads \ {t} : call'[u] = call[u]
           /\ Readying(call[t]) = {} /\ Readying(call'[t]) = {}
           /\ ~Is(t, "stop")'
           /\ stopped' = (stopped \/ Is(t, "stop"))
<1>1. /\ \A u \in Threads \ {t} : call'[u] = call[u]
      /\ call[t] # <<>> /\ call'[t] \in {Tail(call[t]), <<Signal>> \o Tail(call[t])}
      /\ Head(call[t]).step \in {"work_started", "push", "signal_one", "stop"}
  BY DEF CallSteps, WorkStarted, PushOps, SignalOne, StopAllThreads, Calls, WakeOne, Is, Types
<1>2. \A h : ToReady(h).step = "ready_queue_.push"
  BY DEF ToReady
<1>3. Readying(call[t]) = {}
  BY <1>1 DEF Readying
<1>4. \A x, y : Tail(<<x>>) = <<>> /\ Tail(<<x, y>>) = <<y>> /\ <<x>> \o <<>> = <<x>>
  OBVIOUS
<1>5. /\ WorkStarted(t) => call'[t] = Tail(call[t]) /\ Is(t, "work_started")
      /\ ~WorkStarted(t) => ~Is(t, "work_started")
  BY DEF WorkStarted, CallSteps, PushOps, SignalOne, StopAllThreads, Calls, Is, Types
<1>6. \/ call'[t] \in {<<>>, <<Signal>>}
      \/ \E ops : call'[t] = <<Push(ops)>>
  <2>1. CASE call[t] \in {<<>>, <<Signal>>, <<StopLoop>>, <<Work>>}
    <3>1. Tail(call[t]) = <<>>
      BY <1>1, <1>4, <2>1
    <3> QED
      BY <1>1, <1>4, <3>1
  <2>2. ASSUME NEW ops \in Seq(Ops), call[t] = <<Push(ops)>>
        PROVE  call'[t] \in {<<>>, <<Signal>>}
    <3>1. Tail(call[t]) = <<>>
      BY <1>4, <2>2
    <3> QED
      BY <1>1, <1>4, <3>1
  <2>3. ASSUME NEW ops \in Seq(Ops), call[t] = <<Work, Push(ops)>>
        PROVE  call'[t] = <<Push(ops)>>
    <3>1. Head(call[t]).step = "work_started"
      BY <2>3 DEF Work
    <3>2. WorkStarted(t)
      BY <1>1, <1>5, <3>1 DEF Is
    <3> QED
      BY <1>4, <1>5, <2>3, <3>2
  <2>4. ASSUME NEW h \in Handlers, call[t] = <<ToReady(h), Work, Push(<<Strand>>)>> PROVE FALSE
    BY <1>1, <1>2, <2>4
  <2> QED
    BY <2>1, <2>2, <2>3, <2>4, CallCases
<1>7. Readying(call'[t]) = {}
  BY <1>6, CallHolds
<1>8. ~Is(t, "stop")'
  <2>1. CASE call'[t] = <<>>
    BY <2>1 DEF Is
  <2>2. CASE call'[t] = <<Signal>>
    BY <2>2 DEF Is, Signal
  <2>3. ASSUME NEW ops, call'[t] = <<Push(ops)>> PROVE ~Is(t, "stop")'
    BY <2>3 DEF Is, Push
  <2> QED
    BY <1>6, <2>1, <2>2, <2>3
<1>9. stopped' = (stopped \/ Is(t, "stop"))
  <2>1. CASE WorkStarted(t) \/ PushOps(t) \/ SignalOne(t)
    <3>1. stopped' = stopped /\ ~Is(t, "stop")
      BY <2>1 DEF WorkStarted, PushOps, SignalOne, Is, service
    <3> QED
      BY <3>1 DEF MoreTypes
  <2>2. CASE StopAllThreads(t)
    BY <2>2 DEF StopAllThreads
  <2> QED
    BY <2>1, <2>2 DEF CallSteps
<1> QED
  BY <1>1, <1>3, <1>7, <1>8, <1>9

\* The same of run: it tells the loop to stop only when it has counted nothing.
LEMMA LoopQuiet ==
    ASSUME Types, MoreTypes, Placed, Control, NEW t \in Threads, Loop(t), OutsideStrand, Others(t)
    PROVE  /\ call[t] = <<>> /\ stopped' = stopped /\ status' = status
           /\ pc'[t] # "handler"
           /\ \/ call'[t] \in {<<>>, <<Signal>>, <<Work>>}
              \/ \E ops : call'[t] = <<Push(ops)>>
              \/ call'[t] = <<StopLoop>> /\ outstanding_work' = 0
<1>1. call[t] = <<>> /\ stopped' = stopped /\ status' = status
  <2>1. Run(t) \/ Woken(t) \/ TaskCleanup(t) \/ CheckTimers(t) => call[t] = <<>>
    BY DEF Control, ThreadControl, Run, Woken, TaskCleanup, CheckTimers
  <2> QED
    BY <2>1 DEF Loop, Run, RunOne, Woken, TaskCleanup, WorkCleanup, PushPrivate, Poll, CheckTimers,
                PerformIo, Returned, TurnUnchanged, service
<1>2. CASE RunOne(t) \/ (Woken(t) /\ signalled) \/ TaskCleanup(t) \/ PushPrivate(t)
  <2>1. \E queue, interrupted : Turn(t, queue, interrupted)
    BY <1>2, TurnBegins
  <2> QED
    BY <1>1, <2>1, TurnResult
<1>3. CASE Run(t)
  <2>1. pc'[t] \in {"returned", "lock"}
    BY <1>3 DEF Run, Goto, Types
  <2>2. call'[t] = <<>> \/ (call'[t] = <<StopLoop>> /\ outstanding_work' = 0)
    BY <1>1, <1>3 DEF Run, Calls, Types, service
  <2> QED
    BY <1>1, <2>1, <2>2
<1>4. CASE (Woken(t) /\ ~signalled) \/ Poll(t) \/ CheckTimers(t)
  <2>1. call' = call /\ pc'[t] \in {"waiting", "check_timers", "task_cleanup"}
    BY <1>4 DEF Woken, Poll, CheckTimers, Goto, Types
  <2> QED
    BY <1>1, <2>1
<1>5. CASE WorkCleanup(t)
  <2>1. pc'[t] \in {"lock", "push_private"}
    BY <1>5 DEF WorkCleanup, Goto, Types
  <2>2. call'[t] = <<>> \/ (call'[t] = <<StopLoop>> /\ outstanding_work' = 0)
    BY <1>5 DEF WorkCleanup, Calls, Types
  <2> QED
    BY <1>1, <2>1, <2>2
<1>6. CASE PerformIo(t)
  <2>1. pc'[t] \in {"complete", "work_cleanup"}
    BY <1>6 DEF PerformIo, Goto, Types
  <2>2. CASE pc'[t] = "work_cleanup"
    <3>1. call' = [call EXCEPT ![t] = <<Work>>]
      BY <1>6, <2>2 DEF PerformIo, Calls, Types
    <3>2. call'[t] = <<Work>>
      BY <3>1 DEF Types
    <3> QED
      BY <1>1, <2>1, <3>2
  <2>3. CASE pc'[t] # "work_cleanup"
    <3>1. call'[t] = <<>> \/ \E g \in registered : call'[t] = <<Push(<<g>>)>>
      BY <1>6, <2>3, PerformIoMoves
    <3> QED
      BY <1>1, <2>1, <3>1
  <2> QED
    BY <2>2, <2>3
<1> QED
  BY <1>2, <1>3, <1>4, <1>5, <1>6 DEF Loop

\* Nothing that has to do with the strand.
LEMMA OutsideStrandHas ==
    ASSUME Types, MoreTypes, Placed, Control, Commanded, Placed', StrandHas, NEW t \in Threads,
           CallSteps(t) \/ Loop(t) \/ Commands(t), OutsideStrand
    PROVE  StrandHas'
<1>1. /\ locked' = locked /\ ready_queue' = ready_queue /\ waiting_queue' = waiting_queue
      /\ strand_of' = strand_of /\ handler' = handler /\ frame' = frame
  BY DEF OutsideStrand, strand
<1>2. SUFFICES ASSUME \A u \in Threads : /\ Readying(call'[u]) = Readying(call[u])
                                         /\ pc'[u] = "handler" => pc[u] = "handler",
                      \A h \in Handlers : /\ status'[h] = "new" => status[h] = "new"
                                          /\ status'[h] = "pending" => status[h] \in {"new", "pending"}
               PROVE  StrandHas'
  <2>1. CASE CallSteps(t)
    <3>1. \A u \in Threads : Readying(call'[u]) = Readying(call[u])
      BY <2>1, CallQuiet
    <3>2. \A u \in Threads : pc'[u] = "handler" => pc[u] = "handler"
      BY <2>1 DEF CallSteps, WorkStarted, PushOps, SignalOne, StopAllThreads, Goto, Types
    <3>3. status' = status
      BY <2>1 DEF CallSteps, WorkStarted, PushOps, SignalOne, StopAllThreads
    <3> QED
      BY <1>2, <3>1, <3>2, <3>3
  <2>2. CASE Loop(t)
    <3>1. Others(t)
      BY <2>2, LoopOthers
    <3>2. /\ call[t] = <<>> /\ status' = status /\ pc'[t] # "handler"
          /\ \/ call'[t] \in {<<>>, <<Signal>>, <<Work>>}
             \/ \E ops : call'[t] = <<Push(ops)>>
             \/ call'[t] = <<StopLoop>> /\ outstanding_work' = 0
      BY <2>2, <3>1, LoopQuiet
    <3>3. Readying(call'[t]) = {} /\ Readying(call[t]) = {}
      BY <3>2, NotReadying
    <3> QED
      BY <1>2, <3>1, <3>2, <3>3 DEF Others
  <2>3. CASE Commands(t)
    <3>1. Others(t)
      BY <2>3, CommandOthers
    <3>2. /\ call[t] = <<>> /\ pc' = pc
          /\ \/ call'[t] = <<>> \/ call'[t] = <<StopLoop>> \/ (\E ops : call'[t] = <<Push(ops)>>)
             \/ (\E h \in Handlers : call'[t] = <<Work, Push(<<h>>)>>)
          /\ \/ status' = status
             \/ \E h \in Handlers : status[h] = "new" /\ status' = [status EXCEPT ![h] = "pending"]
      BY <2>3, CommandResult
    <3>3. Readying(call'[t]) = {} /\ Readying(call[t]) = {}
      BY <3>2, NotReadying
    <3>4. \A h \in Handlers : /\ status'[h] = "new" => status[h] = "new"
                              /\ status'[h] = "pending" => status[h] \in {"new", "pending"}
      BY <3>2 DEF MoreTypes
    <3> QED
      BY <1>2, <3>1, <3>2, <3>3, <3>4 DEF Others
  <2> QED
    BY <2>1, <2>2, <2>3
<1> QED
  BY <1>1, <1>2, SameStrand


\* What the strand takes waits in its queues until the strand runs it.
LEMMA StrandStepsHas ==
    ASSUME Types, MoreTypes, Placed, Control, Commanded, Placed', StrandHas, NEW t \in Threads,
           StrandSteps(t), Others(t)
    PROVE  StrandHas'
<1>1. SharedAre(Where) /\ (\A u \in Threads : HeldAre(Where, u)) /\ strand_of \subseteq Handlers
  BY WhereIs DEF MoreTypes
<1>2. \A u \in Threads \ {t} : /\ pc'[u] = pc[u] /\ call'[u] = call[u]
                               /\ handler'[u] = handler[u] /\ frame'[u] = frame[u]
  BY DEF Others
<1>3. ASSUME NEW u \in Threads, pc[u] = "handler", handler[u] \in Handlers PROVE status[handler[u]] = "running"
  BY <1>3 DEF Control, Running
<1>4. \A u \in Threads : Is(u, "ready_queue_.push")' <=> Readying(call'[u]) # {}
  BY DEF Is, Readying
<1>5. ASSUME \A u \in Threads : Readying(call'[u]) # {} => ready_queue' = <<>>,
             ~locked' => ready_queue' = <<>> /\ waiting_queue' = <<>>,
             \A h \in Handlers : h \in strand_of' =>
                 /\ status'[h] # "new"
                 /\ status'[h] = "pending" => \/ h \in Range(ready_queue') \/ h \in Range(waiting_queue')
                                              \/ \E u \in Threads : h \in Readying(call'[u]),
             \A h \in Handlers : \/ h \in Range(ready_queue') \/ h \in Range(waiting_queue')
                                 \/ \E u \in Threads : h \in Readying(call'[u])
                                 => h \in strand_of',
             \A u \in Threads : pc'[u] = "handler" /\ handler'[u] \in strand_of' => frame'[u] # "loop",
             strand_of' \subseteq Handlers
      PROVE  StrandHas'
  BY <1>4, <1>5, AtStrandIsNext DEF StrandHas, AtStrand
<1>6. /\ \A h \in Handlers : \/ h \in Range(ready_queue) \/ h \in Range(waiting_queue)
                             \/ \E u \in Threads : h \in Readying(call[u])
                             => h \in strand_of
      /\ \A h \in strand_of : status[h] # "new" /\ h \in Handlers
      /\ \A h \in strand_of : status[h] = "pending" =>
             \/ h \in Range(ready_queue) \/ h \in Range(waiting_queue)
             \/ \E u \in Threads : h \in Readying(call[u])
      /\ ~locked => ready_queue = <<>> /\ waiting_queue = <<>>
      /\ \A u \in Threads : Readying(call[u]) # {} => ready_queue = <<>>
      /\ \A u \in Threads : pc[u] = "handler" /\ handler[u] \in strand_of => frame[u] # "loop"
  <2>1. \A u \in Threads : Is(u, "ready_queue_.push") <=> Readying(call[u]) # {}
    BY PushesReady
  <2> QED
    BY <1>1, <2>1, AtStrandIs DEF StrandHas, AtStrand
<1>7. Readying(<<>>) = {}
  BY NotReadying
<1>8. CASE CompleteHandler(t)
  <2> DEFINE h == cur[t].op
  <2>1. /\ pc[t] = "complete" /\ h \in Handlers /\ call' = call /\ ready_queue' = ready_queue
        /\ waiting_queue' = waiting_queue /\ locked' = locked /\ strand_of' = strand_of
        /\ status' = [status EXCEPT ![h] = "running"] /\ handler'[t] = h
    BY <1>8 DEF CompleteHandler, Invoke, strand, MoreTypes
  <2>2. status[h] = "pending" /\ RunsIt(t, h) /\ h \in Units
    BY <2>1, BeforeRun DEF Control, RunsIt, Units
  <2>3. Where[h] = <<"run", t>>
    BY <1>1, <2>2 DEF HeldAre
  <2>4. h \notin strand_of
    BY <2>2, <2>3 DEF StrandHas
  <2> HIDE DEF h
  <2>5. \A x \in Handlers : x # h => status'[x] = status[x]
    BY <2>1
  <2> QED
    BY <1>1, <1>2, <1>5, <1>6, <2>1, <2>4, <2>5
<1>9. CASE Dispatch(t)
  <2> DEFINE h == cur[t].op
  <2>1. /\ pc[t] = "complete" /\ h \in Handlers /\ call' = call /\ ready_queue' = ready_queue
        /\ strand_of' = strand_of \cup {h}
    BY <1>9 DEF Dispatch
  <2>2. status[h] = "pending"
    BY <2>1, BeforeRun DEF Control
  <2>3. \A u \in Threads : pc[u] = "handler" => handler[u] # h
    BY <1>3, <2>1, <2>2
  <2>4. CASE locked
    <3>1. /\ waiting_queue' = Append(waiting_queue, h) /\ locked' = locked /\ status' = status
          /\ handler' = handler /\ frame' = frame /\ pc'[t] # "handler"
      BY <1>9, <2>4 DEF Dispatch, Goto, Types
    <3>2. waiting_queue \in Seq(Handlers)
      BY DEF Types
    <3> HIDE DEF h
    <3>3. Range(waiting_queue') = Range(waiting_queue) \cup {h}
      BY <2>1, <3>1, <3>2, AppendElems
    <3> QED
      BY <1>1, <1>2, <1>5, <1>6, <2>1, <2>2, <2>3, <2>4, <3>1, <3>3
  <2>5. CASE ~locked
    <3>1. /\ waiting_queue' = waiting_queue /\ locked' = TRUE /\ status' = [status EXCEPT ![h] = "running"]
          /\ frame'[t] = "dispatch"
      BY <1>9, <2>5 DEF Dispatch, Invoke, Types
    <3> HIDE DEF h
    <3>2. status'[h] = "running" /\ \A x \in Handlers : x # h => status'[x] = status[x]
      BY <2>1, <3>1 DEF MoreTypes
    <3> QED
      BY <1>1, <1>2, <1>5, <1>6, <2>1, <2>3, <3>1, <3>2
  <2> QED
    BY <2>4, <2>5
<1>10. CASE CompleteStrand(t)
  <2>1. /\ call' = call /\ ready_queue' = ready_queue /\ waiting_queue' = waiting_queue /\ locked' = locked
        /\ strand_of' = strand_of /\ status' = status /\ pc'[t] = "strand"
    BY <1>10 DEF CompleteStrand, Goto, Types, strand
  <2> QED
    BY <1>1, <1>2, <1>5, <1>6, <2>1
<1>11. CASE RunReady(t)
  <2> DEFINE h == Head(ready_queue)
  <2>1. /\ call' = call /\ ready_queue # <<>> /\ ready_queue' = Tail(ready_queue) /\ locked' = locked
        /\ waiting_queue' = waiting_queue /\ strand_of' = strand_of
        /\ status' = [status EXCEPT ![h] = "running"] /\ frame'[t] = "do_complete"
    BY <1>11 DEF RunReady, Invoke, Types
  <2>2. h \in Handlers /\ Range(ready_queue) = {h} \cup Range(Tail(ready_queue))
    BY <2>1, TailElems DEF Types
  <2> HIDE DEF h
  <2>3. status'[h] = "running" /\ \A x \in Handlers : x # h => status'[x] = status[x]
    BY <2>1, <2>2 DEF MoreTypes
  <2> QED
    BY <1>1, <1>2, <1>5, <1>6, <2>1, <2>2, <2>3
<1>12. CASE HandlerEnds(t)
  <2>1. /\ pc[t] = "handler" /\ call' = call /\ ready_queue' = ready_queue /\ locked' = locked
        /\ waiting_queue' = waiting_queue /\ strand_of' = strand_of
        /\ status' = [status EXCEPT ![handler[t]] = "done"]
        /\ pc'[t] \in {"work_cleanup", "leave_strand", "strand"}
    BY <1>12 DEF HandlerEnds, Goto, Types, strand
  <2>2. handler[t] \in Handlers
    BY <2>1 DEF Control, ThreadControl
  <2>3. status'[handler[t]] = "done" /\ \A x \in Handlers : x # handler[t] => status'[x] = status[x]
    BY <2>1, <2>2 DEF MoreTypes
  <2> QED
    BY <1>1, <1>2, <1>5, <1>6, <2>1, <2>3
<1>13. CASE LeaveStrand(t)
  <2>1. /\ call[t] = <<>> /\ pc[t] \in {"strand", "leave_strand"} /\ pc'[t] = "work_cleanup"
        /\ status' = status /\ handler' = handler /\ frame' = frame /\ waiting_queue' = <<>>
        /\ Range(ready_queue)' = Range(ready_queue) \cup Range(waiting_queue)
        /\ locked' <=> ready_queue' # <<>>
        /\ call'[t] = <<>> \/ call'[t] = <<Work, Push(<<Strand>>)>>
    BY <1>13, LeaveStrandFacts
  <2>2. strand_of' = strand_of
    BY <1>13 DEF LeaveStrand
  <2>3. Readying(call'[t]) = {} /\ Readying(call[t]) = {}
    BY <1>7, <2>1, NotReadying
  <2>4. \A u \in Threads : Readying(call'[u]) = {} /\ Readying(call[u]) = {}
    <3>1. \A u \in Threads : ~Is(u, "ready_queue_.push")
      BY <2>1, OneRuns DEF Runs
    <3> QED
      BY <1>2, <2>3, <3>1, PushesReady
  <2>5. Range(<<>>) = {} /\ Range(ready_queue') = Range(ready_queue) \cup Range(waiting_queue)
    BY <2>1, FewElems
  <2> QED
    BY <1>1, <1>2, <1>5, <1>6, <2>1, <2>2, <2>4, <2>5
<1>14. CASE StrandPost(t)
  <2> DEFINE h == Command(t).op
  <2>1. /\ HandOver(t, "strand") /\ strand_of' = strand_of \cup {h} /\ ready_queue' = ready_queue
        /\ pc' = pc /\ handler' = handler /\ frame' = frame
    BY <1>14 DEF StrandPost
  <2>2. /\ h \in Handlers /\ status[h] = "new" /\ status' = [status EXCEPT ![h] = "pending"]
        /\ call[t] = <<>>
    BY <2>1, HandedOver
  <2>3. \A u \in Threads : pc[u] = "handler" => handler[u] # h
    BY <1>3, <2>2
  <2>4. status'[h] = "pending" /\ \A x \in Handlers : x # h => status'[x] = status[x]
    BY <2>2 DEF MoreTypes
  <2>5. CASE locked
    <3>1. waiting_queue' = Append(waiting_queue, h) /\ locked' = locked /\ call' = call
      BY <1>14, <2>5 DEF StrandPost
    <3>2. waiting_queue \in Seq(Handlers)
      BY DEF Types
    <3> HIDE DEF h
    <3>3. Range(waiting_queue') = Range(waiting_queue) \cup {h}
      BY <2>2, <3>1, <3>2, AppendElems
    <3> QED
      BY <1>1, <1>2, <1>5, <1>6, <2>1, <2>2, <2>3, <2>4, <2>5, <3>1, <3>3
  <2>6. CASE ~locked
    <3>1. /\ waiting_queue' = waiting_queue /\ locked' = TRUE
          /\ call' = [call EXCEPT ![t] = <<ToReady(h), Work, Push(<<Strand>>)>>]
      BY <1>14, <2>6 DEF StrandPost, Calls
    <3>2. call'[t] = <<ToReady(h), Work, Push(<<Strand>>)>>
      BY <3>1 DEF Types
    <3> HIDE DEF h
    <3>3. Readying(call'[t]) = {h} /\ Readying(call[t]) = {}
      BY <1>7, <2>2, <3>2, CallHolds
    <3>4. ready_queue = <<>>
      BY <1>6, <2>6
    <3> QED
      BY <1>1, <1>2, <1>5, <1>6, <2>1, <2>2, <2>3, <2>4, <3>1, <3>3, <3>4
  <2> QED
    BY <2>5, <2>6
<1>15. CASE PushReady(t)
  <2>1. /\ status' = status /\ locked' = locked /\ waiting_queue' = waiting_queue
        /\ strand_of' = strand_of /\ handler' = handler /\ frame' = frame /\ pc' = pc
        /\ Is(t, "ready_queue_.push")
    BY <1>15 DEF PushReady
  <2>2. PICK h \in Handlers :
              /\ call[t] = <<ToReady(h), Work, Push(<<Strand>>)>> /\ call'[t] = <<Work, Push(<<Strand>>)>>
              /\ ready_queue' = Append(ready_queue, h)
    BY <1>15, PushReadyMoves
  <2>3. Readying(call[t]) = {h} /\ Readying(call'[t]) = {}
    BY <2>2, CallHolds
  <2>4. locked /\ \A u \in Threads : Is(u, "ready_queue_.push") => u = t
    BY <2>1, OnePushesReady
  <2>5. \A u \in Threads : Readying(call'[u]) = {}
    BY <1>2, <2>3, <2>4, PushesReady
  <2>6. ready_queue \in Seq(Handlers)
    BY DEF Types
  <2>7. Range(ready_queue') = Range(ready_queue) \cup {h}
    BY <2>2, <2>6, AppendElems
  <2>8. \A u \in Threads : Readying(call[u]) # {} => u = t
    BY <2>4, PushesReady
  <2> QED
    BY <1>1, <1>2, <1>5, <1>6, <2>1, <2>3, <2>4, <2>5, <2>7, <2>8
<1> QED
  BY <1>8, <1>9, <1>10, <1>11, <1>12, <1>13, <1>14, <1>15 DEF StrandSteps


LoopInv == QueueInv /\ StrandHas

\* With the queues of the strand the invariant holds initially,
LEMMA InitLoopInv == Init => LoopInv
<1> SUFFICES ASSUME Init PROVE StrandHas
  BY InitQueueInv DEF LoopInv
<1>1. ready_queue = <<>> /\ waiting_queue = <<>> /\ strand_of = {}
  BY DEF Init
<1>2. \A t \in Threads : call[t] = <<>>
  BY DEF Init, IoInit
<1>3. Placed
  BY InitPlaced
<1>4. Readying(<<>>) = {} /\ Range(<<>>) = {}
  BY CallHolds, FewElems
<1>5. \A h \in Handlers : Where[h][1] \notin AtStrand
  BY <1>1, <1>2, <1>3, <1>4, AtStrandIs
<1>6. \A t \in Threads : ~Is(t, "ready_queue_.push")
  BY <1>2 DEF Is
<1> QED
  BY <1>1, <1>5, <1>6 DEF StrandHas, AtStrand

\* every step keeps it,
LEMMA NextLoopInv == LoopInv /\ Types' /\ [Next]_vars => LoopInv'
<1> SUFFICES ASSUME LoopInv, Types', [Next]_vars PROVE LoopInv'
  OBVIOUS
<1>1. QueueInv'
  BY NextQueueInv DEF LoopInv
<1>2. SUFFICES StrandHas'
  BY <1>1 DEF LoopInv
<1>3. CASE UNCHANGED vars
  BY <1>1, <1>3, SameStrand DEF LoopInv, QueueInv, vars, ioVars, threads, strand
<1>4. CASE Environment
  <2>1. /\ call' = call /\ status' = status /\ OutsideStrand
        /\ \A u \in Threads : pc'[u] = "handler" => pc[u] = "handler"
    BY <1>4 DEF Environment, SocketReady, TimePasses, SpuriousWakeup, threads, Goto, LoopInv, QueueInv, Types
  <2> QED
    BY <1>1, <2>1, SameStrand DEF LoopInv, QueueInv, OutsideStrand, strand
<1>5. ASSUME NEW t \in Threads, Step(t) PROVE StrandHas'
  <2>1. CASE (CallSteps(t) \/ Loop(t) \/ Commands(t)) /\ OutsideStrand
    BY <1>1, <2>1, OutsideStrandHas DEF LoopInv, QueueInv
  <2>2. CASE StrandSteps(t)
    <3>1. Others(t)
      BY <2>2, StrandOthers DEF LoopInv, QueueInv
    <3> QED
      BY <1>1, <2>2, <3>1, StrandStepsHas DEF LoopInv, QueueInv
  <2> QED
    BY <1>5, <2>1, <2>2 DEF Step
<1> QED
  BY <1>3, <1>4, <1>5 DEF Next

\* and so it always holds.
LEMMA AlwaysLoopInv == Spec => []LoopInv
<1>1. Types /\ Scheduled /\ LoopInv /\ [Next]_vars => LoopInv'
  BY NextScheduled, NextLoopInv
<1> QED
  BY <1>1, InitLoopInv, AlwaysScheduled, PTL DEF Spec

\* A thread that keeps an operation or runs one is busy, one that has still to
\* count one offers it.
LEMMA BusyOrOffering ==
    ASSUME LoopInv, NEW t \in Threads, NEW x \in Works,
           Where[x] \in {<<"uncounted", t>>, <<"private", t>>, <<"run", t>>}
    PROVE  Offering \/ t \in Busy
<1>1. /\ HeldAre(Where, t) /\ Works \subseteq Units /\ ThreadControl(t) /\ x # Task /\ x # Descriptor
      /\ Strand \notin Handlers
  BY WhereIs, HandlersAssumption DEF LoopInv, QueueInv, Control, Works, Units, Task, Descriptor, Strand
<1>2. CASE Where[x] = <<"uncounted", t>>
  <2>1. x \in Uncounting(call[t])
    BY <1>1, <1>2 DEF HeldAre
  <2>2. BeforeLast(call[t])
    BY <2>1 DEF Uncounting
  <2> QED
    BY <2>2 DEF BeforeLast, Offering
<1>3. ASSUME InProgress(t), ~(pc[t] = "complete" /\ cur[t].op = Descriptor), call[t] # <<Work>>
      PROVE  t \in Busy
  <2>1. t \notin Apps
    BY <1>1, <1>3 DEF ThreadControl, InProgress
  <2> QED
    BY <1>3, <2>1 DEF Busy, Threads
<1>4. CASE Where[x] = <<"private", t>>
  <2>1. InProgress(t) /\ x \in Range(private_queue[t])
    BY <1>1, <1>4 DEF HeldAre
  <2>2. private_queue[t] # <<>>
    BY <2>1, FewElems
  <2> QED
    BY <1>1, <1>3, <2>1, <2>2 DEF ThreadControl
<1>5. CASE Where[x] = <<"run", t>>
  <2>1. RunsIt(t, x)
    BY <1>1, <1>5 DEF HeldAre
  <2>2. /\ pc[t] \in {"complete", "handler", "strand", "leave_strand"}
        /\ pc[t] = "complete" => cur[t].op = x
    BY <1>1, <2>1 DEF RunsIt, Runs
  <2> QED
    BY <1>1, <1>3, <2>2 DEF ThreadControl, InProgress
<1> QED
  BY <1>2, <1>4, <1>5

\* When nothing is counted there is nothing left to do, or it is still to come.
LEMMA RunsOut ==
    LoopInv /\ outstanding_work = 0 => Offering \/ \A h \in Handlers : status[h] \in {"new", "done"}
<1> SUFFICES ASSUME LoopInv, outstanding_work = 0, ~Offering, NEW h \in Handlers
             PROVE  status[h] \in {"new", "done"}
  OBVIOUS
<1>1. /\ SharedAre(Where) /\ (\A t \in Threads : HeldAre(Where, t)) /\ Where \in [Units -> Places]
      /\ Works \subseteq Units /\ h \in Works /\ Strand \in Works
  BY WhereIs DEF LoopInv, QueueInv, Works, Units
<1>2. Counted = {} /\ Busy = {}
  <2> DEFINE a == Cardinality(Counted)
             b == Cardinality(Busy)
  <2>1. outstanding_work = a + b /\ a \in Nat /\ b \in Nat
    BY FiniteWork DEF LoopInv, QueueInv, WorkCounted
  <2> HIDE DEF a, b
  <2>2. a = 0 /\ b = 0
    BY <2>1
  <2> QED
    BY <2>2, FiniteWork, FS_EmptySet DEF a, b
<1>3. ASSUME NEW x \in Works
      PROVE  \/ Where[x] = <<"nowhere", Service>>
             \/ x \in Handlers /\ Where[x][1] \in AtStrand
  <2>1. Where[x][1] \notin {"op_queue_", "registered", "armed", "pushed", "moved"}
    BY <1>2 DEF Counted
  <2>2. \A t \in Threads : Where[x] \notin {<<"uncounted", t>>, <<"private", t>>, <<"run", t>>}
    BY <1>2, BusyOrOffering
  <2>3. Where[x] \in Places
    BY <1>1
  <2>4. \/ Where[x] \in {<<"nowhere", Service>>, <<"ready_queue_", Service>>, <<"waiting_queue_", Service>>}
        \/ \E t \in Threads : Where[x] = <<"to_ready", t>>
    BY <2>1, <2>2, <2>3 DEF Places, Shared, Held
  <2>5. CASE x \in Handlers
    BY <2>4, <2>5 DEF AtStrand
  <2>6. CASE x = Strand
    <3>1. Strand \notin Handlers
      BY HandlersAssumption DEF Strand
    <3>2. x \notin Range(ready_queue) /\ x \notin Range(waiting_queue)
      BY <2>6, <3>1 DEF LoopInv, QueueInv, Types, Range
    <3>3. \A t \in Threads : x \notin Readying(call[t])
      BY <2>6, <3>1, PushesReady DEF LoopInv, QueueInv
    <3> QED
      BY <1>1, <2>4, <3>2, <3>3 DEF SharedAre, HeldAre
  <2> QED
    BY <2>5, <2>6 DEF Works
<1>4. Where[Strand] = <<"nowhere", Service>>
  <2>1. Strand \notin Handlers
    BY HandlersAssumption DEF Strand
  <2> QED
    BY <1>1, <1>3, <2>1
<1>5. ~locked
  BY <1>1, <1>4, HandlersAssumption DEF SharedAre, Strand
<1>6. Where[h][1] \notin AtStrand
  <2>1. ready_queue = <<>> /\ waiting_queue = <<>>
    BY <1>5 DEF LoopInv, StrandHas
  <2>2. \A t \in Threads : ~Is(t, "ready_queue_.push")
    BY <1>5, OnePushesReady DEF LoopInv, QueueInv
  <2>3. \A t \in Threads : Readying(call[t]) = {}
    BY <2>2, PushesReady DEF LoopInv, QueueInv
  <2> QED
    BY <2>1, <2>3, AtStrandIs, FewElems DEF LoopInv, QueueInv
<1>7. Where[h] = <<"nowhere", Service>>
  BY <1>1, <1>3, <1>6
<1> QED
  BY <1>1, <1>7, HandlersAssumption DEF SharedAre, Strand


----------------------------------------------------------------------------
(* The event loop.                                                         *)

\* What the strand has taken is in its queues.
LEMMA TakenQueues ==
    Types /\ (\A u \in Threads : ~Is(u, "ready_queue_.push")) => Taken = ready_queue \o waiting_queue
<1> SUFFICES ASSUME Types, \A u \in Threads : ~Is(u, "ready_queue_.push")
             PROVE  Taken = ready_queue \o waiting_queue
  OBVIOUS
<1>1. ToBePushed = {}
  BY DEF ToBePushed
<1>2. ready_queue \in Seq(Handlers)
  BY DEF Types
<1>3. <<>> \o ready_queue = ready_queue
  BY <1>2
<1> QED
  BY <1>1, <1>3 DEF Taken

\* Or one is about to be pushed, before all others.
LEMMA TakenPushed ==
    LoopInv => \A t \in Threads : \A h \in Handlers :
        call[t] = <<ToReady(h), Work, Push(<<Strand>>)>> =>
            Taken = <<h>> \o waiting_queue /\ ready_queue = <<>> /\ Is(t, "ready_queue_.push")
<1> SUFFICES ASSUME LoopInv, NEW t \in Threads, NEW h \in Handlers,
                    call[t] = <<ToReady(h), Work, Push(<<Strand>>)>>
             PROVE  Taken = <<h>> \o waiting_queue /\ ready_queue = <<>> /\ Is(t, "ready_queue_.push")
  OBVIOUS
<1>1. Is(t, "ready_queue_.push") /\ Head(call[t]).op = h
  BY DEF Is, ToReady
<1>2. \A u \in Threads : Is(u, "ready_queue_.push") => u = t
  BY <1>1, OnePushesReady DEF LoopInv, QueueInv
<1>3. ToBePushed = {t}
  BY <1>1, <1>2 DEF ToBePushed
<1>4. (CHOOSE u \in {t} : TRUE) = t
  OBVIOUS
<1>5. ready_queue = <<>>
  BY <1>1 DEF LoopInv, StrandHas
<1>6. <<h>> \o <<>> = <<h>>
  OBVIOUS
<1>7. Taken = (<<Head(call[CHOOSE u \in {t} : TRUE]).op>> \o ready_queue) \o waiting_queue
  BY <1>3 DEF Taken
<1> QED
  BY <1>1, <1>4, <1>5, <1>6, <1>7

\* The same after a step.
LEMMA TakenNext ==
    /\ (Types /\ (\A u \in Threads : ~Is(u, "ready_queue_.push")) => Taken = ready_queue \o waiting_queue)'
    /\ (LoopInv => \A t \in Threads : \A h \in Handlers :
           call[t] = <<ToReady(h), Work, Push(<<Strand>>)>> =>
               Taken = <<h>> \o waiting_queue /\ ready_queue = <<>> /\ Is(t, "ready_queue_.push"))'
BY TakenQueues, TakenPushed, PTL

\* It is the same after a step outside the strand.
LEMMA TakenSame ==
    ASSUME LoopInv, LoopInv', ready_queue' = ready_queue, waiting_queue' = waiting_queue,
           NEW t \in Threads, \A u \in Threads \ {t} : call'[u] = call[u],
           Readying(call[t]) = {}, Readying(call'[t]) = {}
    PROVE  Taken' = Taken
<1>1. /\ Types /\ Types'
      /\ \A u \in Threads : Is(u, "ready_queue_.push") <=> Readying(call[u]) # {}
      /\ \A u \in Threads : Is(u, "ready_queue_.push")' <=> Readying(call'[u]) # {}
  BY PushesReady DEF LoopInv, QueueInv, Is, Readying
<1>2. CASE \A u \in Threads : ~Is(u, "ready_queue_.push")
  <2>1. \A u \in Threads : ~Is(u, "ready_queue_.push")'
    BY <1>1, <1>2
  <2> QED
    BY <1>1, <1>2, <2>1, TakenQueues, TakenNext
<1>3. ASSUME NEW u \in Threads, Is(u, "ready_queue_.push") PROVE Taken' = Taken
  <2>1. u # t
    BY <1>1, <1>3
  <2>2. PICK h \in Handlers : call[u] = <<ToReady(h), Work, Push(<<Strand>>)>>
    BY <1>1, <1>3, PushesReady
  <2>3. call'[u] = <<ToReady(h), Work, Push(<<Strand>>)>>
    BY <2>1, <2>2
  <2> QED
    BY <2>2, <2>3, TakenPushed, TakenNext
<1> QED
  BY <1>2, <1>3

\* Nothing that the loop promises has changed.
LEMMA Offers ==
    ASSUME status' = status, Taken' = Taken, strand_of' = strand_of, Over' <=> Over, MayStop' <=> MayStop
    PROVE  Abstract!Next
<1>1. Over' = Over /\ MayStop' = MayStop
  BY DEF Over, MayStop
<1>2. Offering' \in BOOLEAN
  BY DEF Offering
<1> QED
  BY <1>1, <1>2 DEF Abstract!Next, Abstract!Offer

\* The loop is over in the same states, if no thread is told to stop it.
LEMMA OverSame ==
    ASSUME NEW t \in Threads, \A u \in Threads \ {t} : call'[u] = call[u], stopped' = stopped,
           ~Is(t, "stop"), ~Is(t, "stop")'
    PROVE  Over' <=> Over
BY DEF Over, Is

\* Which calls are told to stop it.
LEMMA StopForms ==
    ASSUME Types, NEW t \in Threads
    PROVE  /\ call[t] \in {<<>>, <<Signal>>, <<Work>>} => ~Is(t, "stop")
           /\ \A ops : call[t] = <<Push(ops)>> \/ call[t] = <<Work, Push(ops)>> => ~Is(t, "stop")
           /\ \A h, ops : call[t] = <<ToReady(h), Work, Push(ops)>> => ~Is(t, "stop")
           /\ call[t] = <<StopLoop>> => Is(t, "stop")
<1>1. Signal.step # "stop" /\ Work.step # "stop" /\ StopLoop.step = "stop"
  BY DEF Signal, Work, StopLoop
<1>2. \A x : Push(x).step # "stop" /\ ToReady(x).step # "stop"
  BY DEF Push, ToReady
<1>3. \A x, y, z : Head(<<x>>) = x /\ Head(<<x, y>>) = x /\ Head(<<x, y, z>>) = x
  OBVIOUS
<1>4. <<StopLoop>> # <<>>
  OBVIOUS
<1> QED
  BY <1>1, <1>2, <1>3, <1>4 DEF Is

\* The same after a step.
LEMMA StopFormsNext ==
    (Types => \A t \in Threads :
           /\ call[t] \in {<<>>, <<Signal>>, <<Work>>} => ~Is(t, "stop")
           /\ \A ops : call[t] = <<Push(ops)>> \/ call[t] = <<Work, Push(ops)>> => ~Is(t, "stop")
           /\ \A h, ops : call[t] = <<ToReady(h), Work, Push(ops)>> => ~Is(t, "stop")
           /\ call[t] = <<StopLoop>> => Is(t, "stop"))'
<1>1. Types => \A t \in Threads :
           /\ call[t] \in {<<>>, <<Signal>>, <<Work>>} => ~Is(t, "stop")
           /\ \A ops : call[t] = <<Push(ops)>> \/ call[t] = <<Work, Push(ops)>> => ~Is(t, "stop")
           /\ \A h, ops : call[t] = <<ToReady(h), Work, Push(ops)>> => ~Is(t, "stop")
           /\ call[t] = <<StopLoop>> => Is(t, "stop")
  BY StopForms
<1> QED
  BY <1>1, PTL

\* Nor is one of the other calls told to.
LEMMA StopIsNot ==
    /\ <<>> # <<StopLoop>> /\ <<Signal>> # <<StopLoop>> /\ <<Work>> # <<StopLoop>>
    /\ \A x : <<Push(x)>> # <<StopLoop>> /\ <<Work, Push(x)>> # <<StopLoop>>
<1>1. Signal.step # "stop" /\ Work.step # "stop" /\ StopLoop.step = "stop"
  BY DEF Signal, Work, StopLoop
<1>2. \A x : Push(x).step # "stop"
  BY DEF Push
<1>3. \A x, y : Head(<<x>>) = x /\ Head(<<x, y>>) = x
  OBVIOUS
<1>4. <<>> # <<StopLoop>>
  OBVIOUS
<1>5. <<Signal>> # <<StopLoop>> /\ <<Work>> # <<StopLoop>>
  BY <1>1, <1>3
<1>6. \A x : <<Push(x)>> # <<StopLoop>> /\ <<Work, Push(x)>> # <<StopLoop>>
  BY <1>1, <1>2, <1>3
<1> QED
  BY <1>4, <1>5, <1>6

\* No step changes who is going to stop the loop.
LEMMA SameMayStop == Types /\ [Next]_vars => (MayStop' <=> MayStop)
<1> SUFFICES ASSUME Types, [Next]_vars PROVE program'.does = program.does
  BY DEF MayStop
<1>1. CASE UNCHANGED vars
  BY <1>1 DEF vars, ioVars
<1>2. CASE Environment
  BY <1>2 DEF Environment, SocketReady, TimePasses, SpuriousWakeup, Types
<1>3. ASSUME NEW t \in Threads, Step(t) PROVE program' = program
  <2>1. CASE CallSteps(t)
    BY <2>1 DEF CallSteps, WorkStarted, PushOps, SignalOne, StopAllThreads
  <2>2. CASE Loop(t)
    BY <2>2 DEF Loop, Run, RunOne, Woken, TaskCleanup, WorkCleanup, PushPrivate, Poll, CheckTimers,
                PerformIo, TurnUnchanged
  <2>3. CASE Commands(t)
    BY <2>3 DEF Commands, Post, StartOp, ScheduleTimer, CancelTimer, CancelOps, Stop
  <2>4. CASE StrandSteps(t)
    BY <2>4 DEF StrandSteps, CompleteHandler, Dispatch, CompleteStrand, RunReady, HandlerEnds, LeaveStrand,
                StrandPost, PushReady, InsideStrand
  <2> QED
    BY <1>3, <2>1, <2>2, <2>3, <2>4 DEF Step
<1> QED
  BY <1>1, <1>2, <1>3 DEF Next


\* The steps of a call, and of run: the loop may run out of work.
LEMMA CallRefines ==
    ASSUME LoopInv, LoopInv', MayStop' <=> MayStop, NEW t \in Threads, CallSteps(t), OutsideStrand
    PROVE  Abstract!Next
<1>1. /\ \A u \in Threads \ {t} : call'[u] = call[u]
      /\ Readying(call[t]) = {} /\ Readying(call'[t]) = {}
      /\ ~Is(t, "stop")' /\ stopped' = (stopped \/ Is(t, "stop"))
  BY CallQuiet DEF LoopInv, QueueInv
<1>2. status' = status /\ strand_of' = strand_of /\ ready_queue' = ready_queue /\ waiting_queue' = waiting_queue
  BY DEF CallSteps, WorkStarted, PushOps, SignalOne, StopAllThreads, OutsideStrand, strand
<1>3. Taken' = Taken
  BY <1>1, <1>2, TakenSame
<1>4. Over' <=> Over
  <2>1. \A u \in Threads \ {t} : Is(u, "stop")' <=> Is(u, "stop")
    BY <1>1 DEF Is
  <2> QED
    BY <1>1, <2>1 DEF Over
<1> QED
  BY <1>2, <1>3, <1>4, Offers

\* The same after a step.
LEMMA RunsOutNext ==
    (LoopInv /\ outstanding_work = 0 => Offering \/ \A h \in Handlers : status[h] \in {"new", "done"})'
BY RunsOut, PTL

\* The steps of run: a thread that counts no more work left stops the loop.
LEMMA LoopRefines ==
    ASSUME LoopInv, LoopInv', MayStop' <=> MayStop, NEW t \in Threads, Loop(t), OutsideStrand
    PROVE  Abstract!Next
<1>1. Others(t)
  BY LoopOthers DEF LoopInv, QueueInv
<1>2. /\ call[t] = <<>> /\ stopped' = stopped /\ status' = status
      /\ \/ call'[t] \in {<<>>, <<Signal>>, <<Work>>}
         \/ \E ops : call'[t] = <<Push(ops)>>
         \/ call'[t] = <<StopLoop>> /\ outstanding_work' = 0
  BY <1>1, LoopQuiet DEF LoopInv, QueueInv
<1>3. Readying(call[t]) = {} /\ Readying(call'[t]) = {}
  BY <1>2, NotReadying
<1>4. \A u \in Threads \ {t} : call'[u] = call[u]
  BY <1>1 DEF Others
<1>5. strand_of' = strand_of /\ ready_queue' = ready_queue /\ waiting_queue' = waiting_queue
  BY DEF OutsideStrand, strand
<1>6. Taken' = Taken
  BY <1>3, <1>4, <1>5, TakenSame
<1>7. ~Is(t, "stop")
  BY <1>2 DEF Is
<1>8. CASE ~Is(t, "stop")'
  <2>1. Over' <=> Over
    BY <1>2, <1>4, <1>7, <1>8, OverSame
  <2> QED
    BY <1>2, <1>5, <1>6, <2>1, Offers
<1>9. CASE Is(t, "stop")'
  <2>1. outstanding_work' = 0 /\ call'[t] = <<StopLoop>>
    <3>1. call'[t] \in {<<>>, <<Signal>>, <<Work>>} => ~Is(t, "stop")'
      BY StopFormsNext DEF LoopInv, QueueInv
    <3>2. (\E ops : call'[t] = <<Push(ops)>>) => ~Is(t, "stop")'
      <4>1. \A ops : call'[t] = <<Push(ops)>> => ~Is(t, "stop")'
        BY StopFormsNext DEF LoopInv, QueueInv
      <4> QED
        BY <4>1
    <3> QED
      BY <1>2, <1>9, <3>1, <3>2
  <2>2. Offering' \/ \A h \in Handlers : status'[h] \in {"new", "done"}
    BY <2>1, RunsOutNext
  <2>3. Offering' => Offering
    <3>1. ~\E k \in 1..(Len(call'[t]) - 1) : call'[t][k] = Work
      BY <2>1
    <3> QED
      BY <1>4, <3>1 DEF Offering
  <2>4. Offering \/ \A h \in Handlers : status[h] \in {"new", "done"}
    BY <1>2, <2>2, <2>3
  <2>5. Over' = TRUE
    BY <1>9 DEF Over
  <2>6. MayStop' = MayStop /\ Offering' \in BOOLEAN
    BY DEF MayStop, Offering
  <2> QED
    BY <1>2, <1>5, <1>6, <2>4, <2>5, <2>6 DEF Abstract!Next, Abstract!RunOut
<1> QED
  BY <1>8, <1>9

\* A command hands a handler over, or tells the loop to stop.
LEMMA CommandRefines ==
    ASSUME LoopInv, LoopInv', MayStop' <=> MayStop, NEW t \in Threads, Commands(t), OutsideStrand
    PROVE  Abstract!Next
<1>1. Others(t)
  BY CommandOthers DEF LoopInv, QueueInv
<1>2. /\ call[t] = <<>>
      /\ \/ call'[t] = <<>> \/ call'[t] = <<StopLoop>> \/ (\E ops : call'[t] = <<Push(ops)>>)
         \/ (\E h \in Handlers : call'[t] = <<Work, Push(<<h>>)>>)
  BY CommandResult DEF LoopInv, QueueInv
<1>3. Readying(call[t]) = {} /\ Readying(call'[t]) = {}
  BY <1>2, NotReadying
<1>4. \A u \in Threads \ {t} : call'[u] = call[u]
  BY <1>1 DEF Others
<1>5. strand_of' = strand_of /\ ready_queue' = ready_queue /\ waiting_queue' = waiting_queue
  BY DEF OutsideStrand, strand
<1>6. Taken' = Taken
  BY <1>3, <1>4, <1>5, TakenSame
<1>7. ~Is(t, "stop")
  BY <1>2 DEF Is
<1>8. stopped' = stopped
  BY DEF Commands, Post, StartOp, ScheduleTimer, CancelTimer, CancelOps, Stop, service
<1>9. MayStop' = MayStop /\ Offering' \in BOOLEAN /\ Over \in BOOLEAN /\ Over' \in BOOLEAN
  BY DEF MayStop, Offering, Over
<1>10. call'[t] # <<StopLoop>> => (Over' = Over)
  <2>1. call'[t] # <<StopLoop>> => ~Is(t, "stop")'
    <3>1. call'[t] = <<>> => ~Is(t, "stop")'
      BY StopFormsNext DEF LoopInv, QueueInv
    <3>2. (\E ops : call'[t] = <<Push(ops)>>) => ~Is(t, "stop")'
      <4>1. \A ops : call'[t] = <<Push(ops)>> => ~Is(t, "stop")'
        BY StopFormsNext DEF LoopInv, QueueInv
      <4> QED
        BY <4>1
    <3>3. (\E h \in Handlers : call'[t] = <<Work, Push(<<h>>)>>) => ~Is(t, "stop")'
      <4>1. \A ops : call'[t] = <<Work, Push(ops)>> => ~Is(t, "stop")'
        BY StopFormsNext DEF LoopInv, QueueInv
      <4> QED
        BY <4>1
    <3> QED
      BY <1>2, <3>1, <3>2, <3>3
  <2> QED
    BY <1>4, <1>7, <1>8, <1>9, <2>1, OverSame
<1>11. ASSUME NEW via, HandOver(t, via), call'[t] # <<StopLoop>> PROVE Abstract!Next
  <2>1. /\ Command(t).op \in Handlers /\ status[Command(t).op] = "new"
        /\ status' = [status EXCEPT ![Command(t).op] = "pending"]
    BY <1>11, HandedOver DEF LoopInv, QueueInv
  <2>2. Abstract!HandOver(Command(t).op)
    BY <1>5, <1>6, <1>9, <1>10, <1>11, <2>1 DEF Abstract!HandOver
  <2> QED
    BY <1>9, <2>1, <2>2 DEF Abstract!Next
<1>12. ASSUME NEW h, NEW is_continuation, PostImmediate(t, h, is_continuation, <<>>)
       PROVE  call'[t] # <<StopLoop>>
  <2>1. call'[t] = <<>> \/ call'[t] = <<Work, Push(<<h>>)>>
    BY <1>2, <1>12, PostResult DEF LoopInv, QueueInv
  <2> QED
    BY <2>1, StopIsNot
<1>13. CASE Post(t, InStrand(t))
  BY <1>11, <1>12, <1>13 DEF Post
<1>14. CASE \E via \in {"read", "write"} : StartOp(t, via, InStrand(t))
  <2>1. PICK via \in {"read", "write"} : StartOp(t, via, InStrand(t))
    BY <1>14
  <2>2. CASE call' = call
    <3>1. call'[t] # <<StopLoop>>
      BY <1>2, <2>2, StopIsNot
    <3> QED
      BY <1>11, <2>1, <3>1 DEF StartOp
  <2>3. CASE call' # call
    BY <1>11, <1>12, <2>1, <2>3 DEF StartOp
  <2> QED
    BY <2>2, <2>3
<1>15. CASE ScheduleTimer(t)
  <2>1. call'[t] # <<StopLoop>>
    BY <1>2, <1>15, StopIsNot DEF ScheduleTimer
  <2> QED
    BY <1>11, <1>15, <2>1 DEF ScheduleTimer
<1>16. CASE (CancelTimer(t) \/ CancelOps(t)) /\ status' = status
  <2>1. call'[t] # <<StopLoop>>
    <3>1. call'[t] = <<>> \/ \E ops : call'[t] = <<Push(ops)>>
      <4>1. \/ call' = call
            \/ \E ops : call' = [call EXCEPT ![t] = ops] /\ (ops = <<>> \/ \E s : ops = <<Push(s)>>)
        BY <1>16 DEF CancelTimer, CancelOps, Calls
      <4> QED
        BY <1>2, <4>1 DEF LoopInv, QueueInv, Types
    <3> QED
      BY <3>1, StopIsNot
  <2> QED
    BY <1>5, <1>6, <1>9, <1>10, <1>16, <2>1, Offers
<1>17. CASE Stop(t)
  <2>1. call' = [call EXCEPT ![t] = <<StopLoop>>]
    BY <1>17 DEF Stop, Calls
  <2>2. Is(t, "stop")'
    <3>1. call'[t] = <<StopLoop>>
      BY <2>1 DEF LoopInv, QueueInv, Types
    <3> QED
      BY <3>1, StopFormsNext DEF LoopInv, QueueInv
  <2>3. Over' = TRUE
    BY <2>2 DEF Over
  <2>4. MayStop
    <3>1. todo[t] \in Seq(CommandType) /\ todo[t] # <<>> /\ Head(todo[t]).do = "stop"
      BY <1>17 DEF Stop, Active, Command, LoopInv, QueueInv, Types
    <3>2. 1 \in DOMAIN todo[t] /\ todo[t][1].do = "stop"
      BY <3>1
    <3> QED
      BY <3>2 DEF LoopInv, QueueInv, Commanded
  <2>5. status' = status
    BY <1>17 DEF Stop
  <2> QED
    BY <1>5, <1>6, <1>9, <2>3, <2>4, <2>5 DEF Abstract!Next, Abstract!Stop
<1> QED
  BY <1>13, <1>14, <1>15, <1>16, <1>17 DEF Commands, CancelTimer, CancelOps

----------------------------------------------------------------------------
(* The strand.                                                             *)

\* What joins the second of two queues is the last of both.
LEMMA JoinsLast ==
    ASSUME NEW S, NEW s \in Seq(S), NEW w \in Seq(S), NEW x \in S
    PROVE  s \o Append(w, x) = Append(s \o w, x)
<1>1. <<x>> \in Seq(S) /\ Append(w, x) = w \o <<x>> /\ s \o w \in Seq(S)
  BY AppendIsConcat, ConcatProperties
<1>2. Append(s \o w, x) = (s \o w) \o <<x>>
  BY <1>1, AppendIsConcat
<1> QED
  BY <1>1, <1>2, ConcatAssociative

\* The first of two queues is the first of both.
LEMMA LeavesFirst ==
    ASSUME NEW S, NEW s \in Seq(S), NEW w \in Seq(S), s # <<>>
    PROVE  /\ s \o w # <<>>
           /\ Head(s \o w) = Head(s)
           /\ Tail(s \o w) = Tail(s) \o w
<1> DEFINE m == Len(s)
           n == Len(w)
           q == s \o w
           r == Tail(s)
           v == r \o w
<1>1. /\ m \in Nat \ {0} /\ n \in Nat /\ q \in Seq(S) /\ Len(q) = m + n
      /\ \A i \in 1..(m + n) : q[i] = IF i <= m THEN s[i] ELSE w[i - m]
  BY EmptySeq, LenProperties, ConcatProperties
<1>2. r \in Seq(S) /\ Len(r) = m - 1 /\ \A i \in 1..(m - 1) : r[i] = s[i + 1]
  BY HeadTailProperties
<1>3. /\ v \in Seq(S) /\ Len(v) = (m - 1) + n
      /\ \A i \in 1..((m - 1) + n) : v[i] = IF i <= m - 1 THEN r[i] ELSE w[i - (m - 1)]
  BY <1>2, ConcatProperties
<1>4. q # <<>>
  BY <1>1, EmptySeq
<1>5. /\ Tail(q) \in Seq(S) /\ Len(Tail(q)) = m + n - 1
      /\ \A i \in 1..(m + n - 1) : Tail(q)[i] = q[i + 1]
  BY <1>1, <1>4, HeadTailProperties
<1>6. Head(q) = q[1] /\ Head(s) = s[1]
  BY <1>1, <1>4
<1> HIDE DEF m, n, q, r, v
<1>7. ASSUME NEW i \in 1..(m + n - 1) PROVE Tail(q)[i] = v[i]
  <2>1. q[i + 1] = IF i + 1 <= m THEN s[i + 1] ELSE w[(i + 1) - m]
    BY <1>1
  <2>2. v[i] = IF i <= m - 1 THEN r[i] ELSE w[i - (m - 1)]
    BY <1>1, <1>3
  <2>3. CASE i <= m - 1
    <3>1. r[i] = s[i + 1]
      BY <1>1, <1>2, <2>3
    <3> QED
      BY <1>1, <1>5, <2>1, <2>2, <2>3, <3>1
  <2>4. CASE ~(i <= m - 1)
    <3>1. (i + 1) - m = i - (m - 1) /\ ~(i + 1 <= m)
      BY <1>1, <2>4
    <3> QED
      BY <1>5, <2>1, <2>2, <2>4, <3>1
  <2> QED
    BY <2>3, <2>4
<1>8. Len(v) = m + n - 1
  BY <1>1, <1>3
<1>9. Tail(q) = v
  BY <1>3, <1>5, <1>7, <1>8, SeqEqual
<1>10. q[1] = s[1]
  BY <1>1
<1> QED
  BY <1>4, <1>6, <1>9, <1>10 DEF q, r, v

\* What the strand takes is the last in its queues, whatever is still to be pushed.
LEMMA TakenAppend ==
    ASSUME LoopInv, LoopInv', call' = call, ready_queue' = ready_queue, NEW h \in Handlers,
           waiting_queue' = Append(waiting_queue, h)
    PROVE  Taken' = Append(Taken, h)
<1>1. Types /\ Types' /\ ready_queue \in Seq(Handlers) /\ waiting_queue \in Seq(Handlers)
  BY DEF LoopInv, QueueInv, Types
<1>2. CASE \A u \in Threads : ~Is(u, "ready_queue_.push")
  <2>1. \A u \in Threads : ~Is(u, "ready_queue_.push")'
    BY <1>2 DEF Is
  <2>2. Taken = ready_queue \o waiting_queue /\ Taken' = ready_queue' \o waiting_queue'
    BY <1>1, <1>2, <2>1, TakenQueues, TakenNext
  <2> QED
    BY <1>1, <2>2, JoinsLast
<1>3. ASSUME NEW u \in Threads, Is(u, "ready_queue_.push") PROVE Taken' = Append(Taken, h)
  <2>1. PICK g \in Handlers : call[u] = <<ToReady(g), Work, Push(<<Strand>>)>>
    BY <1>1, <1>3, PushesReady
  <2>2. Taken = <<g>> \o waiting_queue /\ Taken' = <<g>> \o waiting_queue'
    BY <2>1, TakenPushed, TakenNext
  <2>3. <<g>> \in Seq(Handlers)
    OBVIOUS
  <2> QED
    BY <1>1, <2>2, <2>3, JoinsLast
<1> QED
  BY <1>2, <1>3

\* A strand that is not locked has taken nothing, and none of its handlers runs.
LEMMA FreeStrand ==
    LoopInv /\ ~locked => /\ Taken = <<>>
                          /\ \A h \in strand_of : status[h] # "running"
                          /\ \A u \in Threads : ~Is(u, "ready_queue_.push")
<1> SUFFICES ASSUME LoopInv, ~locked
             PROVE  /\ Taken = <<>> /\ \A h \in strand_of : status[h] # "running"
                    /\ \A u \in Threads : ~Is(u, "ready_queue_.push")
  OBVIOUS
<1>1. \A u \in Threads : ~Is(u, "ready_queue_.push") /\ ~Runs(u)
  BY OnePushesReady, OneRuns DEF LoopInv, QueueInv
<1>2. Taken = <<>>
  <2>1. ready_queue = <<>> /\ waiting_queue = <<>>
    BY DEF LoopInv, StrandHas
  <2>2. <<>> \o <<>> = <<>>
    OBVIOUS
  <2> QED
    BY <1>1, <2>1, <2>2, TakenQueues DEF LoopInv, QueueInv
<1>3. ASSUME NEW h \in strand_of, status[h] = "running" PROVE FALSE
  <2>1. h \in Handlers
    BY DEF LoopInv, QueueInv, MoreTypes
  <2>2. PICK u \in Threads : pc[u] = "handler" /\ handler[u] = h
    BY <1>3, <2>1 DEF LoopInv, QueueInv, Control, Running
  <2> QED
    BY <1>1, <2>2 DEF LoopInv, StrandHas, Runs
<1> QED
  BY <1>1, <1>2, <1>3

\* A thread that is between two handlers of the strand is in none, nor is another.
LEMMA BetweenHandlers ==
    ASSUME LoopInv, NEW t \in Threads, pc[t] \in {"strand", "leave_strand"}
    PROVE  /\ \A h \in strand_of : status[h] # "running"
           /\ Taken = ready_queue \o waiting_queue
<1>1. /\ \A u \in Threads : ~Is(u, "ready_queue_.push")
      /\ \A u \in Threads : Runs(u) => u = t
  BY OneRuns DEF LoopInv, QueueInv, Runs
<1>2. ASSUME NEW h \in strand_of, status[h] = "running" PROVE FALSE
  <2>1. h \in Handlers
    BY DEF LoopInv, QueueInv, MoreTypes
  <2>2. PICK u \in Threads : pc[u] = "handler" /\ handler[u] = h
    BY <1>2, <2>1 DEF LoopInv, QueueInv, Control, Running
  <2>3. Runs(u)
    BY <1>2, <2>2 DEF LoopInv, StrandHas, Runs
  <2> QED
    BY <1>1, <2>2, <2>3
<1> QED
  BY <1>1, <1>2, TakenQueues DEF LoopInv, QueueInv

\* The steps of the strand do not stop the loop.
LEMMA StrandOver ==
    ASSUME LoopInv, LoopInv', NEW t \in Threads, StrandSteps(t)
    PROVE  Over' <=> Over
<1>1. Others(t)
  BY StrandOthers DEF LoopInv, QueueInv
<1>2. \A u \in Threads \ {t} : call'[u] = call[u]
  BY <1>1 DEF Others
<1>3. stopped' = stopped
  BY DEF StrandSteps, CompleteHandler, Dispatch, CompleteStrand, RunReady, HandlerEnds, LeaveStrand,
         StrandPost, PushReady, InsideStrand, service
<1>4. \/ call[t] = <<>> /\ call'[t] \in {<<>>, <<Work, Push(<<Strand>>)>>}
      \/ call[t] = <<>> /\ \E h : call'[t] = <<ToReady(h), Work, Push(<<Strand>>)>>
      \/ \E h : call[t] = <<ToReady(h), Work, Push(<<Strand>>)>> /\ call'[t] = <<Work, Push(<<Strand>>)>>
  <2>1. CASE CompleteHandler(t) \/ Dispatch(t) \/ CompleteStrand(t) \/ RunReady(t) \/ HandlerEnds(t)
    <3>1. call' = call
      BY <2>1 DEF CompleteHandler, Dispatch, CompleteStrand, RunReady, HandlerEnds
    <3>2. call[t] = <<>>
      BY <2>1 DEF CompleteHandler, Dispatch, CompleteStrand, RunReady, HandlerEnds, Returned, 
                  LoopInv, QueueInv, Control, ThreadControl
    <3> QED
      BY <3>1, <3>2
  <2>2. CASE LeaveStrand(t)
    <3>1. call[t] = <<>> /\ (call'[t] = <<>> \/ call'[t] = <<Work, Push(<<Strand>>)>>)
      BY <1>1, <2>2, LeaveStrandFacts DEF LoopInv, QueueInv
    <3> QED
      BY <3>1
  <2>3. CASE StrandPost(t)
    <3>1. call[t] = <<>>
      BY <2>3 DEF StrandPost, HandOver, Active, Returned
    <3>2. \/ call' = call
          \/ call' = [call EXCEPT ![t] = <<ToReady(Command(t).op), Work, Push(<<Strand>>)>>]
      BY <2>3 DEF StrandPost, Calls
    <3>3. call' = call \/ call'[t] = <<ToReady(Command(t).op), Work, Push(<<Strand>>)>>
      BY <3>2 DEF LoopInv, QueueInv, Types
    <3> QED
      BY <3>1, <3>3
  <2>4. CASE PushReady(t)
    BY <1>1, <2>4, PushReadyMoves DEF LoopInv, QueueInv
  <2> QED
    BY <2>1, <2>2, <2>3, <2>4 DEF StrandSteps
<1>5. \A h, ops : call[t] = <<ToReady(h), Work, Push(ops)>> => ~Is(t, "stop")
  BY StopForms DEF LoopInv, QueueInv
<1>6. \A ops : call'[t] = <<Work, Push(ops)>> => ~Is(t, "stop")'
  BY StopFormsNext DEF LoopInv, QueueInv
<1>7. \A h, ops : call'[t] = <<ToReady(h), Work, Push(ops)>> => ~Is(t, "stop")'
  BY StopFormsNext DEF LoopInv, QueueInv
<1>8. ~Is(t, "stop")
  BY <1>4, <1>5 DEF Is
<1>9. ~Is(t, "stop")'
  <2>1. call'[t] = <<>> => ~Is(t, "stop")'
    BY DEF Is
  <2> QED
    BY <1>4, <1>6, <1>7, <2>1
<1> QED
  BY <1>2, <1>3, <1>8, <1>9, OverSame

\* Its steps take handlers, begin them in this order, and end them.
LEMMA StrandRefines ==
    ASSUME LoopInv, LoopInv', MayStop' <=> MayStop, NEW t \in Threads, StrandSteps(t)
    PROVE  Abstract!Next
<1>1. /\ Over' = Over /\ MayStop' = MayStop /\ Offering' \in BOOLEAN
      /\ Others(t) /\ Types /\ MoreTypes /\ Placed
  BY StrandOver, StrandOthers DEF MayStop, Over, Offering, LoopInv, QueueInv
<1>2. SUFFICES \/ \E h \in Handlers : \/ Abstract!Take(h) \/ Abstract!Begin(h)
                                      \/ Abstract!TakeAndBegin(h) \/ Abstract!Finish(h)
               \/ Abstract!Offer
  BY <1>1 DEF Abstract!Next
<1>3. \A u \in Threads \ {t} : call'[u] = call[u]
  BY <1>1 DEF Others
<1>4. Readying(<<>>) = {}
  BY NotReadying
<1>5. CASE CompleteHandler(t)
  <2> DEFINE h == cur[t].op
  <2>1. /\ pc[t] = "complete" /\ h \in Handlers /\ call[t] = <<>> /\ call' = call
        /\ ready_queue' = ready_queue /\ waiting_queue' = waiting_queue /\ strand_of' = strand_of
        /\ status' = [status EXCEPT ![h] = "running"]
    BY <1>5 DEF CompleteHandler, Invoke, Returned, strand
  <2>2. status[h] = "pending" /\ RunsIt(t, h) /\ h \in Units
    BY <2>1, BeforeRun DEF LoopInv, QueueInv, Control, RunsIt, Units
  <2>3. Where[h] = <<"run", t>>
    BY <1>1, <2>2, WhereIs DEF HeldAre
  <2>4. h \notin strand_of
    BY <2>2, <2>3 DEF LoopInv, StrandHas
  <2>5. Taken' = Taken
    BY <1>3, <1>4, <2>1, TakenSame
  <2> HIDE DEF h
  <2>6. Abstract!Begin(h)
    BY <1>1, <2>1, <2>2, <2>4, <2>5 DEF Abstract!Begin
  <2> QED
    BY <2>1, <2>6
<1>6. CASE Dispatch(t)
  <2> DEFINE h == cur[t].op
  <2>1. /\ pc[t] = "complete" /\ h \in Handlers /\ call[t] = <<>> /\ call' = call
        /\ ready_queue' = ready_queue /\ strand_of' = strand_of \cup {h}
    BY <1>6 DEF Dispatch, Returned
  <2>2. status[h] = "pending" /\ RunsIt(t, h) /\ h \in Units
    BY <2>1, BeforeRun DEF LoopInv, QueueInv, Control, RunsIt, Units
  <2>3. Where[h] = <<"run", t>>
    BY <1>1, <2>2, WhereIs DEF HeldAre
  <2>4. h \notin strand_of
    BY <2>2, <2>3 DEF LoopInv, StrandHas
  <2>5. CASE locked
    <3>1. waiting_queue' = Append(waiting_queue, h) /\ status' = status
      BY <1>6, <2>5 DEF Dispatch
    <3> HIDE DEF h
    <3>2. Taken' = Append(Taken, h)
      BY <2>1, <3>1, TakenAppend
    <3>3. status = [status EXCEPT ![h] = "pending"]
      BY <1>1, <2>2 DEF MoreTypes
    <3>4. Abstract!Take(h)
      BY <1>1, <2>1, <2>2, <2>4, <3>1, <3>2, <3>3 DEF Abstract!Take
    <3> QED
      BY <2>1, <3>4
  <2>6. CASE ~locked
    <3>1. waiting_queue' = waiting_queue /\ status' = [status EXCEPT ![h] = "running"]
      BY <1>6, <2>6 DEF Dispatch, Invoke
    <3> HIDE DEF h
    <3>2. Taken' = Taken
      BY <1>3, <1>4, <2>1, <3>1, TakenSame
    <3>3. Abstract!TakeAndBegin(h)
      BY <1>1, <2>1, <2>2, <2>4, <2>6, <3>1, <3>2, FreeStrand DEF Abstract!TakeAndBegin, Abstract!StrandIdle
    <3> QED
      BY <2>1, <3>3
  <2> QED
    BY <2>5, <2>6
<1>7. CASE CompleteStrand(t)
  <2>1. /\ call[t] = <<>> /\ call' = call /\ ready_queue' = ready_queue /\ waiting_queue' = waiting_queue
        /\ strand_of' = strand_of /\ status' = status
    BY <1>7 DEF CompleteStrand, Returned, strand
  <2>2. Taken' = Taken
    BY <1>3, <1>4, <2>1, TakenSame
  <2> QED
    BY <1>1, <2>1, <2>2 DEF Abstract!Offer
<1>8. CASE RunReady(t)
  <2> DEFINE h == Head(ready_queue)
  <2>1. /\ pc[t] = "strand" /\ call' = call /\ ready_queue # <<>> /\ ready_queue' = Tail(ready_queue)
        /\ waiting_queue' = waiting_queue /\ strand_of' = strand_of
        /\ status' = [status EXCEPT ![h] = "running"]
    BY <1>8 DEF RunReady, Invoke
  <2>2. ready_queue \in Seq(Handlers) /\ waiting_queue \in Seq(Handlers)
    BY <1>1 DEF Types
  <2>3. h \in Handlers /\ h \in Range(ready_queue)
    BY <2>1, <2>2, TailElems
  <2>4. status[h] = "pending"
    BY <2>3, BeforeRun DEF LoopInv, QueueInv, Control
  <2>5. h \in strand_of
    BY <1>1, <2>3, AtStrandIs DEF LoopInv, StrandHas, AtStrand
  <2>6. /\ \A x \in strand_of : status[x] # "running"
        /\ Taken = ready_queue \o waiting_queue
    BY <2>1, BetweenHandlers
  <2>7. Taken' = Tail(ready_queue) \o waiting_queue
    <3>1. \A u \in Threads : ~Is(u, "ready_queue_.push")
      BY <1>1, <2>1, OneRuns DEF Runs
    <3>2. \A u \in Threads : ~Is(u, "ready_queue_.push")'
      BY <2>1, <3>1 DEF Is
    <3> QED
      BY <2>1, <3>2, TakenNext DEF LoopInv, QueueInv
  <2>8. Taken # <<>> /\ h = Head(Taken) /\ Taken' = Tail(Taken)
    BY <2>1, <2>2, <2>6, <2>7, LeavesFirst
  <2> HIDE DEF h
  <2>9. Abstract!Begin(h)
    BY <1>1, <2>1, <2>4, <2>5, <2>6, <2>8 DEF Abstract!Begin, Abstract!StrandIdle
  <2> QED
    BY <2>3, <2>9
<1>9. CASE HandlerEnds(t)
  <2>1. /\ pc[t] = "handler" /\ call[t] = <<>> /\ call' = call /\ ready_queue' = ready_queue
        /\ waiting_queue' = waiting_queue /\ strand_of' = strand_of
        /\ status' = [status EXCEPT ![handler[t]] = "done"]
    BY <1>9 DEF HandlerEnds, Returned, strand
  <2>2. handler[t] \in Handlers /\ status[handler[t]] = "running"
    BY <2>1 DEF LoopInv, QueueInv, Control, Running, ThreadControl
  <2>3. Taken' = Taken
    BY <1>3, <1>4, <2>1, TakenSame
  <2>4. Abstract!Finish(handler[t])
    BY <1>1, <2>1, <2>2, <2>3 DEF Abstract!Finish
  <2> QED
    BY <2>2, <2>4
<1>10. CASE LeaveStrand(t)
  <2>1. /\ pc[t] \in {"strand", "leave_strand"} /\ status' = status
        /\ waiting_queue' = <<>> /\ ready_queue' = ready_queue \o waiting_queue
        /\ call'[t] = <<>> \/ call'[t] = <<Work, Push(<<Strand>>)>>
    BY <1>1, <1>10, LeaveStrandFacts DEF LoopInv, QueueInv
  <2>2. strand_of' = strand_of
    BY <1>10 DEF LeaveStrand
  <2>3. Taken = ready_queue \o waiting_queue
    BY <2>1, BetweenHandlers
  <2>4. Readying(call'[t]) = {}
    BY <1>4, <2>1, NotReadying
  <2>5. \A u \in Threads : ~Is(u, "ready_queue_.push")'
    <3>1. \A u \in Threads : ~Is(u, "ready_queue_.push")
      BY <1>1, <2>1, OneRuns DEF Runs
    <3>2. ~Is(t, "ready_queue_.push")'
      BY <2>4 DEF Is, Readying
    <3> QED
      BY <1>3, <3>1, <3>2 DEF Is
  <2>6. Taken' = (ready_queue \o waiting_queue) \o <<>>
    BY <2>1, <2>5, TakenNext DEF LoopInv, QueueInv
  <2>7. ready_queue \o waiting_queue \in Seq(Handlers)
    BY <1>1, ConcatProperties DEF Types
  <2>8. Taken' = Taken
    BY <2>3, <2>6, <2>7, ConcatEmptySeq
  <2> QED
    BY <1>1, <2>1, <2>2, <2>8 DEF Abstract!Offer
<1>11. CASE StrandPost(t)
  <2> DEFINE h == Command(t).op
  <2>1. HandOver(t, "strand") /\ strand_of' = strand_of \cup {h} /\ ready_queue' = ready_queue
    BY <1>11 DEF StrandPost
  <2>2. /\ h \in Handlers /\ status[h] = "new" /\ status' = [status EXCEPT ![h] = "pending"]
    BY <2>1, HandedOver DEF LoopInv, QueueInv
  <2>3. h \notin strand_of
    BY <2>2 DEF LoopInv, StrandHas
  <2>4. CASE locked
    <3>1. waiting_queue' = Append(waiting_queue, h) /\ call' = call
      BY <1>11, <2>4 DEF StrandPost
    <3> HIDE DEF h
    <3>2. Taken' = Append(Taken, h)
      BY <2>1, <2>2, <3>1, TakenAppend
    <3>3. Abstract!Take(h)
      BY <1>1, <2>1, <2>2, <2>3, <3>2 DEF Abstract!Take
    <3> QED
      BY <2>2, <3>3
  <2>5. CASE ~locked
    <3>1. /\ waiting_queue' = waiting_queue
          /\ call' = [call EXCEPT ![t] = <<ToReady(h), Work, Push(<<Strand>>)>>]
      BY <1>11, <2>5 DEF StrandPost, Calls
    <3>2. call'[t] = <<ToReady(h), Work, Push(<<Strand>>)>>
      BY <1>1, <3>1 DEF Types
    <3> HIDE DEF h
    <3>3. waiting_queue = <<>> /\ Taken = <<>>
      BY <2>5, FreeStrand DEF LoopInv, StrandHas
    <3>4. Taken' = <<h>> \o waiting_queue
      BY <2>2, <3>1, <3>2, TakenNext
    <3>5. <<h>> \o <<>> = <<h>> /\ Append(<<>>, h) = <<h>>
      OBVIOUS
    <3>6. Taken' = Append(Taken, h)
      BY <3>3, <3>4, <3>5
    <3>7. Abstract!Take(h)
      BY <1>1, <2>1, <2>2, <2>3, <3>6 DEF Abstract!Take
    <3> QED
      BY <2>2, <3>7
  <2> QED
    BY <2>4, <2>5
<1>12. CASE PushReady(t)
  <2>1. /\ status' = status /\ waiting_queue' = waiting_queue /\ strand_of' = strand_of
        /\ Is(t, "ready_queue_.push")
    BY <1>12 DEF PushReady
  <2>2. PICK h \in Handlers :
              /\ call[t] = <<ToReady(h), Work, Push(<<Strand>>)>> /\ call'[t] = <<Work, Push(<<Strand>>)>>
              /\ ready_queue' = Append(ready_queue, h)
    BY <1>1, <1>12, PushReadyMoves
  <2>3. Taken = <<h>> \o waiting_queue /\ ready_queue = <<>>
    BY <2>2, TakenPushed
  <2>4. \A u \in Threads : ~Is(u, "ready_queue_.push")'
    <3>1. \A u \in Threads \ {t} : ~Is(u, "ready_queue_.push")
      BY <1>1, <2>1, OnePushesReady
    <3>2. Readying(call'[t]) = {}
      BY <2>2, NotReadying
    <3>3. ~Is(t, "ready_queue_.push")'
      BY <3>2 DEF Is, Readying
    <3> QED
      BY <1>3, <3>1, <3>3 DEF Is
  <2>5. Append(<<>>, h) = <<h>>
    OBVIOUS
  <2>6. Taken' = <<h>> \o waiting_queue
    BY <2>1, <2>2, <2>3, <2>4, <2>5, TakenNext DEF LoopInv, QueueInv
  <2> QED
    BY <1>1, <2>1, <2>3, <2>6 DEF Abstract!Offer
<1> QED
  BY <1>5, <1>6, <1>7, <1>8, <1>9, <1>10, <1>11, <1>12 DEF StrandSteps

\* What the environment does changes none of it.
LEMMA EnvironmentRefines ==
    ASSUME LoopInv, LoopInv', MayStop' <=> MayStop, Environment
    PROVE  Abstract!Next
<1>1. /\ call' = call /\ status' = status /\ stopped' = stopped
      /\ strand_of' = strand_of /\ ready_queue' = ready_queue /\ waiting_queue' = waiting_queue
  BY DEF Environment, SocketReady, TimePasses, SpuriousWakeup, OutsideStrand, strand, service, threads
<1>2. Taken' = Taken /\ (Over' <=> Over)
  BY <1>1 DEF Taken, ToBePushed, Over, Is
<1> QED
  BY <1>1, <1>2, Offers

\* Every step is one of the event loop, or none.
LEMMA StepRefines == LoopInv /\ LoopInv' /\ [Next]_vars => [Abstract!Next]_Abstract!vars
<1> SUFFICES ASSUME LoopInv, LoopInv', [Next]_vars PROVE [Abstract!Next]_Abstract!vars
  OBVIOUS
<1>1. MayStop' <=> MayStop
  BY SameMayStop DEF LoopInv, QueueInv
<1>2. CASE UNCHANGED vars
  <2>1. UNCHANGED <<status, call, ready_queue, waiting_queue, strand_of, stopped, program>>
    BY <1>2 DEF vars, ioVars, service, threads, strand
  <2>2. Taken' = Taken /\ Over' = Over /\ Offering' = Offering /\ MayStop' = MayStop
    BY <2>1 DEF Taken, ToBePushed, Over, Offering, MayStop, Is
  <2> QED
    BY <2>1, <2>2 DEF Abstract!vars
<1>3. CASE Environment
  BY <1>1, <1>3, EnvironmentRefines
<1>4. ASSUME NEW t \in Threads, Step(t) PROVE Abstract!Next
  BY <1>1, <1>4, CallRefines, LoopRefines, CommandRefines, StrandRefines DEF Step
<1> QED
  BY <1>2, <1>3, <1>4 DEF Next

\* It begins like the event loop.
LEMMA InitRefines == Init => Abstract!Init
<1> SUFFICES ASSUME Init PROVE Abstract!Init
  OBVIOUS
<1>1. /\ \A t \in Threads : call[t] = <<>>
      /\ ready_queue = <<>> /\ waiting_queue = <<>> /\ strand_of = {} /\ stopped = FALSE
      /\ status \in [Handlers -> {"new", "pending"}]
  BY DEF Init, IoInit
<1>2. Taken = <<>>
  <2>1. ToBePushed = {}
    BY <1>1 DEF ToBePushed, Is
  <2>2. (<<>> \o <<>>) \o <<>> = <<>>
    OBVIOUS
  <2> QED
    BY <1>1, <2>1, <2>2 DEF Taken
<1>3. Over = FALSE /\ Offering \in BOOLEAN /\ MayStop \in BOOLEAN
  BY <1>1 DEF Over, Offering, MayStop, Is
<1> QED
  BY <1>1, <1>2, <1>3 DEF Abstract!Init

\* The io_service and its strand implement the event loop: a handler that was
\* handed over runs at most once, those of the strand one at a time and in the
\* order in which the strand took them, and the loop is over only if it was told
\* to stop or there was nothing left to do, or not yet counted.
THEOREM LoopSpecCorrect == Spec => LoopSpec
<1>1. LoopInv /\ LoopInv' /\ [Next]_vars => [Abstract!Next]_Abstract!vars
  BY StepRefines
<1>2. Spec => [](LoopInv)
  BY AlwaysLoopInv
<1> QED
  BY <1>1, <1>2, InitRefines, PTL DEF Spec, LoopSpec, Abstract!Spec
=============================================================================
