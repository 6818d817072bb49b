---------------------------- MODULE StrandProofs ----------------------------
(***************************************************************************)
(* The strand keeps its ready queue to itself, for any number of threads,  *)
(* any handlers and any programs.                                          *)
(*                                                                         *)
(* A locked strand is scheduled as one operation, that is in one place:    *)
(* about to be pushed by a thread, in the queue of the service, in the     *)
(* private queue of a thread, or being run. The proof follows it there.    *)
(***************************************************************************)
EXTENDS Strand, TLAPS, SequenceTheorems, FiniteSetTheorems

Ops    == Handlers \cup {Task, Descriptor, Strand}
Events == {"read", "write"}

\* The steps that calls consist of.
CallForms ==
    {<<>>, <<Signal>>, <<StopLoop>>, <<Work>>}
    \cup {<<Push(ops)>> : ops \in Seq(Ops)}
    \cup {<<Work, Push(ops)>> : ops \in Seq(Ops)}
    \cup {<<ToReady(h), Work, Push(<<Strand>>)>> : h \in Handlers}

Labels == {"app", "run", "lock", "waiting", "woken", "poll", "poll_block", "check_timers",
           "task_cleanup", "complete", "handler", "strand", "leave_strand", "work_cleanup",
           "push_private", "returned"}

Types ==
    /\ program \in [via : [Handlers -> {"post", "strand", "read", "write", "timer"}],
                    wrapped : [Handlers -> BOOLEAN],
                    does : [Handlers \cup Apps -> Seq(CommandType)],
                    started : SUBSET Handlers,
                    arrives : SUBSET Events]
    /\ op_queue \in Seq(Ops)
    /\ registered \subseteq Handlers /\ armed \subseteq Handlers
    /\ edges \subseteq Events /\ task_result \subseteq Events
    /\ pc \in [Threads -> Labels]
    /\ call \in [Threads -> CallForms]
    /\ todo \in [Threads -> Seq(CommandType)]
    /\ cur \in [Threads -> [op : Ops, events : SUBSET Events]]
    /\ private_queue \in [Threads -> Seq(Ops)]
    /\ waiting_queue \in Seq(Handlers) /\ ready_queue \in Seq(Handlers)
    /\ frame \in [Threads -> {"loop", "dispatch", "do_complete"}]

----------------------------------------------------------------------------
(* Where the strand's operation is.                                        *)

Has(s)  == \E i \in DOMAIN s : s[i] = Strand
Once(s) == \A i, j \in DOMAIN s : s[i] = Strand /\ s[j] = Strand => i = j

\* What a thread is about to push.
Pending(steps) ==
    IF steps # <<>> /\ steps[Len(steps)].step = "push" THEN steps[Len(steps)].ops ELSE <<>>

\* A thread runs the strand.
Runs(t) ==
    \/ pc[t] = "complete" /\ cur[t].op = Strand
    \/ pc[t] \in {"strand", "leave_strand"}
    \/ pc[t] = "handler" /\ frame[t] # "loop"

Holds(t) == Has(Pending(call[t])) \/ Has(private_queue[t]) \/ Runs(t)

OneOf(t) ==
    /\ Once(Pending(call[t])) /\ Once(private_queue[t])
    /\ ~(Has(Pending(call[t])) /\ Has(private_queue[t]))
    /\ Runs(t) => ~Has(Pending(call[t])) /\ ~Has(private_queue[t])

\* The operation is in one place at most, and in none unless the strand is locked.
\* Who runs the strand is in no call when it comes back to it.
Scheduled ==
    /\ Once(op_queue)
    /\ \A t \in Threads : OneOf(t)
    /\ \A t \in Threads : Holds(t) => locked /\ ~Has(op_queue)
    /\ Has(op_queue) => locked
    /\ \A t, u \in Threads : Holds(t) /\ Holds(u) => t = u
    /\ \A t \in Threads : pc[t] \in {"strand", "leave_strand"} => call[t] = <<>>

----------------------------------------------------------------------------
(* Sequences.                                                              *)

\* The strand's operation is not in an empty queue,
LEMMA EmptyHas == ~Has(<<>>) /\ Once(<<>>)
BY DEF Has, Once

\* A sequence of one.
LEMMA SingleHas == ASSUME NEW x PROVE (Has(<<x>>) <=> x = Strand) /\ Once(<<x>>)
BY DEF Has, Once

\* Two queues, one behind the other.
LEMMA ConcatHas ==
    ASSUME NEW S, NEW s \in Seq(S), NEW u \in Seq(S)
    PROVE  /\ s \o u \in Seq(S)
           /\ Has(s \o u) <=> Has(s) \/ Has(u)
           /\ Once(s) /\ Once(u) /\ ~(Has(s) /\ Has(u)) => Once(s \o u)
<1> DEFINE w == s \o u
           m == Len(s)
           n == Len(u)
<1>1. /\ m \in Nat /\ n \in Nat /\ DOMAIN s = 1..m /\ DOMAIN u = 1..n
      /\ w \in Seq(S) /\ Len(w) = m + n /\ DOMAIN w = 1..(m + n)
  BY LenProperties, ConcatProperties
<1>2. \A i \in 1..(m + n) : w[i] = IF i <= m THEN s[i] ELSE u[i - m]
  BY ConcatProperties
<1> HIDE DEF w, m, n
<1>3. \A i \in 1..m : i \in 1..(m + n) /\ w[i] = s[i]
  BY <1>1, <1>2
<1>4. \A i \in 1..n : i + m \in 1..(m + n) /\ w[i + m] = u[i]
  BY <1>1, <1>2
<1>5. \A i \in 1..(m + n) : \/ i \in 1..m /\ w[i] = s[i]
                            \/ i - m \in 1..n /\ w[i] = u[i - m]
  BY <1>1, <1>2
<1>6. Has(w) <=> Has(s) \/ Has(u)
  BY <1>1, <1>3, <1>4, <1>5 DEF Has
<1>7. ASSUME Once(s), Once(u), ~(Has(s) /\ Has(u)) PROVE Once(w)
  <2>1. ASSUME NEW i \in 1..(m + n), NEW j \in 1..(m + n), w[i] = Strand, w[j] = Strand
        PROVE  i = j
    <3>1. CASE i \in 1..m /\ w[i] = s[i]
      <4>1. Has(s)
        BY <1>1, <2>1, <3>1 DEF Has
      <4>2. j \in 1..m /\ w[j] = s[j]
        BY <1>1, <1>5, <1>7, <2>1, <4>1 DEF Has
      <4> QED
        BY <1>1, <1>7, <2>1, <3>1, <4>2 DEF Once
    <3>2. CASE i - m \in 1..n /\ w[i] = u[i - m]
      <4>1. Has(u)
        BY <1>1, <2>1, <3>2 DEF Has
      <4>2. j - m \in 1..n /\ w[j] = u[j - m]
        BY <1>1, <1>5, <1>7, <2>1, <4>1 DEF Has
      <4>3. i - m = j - m
        BY <1>1, <1>7, <2>1, <3>2, <4>2 DEF Once
      <4> QED
        BY <1>1, <4>3
    <3> QED
      BY <1>5, <3>1, <3>2
  <2> QED
    BY <1>1, <2>1 DEF Once
<1> QED
  BY <1>1, <1>6, <1>7 DEF w

\* A queue and one more.
LEMMA AppendHas ==
    ASSUME NEW S, NEW s \in Seq(S), NEW x \in S
    PROVE  /\ Append(s, x) \in Seq(S)
           /\ Has(Append(s, x)) <=> Has(s) \/ x = Strand
           /\ Once(s) /\ ~(Has(s) /\ x = Strand) => Once(Append(s, x))
<1>1. <<x>> \in Seq(S) /\ Append(s, x) = s \o <<x>>
  BY AppendIsConcat
<1> QED
  BY <1>1, ConcatHas, SingleHas

\* What is taken from a queue is no longer in it.
LEMMA TailHas ==
    ASSUME NEW S, NEW s \in Seq(S), s # <<>>, Once(s)
    PROVE  /\ Head(s) \in S /\ Tail(s) \in Seq(S)
           /\ Has(Tail(s)) \/ Head(s) = Strand => Has(s)
           /\ ~(Has(Tail(s)) /\ Head(s) = Strand)
           /\ Once(Tail(s))
<1> DEFINE n == Len(s)
           w == Tail(s)
<1>1. n \in Nat \ {0} /\ DOMAIN s = 1..n
  BY LenProperties, EmptySeq
<1>2. /\ Head(s) \in S /\ Head(s) = s[1]
      /\ w \in Seq(S) /\ Len(w) = n - 1 /\ \A i \in 1..Len(w) : w[i] = s[i + 1]
  BY HeadTailProperties
<1>3. DOMAIN w = 1..(n - 1)
  BY <1>2, LenProperties
<1> HIDE DEF n, w
<1>4. \A i \in 1..(n - 1) : i + 1 \in 1..n /\ i + 1 # 1 /\ w[i] = s[i + 1]
  BY <1>1, <1>2
<1>5. Has(w) => \E i \in 1..n : i # 1 /\ s[i] = Strand
  BY <1>3, <1>4 DEF Has
<1>6. 1 \in 1..n
  BY <1>1
<1>7. Has(w) \/ s[1] = Strand => Has(s)
  BY <1>1, <1>5, <1>6 DEF Has
<1>8. ~(Has(w) /\ s[1] = Strand)
  BY <1>1, <1>5, <1>6 DEF Once
<1>9. ASSUME NEW i \in 1..(n - 1), NEW j \in 1..(n - 1), w[i] = Strand, w[j] = Strand
      PROVE  i = j
  <2>1. i + 1 = j + 1
    BY <1>1, <1>4, <1>9 DEF Once
  <2> QED
    BY <2>1
<1>10. Once(w)
  BY <1>3, <1>9 DEF Once
<1> QED
  BY <1>2, <1>7, <1>8, <1>10 DEF w

----------------------------------------------------------------------------
(* A step of one thread.                                                   *)

\* What each form of a call is about to push.
LEMMA PendingForms ==
    /\ Pending(<<>>) = <<>> /\ Pending(<<Signal>>) = <<>>
    /\ Pending(<<StopLoop>>) = <<>> /\ Pending(<<Work>>) = <<>>
    /\ \A ops : Pending(<<Push(ops)>>) = ops /\ Pending(<<Work, Push(ops)>>) = ops
    /\ \A h : /\ Pending(<<ToReady(h), Work, Push(<<Strand>>)>>) = <<Strand>>
BY DEF Pending, Signal, StopLoop, Work, Push, ToReady

\* What the other threads are about to do to the strand.
OthersStay(t) ==
    \A u \in Threads \ {t} :
        /\ call'[u] = call[u] /\ private_queue'[u] = private_queue[u]
        /\ Runs(u)' <=> Runs(u)
        /\ pc'[u] \in {"strand", "leave_strand"} => pc[u] \in {"strand", "leave_strand"}

\* A thread passes the operation on, or locks the strand and schedules it; only
\* the thread that has it unlocks the strand.
LEMMA Transfer ==
    ASSUME Scheduled, NEW t \in Threads, OthersStay(t),
           Once(op_queue)', OneOf(t)',
           ~(Has(op_queue)' /\ Holds(t)'),
           Has(op_queue)' \/ Holds(t)' => locked' /\ (Has(op_queue) \/ Holds(t) \/ ~locked),
           ~locked' => ~locked \/ Has(op_queue) \/ Holds(t),
           pc'[t] \in {"strand", "leave_strand"} => call'[t] = <<>>
    PROVE  Scheduled'
<1>1. ASSUME NEW u \in Threads \ {t}
      PROVE  /\ OneOf(u)' /\ (Holds(u)' <=> Holds(u))
             /\ pc'[u] \in {"strand", "leave_strand"} => call'[u] = <<>>
  <2>1. call'[u] = call[u] /\ private_queue'[u] = private_queue[u] /\ (Runs(u)' <=> Runs(u))
    BY DEF OthersStay
  <2>2. Pending(call[u])' = Pending(call[u])
    BY <2>1 DEF Pending
  <2>3. /\ Has(Pending(call[u]))' <=> Has(Pending(call[u]))
        /\ Once(Pending(call[u]))' <=> Once(Pending(call[u]))
        /\ Has(private_queue[u])' <=> Has(private_queue[u])
        /\ Once(private_queue[u])' <=> Once(private_queue[u])
    BY <2>1, <2>2 DEF Has, Once
  <2>4. OneOf(u)
    BY DEF Scheduled
  <2>5. OneOf(u)' /\ (Holds(u)' <=> Holds(u))
    BY <2>1, <2>3, <2>4 DEF OneOf, Holds
  <2> QED
    BY <2>1, <2>5 DEF OthersStay, Scheduled
<1>2. ASSUME NEW u \in Threads \ {t}, Holds(u)'
      PROVE  locked' /\ ~Has(op_queue)' /\ ~Holds(t)'
             /\ \A v \in Threads \ {t} : Holds(v)' => u = v
  BY <1>1, <1>2 DEF Scheduled
<1>3. \A u \in Threads : OneOf(u)'
  BY <1>1
<1>4. \A u \in Threads : Holds(u)' => locked' /\ ~Has(op_queue)'
  BY <1>2
<1>5. \A u, v \in Threads : Holds(u)' /\ Holds(v)' => u = v
  BY <1>2
<1>6. \A u \in Threads : pc'[u] \in {"strand", "leave_strand"} => call'[u] = <<>>
  BY <1>1
<1> QED
  BY <1>3, <1>4, <1>5, <1>6 DEF Scheduled

\* A thread that has nothing to do with it.
LEMMA Quiet ==
    ASSUME Scheduled, NEW t \in Threads, OthersStay(t), locked' = locked,
           op_queue' = op_queue,
           Once(Pending(call[t]))', Has(Pending(call[t]))' => Has(Pending(call[t])),
           Once(private_queue[t])', Has(private_queue[t])' => Has(private_queue[t]),
           Runs(t)' => Runs(t),
           pc'[t] \in {"strand", "leave_strand"} => call'[t] = <<>>
    PROVE  Scheduled'
<1>1. (Has(op_queue)' <=> Has(op_queue)) /\ (Once(op_queue)' <=> Once(op_queue))
  BY DEF Has, Once
<1>2. OneOf(t) /\ (Holds(t)' => Holds(t))
  BY DEF Scheduled, Holds
<1>3. OneOf(t)'
  BY <1>2 DEF OneOf
<1> QED
  BY <1>1, <1>2, <1>3, Transfer DEF Scheduled

----------------------------------------------------------------------------
(* The steps of a call.                                                    *)

\* Which call a step can belong to.
LEMMA StepForms ==
    ASSUME Types, NEW t \in Threads
    PROVE  /\ Is(t, "work_started") =>
                 \/ call[t] = <<Work>> /\ Tail(call[t]) = <<>>
                 \/ \E ops \in Seq(Ops) : /\ call[t] = <<Work, Push(ops)>>
                                          /\ Tail(call[t]) = <<Push(ops)>>
           /\ Is(t, "push") =>
                 \E ops \in Seq(Ops) : /\ call[t] = <<Push(ops)>>
                                       /\ Head(call[t]).ops = ops /\ Tail(call[t]) = <<>>
           /\ Is(t, "signal_one") => Tail(call[t]) = <<>>
           /\ Is(t, "stop") => Tail(call[t]) = <<>>
           /\ Is(t, "ready_queue_.push") =>
                 \E h \in Handlers : /\ call[t] = <<ToReady(h), Work, Push(<<Strand>>)>>
                                     /\ Head(call[t]).op = h
                                     /\ Tail(call[t]) = <<Work, Push(<<Strand>>)>>
<1> USE DEF Is, Work, Push, Signal, StopLoop, ToReady
<1>1. call[t] \in CallForms
  BY DEF Types
<1>2. ASSUME call[t] \in {<<>>, <<Signal>>, <<StopLoop>>, <<Work>>} PROVE
           /\ ~Is(t, "push") /\ ~Is(t, "ready_queue_.push")
           /\ Is(t, "work_started") => call[t] = <<Work>>
           /\ call[t] # <<>> => Tail(call[t]) = <<>>
  <2>1. CASE call[t] = <<>>
    BY <2>1
  <2>2. CASE call[t] = <<Signal>>
    BY <2>2
  <2>3. CASE call[t] = <<StopLoop>>
    BY <2>3
  <2>4. CASE call[t] = <<Work>>
    BY <2>4
  <2> QED
    BY <1>2, <2>1, <2>2, <2>3, <2>4
<1>3. ASSUME NEW ops \in Seq(Ops), call[t] = <<Push(ops)>> PROVE
           ~Is(t, "work_started") /\ ~Is(t, "signal_one") /\ ~Is(t, "stop")
           /\ ~Is(t, "ready_queue_.push")
           /\ Head(call[t]).ops = ops /\ Tail(call[t]) = <<>>
  BY <1>3
<1>4. ASSUME NEW ops \in Seq(Ops), call[t] = <<Work, Push(ops)>> PROVE
           ~Is(t, "push") /\ ~Is(t, "signal_one") /\ ~Is(t, "stop")
           /\ ~Is(t, "ready_queue_.push") /\ Tail(call[t]) = <<Push(ops)>>
  BY <1>4
<1>5. ASSUME NEW h \in Handlers, call[t] = <<ToReady(h), Work, Push(<<Strand>>)>> PROVE
           ~Is(t, "work_started") /\ ~Is(t, "push") /\ ~Is(t, "signal_one") /\ ~Is(t, "stop")
           /\ Head(call[t]).op = h /\ Tail(call[t]) = <<Work, Push(<<Strand>>)>>
  BY <1>5
<1> HIDE DEF Is, Work, Push, Signal, StopLoop, ToReady
<1>6. \/ call[t] \in {<<>>, <<Signal>>, <<StopLoop>>, <<Work>>}
      \/ \E ops \in Seq(Ops) : call[t] = <<Push(ops)>>
      \/ \E ops \in Seq(Ops) : call[t] = <<Work, Push(ops)>>
      \/ \E h \in Handlers : call[t] = <<ToReady(h), Work, Push(<<Strand>>)>>
  BY <1>1 DEF CallForms
<1>7. Is(t, "work_started") =>
           \/ call[t] = <<Work>> /\ Tail(call[t]) = <<>>
           \/ \E ops \in Seq(Ops) : /\ call[t] = <<Work, Push(ops)>>
                                    /\ Tail(call[t]) = <<Push(ops)>>
  BY <1>2, <1>3, <1>4, <1>5, <1>6
<1>8. Is(t, "push") =>
           \E ops \in Seq(Ops) : /\ call[t] = <<Push(ops)>>
                                 /\ Head(call[t]).ops = ops /\ Tail(call[t]) = <<>>
  BY <1>2, <1>3, <1>4, <1>5, <1>6
<1>9. /\ Is(t, "signal_one") => Tail(call[t]) = <<>>
      /\ Is(t, "stop") => Tail(call[t]) = <<>>
  BY <1>2, <1>3, <1>4, <1>5, <1>6
<1>10. Is(t, "ready_queue_.push") =>
           \E h \in Handlers : /\ call[t] = <<ToReady(h), Work, Push(<<Strand>>)>>
                               /\ Head(call[t]).op = h
                               /\ Tail(call[t]) = <<Work, Push(<<Strand>>)>>
  BY <1>2, <1>3, <1>4, <1>5, <1>6
<1> QED
  BY <1>7, <1>8, <1>9, <1>10

\* The calls that the steps below make have these forms.
LEMMA CallFormFacts ==
    /\ {<<>>, <<Signal>>, <<StopLoop>>, <<Work>>} \subseteq CallForms
    /\ \A ops \in Seq(Ops) : <<Push(ops)>> \in CallForms /\ <<Work, Push(ops)>> \in CallForms
    /\ \A h \in Handlers : <<ToReady(h), Work, Push(<<Strand>>)>> \in CallForms
    /\ \A o \in Ops : <<o>> \in Seq(Ops)
    /\ Strand \in Ops /\ Task \in Ops /\ Descriptor \in Ops /\ Handlers \subseteq Ops
BY DEF CallForms, Ops

\* The steps of a call keep the types.
LEMMA CallStepTypes == ASSUME Types, NEW t \in Threads, CallSteps(t), OutsideStrand PROVE Types'
<1> USE DEF Types, OutsideStrand, strand, kernel
<1>1. CASE WorkStarted(t)
  <2>1. Tail(call[t]) \in CallForms
    <3>1. Is(t, "work_started")
      BY <1>1 DEF WorkStarted
    <3>2. CASE Tail(call[t]) = <<>>
      BY <3>2, CallFormFacts
    <3>3. ASSUME NEW ops \in Seq(Ops), Tail(call[t]) = <<Push(ops)>> PROVE Tail(call[t]) \in CallForms
      BY <3>3, CallFormFacts
    <3> QED
      BY <3>1, <3>2, <3>3, StepForms
  <2> QED
    BY <1>1, <2>1 DEF WorkStarted, Calls, reactor
<1>2. CASE PushOps(t)
  <2>1. PICK ops \in Seq(Ops) : Head(call[t]).ops = ops /\ Tail(call[t]) = <<>>
    BY <1>2, StepForms DEF PushOps
  <2>2. op_queue \o ops \in Seq(Ops)
    BY ConcatProperties
  <2>3. <<Signal>> \o <<>> = <<Signal>>
    BY DEF Signal
  <2>4. call' = [call EXCEPT ![t] = <<Signal>>] \/ call' = [call EXCEPT ![t] = <<>>]
    BY <1>2, <2>1, <2>3 DEF PushOps, WakeOne, Calls
  <2>5. call' \in [Threads -> CallForms]
    BY <2>4, CallFormFacts
  <2> QED
    BY <1>2, <2>1, <2>2, <2>5 DEF PushOps
<1>3. CASE SignalOne(t)
  <2>1. Tail(call[t]) \in CallForms
    BY <1>3, StepForms, CallFormFacts DEF SignalOne
  <2>2. "woken" \in Labels
    BY DEF Labels
  <2>3. pc \in [Threads -> Labels]
    BY DEF Types
  <2>4. pc' \in [Threads -> Labels]
    BY ONLY <1>3, <2>2, <2>3 DEF SignalOne, Goto
  <2> QED
    BY <1>3, <2>1, <2>4 DEF SignalOne, Calls, service, reactor
<1>4. CASE StopAllThreads(t)
  <2>1. Tail(call[t]) \in CallForms
    BY <1>4, StepForms, CallFormFacts DEF StopAllThreads
  <2>2. "woken" \in Labels
    BY DEF Labels
  <2>3. pc \in [Threads -> Labels]
    BY DEF Types
  <2>4. pc' \in [Threads -> Labels]
    BY ONLY <1>4, <2>2, <2>3 DEF StopAllThreads
  <2> QED
    BY <1>4, <2>1, <2>4 DEF StopAllThreads, Calls
<1> QED
  BY <1>1, <1>2, <1>3, <1>4 DEF CallSteps

\* Pushing the operation moves it from the thread to the queue of the service.
LEMMA CallStepScheduled ==
    ASSUME Types, Scheduled, NEW t \in Threads, CallSteps(t), OutsideStrand
    PROVE  Scheduled'
<1>1. CASE WorkStarted(t)
  <2>1. Pending(call'[t]) = Pending(call[t])
    <3>1. Is(t, "work_started") /\ call'[t] = Tail(call[t])
      BY <1>1 DEF WorkStarted, Calls, Types
    <3>2. CASE call[t] = <<Work>> /\ Tail(call[t]) = <<>>
      BY <3>1, <3>2, PendingForms
    <3>3. ASSUME NEW ops \in Seq(Ops), call[t] = <<Work, Push(ops)>>, Tail(call[t]) = <<Push(ops)>>
          PROVE  Pending(call'[t]) = Pending(call[t])
      BY <3>1, <3>3, PendingForms
    <3> QED
      BY <3>1, <3>2, <3>3, StepForms
  <2>2. OthersStay(t)
    BY <1>1 DEF WorkStarted, OthersStay, Calls, Types, OutsideStrand, strand, Runs
  <2>3. OneOf(t) /\ pc'[t] \notin {"strand", "leave_strand"}
    BY <1>1 DEF Scheduled, WorkStarted, Is
  <2> QED
    BY <1>1, <2>1, <2>2, <2>3, Quiet DEF WorkStarted, OneOf, Runs, OutsideStrand, strand
<1>2. CASE PushOps(t)
  <2>1. PICK ops \in Seq(Ops) : /\ call[t] = <<Push(ops)>>
                                /\ Head(call[t]).ops = ops /\ Tail(call[t]) = <<>>
    BY <1>2, StepForms DEF PushOps
  <2>2. <<Signal>> \o <<>> = <<Signal>>
    BY DEF Signal
  <2>3. call' = [call EXCEPT ![t] = <<Signal>>] \/ call' = [call EXCEPT ![t] = <<>>]
    BY <1>2, <2>1, <2>2 DEF PushOps, WakeOne, Calls
  <2>4. Pending(call'[t]) = <<>> /\ Pending(call[t]) = ops
    BY <2>1, <2>3, PendingForms DEF Types
  <2>5. OthersStay(t)
    BY <1>2, <2>3 DEF PushOps, OthersStay, Types, OutsideStrand, strand, Runs
  <2>6. /\ op_queue' = op_queue \o ops
        /\ private_queue' = private_queue /\ (Runs(t)' <=> Runs(t)) /\ locked' = locked
    BY <1>2, <2>1 DEF PushOps, OutsideStrand, strand, Runs
  <2>7. OneOf(t) /\ Once(op_queue) /\ (Has(op_queue) => locked /\ ~Holds(t))
        /\ (Holds(t) => locked)
    BY DEF Scheduled
  <2>8. /\ Has(op_queue \o ops) <=> Has(op_queue) \/ Has(ops)
        /\ Once(op_queue) /\ Once(ops) /\ ~(Has(op_queue) /\ Has(ops)) => Once(op_queue \o ops)
    BY ConcatHas DEF Types
  <2>9. Once(ops) /\ (Has(ops) => Holds(t) /\ ~Has(private_queue[t]) /\ ~Runs(t))
    BY <2>4, <2>7 DEF OneOf, Holds
  <2>10. OneOf(t)' /\ (Holds(t)' <=> Has(private_queue[t]) \/ Runs(t))
    BY <2>4, <2>6, <2>7, EmptyHas DEF OneOf, Holds
  <2>11. Once(op_queue)' /\ (Has(op_queue)' <=> Has(op_queue) \/ Has(ops))
    BY <2>6, <2>7, <2>8, <2>9
  <2>12. pc' [t] \notin {"strand", "leave_strand"}
    BY <1>2 DEF PushOps, Scheduled, Is
  <2> QED
    BY <2>5, <2>6, <2>7, <2>9, <2>10, <2>11, <2>12, Transfer DEF Holds
<1>3. CASE SignalOne(t) \/ StopAllThreads(t)
  <2>1. Pending(call'[t]) = <<>> /\ private_queue' = private_queue /\ locked' = locked
        /\ op_queue' = op_queue /\ frame' = frame /\ cur' = cur
    <3>1. Is(t, "signal_one") \/ Is(t, "stop")
      BY <1>3 DEF SignalOne, StopAllThreads
    <3>2. call'[t] = Tail(call[t])
      BY <1>3 DEF SignalOne, StopAllThreads, Calls, Types
    <3>3. Tail(call[t]) = <<>>
      BY <3>1, StepForms
    <3> QED
      BY <1>3, <3>2, <3>3, PendingForms
         DEF SignalOne, StopAllThreads, OutsideStrand, strand, service
  <2>2. \A u \in Threads : pc'[u] = pc[u] \/ (pc[u] = "waiting" /\ pc'[u] = "woken")
    BY <1>3 DEF SignalOne, StopAllThreads, Goto, Types
  <2>3. \A u \in Threads : Runs(u)' <=> Runs(u)
    BY <2>1, <2>2 DEF Runs
  <2>4. \A u \in Threads \ {t} : call'[u] = call[u]
    BY <1>3 DEF SignalOne, StopAllThreads, Calls, Types
  <2>5. OthersStay(t)
    BY <2>1, <2>2, <2>3, <2>4 DEF OthersStay
  <2>6. OneOf(t) /\ pc'[t] \notin {"strand", "leave_strand"}
    BY <1>3, <2>2 DEF Scheduled, SignalOne, StopAllThreads, Is
  <2> QED
    BY <2>1, <2>3, <2>5, <2>6, EmptyHas, Quiet DEF OneOf
<1> QED
  BY <1>1, <1>2, <1>3 DEF CallSteps

----------------------------------------------------------------------------
(* The loop of do_run_one.                                                 *)

\* Where the steps below go.
LEMMA LabelsOf ==
    /\ {"lock", "waiting", "poll", "poll_block", "check_timers", "task_cleanup", "complete",
        "handler", "strand", "leave_strand", "work_cleanup", "push_private", "returned"}
       \subseteq Labels
BY DEF Labels

\* A turn of the loop keeps the types of what it writes.
LEMMA TurnTypes ==
    ASSUME Types, NEW t \in Threads, NEW queue \in Seq(Ops), NEW interrupted,
           Turn(t, queue, interrupted)
    PROVE  /\ op_queue' \in Seq(Ops) /\ pc' \in [Threads -> Labels]
           /\ call' \in [Threads -> CallForms]
           /\ cur' \in [Threads -> [op : Ops, events : SUBSET Events]]
<1> USE DEF Types, Goto, Calls
<1>0. \A label \in Labels : [pc EXCEPT ![t] = label] \in [Threads -> Labels]
  OBVIOUS
<1>1. CASE stopped
  <2>1. pc' = [pc EXCEPT ![t] = "returned"] /\ op_queue' = queue /\ UNCHANGED <<call, cur>>
    BY <1>1 DEF Turn
  <2> QED
    BY <1>0, <2>1, LabelsOf
<1>2. CASE ~stopped /\ queue = <<>>
  <2>1. pc' = [pc EXCEPT ![t] = "waiting"] /\ op_queue' = queue /\ UNCHANGED <<call, cur>>
    BY <1>2 DEF Turn
  <2> QED
    BY <1>0, <2>1, LabelsOf
<1>3. CASE ~stopped /\ queue # <<>>
  <2>1. Head(queue) \in Ops /\ Tail(queue) \in Seq(Ops)
    BY <1>3, HeadTailProperties
  <2>2. op_queue' = Tail(queue)
        /\ cur' = [cur EXCEPT ![t] = [op |-> Head(queue), events |-> task_result]]
    BY <1>3 DEF Turn
  <2>3. \E label \in {"poll", "poll_block", "complete"} : pc' = [pc EXCEPT ![t] = label]
    BY <1>3 DEF Turn
  <2>4. <<Signal>> \o <<>> = <<Signal>>
    BY DEF Signal
  <2>5. \/ call' = call \/ call' = [call EXCEPT ![t] = <<>>]
        \/ call' = [call EXCEPT ![t] = <<Signal>>]
    BY <1>3, <2>4 DEF Turn, WakeOne
  <2>6. call' \in [Threads -> CallForms]
    BY <2>5, CallFormFacts
  <2>7. pc' \in [Threads -> Labels]
    BY <1>0, <2>3, LabelsOf
  <2>8. cur' \in [Threads -> [op : Ops, events : SUBSET Events]]
    BY <2>1, <2>2
  <2> QED
    BY <2>1, <2>2, <2>6, <2>7, <2>8
<1> QED
  BY <1>1, <1>2, <1>3

\* The thread runs the strand if it was the first in the queue.
LEMMA TurnEffect ==
    ASSUME Types, NEW t \in Threads, NEW queue \in Seq(Ops), NEW interrupted,
           Turn(t, queue, interrupted), Once(queue)
    PROVE  /\ Once(op_queue)' /\ ~(Has(op_queue)' /\ Runs(t)')
           /\ Has(op_queue)' \/ Runs(t)' => Has(queue)
           /\ Pending(call'[t]) = <<>> \/ Pending(call'[t]) = Pending(call[t])
           /\ pc'[t] \notin {"strand", "leave_strand"}
           /\ \A u \in Threads \ {t} :
                 call'[u] = call[u] /\ pc'[u] = pc[u] /\ cur'[u] = cur[u]
<1> USE DEF Types, Goto, Calls
<1>1. CASE stopped
  BY <1>1 DEF Turn, Runs, Has, Once
<1>2. CASE ~stopped /\ queue = <<>>
  BY <1>2, EmptyHas DEF Turn, Runs, Has, Once
<1>3. CASE ~stopped /\ queue # <<>>
  <2>1. /\ Has(Tail(queue)) \/ Head(queue) = Strand => Has(queue)
        /\ ~(Has(Tail(queue)) /\ Head(queue) = Strand)
        /\ Once(Tail(queue))
    BY <1>3, TailHas
  <2>2. op_queue' = Tail(queue)
        /\ cur' = [cur EXCEPT ![t] = [op |-> Head(queue), events |-> task_result]]
    BY <1>3 DEF Turn
  <2>3. \E label \in {"poll", "poll_block", "complete"} : pc' = [pc EXCEPT ![t] = label]
    BY <1>3 DEF Turn
  <2>4. <<Signal>> \o <<>> = <<Signal>>
    BY DEF Signal
  <2>5. \/ call' = call \/ call' = [call EXCEPT ![t] = <<>>]
        \/ call' = [call EXCEPT ![t] = <<Signal>>]
    BY <1>3, <2>4 DEF Turn, WakeOne
  <2>6. Pending(call'[t]) = <<>> \/ Pending(call'[t]) = Pending(call[t])
    BY <2>5, PendingForms
  <2>7. pc'[t] \in {"poll", "poll_block", "complete"} /\ cur'[t].op = Head(queue)
    BY <2>2, <2>3
  <2>8. Runs(t)' => Head(queue) = Strand
    BY <2>7 DEF Runs
  <2>9. (Has(op_queue)' <=> Has(Tail(queue))) /\ (Once(op_queue)' <=> Once(Tail(queue)))
    BY <2>2 DEF Has, Once
  <2> QED
    BY <2>1, <2>2, <2>3, <2>5, <2>6, <2>7, <2>8, <2>9
<1> QED
  BY <1>1, <1>2, <1>3

\* A turn that begins with what the thread kept, or with the queue alone, moves
\* the operation along.
LEMMA TurnScheduled ==
    ASSUME Types, Scheduled, NEW t \in Threads, NEW queue \in Seq(Ops), NEW interrupted,
           Turn(t, queue, interrupted), OutsideStrand, Once(queue),
           \/ private_queue' = private_queue /\ (Has(queue) => Has(op_queue))
           \/ /\ private_queue' = [private_queue EXCEPT ![t] = <<>>]
              /\ Has(queue) => Has(op_queue) \/ Has(private_queue[t])
    PROVE  Scheduled'
<1>1. /\ Once(op_queue)' /\ ~(Has(op_queue)' /\ Runs(t)')
      /\ Has(op_queue)' \/ Runs(t)' => Has(queue)
      /\ Pending(call'[t]) = <<>> \/ Pending(call'[t]) = Pending(call[t])
      /\ pc'[t] \notin {"strand", "leave_strand"}
      /\ \A u \in Threads \ {t} :
            call'[u] = call[u] /\ pc'[u] = pc[u] /\ cur'[u] = cur[u]
  BY TurnEffect
<1>2. OneOf(t) /\ (Has(op_queue) => locked /\ ~Holds(t)) /\ (Holds(t) => locked)
  BY DEF Scheduled
<1>3. locked' = locked /\ frame' = frame
  BY DEF OutsideStrand, strand
<1>4. \A u \in Threads \ {t} : private_queue'[u] = private_queue[u]
  BY DEF Types
<1>5. OthersStay(t)
  BY <1>1, <1>3, <1>4 DEF OthersStay, Runs
<1>6. \/ private_queue'[t] = private_queue[t] /\ (Has(queue) => Has(op_queue))
      \/ private_queue'[t] = <<>> /\ (Has(queue) => Has(op_queue) \/ Has(private_queue[t]))
  BY DEF Types
<1>7. /\ Has(Pending(call[t]))' => Has(Pending(call[t]))
      /\ Once(Pending(call[t]))'
  BY <1>1, <1>2, EmptyHas DEF OneOf
<1>8. /\ Has(private_queue[t])' => Has(private_queue[t]) /\ (Has(queue) => Has(op_queue))
      /\ Once(private_queue[t])'
  BY <1>2, <1>6, EmptyHas DEF OneOf
<1>9. Has(queue) => \/ ~Has(private_queue[t])' /\ Has(private_queue[t])
                    \/ Has(op_queue)
  BY <1>6, <1>8, EmptyHas
<1>10. OneOf(t)'
  BY <1>1, <1>2, <1>7, <1>8, <1>9 DEF OneOf, Holds
<1>11. ~(Has(op_queue)' /\ Holds(t)')
  BY <1>1, <1>2, <1>7, <1>8, <1>9 DEF OneOf, Holds
<1>12. Has(op_queue)' \/ Holds(t)' => Has(op_queue) \/ Holds(t)
  BY <1>1, <1>7, <1>8, <1>9 DEF Holds
<1> QED
  BY <1>1, <1>2, <1>3, <1>5, <1>10, <1>11, <1>12, Transfer

\* Operations of a set, in some order, do not include the strand.
LEMMA EnumerationHas ==
    ASSUME NEW hs \in SUBSET Handlers, NEW ops \in [1..Cardinality(hs) -> hs]
    PROVE  ops \in Seq(Ops) /\ ~Has(ops) /\ Once(ops)
<1>1. Cardinality(hs) \in Nat
  BY FS_Subset, FS_CardinalityType, HandlersAssumption
<1>2. ops \in Seq(hs)
  BY <1>1, SeqDef
<1>3. \A i \in DOMAIN ops : ops[i] \in Handlers /\ ops[i] # Strand
  BY HandlersAssumption
<1>4. ops \in Seq(Ops)
  BY <1>1, SeqDef, CallFormFacts
<1> QED
  BY <1>3, <1>4 DEF Has, Once

\* Nothing else in a queue is the strand.
LEMMA SimpleNames == Task # Strand /\ Descriptor # Strand /\ \A h \in Handlers : h # Strand
BY HandlersAssumption DEF Task, Descriptor, Strand

\* The queues that a turn begins with.
LEMMA TurnQueues ==
    ASSUME Types, Scheduled, NEW t \in Threads
    PROVE  /\ op_queue \in Seq(Ops) /\ Once(op_queue)
           /\ \A queue \in {op_queue \o private_queue[t], op_queue \o private_queue[t] \o <<Task>>} :
                 /\ queue \in Seq(Ops) /\ Once(queue)
                 /\ Has(queue) => Has(op_queue) \/ Has(private_queue[t])
<1>1. /\ op_queue \in Seq(Ops) /\ private_queue[t] \in Seq(Ops) /\ <<Task>> \in Seq(Ops)
      /\ Once(op_queue) /\ Once(private_queue[t]) /\ ~(Has(op_queue) /\ Has(private_queue[t]))
  BY CallFormFacts DEF Types, Scheduled, OneOf, Holds
<1> DEFINE queue == op_queue \o private_queue[t]
<1>2. /\ queue \in Seq(Ops) /\ Once(queue)
      /\ Has(queue) => Has(op_queue) \/ Has(private_queue[t])
  BY <1>1, ConcatHas
<1> HIDE DEF queue
<1>3. ~Has(<<Task>>) /\ Once(<<Task>>)
  BY SingleHas, SimpleNames
<1>4. /\ queue \o <<Task>> \in Seq(Ops) /\ Once(queue \o <<Task>>)
      /\ Has(queue \o <<Task>>) => Has(queue)
  BY <1>1, <1>2, <1>3, ConcatHas
<1> QED
  BY <1>1, <1>2, <1>4 DEF queue

\* The steps of the loop that take a turn.
LEMMA TurnSteps ==
    ASSUME Types, Scheduled, NEW t \in Threads, OutsideStrand,
           RunOne(t) \/ (Woken(t) /\ signalled) \/ TaskCleanup(t) \/ PushPrivate(t)
    PROVE  Types' /\ Scheduled'
<1> DEFINE q1 == op_queue \o private_queue[t]
           q2 == op_queue \o private_queue[t] \o <<Task>>
<1>1. /\ op_queue \in Seq(Ops) /\ Once(op_queue)
      /\ \A queue \in {q1, q2} : /\ queue \in Seq(Ops) /\ Once(queue)
                                 /\ Has(queue) => Has(op_queue) \/ Has(private_queue[t])
  BY TurnQueues
<1> HIDE DEF q1, q2
<1>2. CASE RunOne(t) \/ (Woken(t) /\ signalled)
  <2>1. Turn(t, op_queue, task_interrupted) /\ private_queue' = private_queue
    BY <1>2 DEF RunOne, Woken
  <2>2. Scheduled'
    BY <1>1, <2>1, TurnScheduled
  <2>3. /\ op_queue' \in Seq(Ops) /\ pc' \in [Threads -> Labels]
        /\ call' \in [Threads -> CallForms]
        /\ cur' \in [Threads -> [op : Ops, events : SUBSET Events]]
    BY <1>1, <2>1, TurnTypes
  <2> QED
    BY <1>2, <2>1, <2>2, <2>3 DEF RunOne, Woken, TurnUnchanged, Types, OutsideStrand, strand
<1>3. ASSUME TaskCleanup(t) \/ PushPrivate(t)
      PROVE  Types' /\ Scheduled'
  <2>1. PICK queue \in {q1, q2} : \E interrupted : Turn(t, queue, interrupted)
    BY <1>3 DEF TaskCleanup, PushPrivate, q1, q2
  <2>2. private_queue' = [private_queue EXCEPT ![t] = <<>>]
    BY <1>3 DEF TaskCleanup, PushPrivate
  <2>3. Scheduled'
    BY <1>1, <2>1, <2>2, TurnScheduled
  <2>4. /\ op_queue' \in Seq(Ops) /\ pc' \in [Threads -> Labels]
        /\ call' \in [Threads -> CallForms]
        /\ cur' \in [Threads -> [op : Ops, events : SUBSET Events]]
    BY <1>1, <2>1, TurnTypes
  <2>5. private_queue' \in [Threads -> Seq(Ops)]
    BY <2>2, EmptySeq DEF Types
  <2> QED
    BY <1>3, <2>3, <2>4, <2>5
       DEF TaskCleanup, PushPrivate, TurnUnchanged, Types, OutsideStrand, strand
<1> QED
  BY <1>2, <1>3

\* A step of a thread that leaves the queue of the service and the strand alone.
LEMMA Aside ==
    ASSUME Types, Scheduled, NEW t \in Threads,
           op_queue' = op_queue, locked' = locked,
           NEW label, pc' = [pc EXCEPT ![t] = label],
           NEW steps \in CallForms, call' = [call EXCEPT ![t] = steps],
           Once(Pending(steps)), Has(Pending(steps)) => Has(Pending(call[t])),
           NEW queue, private_queue' = [private_queue EXCEPT ![t] = queue],
           Once(queue), Has(queue) => Has(private_queue[t]),
           NEW o, cur' = [cur EXCEPT ![t] = o],
           NEW from, frame' = [frame EXCEPT ![t] = from],
           Runs(t)' => Runs(t),
           label \in {"strand", "leave_strand"} => steps = <<>>
    PROVE  Scheduled'
<1>1. /\ pc'[t] = label /\ call'[t] = steps /\ private_queue'[t] = queue
      /\ \A u \in Threads \ {t} : /\ pc'[u] = pc[u] /\ call'[u] = call[u] /\ cur'[u] = cur[u]
                                  /\ private_queue'[u] = private_queue[u] /\ frame'[u] = frame[u]
  BY DEF Types
<1>2. OthersStay(t)
  BY <1>1 DEF OthersStay, Runs
<1>3. /\ Once(Pending(call[t]))' /\ (Has(Pending(call[t]))' => Has(Pending(call[t])))
      /\ Once(private_queue[t])' /\ (Has(private_queue[t])' => Has(private_queue[t]))
      /\ pc'[t] \in {"strand", "leave_strand"} => call'[t] = <<>>
  BY <1>1
<1> QED
  BY <1>2, <1>3, Quiet

\* What is in the private queue after something was added.
LEMMA PrivateAppend ==
    ASSUME Types, Scheduled, NEW t \in Threads, NEW ops \in Seq(Ops), ~Has(ops), Once(ops)
    PROVE  /\ private_queue[t] \o ops \in Seq(Ops) /\ Once(private_queue[t] \o ops)
           /\ Has(private_queue[t] \o ops) => Has(private_queue[t])
<1>1. private_queue[t] \in Seq(Ops) /\ Once(private_queue[t])
  BY DEF Types, Scheduled, OneOf
<1> QED
  BY <1>1, ConcatHas

\* The steps of the loop that do not.
LEMMA LoopSteps ==
    ASSUME Types, Scheduled, NEW t \in Threads, OutsideStrand,
           \/ Run(t) \/ (Woken(t) /\ ~signalled) \/ WorkCleanup(t) \/ Poll(t)
           \/ CheckTimers(t) \/ PerformIo(t)
    PROVE  Types' /\ Scheduled'
<1>1. /\ locked' = locked /\ frame' = [frame EXCEPT ![t] = frame[t]]
      /\ waiting_queue' = waiting_queue /\ ready_queue' = ready_queue /\ frame' = frame
  BY DEF OutsideStrand, strand, Types
<1>2. /\ call[t] \in CallForms /\ Once(Pending(call[t]))
      /\ private_queue[t] \in Seq(Ops) /\ Once(private_queue[t])
      /\ call = [call EXCEPT ![t] = call[t]] /\ pc = [pc EXCEPT ![t] = pc[t]]
      /\ cur = [cur EXCEPT ![t] = cur[t]]
      /\ private_queue = [private_queue EXCEPT ![t] = private_queue[t]]
  BY DEF Types, Scheduled, OneOf
<1>3. \A steps \in {<<>>, <<StopLoop>>, <<Work>>} :
          steps \in CallForms /\ Once(Pending(steps)) /\ ~Has(Pending(steps))
  BY PendingForms, CallFormFacts, EmptyHas
<1>4. \A label \in Labels : [pc EXCEPT ![t] = label] \in [Threads -> Labels]
  BY DEF Types
<1>5. \A steps \in CallForms : [call EXCEPT ![t] = steps] \in [Threads -> CallForms]
  BY DEF Types
<1>6. \A queue \in Seq(Ops) : [private_queue EXCEPT ![t] = queue] \in [Threads -> Seq(Ops)]
  BY DEF Types
<1>7. CASE Run(t) \/ (Woken(t) /\ ~signalled)
  <2>1. PICK label \in {"returned", "lock", "waiting"} : pc' = [pc EXCEPT ![t] = label]
    BY <1>7 DEF Run, Woken, Goto
  <2>2. PICK steps \in {call[t], <<StopLoop>>} : call' = [call EXCEPT ![t] = steps]
    BY <1>2, <1>7 DEF Run, Woken, Calls
  <2>3. steps \in CallForms /\ Once(Pending(steps)) /\ (Has(Pending(steps)) => Has(Pending(call[t])))
    BY <1>2, <1>3
  <2>4. /\ op_queue' = op_queue /\ private_queue' = private_queue /\ cur' = cur
    BY <1>7 DEF Run, Woken, service
  <2>5. ~Runs(t)'
    BY <2>1 DEF Runs, Types
  <2>6. Scheduled'
    BY <1>1, <1>2, <2>1, <2>2, <2>3, <2>4, <2>5, Aside
  <2>7. pc' \in [Threads -> Labels] /\ call' \in [Threads -> CallForms]
    BY <1>4, <1>5, <2>1, <2>2, <2>3, LabelsOf
  <2> QED
    BY <1>1, <1>7, <2>4, <2>6, <2>7 DEF Run, Woken, Types, reactor, kernel
<1>8. CASE WorkCleanup(t)
  <2>1. PICK label \in {"lock", "push_private"} : pc' = [pc EXCEPT ![t] = label]
    BY <1>8 DEF WorkCleanup, Goto
  <2>2. PICK steps \in {<<>>, <<StopLoop>>} : call' = [call EXCEPT ![t] = steps]
    BY <1>8 DEF WorkCleanup, Calls
  <2>3. /\ op_queue' = op_queue /\ private_queue' = private_queue /\ cur' = cur
    BY <1>8 DEF WorkCleanup
  <2>4. ~Runs(t)'
    BY <2>1 DEF Runs, Types
  <2>5. Scheduled'
    BY <1>1, <1>2, <1>3, <2>1, <2>2, <2>3, <2>4, Aside
  <2>6. pc' \in [Threads -> Labels] /\ call' \in [Threads -> CallForms]
    BY <1>3, <1>4, <1>5, <2>1, <2>2, LabelsOf
  <2> QED
    BY <1>1, <1>8, <2>3, <2>5, <2>6 DEF WorkCleanup, Types, reactor, kernel
<1>9. CASE Poll(t)
  <2>1. PICK label \in {"check_timers", "task_cleanup"} : pc' = [pc EXCEPT ![t] = label]
    BY <1>9 DEF Poll, Goto
  <2>2. /\ op_queue' = op_queue /\ call' = call /\ cur' = cur
    BY <1>9 DEF Poll, service
  <2>3. private_queue[t] \o <<Descriptor>> = Append(private_queue[t], Descriptor)
    BY <1>2, AppendIsConcat, CallFormFacts
  <2>4. ~Has(<<Descriptor>>) /\ Once(<<Descriptor>>) /\ <<Descriptor>> \in Seq(Ops)
    BY SingleHas, SimpleNames, CallFormFacts
  <2>5. PICK queue \in {private_queue[t], Append(private_queue[t], Descriptor)} :
            private_queue' = [private_queue EXCEPT ![t] = queue]
    BY <1>2, <1>9 DEF Poll
  <2>6. queue \in Seq(Ops) /\ Once(queue) /\ (Has(queue) => Has(private_queue[t]))
    <3>1. CASE queue = private_queue[t]
      BY <1>2, <3>1
    <3>2. CASE queue = private_queue[t] \o <<Descriptor>>
      BY <2>4, <3>2, PrivateAppend
    <3> QED
      BY <2>3, <3>1, <3>2
  <2>7. ~Runs(t)'
    BY <2>1 DEF Runs, Types
  <2>8. Scheduled'
    BY <1>1, <1>2, <2>1, <2>2, <2>5, <2>6, <2>7, Aside
  <2>9. pc' \in [Threads -> Labels] /\ private_queue' \in [Threads -> Seq(Ops)]
    BY <1>4, <1>6, <2>1, <2>5, <2>6, LabelsOf
  <2> QED
    BY <1>1, <1>9, <2>2, <2>8, <2>9 DEF Poll, Types
<1>10. CASE CheckTimers(t)
  <2>1. PICK label \in {"task_cleanup"} : pc' = [pc EXCEPT ![t] = label]
    BY <1>10 DEF CheckTimers, Goto
  <2>2. /\ op_queue' = op_queue /\ call' = call /\ cur' = cur
    BY <1>10 DEF CheckTimers, service
  <2>3. PICK ready \in [1..Cardinality(armed \cap due) -> armed \cap due] :
            private_queue' = [private_queue EXCEPT ![t] = private_queue[t] \o ready]
    BY <1>10 DEF CheckTimers, Types
  <2>4. ready \in Seq(Ops) /\ ~Has(ready) /\ Once(ready)
    BY EnumerationHas DEF Types
  <2>5. ~Runs(t)'
    BY <2>1 DEF Runs, Types
  <2>6. PICK queue : queue = private_queue[t] \o ready
    OBVIOUS
  <2>7. /\ queue \in Seq(Ops) /\ Once(queue) /\ (Has(queue) => Has(private_queue[t]))
        /\ private_queue' = [private_queue EXCEPT ![t] = queue]
    BY <2>3, <2>4, <2>6, PrivateAppend
  <2>8. Scheduled'
    BY <1>1, <1>2, <2>1, <2>2, <2>5, <2>7, Aside
  <2>9. pc' \in [Threads -> Labels] /\ private_queue' \in [Threads -> Seq(Ops)]
    BY <1>4, <1>6, <2>1, <2>7, LabelsOf
  <2> QED
    BY <1>1, <1>10, <2>2, <2>8, <2>9 DEF CheckTimers, Types
<1>11. CASE PerformIo(t)
  <2>1. pc[t] = "complete" /\ cur[t].op = Descriptor /\ call[t] = <<>>
    BY <1>11 DEF PerformIo, Returned
  <2>2. /\ op_queue' = op_queue /\ private_queue' = private_queue /\ todo' = todo
        /\ program' = program /\ registered' \subseteq registered /\ armed' = armed
        /\ edges' = edges /\ task_result' = task_result
    BY <1>11 DEF PerformIo, Performed, service
  <2>3. \/ /\ call' = [call EXCEPT ![t] = <<Work>>] /\ cur' = cur
           /\ pc' = [pc EXCEPT ![t] = "work_cleanup"]
        \/ \E h \in registered :
              /\ cur' = [cur EXCEPT ![t].op = h] /\ pc' = pc
              /\ call' = call \/ \E g \in registered : call' = [call EXCEPT ![t] = <<Push(<<g>>)>>]
    BY <1>11 DEF PerformIo, Performed, Goto, Calls
  <2>4. registered \subseteq Handlers
    BY DEF Types
  <2>5. PICK steps \in {<<>>, <<Work>>} \cup {<<Push(<<g>>)>> : g \in registered} :
            call' = [call EXCEPT ![t] = steps]
    BY <1>2, <2>1, <2>3
  <2>6. steps \in CallForms /\ Once(Pending(steps)) /\ ~Has(Pending(steps))
    <3>1. CASE steps \in {<<>>, <<Work>>}
      BY <1>3, <3>1
    <3>2. ASSUME NEW g \in Handlers, steps = <<Push(<<g>>)>>
          PROVE  steps \in CallForms /\ Once(Pending(steps)) /\ ~Has(Pending(steps))
      <4>1. <<g>> \in Seq(Ops) /\ g # Strand
        BY CallFormFacts, SimpleNames
      <4>2. steps \in CallForms /\ Pending(steps) = <<g>>
        BY <3>2, <4>1, CallFormFacts, PendingForms
      <4> QED
        BY <4>1, <4>2, SingleHas
    <3> QED
      BY <2>4, <3>1, <3>2
  <2>7. PICK label \in {"complete", "work_cleanup"} : pc' = [pc EXCEPT ![t] = label]
    BY <1>2, <2>1, <2>3
  <2>8. PICK op \in Handlers \cup {Descriptor} : cur' = [cur EXCEPT ![t].op = op]
    <3>1. cur = [cur EXCEPT ![t].op = Descriptor]
      BY <2>1 DEF Types
    <3> QED
      BY <2>3, <2>4, <3>1
  <2>9. op \in Ops /\ op # Strand
    BY SimpleNames, CallFormFacts
  <2>10. cur' = [cur EXCEPT ![t] = [cur[t] EXCEPT !.op = op]] /\ cur'[t].op = op
    BY <2>8 DEF Types
  <2>11. ~Runs(t)'
    BY <2>7, <2>9, <2>10 DEF Runs, Types
  <2>12. Scheduled'
    BY <1>1, <1>2, <2>2, <2>5, <2>6, <2>7, <2>10, <2>11, Aside
  <2>13. pc' \in [Threads -> Labels] /\ call' \in [Threads -> CallForms]
    BY <1>4, <1>5, <2>5, <2>6, <2>7, LabelsOf
  <2>14. cur' \in [Threads -> [op : Ops, events : SUBSET Events]]
    <3>1. cur[t] \in [op : Ops, events : SUBSET Events]
      BY DEF Types
    <3>2. [cur[t] EXCEPT !.op = op] \in [op : Ops, events : SUBSET Events]
      BY <2>9, <3>1
    <3> QED
      BY <2>10, <3>2 DEF Types
  <2> QED
    BY <1>1, <2>2, <2>12, <2>13, <2>14 DEF Types
<1> QED
  BY <1>7, <1>8, <1>9, <1>10, <1>11

----------------------------------------------------------------------------
(* The commands.                                                           *)

\* Commands are about handlers, and the rest of them are commands too.
LEMMA CommandOps ==
    ASSUME Types, NEW t \in Threads, Active(t)
    PROVE  /\ Command(t).do \in {"hand_over", "cancel"} => Command(t).op \in Handlers
           /\ [todo EXCEPT ![t] = Tail(@)] \in [Threads -> Seq(CommandType)]
<1>1. todo[t] \in Seq(CommandType) /\ todo[t] # <<>>
  BY DEF Active, Types
<1>2. Head(todo[t]) \in CommandType /\ Tail(todo[t]) \in Seq(CommandType)
  BY <1>1, HeadTailProperties
<1> QED
  BY <1>2 DEF Types, CommandType, Command

\* The operation goes to the private queue or is about to be pushed.
LEMMA PostFacts ==
    ASSUME Types, Scheduled, NEW t \in Threads, call[t] = <<>>, NEW op \in Ops,
           NEW is_continuation, PostImmediate(t, op, is_continuation, <<>>)
    PROVE  \E steps \in CallForms, queue \in Seq(Ops) :
              /\ call' = [call EXCEPT ![t] = steps]
              /\ private_queue' = [private_queue EXCEPT ![t] = queue]
              /\ \/ Pending(steps) = <<>> /\ queue = Append(private_queue[t], op)
                 \/ Pending(steps) = <<op>> /\ queue = private_queue[t]
<1>1. private_queue[t] \in Seq(Ops) /\ private_queue = [private_queue EXCEPT ![t] = private_queue[t]]
  BY DEF Types
<1>2. CASE is_continuation /\ t \in Runners
  <2>1. /\ call' = [call EXCEPT ![t] = <<>>]
        /\ private_queue' = [private_queue EXCEPT ![t] = Append(private_queue[t], op)]
    BY <1>2 DEF PostImmediate, Calls, Types
  <2>2. Append(private_queue[t], op) \in Seq(Ops)
    BY <1>1, AppendProperties
  <2> QED
    BY <2>1, <2>2, PendingForms, CallFormFacts
<1>3. CASE ~(is_continuation /\ t \in Runners)
  <2>1. <<>> \o <<Work, Push(<<op>>)>> = <<Work, Push(<<op>>)>>
    OBVIOUS
  <2>2. <<op>> \in Seq(Ops)
    BY CallFormFacts
  <2>3. /\ call' = [call EXCEPT ![t] = <<Work, Push(<<op>>)>>]
        /\ private_queue' = private_queue
    BY <1>3, <2>1 DEF PostImmediate, Calls
  <2>4. <<Work, Push(<<op>>)>> \in CallForms /\ Pending(<<Work, Push(<<op>>)>>) = <<op>>
    BY <2>2, PendingForms, CallFormFacts
  <2> QED
    BY <1>1, <2>3, <2>4
<1> QED
  BY <1>2, <1>3

\* A handler is not the strand.
LEMMA PostHandler ==
    ASSUME Types, Scheduled, NEW t \in Threads, call[t] = <<>>, NEW h \in Handlers,
           NEW is_continuation, PostImmediate(t, h, is_continuation, <<>>)
    PROVE  \E steps \in CallForms, queue \in Seq(Ops) :
              /\ call' = [call EXCEPT ![t] = steps] /\ Once(Pending(steps)) /\ ~Has(Pending(steps))
              /\ private_queue' = [private_queue EXCEPT ![t] = queue]
              /\ Once(queue) /\ (Has(queue) => Has(private_queue[t]))
<1>1. h \in Ops /\ h # Strand
  BY CallFormFacts, SimpleNames
<1>2. PICK steps \in CallForms, queue \in Seq(Ops) :
              /\ call' = [call EXCEPT ![t] = steps]
              /\ private_queue' = [private_queue EXCEPT ![t] = queue]
              /\ \/ Pending(steps) = <<>> /\ queue = Append(private_queue[t], h)
                 \/ Pending(steps) = <<h>> /\ queue = private_queue[t]
  BY <1>1, PostFacts
<1>3. private_queue[t] \in Seq(Ops) /\ Once(private_queue[t])
  BY DEF Types, Scheduled, OneOf
<1>4. Once(queue) /\ (Has(queue) => Has(private_queue[t]))
  <2>1. /\ Has(Append(private_queue[t], h)) => Has(private_queue[t])
        /\ Once(Append(private_queue[t], h))
    BY <1>1, <1>3, AppendHas
  <2> QED
    BY <1>2, <1>3, <2>1
<1>5. Once(Pending(steps)) /\ ~Has(Pending(steps))
  BY <1>1, <1>2, EmptyHas, SingleHas
<1> QED
  BY <1>2, <1>4, <1>5

\* No command moves the operation of the strand.
LEMMA CommandSteps ==
    ASSUME Types, Scheduled, NEW t \in Threads, Commands(t), OutsideStrand
    PROVE  Types' /\ Scheduled'
<1>1. /\ locked' = locked /\ frame' = [frame EXCEPT ![t] = frame[t]]
      /\ waiting_queue' = waiting_queue /\ ready_queue' = ready_queue /\ frame' = frame
  BY DEF OutsideStrand, strand, Types
<1>2. /\ <<>> \in CallForms /\ Once(Pending(<<>>)) /\ ~Has(Pending(<<>>))
      /\ private_queue[t] \in Seq(Ops) /\ Once(private_queue[t])
      /\ pc = [pc EXCEPT ![t] = pc[t]] /\ cur = [cur EXCEPT ![t] = cur[t]]
      /\ private_queue = [private_queue EXCEPT ![t] = private_queue[t]]
  BY PendingForms, CallFormFacts, EmptyHas DEF Types, Scheduled, OneOf
<1>3. Active(t) /\ todo' = [todo EXCEPT ![t] = Tail(@)]
  BY DEF Commands, Post, StartOp, ScheduleTimer, CancelTimer, CancelOps, Stop, HandOver, NextCommand
<1>4. call[t] = <<>> /\ pc[t] \in {"app", "handler"}
  BY <1>3 DEF Active, Returned
<1>5. call = [call EXCEPT ![t] = <<>>]
  BY <1>4 DEF Types
<1>6. todo' \in [Threads -> Seq(CommandType)]
      /\ (Command(t).do \in {"hand_over", "cancel"} => Command(t).op \in Handlers)
  BY <1>3, CommandOps
<1>7. /\ op_queue' = op_queue /\ pc' = pc /\ cur' = cur /\ program' = program
      /\ edges' = edges /\ task_result' = task_result
  BY DEF Commands, Post, StartOp, ScheduleTimer, CancelTimer, CancelOps, Stop, service, reactor, kernel
<1>8. registered' \subseteq Handlers /\ armed' \subseteq Handlers
  BY <1>6 DEF Commands, Post, StartOp, ScheduleTimer, CancelTimer, CancelOps, Stop, HandOver,
              reactor, kernel, Types
<1>9. \E steps \in CallForms, queue \in Seq(Ops) :
         /\ call' = [call EXCEPT ![t] = steps] /\ Once(Pending(steps)) /\ ~Has(Pending(steps))
         /\ private_queue' = [private_queue EXCEPT ![t] = queue]
         /\ Once(queue) /\ (Has(queue) => Has(private_queue[t]))
  <2>1. CASE \E h \in Handlers : \E is_continuation : PostImmediate(t, h, is_continuation, <<>>)
    BY <1>4, <2>1, PostHandler
  <2>2. ASSUME private_queue' = private_queue,
               NEW steps \in CallForms, call' = [call EXCEPT ![t] = steps],
               Once(Pending(steps)) /\ ~Has(Pending(steps))
        PROVE  \E st \in CallForms, queue \in Seq(Ops) :
                  /\ call' = [call EXCEPT ![t] = st] /\ Once(Pending(st)) /\ ~Has(Pending(st))
                  /\ private_queue' = [private_queue EXCEPT ![t] = queue]
                  /\ Once(queue) /\ (Has(queue) => Has(private_queue[t]))
    BY <1>2, <2>2
  <2>3. CASE Post(t, InStrand(t))
    BY <1>6, <2>1, <2>3 DEF Post, HandOver
  <2>4. CASE \E via \in {"read", "write"} : StartOp(t, via, InStrand(t))
    <3>1. PICK via \in {"read", "write"} : StartOp(t, via, InStrand(t))
      BY <2>4
    <3>2. Command(t).op \in Handlers
      BY <1>6, <3>1 DEF StartOp, HandOver
    <3>3. CASE via \in avail /\ \A g \in registered : Via(g) # via
      BY <2>1, <3>1, <3>2, <3>3 DEF StartOp
    <3>4. CASE ~(via \in avail /\ \A g \in registered : Via(g) # via)
      BY <1>2, <1>5, <2>2, <3>1, <3>4 DEF StartOp
    <3> QED
      BY <3>3, <3>4
  <2>5. CASE ScheduleTimer(t)
    BY <1>2, <1>5, <2>2, <2>5 DEF ScheduleTimer
  <2>6. CASE CancelTimer(t)
    <3>1. Command(t).op \in Handlers
      BY <1>6, <2>6 DEF CancelTimer
    <3>2. /\ <<Command(t).op>> \in Seq(Ops) /\ Command(t).op # Strand
      BY <3>1, CallFormFacts, SimpleNames
    <3>3. /\ <<Push(<<Command(t).op>>)>> \in CallForms
          /\ Pending(<<Push(<<Command(t).op>>)>>) = <<Command(t).op>>
      BY <3>2, CallFormFacts, PendingForms
    <3>4. Once(Pending(<<Push(<<Command(t).op>>)>>)) /\ ~Has(Pending(<<Push(<<Command(t).op>>)>>))
      BY <3>2, <3>3, SingleHas
    <3>5. private_queue' = private_queue
          /\ \/ call' = [call EXCEPT ![t] = <<>>]
             \/ call' = [call EXCEPT ![t] = <<Push(<<Command(t).op>>)>>]
      BY <2>6 DEF CancelTimer, Calls
    <3> QED
      BY <1>2, <2>2, <3>3, <3>4, <3>5
  <2>7. CASE CancelOps(t)
    <3>1. private_queue' = private_queue
          /\ \/ call' = [call EXCEPT ![t] = <<>>]
             \/ \E ops \in [1..Cardinality(registered) -> registered] :
                   call' = [call EXCEPT ![t] = <<Push(ops)>>]
      BY <1>5, <2>7 DEF CancelOps, Calls
    <3>2. ASSUME NEW ops \in [1..Cardinality(registered) -> registered]
          PROVE  /\ <<Push(ops)>> \in CallForms
                 /\ Once(Pending(<<Push(ops)>>)) /\ ~Has(Pending(<<Push(ops)>>))
      <4>1. ops \in Seq(Ops) /\ ~Has(ops) /\ Once(ops)
        BY EnumerationHas DEF Types
      <4>2. <<Push(ops)>> \in CallForms /\ Pending(<<Push(ops)>>) = ops
        BY <4>1, CallFormFacts, PendingForms
      <4> QED
        BY <4>1, <4>2
    <3> QED
      BY <1>2, <2>2, <3>1, <3>2
  <2>8. CASE Stop(t)
    <3>1. <<StopLoop>> \in CallForms /\ Pending(<<StopLoop>>) = <<>>
      BY CallFormFacts, PendingForms
    <3> QED
      BY <2>2, <2>8, <3>1, EmptyHas DEF Stop, Calls
  <2> QED
    BY <2>3, <2>4, <2>5, <2>6, <2>7, <2>8 DEF Commands
<1>10. PICK steps \in CallForms, queue \in Seq(Ops) :
         /\ call' = [call EXCEPT ![t] = steps] /\ Once(Pending(steps)) /\ ~Has(Pending(steps))
         /\ private_queue' = [private_queue EXCEPT ![t] = queue]
         /\ Once(queue) /\ (Has(queue) => Has(private_queue[t]))
  BY <1>9
<1>11. Runs(t)' => Runs(t)
  BY <1>1, <1>7 DEF Runs
<1>12. Scheduled'
  BY <1>1, <1>2, <1>4, <1>7, <1>10, <1>11, Aside
<1>13. call' \in [Threads -> CallForms] /\ private_queue' \in [Threads -> Seq(Ops)]
  BY <1>10 DEF Types
<1> QED
  BY <1>1, <1>6, <1>7, <1>8, <1>12, <1>13 DEF Types

----------------------------------------------------------------------------
(* The strand.                                                             *)

\* A thread leaves the strand: it pushes the operation again, or unlocks.
LEMMA LeaveStep ==
    ASSUME Types, Scheduled, NEW t \in Threads, LeaveStrand(t)
    PROVE  Types' /\ Scheduled'
<1>1. PICK is_continuation : Exit(t, is_continuation)
  BY DEF LeaveStrand
<1>2. Runs(t) /\ call[t] = <<>> /\ Once(op_queue) /\ OneOf(t) /\ locked /\ ~Has(op_queue)
  BY DEF LeaveStrand, Runs, Scheduled, Holds
<1>3. /\ op_queue' = op_queue /\ cur' = cur /\ frame' = frame /\ pc' = [pc EXCEPT ![t] = "work_cleanup"]
      /\ waiting_queue' = <<>> /\ ready_queue' = ready_queue \o waiting_queue
  BY <1>1 DEF LeaveStrand, InsideStrand, service, Exit, Goto
<1>4. ~Runs(t)' /\ pc'[t] = "work_cleanup"
  BY <1>3 DEF Runs, Types
<1>5. ~Has(Pending(call[t])) /\ ~Has(private_queue[t]) /\ Once(private_queue[t])
      /\ private_queue[t] \in Seq(Ops)
  BY <1>2 DEF OneOf, Types
<1>6. \E steps \in CallForms, queue \in Seq(Ops) :
         /\ call' = [call EXCEPT ![t] = steps]
         /\ private_queue' = [private_queue EXCEPT ![t] = queue]
         /\ \/ locked' /\ Pending(steps) = <<>> /\ queue = Append(private_queue[t], Strand)
            \/ locked' /\ Pending(steps) = <<Strand>> /\ queue = private_queue[t]
            \/ ~locked' /\ Pending(steps) = <<>> /\ queue = private_queue[t]
  <2>1. CASE locked'
    <3>1. PostImmediate(t, Strand, is_continuation, <<>>) /\ Strand \in Ops
      BY <1>1, <2>1, CallFormFacts DEF Exit
    <3> QED
      BY <1>2, <2>1, <3>1, PostFacts
  <2>2. CASE ~locked'
    <3>1. call' = [call EXCEPT ![t] = <<>>] /\ private_queue' = [private_queue EXCEPT ![t] = private_queue[t]]
      BY <1>1, <1>2, <2>2 DEF Exit, Types
    <3> QED
      BY <1>5, <2>2, <3>1, PendingForms, CallFormFacts
  <2> QED
    BY <2>1, <2>2
<1>7. PICK steps \in CallForms, queue \in Seq(Ops) :
         /\ call' = [call EXCEPT ![t] = steps]
         /\ private_queue' = [private_queue EXCEPT ![t] = queue]
         /\ \/ locked' /\ Pending(steps) = <<>> /\ queue = Append(private_queue[t], Strand)
            \/ locked' /\ Pending(steps) = <<Strand>> /\ queue = private_queue[t]
            \/ ~locked' /\ Pending(steps) = <<>> /\ queue = private_queue[t]
  BY <1>6
<1>8. call'[t] = steps /\ private_queue'[t] = queue
  BY <1>7 DEF Types
<1>9. /\ Has(Append(private_queue[t], Strand)) /\ Once(Append(private_queue[t], Strand))
      /\ Has(<<Strand>>) /\ Once(<<Strand>>)
  BY <1>5, AppendHas, SingleHas, CallFormFacts
<1>10. OneOf(t)' /\ (Holds(t)' => locked')
  BY <1>4, <1>5, <1>7, <1>8, <1>9, EmptyHas DEF OneOf, Holds
<1>11. Once(op_queue)' /\ ~Has(op_queue)'
  BY <1>2, <1>3 DEF Once, Has
<1>12. OthersStay(t)
  BY <1>3, <1>7 DEF OthersStay, Runs, Types
<1>13. Holds(t)
  BY <1>2 DEF Holds
<1>14. Scheduled'
  BY <1>4, <1>10, <1>11, <1>12, <1>13, Transfer
<1>15. ready_queue' \in Seq(Handlers) /\ waiting_queue' \in Seq(Handlers)
  BY <1>3, ConcatProperties, EmptySeq DEF Types
<1>16. pc' \in [Threads -> Labels] /\ call' \in [Threads -> CallForms]
       /\ private_queue' \in [Threads -> Seq(Ops)]
  BY <1>3, <1>7, LabelsOf DEF Types
<1> QED
  BY <1>3, <1>14, <1>15, <1>16 DEF LeaveStrand, InsideStrand, reactor, kernel, Types

\* A handler that is called brings commands of its own.
LEMMA InvokeTypes ==
    ASSUME Types, NEW t \in Threads, NEW h \in Handlers, NEW from \in {"loop", "dispatch", "do_complete"},
           Invoke(t, h, from)
    PROVE  /\ todo' \in [Threads -> Seq(CommandType)]
           /\ frame' \in [Threads -> {"loop", "dispatch", "do_complete"}]
           /\ pc' \in [Threads -> Labels]
           /\ pc' = [pc EXCEPT ![t] = "handler"] /\ frame' = [frame EXCEPT ![t] = from]
<1>1. program.does[h] \in Seq(CommandType)
  BY DEF Types
<1> QED
  BY <1>1, LabelsOf DEF Invoke, Goto, Types

\* A thread enters the strand or is called from it, locked.
LEMMA EnterSteps ==
    ASSUME Types, Scheduled, NEW t \in Threads,
           CompleteHandler(t) \/ Dispatch(t) \/ CompleteStrand(t) \/ RunReady(t) \/ HandlerEnds(t)
    PROVE  Types' /\ Scheduled'
<1>1. /\ call' = call /\ private_queue' = private_queue /\ op_queue' = op_queue /\ cur' = cur
      /\ program' = program /\ registered' = registered /\ armed' = armed /\ edges' = edges
      /\ task_result' = task_result
  BY DEF CompleteHandler, Dispatch, CompleteStrand, RunReady, HandlerEnds, InsideStrand,
         service, reactor, kernel
<1>2. call[t] = <<>>
  BY DEF CompleteHandler, Dispatch, CompleteStrand, RunReady, HandlerEnds, Returned, Scheduled
<1>3. \A label \in Labels : [pc EXCEPT ![t] = label] \in [Threads -> Labels]
  BY DEF Types
<1>4. /\ pc = [pc EXCEPT ![t] = pc[t]] /\ cur = [cur EXCEPT ![t] = cur[t]]
      /\ frame = [frame EXCEPT ![t] = frame[t]] /\ call = [call EXCEPT ![t] = <<>>]
      /\ private_queue = [private_queue EXCEPT ![t] = private_queue[t]]
      /\ <<>> \in CallForms /\ Once(Pending(<<>>)) /\ ~Has(Pending(<<>>))
      /\ Once(private_queue[t])
  BY <1>2, PendingForms, CallFormFacts, EmptyHas DEF Types, Scheduled, OneOf
<1>5. CASE CompleteHandler(t)
  <2>1. Invoke(t, cur[t].op, "loop") /\ cur[t].op \in Handlers /\ UNCHANGED strand
    BY <1>5 DEF CompleteHandler
  <2>2. /\ todo' \in [Threads -> Seq(CommandType)]
        /\ frame' \in [Threads -> {"loop", "dispatch", "do_complete"}]
        /\ pc' \in [Threads -> Labels]
        /\ pc' = [pc EXCEPT ![t] = "handler"] /\ frame' = [frame EXCEPT ![t] = "loop"]
    BY <2>1, InvokeTypes
  <2>3. ~Runs(t)'
    BY <2>2 DEF Runs, Types
  <2>4. Scheduled'
    BY <1>1, <1>4, <2>1, <2>2, <2>3, Aside DEF strand
  <2> QED
    BY <1>1, <2>1, <2>2, <2>4 DEF Types, strand
<1>6. CASE Dispatch(t) /\ locked
  <2>1. /\ pc' = [pc EXCEPT ![t] = "work_cleanup"] /\ frame' = frame /\ locked' = locked
        /\ todo' = todo /\ ready_queue' = ready_queue
        /\ waiting_queue' = Append(waiting_queue, cur[t].op) /\ cur[t].op \in Handlers
    BY <1>6 DEF Dispatch, Goto
  <2>2. ~Runs(t)'
    BY <2>1 DEF Runs, Types
  <2>3. Scheduled'
    BY <1>1, <1>4, <2>1, <2>2, Aside
  <2>4. pc' \in [Threads -> Labels] /\ waiting_queue' \in Seq(Handlers)
    BY <1>3, <2>1, LabelsOf, AppendProperties DEF Types
  <2> QED
    BY <1>1, <2>1, <2>3, <2>4 DEF Types
<1>7. CASE Dispatch(t) /\ ~locked
  <2>1. Invoke(t, cur[t].op, "dispatch") /\ cur[t].op \in Handlers /\ locked'
        /\ waiting_queue' = waiting_queue /\ ready_queue' = ready_queue
    BY <1>7 DEF Dispatch
  <2>2. /\ todo' \in [Threads -> Seq(CommandType)]
        /\ frame' \in [Threads -> {"loop", "dispatch", "do_complete"}]
        /\ pc' \in [Threads -> Labels]
        /\ pc' = [pc EXCEPT ![t] = "handler"] /\ frame' = [frame EXCEPT ![t] = "dispatch"]
    BY <2>1, InvokeTypes
  <2>3. Once(op_queue) /\ ~Has(op_queue) /\ ~Holds(t) /\ OneOf(t)
    BY <1>7 DEF Scheduled
  <2>4. Once(op_queue)' /\ ~Has(op_queue)'
    BY <1>1, <2>3 DEF Once, Has
  <2>5. /\ Has(Pending(call[t]))' <=> Has(Pending(call[t]))
        /\ Once(Pending(call[t]))' <=> Once(Pending(call[t]))
        /\ Has(private_queue[t])' <=> Has(private_queue[t])
        /\ Once(private_queue[t])' <=> Once(private_queue[t])
    BY <1>1 DEF Has, Once, Pending
  <2>6. OneOf(t)'
    BY <2>3, <2>5 DEF OneOf, Holds
  <2>7. OthersStay(t)
    BY <1>1, <2>2 DEF OthersStay, Runs, Types
  <2>8. pc'[t] \notin {"strand", "leave_strand"}
    BY <2>2 DEF Types
  <2>9. Scheduled'
    BY <1>7, <2>1, <2>4, <2>6, <2>7, <2>8, Transfer
  <2> QED
    BY <1>1, <2>1, <2>2, <2>9 DEF Types
<1>8. CASE CompleteStrand(t)
  <2>1. /\ pc' = [pc EXCEPT ![t] = "strand"] /\ Runs(t) /\ todo' = todo
        /\ UNCHANGED <<strand, frame>>
    BY <1>8 DEF CompleteStrand, Goto, Runs
  <2>2. Scheduled'
    BY <1>1, <1>4, <2>1, Aside DEF strand
  <2>3. pc' \in [Threads -> Labels]
    BY <1>3, <2>1, LabelsOf
  <2> QED
    BY <1>1, <2>1, <2>2, <2>3 DEF Types, strand
<1>9. CASE RunReady(t)
  <2>1. ready_queue # <<>> /\ ready_queue' = Tail(ready_queue)
        /\ Invoke(t, Head(ready_queue), "do_complete") /\ locked' = locked
        /\ waiting_queue' = waiting_queue /\ Runs(t)
    BY <1>9 DEF RunReady, Runs
  <2>2. Head(ready_queue) \in Handlers /\ ready_queue' \in Seq(Handlers)
    BY <2>1, HeadTailProperties DEF Types
  <2>3. /\ todo' \in [Threads -> Seq(CommandType)]
        /\ frame' \in [Threads -> {"loop", "dispatch", "do_complete"}]
        /\ pc' \in [Threads -> Labels]
        /\ pc' = [pc EXCEPT ![t] = "handler"] /\ frame' = [frame EXCEPT ![t] = "do_complete"]
    BY <2>1, <2>2, InvokeTypes
  <2>4. Scheduled'
    BY <1>1, <1>4, <2>1, <2>3, Aside
  <2> QED
    BY <1>1, <2>1, <2>2, <2>3, <2>4 DEF Types
<1>10. CASE HandlerEnds(t)
  <2>1. PICK label \in {"work_cleanup", "leave_strand", "strand"} : pc' = [pc EXCEPT ![t] = label]
    BY <1>10 DEF HandlerEnds, Goto, Types
  <2>2. label # "work_cleanup" => frame[t] # "loop"
    BY <1>10, <2>1 DEF HandlerEnds, Goto, Types
  <2>3. UNCHANGED <<strand, frame, todo>> /\ pc[t] = "handler"
    BY <1>10 DEF HandlerEnds
  <2>4. Runs(t)' => Runs(t)
    BY <2>1, <2>2, <2>3 DEF Runs, Types
  <2>5. Scheduled'
    BY <1>1, <1>4, <2>1, <2>3, <2>4, Aside DEF strand
  <2>6. pc' \in [Threads -> Labels]
    BY <1>3, <2>1, LabelsOf
  <2> QED
    BY <1>1, <2>3, <2>5, <2>6 DEF Types, strand
<1> QED
  BY <1>5, <1>6, <1>7, <1>8, <1>9, <1>10

\* A thread posts to the strand, and locks it if it was not, or pushes the handler
\* and goes on to schedule the strand.
LEMMA PostSteps ==
    ASSUME Types, Scheduled, NEW t \in Threads, StrandPost(t) \/ PushReady(t)
    PROVE  Types' /\ Scheduled'
<1>1. /\ private_queue' = private_queue /\ op_queue' = op_queue /\ cur' = cur
      /\ program' = program /\ registered' = registered /\ armed' = armed /\ edges' = edges
      /\ task_result' = task_result /\ pc' = pc /\ frame' = frame
  BY DEF StrandPost, PushReady, InsideStrand, service, reactor, kernel
<1>2. /\ pc = [pc EXCEPT ![t] = pc[t]] /\ cur = [cur EXCEPT ![t] = cur[t]]
      /\ frame = [frame EXCEPT ![t] = frame[t]]
      /\ private_queue = [private_queue EXCEPT ![t] = private_queue[t]]
      /\ <<>> \in CallForms /\ Once(Pending(<<>>)) /\ ~Has(Pending(<<>>))
      /\ Once(private_queue[t])
  BY PendingForms, CallFormFacts, EmptyHas DEF Types, Scheduled, OneOf
<1>3. Runs(t)' <=> Runs(t)
  BY <1>1 DEF Runs
<1>4. CASE StrandPost(t)
  <2>1. /\ Command(t).op \in Handlers /\ call[t] = <<>> /\ ready_queue' = ready_queue
        /\ todo' \in [Threads -> Seq(CommandType)] /\ pc[t] \in {"app", "handler"}
    BY <1>4, CommandOps DEF StrandPost, HandOver, NextCommand, Active, Returned
  <2>2. CASE locked
    <3>1. call' = [call EXCEPT ![t] = <<>>] /\ call' = call /\ locked' = locked
          /\ waiting_queue' = Append(waiting_queue, Command(t).op)
      BY <1>4, <2>1, <2>2 DEF StrandPost, Types
    <3>2. Scheduled'
      BY <1>1, <1>2, <1>3, <2>1, <3>1, Aside
    <3>3. waiting_queue' \in Seq(Handlers)
      BY <2>1, <3>1, AppendProperties DEF Types
    <3> QED
      BY <1>1, <2>1, <3>1, <3>2, <3>3 DEF Types
  <2>3. CASE ~locked
    <3>1. PICK h \in Handlers : /\ call' = [call EXCEPT ![t] = <<ToReady(h), Work, Push(<<Strand>>)>>]
                                /\ locked' /\ waiting_queue' = waiting_queue
      BY <1>4, <2>1, <2>3 DEF StrandPost, Calls
    <3>2. call'[t] = <<ToReady(h), Work, Push(<<Strand>>)>>
      BY <3>1 DEF Types
    <3>3. Pending(call'[t]) = <<Strand>>
      BY <3>2, PendingForms
    <3>4. OthersStay(t)
      BY <1>1, <3>1 DEF OthersStay, Runs, Types
    <3>5. Once(op_queue) /\ ~Has(op_queue) /\ ~Holds(t) /\ OneOf(t)
      BY <2>3 DEF Scheduled
    <3>6. Once(op_queue)' /\ ~Has(op_queue)'
      BY <1>1, <3>5 DEF Once, Has
    <3>7. OneOf(t)'
      <4>1. Once(private_queue[t])' /\ ~Has(private_queue[t])' /\ ~Runs(t)'
        BY <1>1, <1>3, <3>5 DEF Has, Once, OneOf, Holds
      <4>2. Once(Pending(call[t]))'
        BY <3>3, SingleHas
      <4> QED
        BY <4>1, <4>2 DEF OneOf
    <3>8. pc'[t] \notin {"strand", "leave_strand"}
      BY <1>1, <2>1
    <3>9. Scheduled'
      BY <2>3, <3>1, <3>4, <3>6, <3>7, <3>8, Transfer
    <3>10. call' \in [Threads -> CallForms]
      BY <3>1, CallFormFacts DEF Types
    <3> QED
      BY <1>1, <2>1, <3>1, <3>9, <3>10 DEF Types
  <2> QED
    BY <2>2, <2>3
<1>5. CASE PushReady(t)
  <2>1. Is(t, "ready_queue_.push") /\ call' = [call EXCEPT ![t] = Tail(call[t])]
        /\ ready_queue' = Append(ready_queue, Head(call[t]).op)
        /\ UNCHANGED <<locked, waiting_queue, todo>>
    BY <1>5 DEF PushReady, Calls
  <2>2. PICK h \in Handlers : /\ call[t] = <<ToReady(h), Work, Push(<<Strand>>)>>
                              /\ Head(call[t]).op = h /\ Tail(call[t]) = <<Work, Push(<<Strand>>)>>
    BY <2>1, StepForms
  <2>3. Pending(call[t]) = <<Strand>> /\ Pending(Tail(call[t])) = <<Strand>>
    BY <2>2, PendingForms
  <2>4. Tail(call[t]) \in CallForms
    BY <2>2, CallFormFacts
  <2>5. Once(Pending(Tail(call[t]))) /\ (Has(Pending(Tail(call[t]))) => Has(Pending(call[t])))
    BY <2>3, SingleHas
  <2>6. pc[t] \notin {"strand", "leave_strand"}
    BY <2>1 DEF Scheduled, Is
  <2>7. Scheduled'
    BY <1>1, <1>2, <1>3, <2>1, <2>4, <2>5, <2>6, Aside
  <2>8. ready_queue' \in Seq(Handlers) /\ call' \in [Threads -> CallForms]
    BY <2>1, <2>2, <2>4, AppendProperties DEF Types
  <2> QED
    BY <1>1, <2>1, <2>7, <2>8 DEF Types
<1> QED
  BY <1>4, <1>5

----------------------------------------------------------------------------
(* The theorem.                                                            *)

\* Neither the socket, nor time, nor a spurious wakeup touches the strand.
LEMMA EnvironmentStep ==
    ASSUME Types, Scheduled, Environment
    PROVE  Types' /\ Scheduled'
<1>1. /\ locked' = locked /\ frame' = frame
      /\ waiting_queue' = waiting_queue /\ ready_queue' = ready_queue
  BY DEF Environment, OutsideStrand, strand
<1>2. CASE \E via \in {"read", "write"} : SocketReady(via)
  <2>1. UNCHANGED <<op_queue, call, private_queue, pc, cur, todo, registered, armed, task_result>>
    BY <1>2 DEF SocketReady, service, threads
  <2>2. Scheduled'
    BY <1>1, <2>1 DEF Scheduled, OneOf, Holds, Runs, Pending, Has, Once
  <2>3. PICK via \in Events : /\ program' = [program EXCEPT !.arrives = @ \ {via}]
                              /\ edges' = edges \cup {via}
    BY <1>2 DEF SocketReady, Events
  <2>4. edges' \subseteq Events
    BY <2>3 DEF Types
  <2>5. program' \in [via : [Handlers -> {"post", "strand", "read", "write", "timer"}],
                      wrapped : [Handlers -> BOOLEAN],
                      does : [Handlers \cup Apps -> Seq(CommandType)],
                      started : SUBSET Handlers,
                      arrives : SUBSET Events]
    BY <2>3 DEF Types
  <2> QED
    BY <1>1, <2>1, <2>2, <2>4, <2>5 DEF Types
<1>3. CASE \E h \in Handlers : TimePasses(h)
  <2>1. UNCHANGED <<program, op_queue, call, private_queue, pc, cur, todo, registered, armed,
                    edges, task_result>>
    BY <1>3 DEF TimePasses, service, threads
  <2>2. Scheduled'
    BY <1>1, <2>1 DEF Scheduled, OneOf, Holds, Runs, Pending, Has, Once
  <2> QED
    BY <1>1, <2>1, <2>2 DEF Types
<1>4. CASE \E t \in Runners : SpuriousWakeup(t)
  <2>1. UNCHANGED <<program, op_queue, call, private_queue, cur, todo, registered, armed,
                    edges, task_result>>
    BY <1>4 DEF SpuriousWakeup, service, reactor, kernel
  <2>2. PICK t \in Threads : pc[t] = "waiting" /\ pc' = [pc EXCEPT ![t] = "woken"]
    BY <1>4 DEF SpuriousWakeup, Goto, Threads
  <2>3. \A u \in Threads : /\ Runs(u)' <=> Runs(u)
                           /\ pc'[u] \in {"strand", "leave_strand"} => pc[u] \in {"strand", "leave_strand"}
    BY <1>1, <2>1, <2>2 DEF Runs, Types
  <2>4. Scheduled'
    BY <1>1, <2>1, <2>3 DEF Scheduled, OneOf, Holds, Pending, Has, Once
  <2>5. pc' \in [Threads -> Labels]
    BY <2>2 DEF Types, Labels
  <2> QED
    BY <1>1, <2>1, <2>4, <2>5 DEF Types
<1> QED
  BY <1>2, <1>3, <1>4 DEF Environment

\* At the start the strand is not locked and nowhere.
LEMMA InitScheduled == Init => Types /\ Scheduled
<1> SUFFICES ASSUME Init PROVE Types /\ Scheduled
  OBVIOUS
<1> USE DEF Init, IoInit
<1>1. program \in Programs
  OBVIOUS
<1>2. program \in [via : [Handlers -> {"post", "strand", "read", "write", "timer"}],
                   wrapped : [Handlers -> BOOLEAN],
                   does : [Handlers \cup Apps -> Seq(CommandType)],
                   started : SUBSET Handlers,
                   arrives : SUBSET Events]
  BY <1>1, ProgramsAssumption DEF Events
<1>3. todo \in [Threads -> Seq(CommandType)]
  BY <1>2, EmptySeq DEF Threads
<1>4. op_queue \in Seq(Ops) /\ waiting_queue \in Seq(Handlers) /\ ready_queue \in Seq(Handlers)
      /\ private_queue \in [Threads -> Seq(Ops)]
  BY CallFormFacts, EmptySeq
<1>5. pc \in [Threads -> Labels] /\ call \in [Threads -> CallForms]
      /\ cur \in [Threads -> [op : Ops, events : SUBSET Events]]
  BY CallFormFacts DEF Labels
<1>6. Types
  BY <1>2, <1>3, <1>4, <1>5 DEF Types
<1>7. Once(op_queue) /\ ~Has(op_queue)
  BY SingleHas, SimpleNames
<1>8. \A t \in Threads : ~Runs(t)
  BY DEF Runs
<1>9. \A t \in Threads : /\ call[t] = <<>> /\ Pending(call[t]) = <<>> /\ private_queue[t] = <<>>
  BY PendingForms
<1>10. \A t \in Threads : OneOf(t) /\ ~Holds(t)
  BY <1>8, <1>9, EmptyHas DEF OneOf, Holds
<1> QED
  BY <1>6, <1>7, <1>9, <1>10 DEF Scheduled

\* Every step keeps the inductive invariant.
LEMMA NextScheduled == Types /\ Scheduled /\ [Next]_vars => Types' /\ Scheduled'
<1> SUFFICES ASSUME Types, Scheduled, [Next]_vars PROVE Types' /\ Scheduled'
  OBVIOUS
<1>1. CASE Environment
  BY <1>1, EnvironmentStep
<1>2. ASSUME NEW t \in Threads, CallSteps(t), OutsideStrand PROVE Types' /\ Scheduled'
  BY <1>2, CallStepTypes, CallStepScheduled
<1>3. ASSUME NEW t \in Threads, Loop(t), OutsideStrand PROVE Types' /\ Scheduled'
  BY <1>3, TurnSteps, LoopSteps DEF Loop
<1>4. ASSUME NEW t \in Threads, Commands(t), OutsideStrand PROVE Types' /\ Scheduled'
  BY <1>4, CommandSteps
<1>5. ASSUME NEW t \in Threads, StrandSteps(t) PROVE Types' /\ Scheduled'
  BY <1>5, EnterSteps, LeaveStep, PostSteps DEF StrandSteps
<1>6. CASE UNCHANGED vars
  <2>1. UNCHANGED <<program, op_queue, registered, armed, edges, task_result, pc, call, todo, cur,
                    private_queue, waiting_queue, ready_queue, locked, frame>>
    BY <1>6 DEF vars, ioVars, service, reactor, kernel, threads, strand
  <2> QED
    BY <2>1 DEF Types, Scheduled, OneOf, Holds, Runs, Pending, Has, Once
<1> QED
  BY <1>1, <1>2, <1>3, <1>4, <1>5, <1>6 DEF Next, Step

\* The inductive invariant always holds.
LEMMA AlwaysScheduled == Spec => [](Types /\ Scheduled)
BY InitScheduled, NextScheduled, PTL DEF Spec

\* No two threads are about to access the ready queue of the strand, which is
\* accessed without a lock (strand_service.ipp:161).
THEOREM ReadyQueueOwnedCorrect == Spec => []ReadyQueueOwned
<1>1. Types /\ Scheduled => ReadyQueueOwned
  <2> SUFFICES ASSUME Types, Scheduled, NEW t \in Threads, AtReadyQueue(t) PROVE Holds(t)
    BY DEF ReadyQueueOwned, Scheduled
  <2>1. CASE pc[t] \in {"strand", "leave_strand"}
    BY <2>1 DEF Holds, Runs
  <2>2. CASE Is(t, "ready_queue_.push")
    <3>1. Pending(call[t]) = <<Strand>>
      BY <2>2, StepForms, PendingForms
    <3> QED
      BY <3>1, SingleHas DEF Holds
  <2> QED
    BY <2>1, <2>2 DEF AtReadyQueue
<1> QED
  BY <1>1, AlwaysScheduled, PTL

\* The handlers that the strand runs do not run at once: no two threads are in a
\* handler that the strand called.
StrandExcludes == \A t, u \in Threads : InStrand(t) /\ InStrand(u) => t = u

\* The promise of the strand that its users build on: two of its handlers never
\* run concurrently.
THEOREM StrandExcludesCorrect == Spec => []StrandExcludes
<1>1. Types /\ Scheduled => StrandExcludes
  BY DEF StrandExcludes, InStrand, Scheduled, Holds, Runs
<1> QED
  BY <1>1, AlwaysScheduled, PTL
=============================================================================
