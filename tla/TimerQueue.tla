----------------------------- MODULE TimerQueue -----------------------------
(* asio's timer_queue: timers with the operations that wait for them, in a   *)
(* heap by their time and in a doubly linked list of all that are active.    *)
(* The reactor calls it under its mutex: a call ends before the next begins. *)
(* Each turn of its loops is an action.                                      *)
(*                                                                           *)
(* Indices count from 0, as in the code: that at index i is heap_[i + 1].    *)
(* Operations are numbers; one that was handed over can be enqueued again.   *)
(***************************************************************************)
EXTENDS Integers, FiniteSets, SequencesExt

CONSTANTS MaxTimers,    \* bounds: per_timer_data objects,
          MaxTime,      \* what a clock shows and when timers expire,
          MaxOps,       \* operations that wait at once,
          MaxCalls      \* and calls, from a queue that can already hold timers

ASSUME BoundsAssumption == {MaxTimers, MaxTime, MaxOps, MaxCalls} \subseteq Nat

Timers == 1..MaxTimers
null   == 0

VARIABLES
    heap_,
    heap_index_,        \* of a timer
    op_queue_,          \* of a timer
    next_, prev_,       \* of a timer
    timers_,            \* the head of the list
    now,
    stage,              \* of the call under way, "idle" if there is none: the loop it is
                        \* in, or "unlink" if only the list is left to do
    timer, index,       \* its locals: the timer it is about, where the loop has got to
    waits,              \* of the operations that were enqueued and not handed over:
                        \* when they are due
    outcome,            \* of the last call, or of this one so far: what it returns, or
                        \* when the operations it hands over are due
    calls

links      == <<next_, prev_, timers_>>
heapVars   == <<heap_, heap_index_>>
locals_    == <<timer, index>>
timerVars  == <<heapVars, op_queue_, links, now, stage, locals_, waits, outcome, calls>>

\* A queue into which some timers, with one operation each, were enqueued, in an order
\* in which each could stay where it was appended.
Filled(times) ==
    LET n == Len(times) IN
    /\ \A k \in 2..n : times[k \div 2] <= times[k]
    /\ heap_ = [k \in 1..n |-> [time_ |-> times[k], timer_ |-> k]]
    /\ heap_index_ = [t \in Timers |-> IF t <= n THEN t - 1 ELSE 0]
    /\ op_queue_ = [t \in Timers |-> IF t <= n THEN <<t>> ELSE <<>>]
    /\ timers_ = n
    /\ next_ = [t \in Timers |-> IF t <= n THEN t - 1 ELSE null]
    /\ prev_ = [t \in Timers |-> IF t < n THEN t + 1 ELSE null]
    /\ waits = times

Start ==
    /\ now = 0
    /\ stage = "idle" /\ timer = null /\ index = 0
    /\ outcome = [call |-> "none"]
    /\ calls = 0

QueueInit ==
    /\ \E times \in BoundedSeq(0..MaxTime, MaxTimers) : Filled(times)
    /\ Start

\* A definition marked "Mutant" is a plausible bug that no action uses: with it
\* in place of the one it precedes the property it is named for fails.

----------------------------------------------------------------------------
(* The heap.                                                               *)

Time(i)   == heap_[i + 1].time_
Parent(i) == (i - 1) \div 2

\* swap_heap: the heap and the index each timer has stored, after it.
Swapped(i, j) == [heap_ EXCEPT ![i + 1] = heap_[j + 1], ![j + 1] = heap_[i + 1]]
SwappedIndex(i, j) ==
    [heap_index_ EXCEPT ![heap_[j + 1].timer_] = i, ![heap_[i + 1].timer_] = j]

SwapHeap(i, j) == heap_' = Swapped(i, j) /\ heap_index_' = SwappedIndex(i, j)

\* The conditions on which the loops go on.
Rises == index > 0 /\ Time(index) < Time(Parent(index))

Child == 2 * index + 1
MinChild ==
    IF Child + 1 = Len(heap_) \/ Time(Child) < Time(Child + 1) THEN Child ELSE Child + 1
Sinks == Child < Len(heap_) /\ ~(Time(index) < Time(MinChild))

MoveTo(i) ==
    /\ SwapHeap(index, i)
    /\ index' = i
    /\ UNCHANGED <<op_queue_, links, now, stage, timer, waits, outcome>>

\* A turn of up_heap,
UpHeap == stage = "up" /\ Rises /\ MoveTo(Parent(index))

\* and one of down_heap.
DownHeap == stage = "down" /\ Sinks /\ MoveTo(MinChild)

\* Mutant for QueueConsistent: what takes the place of the timer only goes down.
RemoveDown(t) ==
    LET i == heap_index_[t]
        last == Len(heap_) - 1
    IN /\ timer' = t
       /\ IF i >= last
          THEN /\ heap_' = IF i = last THEN Front(heap_) ELSE heap_
               /\ stage' = "unlink"
               /\ UNCHANGED <<heap_index_, index>>
          ELSE /\ heap_' = Front(Swapped(i, last)) /\ heap_index_' = SwappedIndex(i, last)
               /\ stage' = "down"
               /\ index' = i

\* The first part of remove_timer: the last entry takes its place, and goes up or down.
RemoveTimer(t) ==
    LET i == heap_index_[t]
        last == Len(heap_) - 1
    IN /\ timer' = t
       /\ IF i >= last
          THEN /\ heap_' = IF i = last THEN Front(heap_) ELSE heap_
               /\ stage' = "unlink"
               /\ UNCHANGED <<heap_index_, index>>
          ELSE /\ heap_' = Front(Swapped(i, last)) /\ heap_index_' = SwappedIndex(i, last)
               /\ stage' = IF i > 0 /\ heap_'[i + 1].time_ < heap_'[Parent(i) + 1].time_
                           THEN "up" ELSE "down"
               /\ index' = i

\* The second part: out of the list.
UnlinkTimer ==
    LET before == prev_[timer]
        behind == next_[timer]
    IN /\ \/ stage = "unlink"
          \/ stage = "up" /\ ~Rises /\ outcome.call # "enqueue"
          \/ stage = "down" /\ ~Sinks
       /\ timers_' = IF timers_ = timer THEN behind ELSE timers_
       /\ next_' = [t \in Timers |-> IF t = timer THEN null
                                     ELSE IF t = before THEN behind ELSE next_[t]]
       /\ prev_' = [t \in Timers |-> IF t = timer THEN null
                                     ELSE IF t = behind THEN before ELSE prev_[t]]
       /\ stage' = IF outcome.call = "ready" THEN "ready" ELSE "idle"
       /\ UNCHANGED <<heapVars, op_queue_, now, locals_, waits, outcome>>

Active(t) == prev_[t] # null \/ timers_ = t

----------------------------------------------------------------------------
(* The calls.                                                              *)

\* The end of enqueue_timer.
EnqueueOp(t, op, time) ==
    /\ op_queue_' = [op_queue_ EXCEPT ![t] = Append(@, op)]
    /\ waits' = [o \in DOMAIN waits \cup {op} |-> IF o = op THEN time ELSE waits[o]]
    /\ outcome' = [call |-> "enqueue", op |-> op, time |-> time,
                   earliest |-> heap_index_[t] = 0 /\ op_queue_'[t][1] = op]
    /\ stage' = "idle"
    /\ UNCHANGED <<heapVars, now>>

\* enqueue_timer. A timer that is active keeps its time.
EnqueueActive(t, op) ==
    /\ Active(t)
    /\ EnqueueOp(t, op, waits[op_queue_[t][1]])
    /\ UNCHANGED <<links, locals_>>

EnqueueTimer(time, t, op) ==
    /\ ~Active(t)
    /\ heap_' = Append(heap_, [time_ |-> time, timer_ |-> t])
    /\ heap_index_' = [heap_index_ EXCEPT ![t] = Len(heap_)]
    /\ stage' = "up" /\ timer' = t /\ index' = Len(heap_)
    /\ outcome' = [call |-> "enqueue", op |-> op, time |-> time]
    /\ UNCHANGED <<op_queue_, links, now, waits>>

\* Once it has its place in the heap the timer is the first of the list.
InsertTimer ==
    /\ stage = "up" /\ ~Rises /\ outcome.call = "enqueue"
    /\ next_' = [next_ EXCEPT ![timer] = timers_]
    /\ prev_' = [t \in Timers |-> IF t = timers_ THEN timer
                                  ELSE IF t = timer THEN null ELSE prev_[t]]
    /\ timers_' = timer
    /\ EnqueueOp(timer, outcome.op, outcome.time)
    /\ UNCHANGED locals_

\* The first n operations of a timer go to the caller, behind those it has.
HandOver(call, due, t, n) ==
    /\ op_queue_' = [op_queue_ EXCEPT ![t] = SubSeq(@, n + 1, Len(@))]
    /\ outcome' = [call |-> call, due |-> due \o [k \in 1..n |-> waits[op_queue_[t][k]]]]
    /\ waits' = [op \in DOMAIN waits \ {op_queue_[t][k] : k \in 1..n} |-> waits[op]]

\* get_ready_timers: its loop begins, takes the first timer if it is due, and ends.
GetReadyTimers ==
    /\ stage' = "ready"
    /\ outcome' = [call |-> "ready", due |-> <<>>]
    /\ UNCHANGED <<heapVars, op_queue_, links, now, locals_, waits>>

FirstDue == heap_ # <<>> /\ Time(0) <= now

ReadyTimer ==
    /\ stage = "ready" /\ FirstDue
    /\ LET t == heap_[1].timer_ IN
       HandOver("ready", outcome.due, t, Len(op_queue_[t])) /\ RemoveTimer(t)
    /\ UNCHANGED <<links, now>>

ReadyEnds ==
    /\ stage = "ready" /\ ~FirstDue
    /\ stage' = "idle"
    /\ UNCHANGED <<heapVars, op_queue_, links, now, locals_, waits, outcome>>

\* cancel_timer of at most max_cancelled operations, of which the timer has some left or
\* not.
CancelSome(t, max_cancelled) ==
    /\ max_cancelled < Len(op_queue_[t])
    /\ HandOver("cancel", <<>>, t, max_cancelled)
    /\ UNCHANGED <<heapVars, links, now, stage, locals_>>

CancelTimer(t, max_cancelled) ==
    /\ Active(t) /\ max_cancelled = Len(op_queue_[t])
    /\ HandOver("cancel", <<>>, t, max_cancelled)
    /\ RemoveTimer(t)
    /\ UNCHANGED <<links, now>>

\* The clock goes on. A call reads it once.
Tick ==
    /\ now < MaxTime
    /\ now' = now + 1
    /\ outcome' = [call |-> "none"]
    /\ UNCHANGED <<heapVars, op_queue_, links, stage, locals_, waits>>

\* Which of the unused timers or operations is taken does not matter: the first.
InUse == {t \in Timers : Active(t)}
Unused(all, used) == {x \in all \ used : \A y \in all \ used : x <= y}

Calls ==
    \/ \E t \in Timers, op \in Unused(1..MaxOps, DOMAIN waits) : EnqueueActive(t, op)
    \/ \E t \in Unused(Timers, InUse), op \in Unused(1..MaxOps, DOMAIN waits), time \in 0..MaxTime :
          EnqueueTimer(time, t, op)
    \/ \E t \in Timers, max_cancelled \in 1..MaxOps :
          CancelSome(t, max_cancelled) \/ CancelTimer(t, max_cancelled)
    \/ GetReadyTimers
    \/ Tick

Turns == UpHeap \/ DownHeap \/ UnlinkTimer \/ InsertTimer \/ ReadyTimer \/ ReadyEnds

QueueNext ==
    \/ stage = "idle" /\ calls < MaxCalls /\ calls' = calls + 1 /\ Calls
    \/ Turns /\ UNCHANGED calls

QueueSpec == QueueInit /\ [][QueueNext]_timerVars

----------------------------------------------------------------------------
(* Properties.                                                             *)

\* The list, in both directions, holds exactly these timers: from its head the links
\* lead to all of them.
Linked(all) ==
    /\ \A t \in Timers : Active(t) <=> t \in all
    /\ timers_ # null => timers_ \in all /\ prev_[timers_] = null
    /\ \A t \in all : /\ next_[t] # null => next_[t] \in all /\ prev_[next_[t]] = t
                      /\ prev_[t] # null => prev_[t] \in all /\ next_[prev_[t]] = t
    /\ \A t \in Timers \ all : next_[t] = null /\ prev_[t] = null
    /\ \A some \in SUBSET all :
          /\ timers_ # null => timers_ \in some
          /\ \A t \in some : next_[t] # null => next_[t] \in some
          => some = all

\* The heap is one, each timer in it knows its place (so it is there once) and is there
\* for the time of its operations, and the list holds the same timers: those that
\* operations wait for.
Structure ==
    LET active == {t \in Timers : op_queue_[t] # <<>>} IN
    /\ \A i \in 1..(Len(heap_) - 1) : Time(Parent(i)) <= Time(i)
    /\ {heap_[i].timer_ : i \in DOMAIN heap_} = active
    /\ \A i \in DOMAIN heap_ :
          LET t == heap_[i].timer_ IN
          /\ heap_index_[t] = i - 1
          /\ \A k \in DOMAIN op_queue_[t] : waits[op_queue_[t][k]] = heap_[i].time_
    /\ Linked(active)

\* Whatever was enqueued waits until it is handed over. get_ready_timers hands over
\* everything that is due and nothing else, what is due first before the rest.
\* enqueue_timer returns true exactly if the new operation is due before all others,
\* so that the reactor waits no longer than until the first is due.
QueueConsistent ==
    stage = "idle" =>
    /\ Structure
    /\ DOMAIN waits = UNION {Range(op_queue_[t]) : t \in Timers}
    /\ outcome.call = "ready" =>
          /\ \A op \in DOMAIN waits : now < waits[op]
          /\ \A k \in DOMAIN outcome.due : outcome.due[k] <= now
          /\ \A k, l \in DOMAIN outcome.due : k < l => outcome.due[k] <= outcome.due[l]
    /\ outcome.call = "enqueue" =>
          (outcome.earliest <=>
              \A op \in DOMAIN waits \ {outcome.op} : waits[outcome.op] < waits[op])
=============================================================================
