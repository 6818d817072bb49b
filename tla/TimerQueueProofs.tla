-------------------------- MODULE TimerQueueProofs --------------------------
(***************************************************************************)
(* Proofs about TimerQueue, for any number of timers, operations and       *)
(* calls: the heap and the list hold the timers that operations wait for,  *)
(* and what is due is handed over in order.                                *)
(***************************************************************************)
EXTENDS TimerQueue, SequenceTheorems, WellFoundedInduction, TLAPS

Entry   == [time_ : Nat, timer_ : Timers]
InHeap  == {heap_[i].timer_ : i \in DOMAIN heap_}
Waiting == {t \in Timers : op_queue_[t] # <<>>}

Moving   == stage \in {"up", "down"}
Adding   == stage = "up" /\ outcome.call = "enqueue"
Removing == stage \in {"up", "down", "unlink"} /\ outcome.call # "enqueue"

\* What the variables are.
QueueTypes ==
    /\ heap_ \in Seq(Entry)
    /\ heap_index_ \in [Timers -> Nat]
    /\ op_queue_ \in [Timers -> Seq(Nat)]
    /\ next_ \in [Timers -> Timers \cup {null}] /\ prev_ \in [Timers -> Timers \cup {null}]
    /\ timers_ \in Timers \cup {null}
    /\ now \in Nat /\ index \in Nat
    /\ waits \in [DOMAIN waits -> Nat] /\ DOMAIN waits \subseteq Nat
    /\ stage \in {"idle", "ready", "up", "down", "unlink"}
    /\ stage = "ready" => outcome.call = "ready"
    /\ stage \in {"down", "unlink"} => outcome.call \in {"ready", "cancel"}
    /\ stage = "up" => outcome.call \in {"ready", "cancel", "enqueue"}
    /\ outcome.call = "ready" => outcome.due \in Seq(Nat)

\* Each timer in the heap knows its place.
KnownPlaces == \A i \in DOMAIN heap_ : heap_index_[heap_[i].timer_] = i - 1

\* No entry is before its parent, except for the one that is moving.
Ordered ==
    /\ \A i \in 1..(Len(heap_) - 1) :
          \/ stage = "up" /\ i = index
          \/ stage = "down" /\ Parent(i) = index
          \/ Time(Parent(i)) <= Time(i)
    /\ Moving =>
          /\ index < Len(heap_)
          /\ index > 0 => \A i \in 1..(Len(heap_) - 1) :
                             Parent(i) = index => Time(Parent(index)) <= Time(i)

\* The timer of the call is in the heap and not in the list yet, or the other way round.
Members ==
    /\ stage \in {"idle", "ready"} => InHeap = Waiting /\ Linked(Waiting)
    /\ Removing => /\ timer \in Timers \ Waiting
                   /\ InHeap = Waiting /\ Linked(Waiting \cup {timer})
    /\ Adding => /\ timer \in Timers \ Waiting
                 /\ InHeap = Waiting \cup {timer} /\ Linked(Waiting)

\* Each operation is in one queue, and its timer is in the heap for its time.
Operations ==
    /\ \A t, u \in Timers : \A j \in DOMAIN op_queue_[t], k \in DOMAIN op_queue_[u] :
          op_queue_[t][j] = op_queue_[u][k] => t = u /\ j = k
    /\ DOMAIN waits = UNION {Range(op_queue_[t]) : t \in Timers}
    /\ \A i \in DOMAIN heap_ : \A k \in DOMAIN op_queue_[heap_[i].timer_] :
          waits[op_queue_[heap_[i].timer_][k]] = heap_[i].time_

\* The new entry rose past entries behind it in time only.
Rising ==
    Adding =>
       /\ outcome.op \in Nat \ DOMAIN waits /\ outcome.time \in Nat
       /\ heap_[index + 1] = [time_ |-> outcome.time, timer_ |-> timer]
       /\ \A i \in 1..(Len(heap_) - 1) : Parent(i) = index => Time(index) < Time(i)

\* What was handed over was due, and no later than what is left.
Handed ==
    outcome.call = "ready" =>
       /\ \A k \in DOMAIN outcome.due : outcome.due[k] <= now
       /\ \A k, l \in DOMAIN outcome.due : k < l => outcome.due[k] <= outcome.due[l]
       /\ stage # "idle" => \A k \in DOMAIN outcome.due, i \in DOMAIN heap_ :
                               outcome.due[k] <= heap_[i].time_
       /\ stage = "idle" => \A op \in DOMAIN waits : now < waits[op]

\* Whether the new operation is the first was told right.
Earliest ==
    stage = "idle" /\ outcome.call = "enqueue" =>
       (outcome.earliest <=>
           \A op \in DOMAIN waits \ {outcome.op} : waits[outcome.op] < waits[op])

QueueInv ==
    /\ QueueTypes /\ KnownPlaces /\ Ordered /\ Members /\ Operations
    /\ Rising /\ Handed /\ Earliest
----------------------------------------------------------------------------
(* Positions of the heap.                                                  *)

\* What a sequence's length and places are.
LEMMA PlacesOf == ASSUME NEW S, NEW s \in Seq(S)
                  PROVE  /\ Len(s) \in Nat /\ DOMAIN s = 1..Len(s)
                         /\ \A k \in DOMAIN s : s[k] \in S
BY LenProperties, ElementOfSeq

\* What the list is depends on its links only.
LEMMA LinkedSame == ASSUME UNCHANGED <<next_, prev_, timers_>>
                    PROVE  \A all : Linked(all) => Linked(all)'
BY DEF Linked, Active

\* The parent comes before its children, which are two.
LEMMA ParentFacts ==
    /\ \A i \in Nat : i > 0 => /\ Parent(i) \in Nat /\ Parent(i) < i
                               /\ i = 2 * Parent(i) + 1 \/ i = 2 * Parent(i) + 2
    /\ \A p \in Nat : Parent(2 * p + 1) = p /\ Parent(2 * p + 2) = p
BY DEF Parent

\* The heap has places from 0 on.
LEMMA HeapFacts ==
    ASSUME QueueTypes
    PROVE  /\ Len(heap_) \in Nat /\ DOMAIN heap_ = 1..Len(heap_)
           /\ \A k \in 1..Len(heap_) : /\ heap_[k] \in Entry
                                       /\ heap_[k].time_ \in Nat /\ heap_[k].timer_ \in Timers
           /\ \A i \in 0..(Len(heap_) - 1) : /\ i + 1 \in 1..Len(heap_)
                                             /\ Time(i) = heap_[i + 1].time_ /\ Time(i) \in Nat
<1>1. /\ Len(heap_) \in Nat /\ DOMAIN heap_ = 1..Len(heap_)
      /\ \A k \in 1..Len(heap_) : heap_[k] \in Entry
  BY PlacesOf DEF QueueTypes
<1>2. \A k \in 1..Len(heap_) : heap_[k].time_ \in Nat /\ heap_[k].timer_ \in Timers
  BY <1>1 DEF Entry
<1>3. \A i \in 0..(Len(heap_) - 1) : i + 1 \in 1..Len(heap_)
  BY <1>1
<1> QED
  BY <1>1, <1>2, <1>3 DEF Time

\* Where an entry comes from that is at place k after a swap.
From(i, j, k) == IF k = i + 1 THEN j + 1 ELSE IF k = j + 1 THEN i + 1 ELSE k

\* A swap permutes the entries, and each timer still knows its place.
LEMMA SwapFacts ==
    ASSUME QueueTypes, KnownPlaces,
           NEW i \in 0..(Len(heap_) - 1), NEW j \in 0..(Len(heap_) - 1), i # j
    PROVE  /\ Swapped(i, j) \in Seq(Entry) /\ Len(Swapped(i, j)) = Len(heap_)
           /\ \A k \in 1..Len(heap_) : /\ From(i, j, k) \in 1..Len(heap_)
                                       /\ Swapped(i, j)[k] = heap_[From(i, j, k)]
           /\ \A k \in 1..Len(heap_) : \E l \in 1..Len(heap_) : From(i, j, l) = k
           /\ SwappedIndex(i, j) \in [Timers -> Nat]
           /\ \A k \in 1..Len(heap_) : SwappedIndex(i, j)[Swapped(i, j)[k].timer_] = k - 1
<1> DEFINE n == Len(heap_)
           h == Swapped(i, j)
<1>1. /\ n \in Nat /\ DOMAIN heap_ = 1..n
      /\ \A k \in 1..n : heap_[k] \in Entry /\ heap_[k].timer_ \in Timers
      /\ i + 1 \in 1..n /\ j + 1 \in 1..n /\ i \in Nat /\ j \in Nat /\ i + 1 # j + 1
  BY HeapFacts
<1>2. \A k \in 1..n : From(i, j, k) \in 1..n
  BY <1>1 DEF From
<1>3. h = [k \in 1..n |-> heap_[From(i, j, k)]]
  BY <1>1 DEF Swapped, From
<1>4. h \in Seq(Entry) /\ Len(h) = n
  <2>1. \A k \in 1..n : heap_[From(i, j, k)] \in Entry
    BY <1>1, <1>2
  <2> HIDE DEF h
  <2> QED
    BY <1>1, <1>3, <2>1, IsASeq, LenProperties
<1>5. \A k \in 1..n : h[k] = heap_[From(i, j, k)]
  BY <1>3
<1>6. \A k \in 1..n : From(i, j, From(i, j, k)) = k
  BY <1>1 DEF From
<1>7. /\ heap_index_ \in [Timers -> Nat]
      /\ \A k \in 1..n : heap_index_[heap_[k].timer_] = k - 1
  BY <1>1 DEF QueueTypes, KnownPlaces
<1> DEFINE a == heap_[j + 1].timer_
           b == heap_[i + 1].timer_
<1>8. a \in Timers /\ b \in Timers /\ a # b
  BY <1>1, <1>7
<1> HIDE DEF h, n
<1>9. /\ SwappedIndex(i, j) \in [Timers -> Nat]
      /\ \A t \in Timers : SwappedIndex(i, j)[t] = IF t = b THEN j ELSE IF t = a THEN i ELSE heap_index_[t]
  BY <1>1, <1>7, <1>8 DEF SwappedIndex
<1>10. ASSUME NEW k \in 1..n PROVE SwappedIndex(i, j)[h[k].timer_] = k - 1
  <2>1. CASE k = i + 1
    <3>1. h[k].timer_ = a
      BY <1>5, <2>1 DEF From
    <3> QED
      BY <1>1, <1>8, <1>9, <2>1, <3>1
  <2>2. CASE k = j + 1
    <3>1. h[k].timer_ = b
      BY <1>1, <1>5, <2>2 DEF From
    <3> QED
      BY <1>1, <1>8, <1>9, <2>2, <3>1
  <2>3. CASE k # i + 1 /\ k # j + 1
    <3>1. h[k].timer_ = heap_[k].timer_ /\ heap_[k].timer_ \in Timers
      BY <1>1, <1>5, <2>3 DEF From
    <3>2. heap_index_[heap_[k].timer_] = k - 1 /\ heap_index_[a] = j /\ heap_index_[b] = i
      BY <1>1, <1>7
    <3>3. heap_[k].timer_ # a /\ heap_[k].timer_ # b
      BY <1>1, <2>3, <3>2
    <3> QED
      BY <1>9, <3>1, <3>2, <3>3
  <2> QED
    BY <2>1, <2>2, <2>3
<1> QED
  BY <1>2, <1>4, <1>5, <1>6, <1>9, <1>10 DEF h, n

\* A set of numbers that is not empty has a least one.
LEMMA Smallest == ASSUME NEW T, T \subseteq Nat, T # {} PROVE \E i \in T : \A j \in T : i <= j
<1> DEFINE Before == {ss \in Nat \X Nat : ss[1] < ss[2]}
<1>1. IsWellFoundedOn(Before, Nat)
  BY NatLessThanWellFounded DEF OpToRel
<1>2. \A i, j \in Nat : j < i => <<j, i>> \in Before
  OBVIOUS
<1> HIDE DEF Before
<1>3. PICK i \in T : \A j \in T : ~(<<j, i>> \in Before)
  BY <1>1, WFMin
<1>4. ASSUME NEW j \in T PROVE i <= j
  <2>1. i \in Nat /\ j \in Nat /\ ~(j < i)
    BY <1>2, <1>3
  <2> QED
    BY <2>1
<1> QED
  BY <1>4

\* In a heap the first entry is the earliest: of those that are not later than it the one
\* with the least index would have a parent that is not either.
LEMMA FirstIsLeast ==
    ASSUME QueueTypes, \A i \in 1..(Len(heap_) - 1) : Time(Parent(i)) <= Time(i)
    PROVE  \A i \in 0..(Len(heap_) - 1) : Time(0) <= Time(i)
<1> DEFINE Wrong == {i \in 0..(Len(heap_) - 1) : ~(Time(0) <= Time(i))}
<1> SUFFICES ASSUME Wrong # {} PROVE FALSE
  OBVIOUS
<1>a. Wrong \subseteq Nat
  BY HeapFacts
<1> HIDE DEF Wrong
<1>1. PICK i \in Wrong : \A j \in Wrong : i <= j
  BY <1>a, Smallest
<1> USE DEF Wrong
<1>2. /\ Len(heap_) \in Nat /\ i \in 0..(Len(heap_) - 1)
      /\ \A j \in 0..(Len(heap_) - 1) : Time(j) \in Nat
  BY HeapFacts
<1>3. i # 0
  BY <1>2
<1>4. Parent(i) \in 0..(Len(heap_) - 1) /\ Parent(i) < i
  <2>1. i \in Nat /\ i > 0
    BY <1>2, <1>3
  <2>2. Parent(i) \in Nat /\ Parent(i) < i
    BY <2>1, ParentFacts
  <2> QED
    BY <1>2, <2>1, <2>2
<1>5. Time(0) <= Time(Parent(i))
  BY <1>1, <1>2, <1>4
<1>6. Time(Parent(i)) <= Time(i)
  BY <1>2, <1>3
<1> QED
  BY <1>2, <1>4, <1>5, <1>6

\* If it is before both its children it is before all others.
LEMMA FirstIsBefore ==
    ASSUME QueueTypes, \A i \in 1..(Len(heap_) - 1) : Time(Parent(i)) <= Time(i),
           \A i \in 1..(Len(heap_) - 1) : Parent(i) = 0 => Time(0) < Time(i)
    PROVE  \A i \in 1..(Len(heap_) - 1) : Time(0) < Time(i)
<1> DEFINE Wrong == {i \in 1..(Len(heap_) - 1) : ~(Time(0) < Time(i))}
<1> SUFFICES ASSUME Wrong # {} PROVE FALSE
  OBVIOUS
<1>a. Wrong \subseteq Nat
  BY HeapFacts
<1> HIDE DEF Wrong
<1>1. PICK i \in Wrong : \A j \in Wrong : i <= j
  BY <1>a, Smallest
<1> USE DEF Wrong
<1>2. /\ Len(heap_) \in Nat /\ i \in 1..(Len(heap_) - 1)
      /\ \A j \in 0..(Len(heap_) - 1) : Time(j) \in Nat
  BY HeapFacts
<1>3. Parent(i) \in 0..(Len(heap_) - 1) /\ Parent(i) < i /\ Parent(i) # 0
  <2>1. i \in Nat /\ i > 0 /\ ~(Time(0) < Time(i))
    BY <1>2
  <2>2. Parent(i) \in Nat /\ Parent(i) < i
    BY <2>1, ParentFacts
  <2> QED
    BY <1>2, <2>1, <2>2
<1>4. Time(0) < Time(Parent(i))
  BY <1>1, <1>2, <1>3
<1>5. Time(Parent(i)) <= Time(i)
  BY <1>2
<1> QED
  BY <1>2, <1>3, <1>4, <1>5

----------------------------------------------------------------------------
(* The turns of up_heap and down_heap.                                     *)

\* The times after a step.
Later(i) == heap_'[i + 1].time_

\* A swap with the entry that is moving leaves the same entries in the heap.
LEMMA MoveKeeps ==
    ASSUME QueueInv, Moving, NEW i \in 0..(Len(heap_) - 1), i # index, MoveTo(i)
    PROVE  /\ QueueTypes' /\ KnownPlaces' /\ Members' /\ Operations' /\ Handed' /\ Earliest'
           /\ Len(heap_') = Len(heap_) /\ index' = i /\ stage' = stage /\ outcome' = outcome
           /\ \A k \in 0..(Len(heap_) - 1) : heap_'[k + 1] = heap_[From(index, i, k + 1)]
           /\ \A k \in 0..(Len(heap_) - 1) :
                 Later(k) = IF k = index THEN Time(i) ELSE IF k = i THEN Time(index) ELSE Time(k)
<1> USE DEF QueueInv
<1>1. /\ heap_' = Swapped(index, i) /\ heap_index_' = SwappedIndex(index, i) /\ index' = i
      /\ UNCHANGED <<op_queue_, next_, prev_, timers_, now, stage, timer, waits, outcome>>
  BY DEF MoveTo, SwapHeap, links
<1>2. /\ Len(heap_) \in Nat /\ DOMAIN heap_ = 1..Len(heap_)
      /\ index \in 0..(Len(heap_) - 1) /\ i \in Nat /\ index \in Nat
  BY HeapFacts DEF QueueTypes, Ordered
<1>3. /\ heap_' \in Seq(Entry) /\ Len(heap_') = Len(heap_)
      /\ \A k \in 1..Len(heap_) : /\ From(index, i, k) \in 1..Len(heap_)
                                  /\ heap_'[k] = heap_[From(index, i, k)]
      /\ \A k \in 1..Len(heap_) : \E l \in 1..Len(heap_) : From(index, i, l) = k
      /\ heap_index_' \in [Timers -> Nat]
      /\ \A k \in 1..Len(heap_) : heap_index_'[heap_'[k].timer_] = k - 1
  BY <1>1, <1>2, SwapFacts
<1>4. DOMAIN heap_' = 1..Len(heap_)
  BY <1>3, LenProperties
<1>5. QueueTypes'
  BY <1>1, <1>2, <1>3 DEF QueueTypes, Entry, Timers
<1>6. KnownPlaces'
  BY <1>3, <1>4 DEF KnownPlaces
<1>7. InHeap' = InHeap /\ Waiting' = Waiting
  <2>1. \A k \in 1..Len(heap_) : \E l \in 1..Len(heap_) : heap_[k].timer_ = heap_'[l].timer_
    BY <1>3
  <2>2. \A k \in 1..Len(heap_) : \E l \in 1..Len(heap_) : heap_'[k].timer_ = heap_[l].timer_
    BY <1>3
  <2>3. /\ InHeap = {heap_[k].timer_ : k \in 1..Len(heap_)}
        /\ InHeap' = {heap_'[k].timer_ : k \in 1..Len(heap_)}
    BY <1>2, <1>4 DEF InHeap
  <2>4. InHeap' = InHeap
    <3>1. \A x \in InHeap : x \in InHeap'
      BY <2>1, <2>3
    <3>2. \A x \in InHeap' : x \in InHeap
      BY <2>2, <2>3
    <3> HIDE DEF InHeap
    <3> QED
      BY <3>1, <3>2
  <2> QED
    BY <1>1, <2>4 DEF Waiting
<1>8. Members'
  <2>1. Adding' = Adding /\ Removing' = Removing
    BY <1>1 DEF Adding, Removing
  <2> QED
    BY <1>1, <1>7, <2>1, LinkedSame DEF Members
<1>9. Operations'
  <2>1. ASSUME NEW k \in DOMAIN heap_', NEW m \in DOMAIN op_queue_[heap_'[k].timer_]
        PROVE  waits[op_queue_[heap_'[k].timer_][m]] = heap_'[k].time_
    <3>1. PICK l \in DOMAIN heap_ : heap_'[k] = heap_[l]
      BY <1>2, <1>3, <1>4
    <3> QED
      BY <3>1 DEF Operations
  <2> QED
    BY <1>1, <2>1 DEF Operations
<1>10. Handed' /\ Earliest'
  BY <1>1, <1>2, <1>3, <1>4 DEF Handed, Earliest, Moving
<1>11. ASSUME NEW k \in 0..(Len(heap_) - 1)
       PROVE  /\ heap_'[k + 1] = heap_[From(index, i, k + 1)]
              /\ Later(k) = IF k = index THEN Time(i) ELSE IF k = i THEN Time(index) ELSE Time(k)
  <2>1. k + 1 \in 1..Len(heap_)
    BY <1>2
  <2>2. heap_'[k + 1] = heap_[From(index, i, k + 1)]
    BY <1>3, <2>1
  <2>3. From(index, i, k + 1) = 1 + (IF k = index THEN i ELSE IF k = i THEN index ELSE k)
    BY <1>2 DEF From
  <2>4. Later(k) = heap_[From(index, i, k + 1)].time_
    BY <2>2 DEF Later
  <2>5. /\ Time(i) = heap_[1 + i].time_ /\ Time(index) = heap_[1 + index].time_
        /\ Time(k) = heap_[1 + k].time_
    BY <1>2 DEF Time
  <2> QED
    BY <2>2, <2>3, <2>4, <2>5
<1> QED
  BY <1>1, <1>3, <1>5, <1>6, <1>8, <1>9, <1>10, <1>11

\* The entry that rises changes places with a parent behind it in time.
LEMMA UpHeapInv == ASSUME QueueInv, UpHeap PROVE QueueInv'
<1> DEFINE n == Len(heap_)
           p == Parent(index)
<1>1. /\ QueueTypes /\ Ordered /\ Rising /\ stage = "up" /\ Moving
      /\ index > 0 /\ Time(index) < Time(p) /\ MoveTo(p)
  BY DEF QueueInv, UpHeap, Rises, Moving
<1>2. /\ n \in Nat /\ index \in 1..(n - 1) /\ p \in 0..(n - 1) /\ p < index
      /\ \A k \in 0..(n - 1) : Time(k) \in Nat
  <2>1. /\ n \in Nat /\ index \in Nat /\ index < n
        /\ \A k \in 0..(n - 1) : Time(k) \in Nat
    BY <1>1, HeapFacts DEF QueueTypes, Ordered
  <2>2. Parent(index) \in Nat /\ Parent(index) < index
    BY <1>1, <2>1, ParentFacts
  <2> QED
    BY <1>1, <2>1, <2>2
<1>3. /\ QueueTypes' /\ KnownPlaces' /\ Members' /\ Operations' /\ Handed' /\ Earliest'
      /\ Len(heap_') = n /\ index' = p /\ stage' = "up" /\ outcome' = outcome
      /\ \A k \in 0..(n - 1) : heap_'[k + 1] = heap_[From(index, p, k + 1)]
      /\ \A k \in 0..(n - 1) :
            Later(k) = IF k = index THEN Time(p) ELSE IF k = p THEN Time(index) ELSE Time(k)
  <2>1. p \in 0..(Len(heap_) - 1) /\ p # index
    BY <1>2
  <2> HIDE DEF p
  <2> QED
    BY <1>1, <2>1, MoveKeeps
<1>4. \A k \in 1..(n - 1) : Parent(k) \in 0..(n - 1) /\ Parent(k) < k /\ k \in 0..(n - 1)
  <2>1. \A k \in 1..(n - 1) : k \in Nat /\ k > 0
    BY <1>2
  <2> HIDE DEF n
  <2> QED
    BY <1>2, <2>1, ParentFacts
<1>5. \A k \in 1..(n - 1) : k # index => Time(Parent(k)) <= Time(k)
  BY <1>1 DEF Ordered
<1>6. \A k \in 1..(n - 1) : Parent(k) = index => Time(p) <= Time(k)
  BY <1>1 DEF Ordered
<1> HIDE DEF n, p
<1>7. ASSUME NEW k \in 1..(n - 1), k # p PROVE Later(Parent(k)) <= Later(k)
  <2>1. /\ Later(k) = IF k = index THEN Time(p) ELSE Time(k)
        /\ Later(Parent(k)) = IF Parent(k) = index THEN Time(p)
                              ELSE IF Parent(k) = p THEN Time(index) ELSE Time(Parent(k))
    BY <1>3, <1>4, <1>7
  <2>2. CASE k = index
    BY <1>1, <1>2, <2>1, <2>2 DEF p
  <2>3. CASE k # index /\ Parent(k) = index
    BY <1>6, <2>1, <2>3
  <2>4. CASE k # index /\ Parent(k) = p
    <3>1. Time(p) <= Time(k)
      BY <1>5, <2>4
    <3> QED
      BY <1>1, <1>2, <1>4, <2>1, <2>4, <3>1 DEF p
  <2>5. CASE k # index /\ Parent(k) # index /\ Parent(k) # p
    BY <1>5, <2>1, <2>5
  <2> QED
    BY <2>2, <2>3, <2>4, <2>5
\* The children of the place it rose to are not before the parent of that place.
<1>8. ASSUME p > 0, NEW k \in 1..(n - 1), Parent(k) = p PROVE Later(Parent(p)) <= Later(k)
  <2>1. p \in 1..(n - 1) /\ p # index /\ Parent(p) < p
    BY <1>2, <1>4, <1>8
  <2>2. Time(Parent(p)) <= Time(p) /\ Time(Parent(p)) \in Nat
    BY <1>2, <1>4, <1>5, <2>1
  <2>3. /\ Later(Parent(p)) = Time(Parent(p))
        /\ Later(k) = IF k = index THEN Time(p) ELSE Time(k)
    BY <1>2, <1>3, <1>4, <1>8, <2>1
  <2>4. k # index => Time(p) <= Time(k)
    BY <1>5, <1>8
  <2> QED
    BY <1>2, <1>4, <2>2, <2>3, <2>4
<1>9. ASSUME NEW k \in 1..(n - 1), Parent(k) = p PROVE Later(p) < Later(k)
  <2>1. /\ Later(p) = Time(index)
        /\ Later(k) = IF k = index THEN Time(p) ELSE Time(k)
    BY <1>2, <1>3, <1>4, <1>9
  <2>2. k # index => Time(p) <= Time(k)
    BY <1>5, <1>9
  <2> QED
    BY <1>1, <1>2, <1>4, <2>1, <2>2 DEF p
<1>10. \A k : Parent(k)' = Parent(k)
  BY DEF Parent
<1>11. Ordered'
  <2>1. \A k : Time(k)' = Later(k)
    BY DEF Time, Later
  <2>2. \A k \in 1..(n - 1) : k # p => Later(Parent(k)) <= Later(k)
    BY <1>7
  <2>3. \A k \in 1..(n - 1) : p > 0 /\ Parent(k) = p => Later(Parent(p)) <= Later(k)
    BY <1>8
  <2> QED
    BY <1>2, <1>3, <2>2, <2>3 DEF Ordered, Moving, Time, Later, Parent
<1>12. Rising'
  <2>1. Adding' = Adding /\ timer' = timer /\ waits' = waits
    BY <1>1, <1>3 DEF Adding, MoveTo
  <2>2. heap_'[p + 1] = heap_[index + 1]
    <3>1. From(index, p, p + 1) = index + 1
      BY <1>2 DEF From
    <3> QED
      BY <1>2, <1>3, <3>1
  <2>3. \A k \in 1..(n - 1) : Parent(k) = p => Later(p) < Later(k)
    BY <1>9
  <2> QED
    BY <1>1, <1>3, <2>1, <2>2, <2>3 DEF Rising, Time, Later, Parent
<1> QED
  BY <1>3, <1>11, <1>12 DEF QueueInv

\* The child that an entry going down changes places with is the earlier one.
LEMMA MinChildFacts ==
    ASSUME QueueTypes, index < Len(heap_), Child < Len(heap_)
    PROVE  /\ MinChild \in 1..(Len(heap_) - 1) /\ Parent(MinChild) = index /\ index < MinChild
           /\ \A k \in 1..(Len(heap_) - 1) : Parent(k) = index => Time(MinChild) <= Time(k)
<1> DEFINE n == Len(heap_)
<1>1. /\ n \in Nat /\ index \in Nat /\ 2 * index + 1 \in 1..(n - 1)
      /\ \A k \in 0..(n - 1) : Time(k) \in Nat
  BY HeapFacts DEF QueueTypes, Child
<1>2. Parent(2 * index + 1) = index /\ Parent(2 * index + 2) = index
  BY <1>1, ParentFacts
<1>3. \A k \in 1..(n - 1) : Parent(k) = index => k = 2 * index + 1 \/ k = 2 * index + 2
  <2>1. \A k \in 1..(n - 1) : k \in Nat /\ k > 0
    BY <1>1
  <2> QED
    BY <2>1, ParentFacts
<1> HIDE DEF n
<1>4. CASE 2 * index + 2 = n
  <2>1. MinChild = 2 * index + 1
    BY <1>1, <1>4 DEF MinChild, Child, n
  <2> QED
    BY <1>1, <1>2, <1>3, <1>4, <2>1 DEF n
<1>5. CASE 2 * index + 2 # n
  <2>1. /\ 2 * index + 2 \in 1..(n - 1)
        /\ MinChild = IF Time(2 * index + 1) < Time(2 * index + 2) THEN 2 * index + 1
                      ELSE 2 * index + 2
    BY <1>1, <1>5 DEF MinChild, Child, n
  <2>2. Time(2 * index + 1) \in Nat /\ Time(2 * index + 2) \in Nat
    BY <1>1, <2>1
  <2>3. MinChild \in 1..(n - 1) /\ Parent(MinChild) = index /\ index < MinChild
    BY <1>1, <1>2, <2>1
  <2>4. Time(MinChild) <= Time(2 * index + 1) /\ Time(MinChild) <= Time(2 * index + 2)
    BY <2>1, <2>2
  <2> QED
    BY <1>3, <2>3, <2>4 DEF n
<1> QED
  BY <1>4, <1>5

\* The entry that goes down changes places with it.
LEMMA DownHeapInv == ASSUME QueueInv, DownHeap PROVE QueueInv'
<1> DEFINE n == Len(heap_)
           c == MinChild
<1>1. /\ QueueTypes /\ Ordered /\ stage = "down" /\ Moving /\ index < n
      /\ Child < n /\ ~(Time(index) < Time(c)) /\ MoveTo(c)
  BY DEF QueueInv, DownHeap, Sinks, Moving, Ordered
<1>2. /\ c \in 1..(n - 1) /\ Parent(c) = index /\ index < c
      /\ \A k \in 1..(n - 1) : Parent(k) = index => Time(c) <= Time(k)
  BY <1>1, MinChildFacts
<1>3. /\ n \in Nat /\ index \in 0..(n - 1) /\ c \in 0..(n - 1)
      /\ \A k \in 0..(n - 1) : Time(k) \in Nat
  BY <1>1, <1>2, HeapFacts DEF QueueTypes
<1>4. /\ QueueTypes' /\ KnownPlaces' /\ Members' /\ Operations' /\ Handed' /\ Earliest'
      /\ Len(heap_') = n /\ index' = c /\ stage' = "down" /\ outcome' = outcome
      /\ \A k \in 0..(n - 1) :
            Later(k) = IF k = index THEN Time(c) ELSE IF k = c THEN Time(index) ELSE Time(k)
  <2>1. c \in 0..(Len(heap_) - 1) /\ c # index
    BY <1>2, <1>3
  <2> HIDE DEF c
  <2> QED
    BY <1>1, <2>1, MoveKeeps
<1>5. \A k \in 1..(n - 1) : Parent(k) \in 0..(n - 1) /\ Parent(k) < k /\ k \in 0..(n - 1)
  <2>1. \A k \in 1..(n - 1) : k \in Nat /\ k > 0
    BY <1>3
  <2> HIDE DEF n
  <2> QED
    BY <1>3, <2>1, ParentFacts
<1>6. \A k \in 1..(n - 1) : Parent(k) # index => Time(Parent(k)) <= Time(k)
  BY <1>1 DEF Ordered
<1>7. index > 0 => \A k \in 1..(n - 1) : Parent(k) = index => Time(Parent(index)) <= Time(k)
  BY <1>1 DEF Ordered
<1> HIDE DEF n, c
<1>8. ASSUME NEW k \in 1..(n - 1), Parent(k) # c PROVE Later(Parent(k)) <= Later(k)
  <2>1. /\ Later(k) = IF k = index THEN Time(c) ELSE IF k = c THEN Time(index) ELSE Time(k)
        /\ Later(Parent(k)) = IF Parent(k) = index THEN Time(c) ELSE Time(Parent(k))
    BY <1>4, <1>5, <1>8
  <2>2. CASE k = index
    BY <1>2, <1>3, <1>5, <1>7, <2>1, <2>2
  <2>3. CASE k = c
    BY <1>1, <1>2, <1>3, <2>1, <2>3 DEF c
  <2>4. CASE k # index /\ k # c /\ Parent(k) = index
    BY <1>2, <2>1, <2>4
  <2>5. CASE k # index /\ k # c /\ Parent(k) # index
    BY <1>6, <2>1, <2>5
  <2> QED
    BY <2>2, <2>3, <2>4, <2>5
\* The children of the place it went down to were there before.
<1>9. ASSUME NEW k \in 1..(n - 1), Parent(k) = c PROVE Later(index) <= Later(k)
  <2>1. k # index /\ k # c /\ Parent(k) # index
    BY <1>2, <1>3, <1>5, <1>9
  <2>2. Later(k) = Time(k) /\ Later(index) = Time(c)
    BY <1>3, <1>4, <1>5, <2>1
  <2> QED
    BY <1>6, <1>9, <2>1, <2>2
<1>10. Ordered'
  <2>1. \A k \in 1..(n - 1) : Parent(k) # c => Later(Parent(k)) <= Later(k)
    BY <1>8
  <2>2. \A k \in 1..(n - 1) : Parent(k) = c => Later(Parent(c)) <= Later(k)
    BY <1>2, <1>9
  <2> QED
    BY <1>3, <1>4, <2>1, <2>2 DEF Ordered, Moving, Time, Later, Parent
<1>11. Rising'
  BY <1>4 DEF Rising, Adding
<1> QED
  BY <1>4, <1>10, <1>11 DEF QueueInv

----------------------------------------------------------------------------
(* The first part of remove_timer.                                         *)

\* What is left of a sequence without its last element.
LEMMA FrontFacts ==
    ASSUME NEW S, NEW s \in Seq(S), s # <<>>
    PROVE  /\ Front(s) \in Seq(S) /\ Len(Front(s)) = Len(s) - 1 /\ Len(s) \in Nat \ {0}
           /\ \A k \in 1..(Len(s) - 1) : Front(s)[k] = s[k]
<1> DEFINE m == Len(s) - 1
<1>1. /\ Len(s) \in Nat \ {0} /\ m \in Nat /\ m = Len(s) - 1
      /\ \A k \in 1..m : s[k] \in S
  BY LenProperties, ElementOfSeq, EmptySeq
<1> HIDE DEF m
<1>2. /\ SubSeq(s, 1, m) \in Seq(S)
      /\ Len(SubSeq(s, 1, m)) = IF 1 <= m THEN m - 1 + 1 ELSE 0
      /\ \A k \in 1..(m - 1 + 1) : SubSeq(s, 1, m)[k] = s[1 + k - 1]
  BY <1>1, SubSeqProperties
<1>3. Len(SubSeq(s, 1, m)) = m /\ \A k \in 1..m : SubSeq(s, 1, m)[k] = s[k]
  BY <1>1, <1>2
<1>4. Front(s) = SubSeq(s, 1, m)
  BY DEF Front, m
<1> QED
  BY <1>1, <1>2, <1>3, <1>4

\* A timer of the heap is taken out of it, and the last entry moves to its place.
LEMMA RemoveEntries ==
    ASSUME QueueTypes, KnownPlaces, NEW t \in InHeap, RemoveTimer(t)
    PROVE  /\ timer' = t /\ index' \in Nat
           /\ heap_' \in Seq(Entry) /\ heap_index_' \in [Timers -> Nat]
           /\ Len(heap_) \in Nat \ {0} /\ Len(heap_') = Len(heap_) - 1
           /\ heap_index_[t] \in 0..(Len(heap_) - 1) /\ heap_[heap_index_[t] + 1].timer_ = t
           /\ \A k \in 1..(Len(heap_) - 1) :
                 heap_'[k] = heap_[IF k = heap_index_[t] + 1 THEN Len(heap_) ELSE k]
           /\ KnownPlaces'
           /\ stage' = "unlink" => heap_index_[t] = Len(heap_) - 1
           /\ stage' # "unlink" => index' = heap_index_[t] /\ index' < Len(heap_) - 1
<1> DEFINE n == Len(heap_)
           i == heap_index_[t]
<1>1. /\ n \in Nat /\ DOMAIN heap_ = 1..n
      /\ \A k \in 1..n : heap_[k].timer_ \in Timers /\ heap_index_[heap_[k].timer_] = k - 1
  BY HeapFacts DEF KnownPlaces
<1>2. PICK k \in 1..n : t = heap_[k].timer_
  BY <1>1 DEF InHeap
<1>3. i \in 0..(n - 1) /\ n # 0 /\ heap_[i + 1].timer_ = t
  BY <1>1, <1>2
<1>4. heap_ \in Seq(Entry) /\ heap_ # <<>>
  BY <1>1, <1>3, EmptySeq DEF QueueTypes
<1>b. n \in Nat
  BY <1>1
<1> HIDE DEF n, i
<1>a. (n - 1) + 1 = n /\ \A l \in 1..(n - 1) : l \in 1..n /\ l # n
  BY <1>b
<1>5. CASE i = n - 1
  <2>1. heap_' = Front(heap_) /\ UNCHANGED <<heap_index_, index>> /\ stage' = "unlink" /\ timer' = t
    BY <1>1, <1>5 DEF RemoveTimer, n, i
  <2>2. /\ heap_' \in Seq(Entry) /\ Len(heap_') = n - 1 /\ DOMAIN heap_' = 1..(n - 1)
        /\ \A l \in 1..(n - 1) : heap_'[l] = heap_[l]
    BY <1>4, <2>1, FrontFacts, LenProperties DEF n
  <2>4. KnownPlaces'
    BY <1>1, <1>a, <2>1, <2>2 DEF KnownPlaces
  <2>5. \A l \in 1..(n - 1) : heap_'[l] = heap_[IF l = i + 1 THEN n ELSE l]
    <3>1. ASSUME NEW l \in 1..(n - 1) PROVE l # i + 1
      BY <1>1, <1>5
    <3> QED
      BY <2>2, <3>1
  <2> QED
    BY <1>1, <1>3, <1>5, <2>1, <2>2, <2>4, <2>5 DEF QueueTypes, n, i
<1>6. CASE i < n - 1
  <2>1. /\ heap_' = Front(Swapped(i, n - 1)) /\ heap_index_' = SwappedIndex(i, n - 1)
        /\ index' = i /\ stage' \in {"up", "down"} /\ timer' = t
    BY <1>1, <1>3, <1>6 DEF RemoveTimer, n, i
  <2> DEFINE h == Swapped(i, n - 1)
  <2>2. /\ h \in Seq(Entry) /\ Len(h) = n
        /\ \A l \in 1..n : h[l] = heap_[From(i, n - 1, l)]
        /\ heap_index_' \in [Timers -> Nat]
        /\ \A l \in 1..n : heap_index_'[h[l].timer_] = l - 1
    <3>1. i \in 0..(Len(heap_) - 1) /\ n - 1 \in 0..(Len(heap_) - 1) /\ i # n - 1
      <4>1. i \in 0..(n - 1) /\ n - 1 \in 0..(n - 1) /\ i # n - 1
        BY <1>b, <1>3, <1>6
      <4> QED
        BY <4>1 DEF n
    <3> QED
      BY <2>1, <3>1, SwapFacts DEF n
  <2> HIDE DEF h
  <2>3. h # <<>>
    BY <1>3, <2>2, EmptySeq
  <2>4. /\ heap_' \in Seq(Entry) /\ Len(heap_') = n - 1 /\ DOMAIN heap_' = 1..(n - 1)
        /\ \A l \in 1..(n - 1) : heap_'[l] = h[l]
    <3>1. heap_' = Front(h)
      BY <2>1 DEF h
    <3>2. heap_' \in Seq(Entry) /\ Len(heap_') = n - 1 /\ \A l \in 1..(n - 1) : heap_'[l] = h[l]
      BY <2>2, <2>3, <3>1, FrontFacts
    <3> QED
      BY <3>2, LenProperties
  <2>5. ASSUME NEW l \in 1..(n - 1)
        PROVE  /\ heap_'[l] = heap_[IF l = i + 1 THEN n ELSE l]
               /\ heap_index_'[heap_'[l].timer_] = l - 1
    <3>1. l \in 1..n /\ l # n /\ (n - 1) + 1 = n
      BY <1>a
    <3>2. heap_'[l] = h[l] /\ h[l] = heap_[From(i, n - 1, l)]
      BY <2>2, <2>4, <3>1
    <3>3. From(i, n - 1, l) = IF l = i + 1 THEN n ELSE l
      BY <3>1 DEF From
    <3> QED
      BY <2>2, <3>1, <3>2, <3>3
  <2>6. KnownPlaces'
    BY <2>4, <2>5 DEF KnownPlaces
  <2>7. index' \in Nat /\ n \in Nat \ {0}
    BY <1>3, <1>b, <2>1
  <2> QED
    BY <1>3, <1>6, <2>1, <2>2, <2>4, <2>5, <2>6, <2>7 DEF n, i
<1> QED
  BY <1>1, <1>3, <1>5, <1>6

\* The timer is no longer in the heap, and all others are.
LEMMA RemoveMembers ==
    ASSUME QueueTypes, KnownPlaces, NEW t \in InHeap, RemoveTimer(t)
    PROVE  /\ InHeap' = InHeap \ {t}
           /\ \A k \in DOMAIN heap_' : \E l \in DOMAIN heap_ : heap_'[k] = heap_[l]
<1> DEFINE n == Len(heap_)
           i == heap_index_[t]
<1>1. /\ heap_' \in Seq(Entry) /\ n \in Nat \ {0} /\ Len(heap_') = n - 1
      /\ i \in 0..(n - 1) /\ heap_[i + 1].timer_ = t
      /\ \A k \in 1..(n - 1) : heap_'[k] = heap_[IF k = i + 1 THEN n ELSE k]
  BY RemoveEntries
<1>2. DOMAIN heap_' = 1..(n - 1) /\ DOMAIN heap_ = 1..n
  BY <1>1, LenProperties, HeapFacts
<1>3. \A k, l \in 1..n : heap_[k].timer_ = heap_[l].timer_ => k = l
  BY <1>2 DEF KnownPlaces
<1> HIDE DEF n, i
<1>4. ASSUME NEW u \in InHeap' PROVE u \in InHeap \ {t}
  <2>1. PICK k \in 1..(n - 1) : u = heap_'[k].timer_
    BY <1>2 DEF InHeap
  <2>2. PICK l \in 1..n : heap_'[k] = heap_[l] /\ l # i + 1
    BY <1>1
  <2>3. heap_[l].timer_ # t
    BY <1>1, <1>3, <2>2
  <2> QED
    BY <1>2, <2>1, <2>2, <2>3 DEF InHeap
<1>5. ASSUME NEW u \in InHeap, u # t PROVE u \in InHeap'
  <2>1. PICK l \in 1..n : u = heap_[l].timer_
    BY <1>2 DEF InHeap
  <2>2. PICK k \in 1..(n - 1) : heap_'[k] = heap_[l]
    BY <1>1, <1>5, <2>1
  <2> QED
    BY <1>2, <2>1, <2>2 DEF InHeap
<1>6. \A k \in 1..(n - 1) : \E l \in 1..n : heap_'[k] = heap_[l]
  BY <1>1
<1> QED
  BY <1>2, <1>4, <1>5, <1>6

\* The heap is one but for the entry that moved, which goes up if it is before its parent.
LEMMA RemoveOrdered ==
    ASSUME QueueTypes, KnownPlaces, Ordered, stage \in {"idle", "ready"},
           NEW t \in InHeap, RemoveTimer(t)
    PROVE  Ordered'
<1> DEFINE n == Len(heap_)
           i == heap_index_[t]
<1>1. /\ heap_' \in Seq(Entry) /\ n \in Nat \ {0} /\ Len(heap_') = n - 1 /\ i \in 0..(n - 1)
      /\ \A k \in 1..(n - 1) : heap_'[k] = heap_[IF k = i + 1 THEN n ELSE k]
      /\ stage' = "unlink" => i = n - 1
      /\ stage' # "unlink" => index' = i /\ i < n - 1
  BY RemoveEntries
<1>2. \A k \in 0..(n - 1) : Time(k) \in Nat
  BY HeapFacts
<1>3. \A k \in 1..(n - 1) : Time(Parent(k)) <= Time(k)
  BY DEF Ordered
<1>4. stage' \in {"unlink", "up", "down"} /\ (stage' = "up" => i > 0)
  BY DEF RemoveTimer
<1>5. /\ stage' = "up" => Later(i) < Later(Parent(i))
      /\ stage' = "down" => i = 0 \/ ~(Later(i) < Later(Parent(i)))
  BY <1>1 DEF RemoveTimer, Later
<1> HIDE DEF n, i
<1>6. \A k \in 1..(n - 1) : Parent(k) \in 0..(n - 2) /\ Parent(k) < k /\ k - 1 \in 0..(n - 2)
  <2>1. n \in Nat /\ \A k \in 1..(n - 1) : k \in Nat /\ k > 0
    BY <1>1
  <2> QED
    BY <2>1, ParentFacts
<1>7. ASSUME NEW k \in 0..(n - 2) PROVE Later(k) = IF k = i THEN Time(n - 1) ELSE Time(k)
  <2>1. k + 1 \in 1..(n - 1) /\ (n - 1) + 1 = n /\ (k + 1 = i + 1 <=> k = i)
    BY <1>1
  <2>2. heap_'[k + 1] = heap_[IF k = i THEN n ELSE k + 1]
    BY <1>1, <2>1
  <2> QED
    BY <2>1, <2>2 DEF Later, Time
<1>8. CASE stage' = "unlink"
  <2>1. \A k \in 1..(n - 2) : Later(Parent(k)) <= Later(k)
    <3>1. \A k \in 1..(n - 2) : /\ k \in 1..(n - 1) /\ k \in 0..(n - 2)
                                /\ k # i /\ Parent(k) # i
      BY <1>1, <1>6, <1>8
    <3> QED
      BY <1>3, <1>6, <1>7, <3>1
  <2> QED
    BY <1>1, <1>8, <2>1 DEF Ordered, Moving, Time, Later, Parent
<1>9. CASE stage' \in {"up", "down"}
  <2>1. i \in 0..(n - 2) /\ index' = i
    BY <1>1, <1>9
  <2>2. i > 0 => /\ i \in 1..(n - 1) /\ Parent(i) \in 0..(n - 2) /\ Parent(i) # i
                 /\ Later(Parent(i)) = Time(Parent(i)) /\ Time(Parent(i)) <= Time(i)
    <3> SUFFICES ASSUME i > 0 PROVE /\ i \in 1..(n - 1) /\ Parent(i) \in 0..(n - 2) /\ Parent(i) # i
                                    /\ Later(Parent(i)) = Time(Parent(i)) /\ Time(Parent(i)) <= Time(i)
      OBVIOUS
    <3>1. i \in 1..(n - 1)
      BY <1>1, <2>1
    <3>2. Parent(i) \in 0..(n - 2) /\ Parent(i) < i
      BY <1>6, <3>1
    <3>3. Parent(i) # i
      BY <1>1, <3>1, <3>2
    <3> QED
      BY <1>3, <1>7, <3>1, <3>2, <3>3
  \* A child of the place was no earlier than its parent, and so than its parent's parent.
  <2>3. ASSUME NEW k \in 1..(n - 2), Parent(k) = i, i > 0 PROVE Later(Parent(i)) <= Later(k)
    <3>1. /\ k \in 1..(n - 1) /\ k \in 0..(n - 2) /\ k # i
          /\ Time(k) \in Nat /\ Time(i) \in Nat /\ Time(Parent(i)) \in Nat
      BY <1>1, <1>2, <1>6, <2>1, <2>2, <2>3
    <3>2. Later(k) = Time(k) /\ Time(i) <= Time(k)
      BY <1>3, <1>7, <2>3, <3>1
    <3> QED
      BY <2>2, <2>3, <3>1, <3>2
  <2>4. ASSUME NEW k \in 1..(n - 2), k # i, Parent(k) # i PROVE Later(Parent(k)) <= Later(k)
    <3>1. k \in 1..(n - 1) /\ k \in 0..(n - 2)
      BY <1>1
    <3> QED
      BY <1>3, <1>6, <1>7, <2>4, <3>1
  <2>5. CASE stage' = "up"
    <3>1. ASSUME NEW k \in 1..(n - 2), Parent(k) = i PROVE Later(Parent(k)) <= Later(k)
      <4>1. Later(Parent(i)) <= Later(k) /\ Later(i) < Later(Parent(i))
        BY <1>4, <1>5, <2>3, <2>5, <3>1
      <4>2. Later(i) \in Nat /\ Later(k) \in Nat /\ Later(Parent(i)) \in Nat
        <5>1. k \in 0..(n - 2) /\ n - 1 \in 0..(n - 1) /\ \A l \in 0..(n - 2) : l \in 0..(n - 1)
          BY <1>1
        <5> QED
          BY <1>2, <1>4, <1>7, <2>1, <2>2, <2>5, <5>1
      <4> QED
        BY <3>1, <4>1, <4>2
    <3>2. \A k \in 1..(n - 2) : k # i => Later(Parent(k)) <= Later(k)
      BY <2>4, <3>1
    <3>3. \A k \in 1..(n - 2) : Parent(k) = i /\ i > 0 => Later(Parent(i)) <= Later(k)
      BY <2>3
    <3> QED
      BY <1>1, <2>1, <2>5, <3>2, <3>3 DEF Ordered, Moving, Time, Later, Parent
  <2>6. CASE stage' = "down"
    <3>1. ASSUME i > 0 PROVE Later(Parent(i)) <= Later(i)
      <4>1. Later(i) \in Nat /\ Later(Parent(i)) \in Nat
        <5>1. n - 1 \in 0..(n - 1) /\ \A l \in 0..(n - 2) : l \in 0..(n - 1)
          BY <1>1
        <5> QED
          BY <1>2, <1>7, <2>1, <2>2, <3>1, <5>1
      <4> QED
        BY <1>1, <1>5, <2>6, <3>1, <4>1
    <3>2. \A k \in 1..(n - 2) : Parent(k) # i => Later(Parent(k)) <= Later(k)
      <4>1. \A k \in 1..(n - 2) : k = i => i > 0
        BY <1>1
      <4> QED
        BY <2>4, <3>1, <4>1
    <3>3. \A k \in 1..(n - 2) : Parent(k) = i /\ i > 0 => Later(Parent(i)) <= Later(k)
      BY <2>3
    <3> QED
      BY <1>1, <2>1, <2>6, <3>2, <3>3 DEF Ordered, Moving, Time, Later, Parent
  <2> QED
    BY <1>9, <2>5, <2>6
<1> QED
  BY <1>4, <1>8, <1>9

----------------------------------------------------------------------------
(* Operations that are handed over.                                        *)

\* Nobody waits any longer for the first operations of a timer, and for all others as before.
LEMMA HandOverKeeps ==
    ASSUME QueueTypes, Operations, NEW t \in Timers, NEW n \in 0..Len(op_queue_[t]),
           NEW due \in Seq(Nat), NEW call, HandOver(call, due, t, n)
    PROVE  /\ op_queue_' \in [Timers -> Seq(Nat)]
           /\ \A u \in Timers \ {t} : op_queue_'[u] = op_queue_[u]
           /\ op_queue_'[t] = <<>> <=> n = Len(op_queue_[t])
           /\ \A u \in Timers : \A k \in DOMAIN op_queue_'[u] :
                 \E l \in DOMAIN op_queue_[u] : op_queue_'[u][k] = op_queue_[u][l]
           /\ \A u, v \in Timers : \A j \in DOMAIN op_queue_'[u], k \in DOMAIN op_queue_'[v] :
                 op_queue_'[u][j] = op_queue_'[v][k] => u = v /\ j = k
           /\ waits' \in [DOMAIN waits' -> Nat] /\ DOMAIN waits' \subseteq DOMAIN waits
           /\ \A op \in DOMAIN waits' : waits'[op] = waits[op]
           /\ DOMAIN waits' = UNION {Range(op_queue_'[u]) : u \in Timers}
<1> DEFINE q == op_queue_[t]
           m == Len(q)
           given == {q[k] : k \in 1..n}
<1>1. /\ op_queue_ \in [Timers -> Seq(Nat)] /\ q \in Seq(Nat)
      /\ m \in Nat /\ DOMAIN q = 1..m /\ n \in 0..m /\ \A k \in 1..m : q[k] \in Nat
  BY PlacesOf DEF QueueTypes
<1>2. /\ op_queue_' = [op_queue_ EXCEPT ![t] = SubSeq(q, n + 1, m)]
      /\ waits' = [op \in DOMAIN waits \ given |-> waits[op]]
  BY DEF HandOver
<1> HIDE DEF q, m
<1>3. /\ SubSeq(q, n + 1, m) \in Seq(Nat)
      /\ Len(SubSeq(q, n + 1, m)) = m - n
      /\ \A k \in 1..(m - n) : SubSeq(q, n + 1, m)[k] = q[n + k]
      /\ DOMAIN SubSeq(q, n + 1, m) = 1..(m - n)
  <2>1. n + 1 \in Int /\ m \in Int /\ \A k \in (n + 1)..m : q[k] \in Nat
    BY <1>1
  <2>2. /\ SubSeq(q, n + 1, m) \in Seq(Nat)
        /\ Len(SubSeq(q, n + 1, m)) = IF n + 1 <= m THEN m - (n + 1) + 1 ELSE 0
        /\ \A k \in 1..(m - (n + 1) + 1) : SubSeq(q, n + 1, m)[k] = q[(n + 1) + k - 1]
    BY <2>1, SubSeqProperties
  <2>3. m - (n + 1) + 1 = m - n /\ (n + 1 > m => m - n = 0)
    BY <1>1
  <2>4. \A k \in 1..(m - n) : (n + 1) + k - 1 = n + k
    BY <1>1
  <2> HIDE DEF given
  <2>5. Len(SubSeq(q, n + 1, m)) = m - n
    BY <1>1, <2>2, <2>3
  <2> QED
    BY <2>2, <2>3, <2>4, <2>5, LenProperties
<1>4. /\ op_queue_' \in [Timers -> Seq(Nat)] /\ op_queue_'[t] = SubSeq(q, n + 1, m)
      /\ \A u \in Timers \ {t} : op_queue_'[u] = op_queue_[u]
  BY <1>1, <1>2, <1>3
<1>5. op_queue_'[t] = <<>> <=> n = m
  <2>1. op_queue_'[t] = <<>> <=> Len(op_queue_'[t]) = 0
    BY <1>3, <1>4, EmptySeq
  <2>2. Len(op_queue_'[t]) = m - n
    BY <1>3, <1>4
  <2>3. m - n = 0 <=> n = m
    BY <1>1
  <2> QED
    BY <2>1, <2>2, <2>3
\* Place k of what is left was place k + n.
<1>6. \A k \in DOMAIN op_queue_'[t] : n + k \in DOMAIN q /\ op_queue_'[t][k] = q[n + k]
  <2>1. \A k \in 1..(m - n) : n + k \in 1..m
    BY <1>1
  <2> QED
    BY <1>1, <1>3, <1>4, <2>1
<1>7. ASSUME NEW u \in Timers, NEW k \in DOMAIN op_queue_'[u]
      PROVE  \E l \in DOMAIN op_queue_[u] : op_queue_'[u][k] = op_queue_[u][l]
  BY <1>4, <1>6 DEF q
<1>8. \A u, v \in Timers : \A j \in DOMAIN op_queue_[u], k \in DOMAIN op_queue_[v] :
         op_queue_[u][j] = op_queue_[v][k] => u = v /\ j = k
  BY DEF Operations
<1>9. ASSUME NEW u \in Timers, NEW v \in Timers,
             NEW j \in DOMAIN op_queue_'[u], NEW k \in DOMAIN op_queue_'[v],
             op_queue_'[u][j] = op_queue_'[v][k]
      PROVE  u = v /\ j = k
  <2>1. u = v
    BY <1>7, <1>8, <1>9
  <2>2. CASE u = t
    <3>1. n + j = n + k
      BY <1>6, <1>8, <1>9, <2>1, <2>2 DEF q
    <3>2. j \in 1..(m - n) /\ k \in 1..(m - n)
      BY <1>3, <1>4, <2>1, <2>2
    <3> QED
      BY <1>1, <2>1, <3>1, <3>2
  <2>3. CASE u # t
    <3>1. u \in Timers \ {t} /\ op_queue_'[u] = op_queue_[u]
      BY <1>4, <2>3
    <3>2. j \in DOMAIN op_queue_[u] /\ k \in DOMAIN op_queue_[u] /\ op_queue_[u][j] = op_queue_[u][k]
      BY <1>9, <2>1, <3>1
    <3> QED
      BY <1>8, <2>1, <3>2
  <2> QED
    BY <2>2, <2>3
<1>10. /\ waits' \in [DOMAIN waits' -> Nat] /\ DOMAIN waits' = DOMAIN waits \ given
       /\ \A op \in DOMAIN waits' : waits'[op] = waits[op]
  BY <1>2 DEF QueueTypes
<1>11. DOMAIN waits = UNION {Range(op_queue_[u]) : u \in Timers}
  BY DEF Operations
\* Those given away were in no other place,
<1>12. ASSUME NEW u \in Timers, NEW k \in DOMAIN op_queue_'[u] PROVE op_queue_'[u][k] \notin given
  <2>1. SUFFICES ASSUME NEW l \in 1..n, op_queue_'[u][k] = q[l] PROVE FALSE
    BY DEF given
  <2>2. l \in DOMAIN op_queue_[t]
    BY <1>1 DEF q
  <2>3. CASE u = t
    <3>1. n + k \in DOMAIN q /\ q[n + k] = q[l] /\ k \in 1..(m - n)
      BY <1>3, <1>4, <1>6, <2>1, <2>3
    <3>2. n + k = l
      BY <1>8, <2>2, <3>1 DEF q
    <3> QED
      BY <1>1, <3>1, <3>2
  <2>4. CASE u # t
    <3>1. u \in Timers \ {t} /\ op_queue_'[u] = op_queue_[u]
      BY <1>4, <2>4
    <3>2. k \in DOMAIN op_queue_[u] /\ op_queue_[u][k] = op_queue_[t][l]
      BY <2>1, <3>1 DEF q
    <3> QED
      BY <1>8, <2>2, <2>4, <3>2
  <2> QED
    BY <2>3, <2>4
\* and each other one still is in its place.
<1>13. ASSUME NEW u \in Timers, NEW l \in DOMAIN op_queue_[u], op_queue_[u][l] \notin given
       PROVE  \E k \in DOMAIN op_queue_'[u] : op_queue_'[u][k] = op_queue_[u][l]
  <2>1. CASE u = t
    <3>1. l \in 1..m /\ l \notin 1..n
      BY <1>1, <1>13, <2>1 DEF q, given
    <3>2. l - n \in 1..(m - n) /\ n + (l - n) = l
      BY <1>1, <3>1
    <3> QED
      BY <1>3, <1>4, <2>1, <3>2 DEF q
  <2>2. CASE u # t
    BY <1>4, <2>2
  <2> QED
    BY <2>1, <2>2
<1>14. DOMAIN waits' = UNION {Range(op_queue_'[u]) : u \in Timers}
  <2>1. ASSUME NEW op \in DOMAIN waits' PROVE \E u \in Timers : op \in Range(op_queue_'[u])
    <3>1. PICK u \in Timers : op \in Range(op_queue_[u])
      BY <1>10, <1>11
    <3>2. PICK l \in DOMAIN op_queue_[u] : op = op_queue_[u][l]
      BY <3>1 DEF Range
    <3>3. PICK k \in DOMAIN op_queue_'[u] : op_queue_'[u][k] = op
      BY <1>10, <1>13, <3>2
    <3> QED
      BY <3>3 DEF Range
  <2>2. ASSUME NEW u \in Timers, NEW op \in Range(op_queue_'[u]) PROVE op \in DOMAIN waits'
    <3>1. PICK k \in DOMAIN op_queue_'[u] : op = op_queue_'[u][k]
      BY DEF Range
    <3>2. op \in Range(op_queue_[u]) /\ op \notin given
      BY <1>7, <1>12, <3>1 DEF Range
    <3> QED
      BY <1>10, <1>11, <3>2
  <2> QED
    BY <2>1, <2>2
<1> QED
  BY <1>4, <1>5, <1>7, <1>9, <1>10, <1>14 DEF q, m

\* A timer of which all operations are handed over is taken out of the heap.
LEMMA TakeOut ==
    ASSUME QueueInv, stage \in {"idle", "ready"}, NEW t \in InHeap,
           NEW call \in {"ready", "cancel"}, NEW due \in Seq(Nat),
           HandOver(call, due, t, Len(op_queue_[t])), RemoveTimer(t), UNCHANGED <<links, now>>,
           outcome'.due \in Seq(Nat)
    PROVE  /\ QueueTypes' /\ KnownPlaces' /\ Ordered' /\ Members' /\ Operations'
           /\ Rising' /\ Earliest'
<1>1. /\ QueueTypes /\ KnownPlaces /\ Ordered /\ Members /\ Operations
      /\ InHeap = Waiting /\ Linked(Waiting) /\ t \in Timers /\ t \in Waiting
  BY DEF QueueInv, Members, Waiting
<1>2. Len(op_queue_[t]) \in 0..Len(op_queue_[t])
  BY <1>1, PlacesOf DEF QueueTypes
<1>3. /\ op_queue_' \in [Timers -> Seq(Nat)]
      /\ \A u \in Timers \ {t} : op_queue_'[u] = op_queue_[u]
      /\ op_queue_'[t] = <<>>
      /\ \A u \in Timers : \A k \in DOMAIN op_queue_'[u] :
            \E l \in DOMAIN op_queue_[u] : op_queue_'[u][k] = op_queue_[u][l]
      /\ \A u, v \in Timers : \A j \in DOMAIN op_queue_'[u], k \in DOMAIN op_queue_'[v] :
            op_queue_'[u][j] = op_queue_'[v][k] => u = v /\ j = k
      /\ waits' \in [DOMAIN waits' -> Nat] /\ DOMAIN waits' \subseteq DOMAIN waits
      /\ \A op \in DOMAIN waits' : waits'[op] = waits[op]
      /\ DOMAIN waits' = UNION {Range(op_queue_'[u]) : u \in Timers}
  BY <1>1, <1>2, HandOverKeeps
<1>4. /\ timer' = t /\ index' \in Nat
      /\ heap_' \in Seq(Entry) /\ heap_index_' \in [Timers -> Nat]
      /\ KnownPlaces'
  BY <1>1, RemoveEntries
<1>5. /\ InHeap' = InHeap \ {t}
      /\ \A k \in DOMAIN heap_' : \E l \in DOMAIN heap_ : heap_'[k] = heap_[l]
  BY <1>1, RemoveMembers
<1>6. Ordered'
  BY <1>1, RemoveOrdered
<1>7. stage' \in {"unlink", "up", "down"} /\ outcome'.call = call
  BY DEF RemoveTimer, HandOver
<1>8. QueueTypes'
  <2>1. UNCHANGED <<next_, prev_, timers_, now>>
    BY DEF links
  <2>2. /\ next_ \in [Timers -> Timers \cup {null}] /\ prev_ \in [Timers -> Timers \cup {null}]
        /\ timers_ \in Timers \cup {null} /\ now \in Nat /\ DOMAIN waits \subseteq Nat
    BY <1>1 DEF QueueTypes
  <2>3. (outcome.call = "ready" => outcome.due \in Seq(Nat))'
    OBVIOUS
  <2>4. (Timers' = Timers) /\ (Entry' = Entry)
    BY DEF Timers, Entry
  <2> QED
    BY <1>3, <1>4, <1>7, <2>1, <2>2, <2>3, <2>4 DEF QueueTypes, null
<1>9. Members'
  <2>1. Waiting' = Waiting \ {t}
    BY <1>3 DEF Waiting
  <2>2. InHeap' = Waiting' /\ Waiting' \cup {timer'} = Waiting /\ timer' \in Timers \ Waiting'
    BY <1>1, <1>4, <1>5, <2>1
  <2>3. Linked(Waiting \cup {timer})'
    <3>1. Linked(Waiting) /\ UNCHANGED <<next_, prev_, timers_>>
      BY <1>1 DEF links, Members
    <3> QED
      BY <2>2, <3>1, LinkedSame
  <2>4. ~Adding' /\ stage' \notin {"idle", "ready"}
    BY <1>7 DEF Adding
  <2> QED
    BY <2>2, <2>3, <2>4 DEF Members
<1>10. Operations'
  <2>1. ASSUME NEW k \in DOMAIN heap_', NEW m \in DOMAIN op_queue_'[heap_'[k].timer_]
        PROVE  waits'[op_queue_'[heap_'[k].timer_][m]] = heap_'[k].time_
    <3>1. PICK l \in DOMAIN heap_ : heap_'[k] = heap_[l]
      BY <1>5
    <3>2. heap_[l].timer_ \in InHeap' /\ heap_[l].timer_ \in Timers \ {t}
      BY <1>1, <1>5, <3>1 DEF InHeap, Waiting
    <3>3. op_queue_'[heap_'[k].timer_] = op_queue_[heap_[l].timer_]
      BY <1>3, <3>1, <3>2
    <3>4. op_queue_'[heap_'[k].timer_][m] \in DOMAIN waits'
      BY <1>3, <3>1, <3>2 DEF Range
    <3>5. waits[op_queue_[heap_[l].timer_][m]] = heap_[l].time_
      BY <1>1, <3>3 DEF Operations
    <3> QED
      BY <1>3, <3>1, <3>3, <3>4, <3>5
  <2> QED
    BY <1>3, <2>1 DEF Operations
<1>11. Rising' /\ Earliest'
  BY <1>7 DEF Rising, Earliest, Adding
<1> QED
  BY <1>4, <1>6, <1>8, <1>9, <1>10, <1>11

\* What HandOver gives the caller.
LEMMA GivenFacts ==
    ASSUME QueueTypes, Operations, NEW t \in Timers, NEW n \in 0..Len(op_queue_[t]),
           NEW due \in Seq(Nat), NEW call, HandOver(call, due, t, n)
    PROVE  /\ outcome'.call = call /\ outcome'.due \in Seq(Nat)
           /\ Len(outcome'.due) = Len(due) + n /\ Len(due) \in Nat
           /\ \A k \in 1..Len(due) : outcome'.due[k] = due[k]
           /\ \A k \in 1..n : outcome'.due[Len(due) + k] = waits[op_queue_[t][k]]
<1> DEFINE new == [k \in 1..n |-> waits[op_queue_[t][k]]]
<1>1. /\ op_queue_[t] \in Seq(Nat) /\ n \in Nat
      /\ \A k \in 1..n : k \in DOMAIN op_queue_[t]
  BY PlacesOf DEF QueueTypes
<1>2. \A k \in 1..n : waits[op_queue_[t][k]] \in Nat
  <2>1. \A k \in 1..n : op_queue_[t][k] \in DOMAIN waits
    BY <1>1 DEF Operations, Range
  <2> QED
    BY <2>1 DEF QueueTypes
<1>3. new \in [1..n -> Nat]
  BY <1>2
<1>4. new \in Seq(Nat) /\ Len(new) = n
  <2>1. new \in Seq(Nat)
    BY <1>1, <1>3, SeqDef
  <2> HIDE DEF new
  <2>2. Len(new) \in Nat /\ 1..Len(new) = 1..n
    BY <1>3, <2>1, LenProperties
  <2>3. n \in Nat /\ (n > 0 => n \in 1..n) /\ (Len(new) > 0 => Len(new) \in 1..Len(new))
    BY <1>1, <2>2
  <2>4. (n > 0 => n <= Len(new)) /\ (Len(new) > 0 => Len(new) <= n)
    BY <2>2, <2>3
  <2> QED
    BY <2>1, <2>2, <2>3, <2>4
<1>5. outcome' = [call |-> call, due |-> due \o new]
  BY DEF HandOver
<1> HIDE DEF new
<1>6. /\ due \o new \in Seq(Nat) /\ Len(due \o new) = Len(due) + n /\ Len(due) \in Nat
      /\ \A k \in 1..(Len(due) + n) :
            (due \o new)[k] = IF k <= Len(due) THEN due[k] ELSE new[k - Len(due)]
  BY <1>4, ConcatProperties, LenProperties
<1>7. \A k \in 1..n : /\ Len(due) + k \in 1..(Len(due) + n) /\ ~(Len(due) + k <= Len(due))
                      /\ (Len(due) + k) - Len(due) = k
  BY <1>1, <1>6
<1>8. \A k \in 1..Len(due) : k \in 1..(Len(due) + n) /\ k <= Len(due)
  BY <1>1, <1>6
<1> QED
  BY <1>5, <1>6, <1>7, <1>8 DEF new

----------------------------------------------------------------------------
(* The calls that hand over, and the end of their loops.                   *)

\* get_ready_timers takes the first timer, with all its operations, if it is due.
LEMMA ReadyTimerInv == ASSUME QueueInv, ReadyTimer PROVE QueueInv'
<1> DEFINE t == heap_[1].timer_
           time == heap_[1].time_
           q == op_queue_[t]
           due == outcome.due
<1>1. /\ stage = "ready" /\ heap_ # <<>> /\ Time(0) <= now
      /\ HandOver("ready", due, t, Len(q)) /\ RemoveTimer(t) /\ UNCHANGED <<links, now>>
  BY DEF ReadyTimer, FirstDue
<1>2. /\ QueueTypes /\ KnownPlaces /\ Ordered /\ Members /\ Operations /\ Handed
      /\ InHeap = Waiting /\ outcome.call = "ready" /\ due \in Seq(Nat) /\ now \in Nat
  BY <1>1 DEF QueueInv, Members, QueueTypes
<1>3. /\ Len(heap_) \in Nat \ {0} /\ DOMAIN heap_ = 1..Len(heap_) /\ 1 \in DOMAIN heap_
      /\ 0 \in 0..(Len(heap_) - 1)
      /\ \A i \in 1..Len(heap_) : heap_[i].time_ \in Nat
  <2>1. heap_ \in Seq(Entry)
    BY <1>2 DEF QueueTypes
  <2>2. Len(heap_) \in Nat \ {0} /\ DOMAIN heap_ = 1..Len(heap_)
    BY <1>1, <2>1, EmptySeq, LenProperties
  <2> QED
    BY <1>2, <2>2, HeapFacts
<1>4. time <= now /\ \A i \in DOMAIN heap_ : time <= heap_[i].time_
  <2>1. \A i \in 1..(Len(heap_) - 1) : Time(Parent(i)) <= Time(i)
    BY <1>1, <1>2 DEF Ordered
  <2>2. \A i \in 0..(Len(heap_) - 1) : Time(0) <= Time(i)
    BY <1>2, <2>1, FirstIsLeast
  <2>3. \A i \in DOMAIN heap_ : i - 1 \in 0..(Len(heap_) - 1) /\ (i - 1) + 1 = i
    BY <1>3
  <2>4. \A i \in DOMAIN heap_ : Time(i - 1) = heap_[i].time_
    BY <2>3 DEF Time
  <2>5. Time(0) = time
    BY DEF Time
  <2> QED
    BY <1>1, <2>2, <2>3, <2>4, <2>5
<1>5. t \in InHeap /\ t \in Timers /\ time \in Nat /\ q \in Seq(Nat)
  BY <1>2, <1>3 DEF InHeap, Waiting, QueueTypes
<1>6. /\ outcome'.call = "ready" /\ outcome'.due \in Seq(Nat)
      /\ Len(outcome'.due) = Len(due) + Len(q) /\ Len(due) \in Nat
      /\ \A k \in 1..Len(due) : outcome'.due[k] = due[k]
      /\ \A k \in 1..Len(q) : outcome'.due[Len(due) + k] = waits[q[k]]
  <2>1. Len(op_queue_[t]) \in 0..Len(op_queue_[t])
    BY <1>5, LenProperties
  <2>2. HandOver("ready", due, t, Len(op_queue_[t])) /\ t \in Timers
    BY <1>1, <1>5
  <2> HIDE DEF t, due
  <2> QED
    BY <1>2, <2>1, <2>2, GivenFacts
<1>7. /\ QueueTypes' /\ KnownPlaces' /\ Ordered' /\ Members' /\ Operations' /\ Rising' /\ Earliest'
  BY <1>1, <1>2, <1>5, <1>6, TakeOut
<1>8. Len(q) \in Nat /\ DOMAIN q = 1..Len(q)
  BY <1>5, LenProperties
<1>9. \A k \in 1..Len(q) : outcome'.due[Len(due) + k] = time
  <2>1. \A k \in 1..Len(q) : waits[q[k]] = time
    BY <1>2, <1>3, <1>8 DEF Operations
  <2> QED
    BY <1>6, <2>1
<1>10. \A k \in 1..Len(due) : due[k] \in Nat /\ due[k] <= time /\ due[k] <= now
  BY <1>1, <1>2, <1>3, PlacesOf DEF Handed
<1>11. \A k, l \in 1..Len(due) : k < l => due[k] <= due[l]
  BY <1>2, PlacesOf DEF Handed
<1> HIDE DEF time, q, due, t
\* Those handed over before come first, the others have the time of the timer.
<1>12. ASSUME NEW k \in 1..(Len(due) + Len(q))
       PROVE  \/ k \in 1..Len(due) /\ outcome'.due[k] = due[k]
              \/ k > Len(due) /\ outcome'.due[k] = time
  <2>1. CASE k \in 1..Len(due)
    BY <1>6, <2>1
  <2>2. CASE k \notin 1..Len(due)
    <3>1. k - Len(due) \in 1..Len(q) /\ Len(due) + (k - Len(due)) = k /\ k > Len(due)
      BY <1>6, <1>8, <2>2
    <3> QED
      BY <1>9, <3>1
  <2> QED
    BY <2>1, <2>2
<1>13. DOMAIN outcome'.due = 1..(Len(due) + Len(q))
  BY <1>6, LenProperties
<1>14. \A k \in DOMAIN outcome'.due : /\ outcome'.due[k] \in Nat /\ outcome'.due[k] <= time
                                      /\ outcome'.due[k] <= now
  BY <1>4, <1>5, <1>10, <1>12, <1>13
<1>15. ASSUME NEW k \in DOMAIN outcome'.due, NEW l \in DOMAIN outcome'.due, k < l
       PROVE  outcome'.due[k] <= outcome'.due[l]
  <2>1. CASE l \in 1..Len(due)
    <3>1. k \in 1..Len(due)
      BY <1>6, <1>8, <1>13, <1>15, <2>1
    <3> QED
      BY <1>6, <1>11, <1>15, <2>1, <3>1
  <2>2. CASE outcome'.due[l] = time
    BY <1>14, <2>2
  <2> QED
    BY <1>12, <1>13, <2>1, <2>2
<1>16. ASSUME NEW k \in DOMAIN outcome'.due, NEW i \in DOMAIN heap_'
       PROVE  outcome'.due[k] <= heap_'[i].time_
  <2>1. PICK l \in DOMAIN heap_ : heap_'[i] = heap_[l]
    BY <1>1, <1>2, <1>5, RemoveMembers
  <2> QED
    BY <1>3, <1>4, <1>5, <1>14, <2>1
<1>17. Handed'
  <2>1. now' = now /\ stage' # "idle"
    BY <1>1 DEF RemoveTimer
  <2> QED
    BY <1>14, <1>15, <1>16, <2>1 DEF Handed
<1> QED
  BY <1>7, <1>17 DEF QueueInv

\* When the first timer is not due, none is.
LEMMA ReadyEndsInv == ASSUME QueueInv, ReadyEnds PROVE QueueInv'
<1>1. /\ stage = "ready" /\ stage' = "idle" /\ ~FirstDue
      /\ UNCHANGED <<heap_, heap_index_, op_queue_, next_, prev_, timers_, now, timer, index,
                     waits, outcome>>
  BY DEF ReadyEnds, heapVars, links, locals_
<1>2. /\ QueueTypes /\ KnownPlaces /\ Ordered /\ Members /\ Operations /\ Handed
      /\ InHeap = Waiting /\ outcome.call = "ready" /\ now \in Nat
  BY <1>1 DEF QueueInv, Members, QueueTypes
<1>a. QueueTypes'
  BY <1>1, <1>2 DEF QueueTypes
<1>3. KnownPlaces' /\ Operations'
  BY <1>1, <1>2 DEF KnownPlaces, Operations
<1>4. Ordered' /\ Rising' /\ Earliest'
  BY <1>1, <1>2 DEF Ordered, Rising, Earliest, Moving, Adding, Time
<1>5. Members'
  <2>1. Waiting' = Waiting /\ InHeap' = InHeap
    BY <1>1 DEF Waiting, InHeap
  <2>2. Linked(Waiting)'
    BY <1>1, <1>2, <2>1, LinkedSame DEF Members
  <2> QED
    BY <1>1, <1>2, <2>1, <2>2 DEF Members, Removing, Adding
\* An operation waits for a timer in the heap, which is due no sooner than the first.
<1>6. ASSUME NEW op \in DOMAIN waits PROVE now < waits[op]
  <2>a. PICK u \in Timers : op \in Range(op_queue_[u])
    BY <1>2 DEF Operations
  <2>1. PICK m \in DOMAIN op_queue_[u] : op = op_queue_[u][m]
    BY <2>a DEF Range
  <2>2. op_queue_[u] # <<>>
    <3>1. op_queue_[u] \in Seq(Nat)
      BY <1>2 DEF QueueTypes
    <3>2. DOMAIN <<>> = {}
      OBVIOUS
    <3> QED
      BY <2>1, <3>1, <3>2
  <2>3. PICK i \in DOMAIN heap_ : heap_[i].timer_ = u
    BY <1>2, <2>2 DEF InHeap, Waiting
  <2>4. waits[op] = heap_[i].time_
    BY <1>2, <2>1, <2>3 DEF Operations
  <2>5. /\ Len(heap_) \in Nat /\ i \in 1..Len(heap_) /\ i - 1 \in 0..(Len(heap_) - 1)
        /\ (i - 1) + 1 = i /\ 0 \in 0..(Len(heap_) - 1)
    BY <1>2, <2>3, HeapFacts
  <2>6. Time(0) <= Time(i - 1)
    <3>1. \A k \in 1..(Len(heap_) - 1) : Time(Parent(k)) <= Time(k)
      BY <1>1, <1>2 DEF Ordered
    <3> QED
      BY <1>2, <2>5, <3>1, FirstIsLeast
  <2>7. Time(i - 1) = heap_[i].time_ /\ Time(i - 1) \in Nat /\ Time(0) \in Nat
    BY <1>2, <2>5, HeapFacts DEF Time
  <2>8. heap_ # <<>>
    <3>1. Len(heap_) # 0
      BY <2>5
    <3> QED
      BY <3>1, EmptySeq
  <2>9. ~(Time(0) <= now)
    BY <1>1, <2>8 DEF FirstDue
  <2> QED
    BY <1>2, <2>4, <2>6, <2>7, <2>9
<1>7. Handed'
  BY <1>1, <1>2, <1>6 DEF Handed
<1> QED
  BY <1>a, <1>3, <1>4, <1>5, <1>7 DEF QueueInv

\* get_ready_timers begins with nothing handed over.
LEMMA GetReadyTimersInv == ASSUME QueueInv, stage = "idle", GetReadyTimers PROVE QueueInv'
<1>1. /\ stage' = "ready" /\ outcome' = [call |-> "ready", due |-> <<>>]
      /\ UNCHANGED <<heap_, heap_index_, op_queue_, next_, prev_, timers_, now, timer, index, waits>>
  BY DEF GetReadyTimers, heapVars, links, locals_
<1>2. /\ QueueTypes /\ KnownPlaces /\ Ordered /\ Members /\ Operations
      /\ InHeap = Waiting /\ Linked(Waiting)
  BY DEF QueueInv, Members
<1>3. outcome'.call = "ready" /\ outcome'.due = <<>> /\ <<>> \in Seq(Nat) /\ DOMAIN <<>> = {}
  BY <1>1, EmptySeq
<1>4. QueueTypes'
  BY <1>1, <1>2, <1>3 DEF QueueTypes
<1>5. KnownPlaces' /\ Operations'
  BY <1>1, <1>2 DEF KnownPlaces, Operations
<1>6. Ordered' /\ Rising' /\ Earliest'
  BY <1>1, <1>2 DEF Ordered, Rising, Earliest, Moving, Adding, Time
<1>7. Members'
  <2>1. Waiting' = Waiting /\ InHeap' = InHeap
    BY <1>1 DEF Waiting, InHeap
  <2>2. Linked(Waiting)'
    BY <1>1, <1>2, <2>1, LinkedSame
  <2> QED
    BY <1>1, <1>2, <2>1, <2>2 DEF Members, Removing, Adding
<1>8. Handed'
  BY <1>1, <1>3 DEF Handed
<1> QED
  BY <1>4, <1>5, <1>6, <1>7, <1>8 DEF QueueInv

\* cancel_timer leaves operations of the timer behind,
LEMMA CancelSomeInv ==
    ASSUME QueueInv, stage = "idle", NEW t \in Timers, NEW n \in Nat, CancelSome(t, n)
    PROVE  QueueInv'
<1>1. /\ n < Len(op_queue_[t]) /\ HandOver("cancel", <<>>, t, n)
      /\ UNCHANGED <<heap_, heap_index_, next_, prev_, timers_, now, stage, timer, index>>
  BY DEF CancelSome, heapVars, links, locals_
<1>2. /\ QueueTypes /\ KnownPlaces /\ Ordered /\ Members /\ Operations
      /\ InHeap = Waiting /\ Linked(Waiting)
  BY DEF QueueInv, Members
<1>3. n \in 0..Len(op_queue_[t]) /\ op_queue_[t] # <<>> /\ n # Len(op_queue_[t])
  <2>1. op_queue_[t] \in Seq(Nat) /\ Len(op_queue_[t]) \in Nat
    BY <1>2, LenProperties DEF QueueTypes
  <2>2. Len(<<>>) = 0
    BY EmptySeq
  <2>3. Len(op_queue_[t]) # 0
    BY <1>1, <2>1
  <2> QED
    BY <1>1, <2>1, <2>2, <2>3
<1>4. /\ op_queue_' \in [Timers -> Seq(Nat)]
      /\ \A u \in Timers \ {t} : op_queue_'[u] = op_queue_[u]
      /\ op_queue_'[t] # <<>>
      /\ \A u \in Timers : \A k \in DOMAIN op_queue_'[u] :
            \E l \in DOMAIN op_queue_[u] : op_queue_'[u][k] = op_queue_[u][l]
      /\ \A u, v \in Timers : \A j \in DOMAIN op_queue_'[u], k \in DOMAIN op_queue_'[v] :
            op_queue_'[u][j] = op_queue_'[v][k] => u = v /\ j = k
      /\ waits' \in [DOMAIN waits' -> Nat] /\ DOMAIN waits' \subseteq DOMAIN waits
      /\ \A op \in DOMAIN waits' : waits'[op] = waits[op]
      /\ DOMAIN waits' = UNION {Range(op_queue_'[u]) : u \in Timers}
  BY <1>1, <1>2, <1>3, EmptySeq, HandOverKeeps
<1>5. outcome'.call = "cancel"
  BY <1>1 DEF HandOver
<1>6. Waiting' = Waiting
  BY <1>3, <1>4 DEF Waiting
<1>7. QueueTypes'
  BY <1>1, <1>2, <1>4, <1>5 DEF QueueTypes
<1>8. KnownPlaces' /\ Ordered' /\ Rising' /\ Earliest' /\ Handed'
  BY <1>1, <1>2, <1>5
  DEF KnownPlaces, Ordered, Rising, Earliest, Handed, Moving, Adding, Time
<1>9. Members'
  <2>1. InHeap' = InHeap
    BY <1>1 DEF InHeap
  <2>2. Linked(Waiting)'
    BY <1>1, <1>2, <1>6, LinkedSame
  <2> QED
    BY <1>1, <1>2, <1>6, <2>1, <2>2 DEF Members, Removing, Adding
<1>10. Operations'
  <2>1. ASSUME NEW k \in DOMAIN heap_, NEW m \in DOMAIN op_queue_'[heap_[k].timer_]
        PROVE  waits'[op_queue_'[heap_[k].timer_][m]] = heap_[k].time_
    <3>1. heap_[k].timer_ \in Timers
      BY <1>2, HeapFacts
    <3>2. PICK l \in DOMAIN op_queue_[heap_[k].timer_] :
             op_queue_'[heap_[k].timer_][m] = op_queue_[heap_[k].timer_][l]
      BY <1>4, <3>1
    <3>3. waits[op_queue_[heap_[k].timer_][l]] = heap_[k].time_
      BY <1>2 DEF Operations
    <3>4. op_queue_'[heap_[k].timer_][m] \in DOMAIN waits'
      BY <1>4, <3>1 DEF Range
    <3> QED
      BY <1>4, <3>2, <3>3, <3>4
  <2> QED
    BY <1>1, <1>4, <2>1 DEF Operations
<1> QED
  BY <1>7, <1>8, <1>9, <1>10 DEF QueueInv

\* or takes it out with all of them.
LEMMA CancelTimerInv ==
    ASSUME QueueInv, stage = "idle", NEW t \in Timers, NEW n \in Nat, CancelTimer(t, n)
    PROVE  QueueInv'
<1>1. /\ Active(t) /\ HandOver("cancel", <<>>, t, Len(op_queue_[t]))
      /\ RemoveTimer(t) /\ UNCHANGED <<links, now>>
  BY DEF CancelTimer
<1>2. QueueTypes /\ Operations /\ InHeap = Waiting /\ Linked(Waiting)
  BY DEF QueueInv, Members
<1>3. t \in InHeap
  BY <1>1, <1>2 DEF Linked
<1>4. outcome'.call = "cancel" /\ outcome'.due \in Seq(Nat)
  <2>1. Len(op_queue_[t]) \in 0..Len(op_queue_[t])
    BY <1>2, PlacesOf DEF QueueTypes
  <2> DEFINE due == <<>>
  <2>2. due \in Seq(Nat) /\ HandOver("cancel", due, t, Len(op_queue_[t]))
    BY <1>1, EmptySeq
  <2> HIDE DEF due
  <2> QED
    BY <1>2, <2>1, <2>2, GivenFacts
<1>5. /\ QueueTypes' /\ KnownPlaces' /\ Ordered' /\ Members' /\ Operations' /\ Rising' /\ Earliest'
  BY <1>1, <1>3, <1>4, EmptySeq, TakeOut
<1>6. Handed'
  BY <1>4 DEF Handed
<1> QED
  BY <1>5, <1>6 DEF QueueInv

\* The clock changes nothing else.
LEMMA TickInv == ASSUME QueueInv, stage = "idle", Tick PROVE QueueInv'
<1>1. /\ now' = now + 1 /\ outcome' = [call |-> "none"]
      /\ UNCHANGED <<heap_, heap_index_, op_queue_, next_, prev_, timers_, stage, timer, index, waits>>
  BY DEF Tick, heapVars, links, locals_
<1>2. /\ QueueTypes /\ KnownPlaces /\ Ordered /\ Members /\ Operations
      /\ InHeap = Waiting /\ Linked(Waiting)
  BY DEF QueueInv, Members
<1>3. outcome'.call = "none"
  BY <1>1
<1>4. QueueTypes'
  <2>1. now' \in Nat
    BY <1>1, <1>2 DEF QueueTypes
  <2> QED
    BY <1>1, <1>2, <1>3, <2>1 DEF QueueTypes
<1>5. KnownPlaces' /\ Operations'
  BY <1>1, <1>2 DEF KnownPlaces, Operations
<1>6. Ordered' /\ Rising' /\ Earliest' /\ Handed'
  BY <1>1, <1>2, <1>3 DEF Ordered, Rising, Earliest, Handed, Moving, Adding, Time
<1>7. Members'
  <2>1. Waiting' = Waiting /\ InHeap' = InHeap
    BY <1>1 DEF Waiting, InHeap
  <2>2. Linked(Waiting)'
    BY <1>1, <1>2, <2>1, LinkedSame
  <2> QED
    BY <1>1, <1>2, <2>1, <2>2 DEF Members, Removing, Adding
<1> QED
  BY <1>4, <1>5, <1>6, <1>7 DEF QueueInv

----------------------------------------------------------------------------
(* The list.                                                               *)

\* Linked, for any links.
LinkedBy(next, prev, head, all) ==
    /\ \A t \in Timers : prev[t] # null \/ head = t <=> t \in all
    /\ head # null => head \in all /\ prev[head] = null
    /\ \A t \in all : /\ next[t] # null => next[t] \in all /\ prev[next[t]] = t
                      /\ prev[t] # null => prev[t] \in all /\ next[prev[t]] = t
    /\ \A t \in Timers \ all : next[t] = null /\ prev[t] = null
    /\ \A some \in SUBSET all :
          /\ head # null => head \in some
          /\ \A t \in some : next[t] # null => next[t] \in some
          => some = all

\* It says the same of the links there are.
LEMMA LinkedIs == \A all : Linked(all) <=> LinkedBy(next_, prev_, timers_, all)
BY DEF Linked, LinkedBy, Active

\* A timer that is put in front,
LEMMA LinkFirst ==
    ASSUME NEW next \in [Timers -> Timers \cup {null}], NEW prev \in [Timers -> Timers \cup {null}],
           NEW head \in Timers \cup {null}, NEW all \in SUBSET Timers,
           LinkedBy(next, prev, head, all), NEW new \in Timers \ all
    PROVE  LinkedBy([next EXCEPT ![new] = head],
                    [t \in Timers |-> IF t = head THEN new ELSE IF t = new THEN null ELSE prev[t]],
                    new, all \cup {new})
<1> DEFINE n2 == [next EXCEPT ![new] = head]
           p2 == [t \in Timers |-> IF t = head THEN new ELSE IF t = new THEN null ELSE prev[t]]
<1>1. /\ \A t \in Timers : prev[t] # null \/ head = t <=> t \in all
      /\ head # null => head \in all /\ prev[head] = null
      /\ \A t \in all : /\ next[t] # null => next[t] \in all /\ prev[next[t]] = t
                        /\ prev[t] # null => prev[t] \in all /\ next[prev[t]] = t
      /\ \A t \in Timers \ all : next[t] = null /\ prev[t] = null
  BY DEF LinkedBy
<1>2. \A some \in SUBSET all :
         /\ head # null => head \in some
         /\ \A t \in some : next[t] # null => next[t] \in some
         => some = all
  BY DEF LinkedBy
<1>3. /\ \A t \in Timers : n2[t] = IF t = new THEN head ELSE next[t]
      /\ \A t \in Timers : p2[t] = IF t = head THEN new ELSE IF t = new THEN null ELSE prev[t]
  OBVIOUS
<1>4. null \notin Timers /\ new # null /\ head # new
  BY <1>1 DEF Timers, null
<1> HIDE DEF n2, p2
<1>5. \A t \in Timers : p2[t] # null \/ new = t <=> t \in all \cup {new}
  BY <1>1, <1>3, <1>4
<1>6. new \in all \cup {new} /\ p2[new] = null
  BY <1>3, <1>4
<1>7. ASSUME NEW t \in all \cup {new}
      PROVE  /\ n2[t] # null => n2[t] \in all \cup {new} /\ p2[n2[t]] = t
             /\ p2[t] # null => p2[t] \in all \cup {new} /\ n2[p2[t]] = t
  <2>1. CASE t = new
    BY <1>1, <1>3, <1>4, <2>1
  <2>2. CASE t \in all /\ t # new
    <3>1. n2[t] = next[t]
      BY <1>3, <2>2
    <3>2. n2[t] # null => n2[t] \in all /\ prev[n2[t]] = t /\ n2[t] # head /\ n2[t] # new
      BY <1>1, <1>4, <2>2, <3>1
    <3>3. p2[t] = IF t = head THEN new ELSE prev[t]
      BY <1>3, <2>2
    <3>4. prev[t] # null => prev[t] \in all /\ prev[t] # new /\ next[prev[t]] = t
      BY <1>1, <2>2
    <3>5. n2[t] # null => n2[t] \in all \cup {new} /\ p2[n2[t]] = t
      BY <1>3, <3>2
    <3> QED
      BY <1>3, <3>3, <3>4, <3>5
  <2> QED
    BY <2>1, <2>2
<1>8. \A t \in Timers \ (all \cup {new}) : n2[t] = null /\ p2[t] = null
  BY <1>1, <1>3, <1>4
<1>9. ASSUME NEW some \in SUBSET (all \cup {new}), new \in some,
             \A t \in some : n2[t] # null => n2[t] \in some
      PROVE  some = all \cup {new}
  <2> DEFINE old == some \ {new}
  <2>1. old \in SUBSET all
    OBVIOUS
  <2>2. head # null => head \in old
    BY <1>3, <1>4, <1>9
  <2>3. \A t \in old : next[t] # null => next[t] \in old
    BY <1>1, <1>3, <1>9, <2>1
  <2>4. old = all
    BY <1>2, <2>1, <2>2, <2>3
  <2> QED
    BY <1>9, <2>4
<1>10. LinkedBy(n2, p2, new, all \cup {new})
  BY <1>4, <1>5, <1>6, <1>7, <1>8, <1>9 DEF LinkedBy
<1> QED
  BY <1>10 DEF n2, p2

\* and one that is taken out.
LEMMA Unlinked ==
    ASSUME NEW next \in [Timers -> Timers \cup {null}], NEW prev \in [Timers -> Timers \cup {null}],
           NEW head \in Timers \cup {null}, NEW all \in SUBSET Timers,
           LinkedBy(next, prev, head, all), NEW gone \in all
    PROVE  LinkedBy([t \in Timers |-> IF t = gone THEN null
                                      ELSE IF t = prev[gone] THEN next[gone] ELSE next[t]],
                    [t \in Timers |-> IF t = gone THEN null
                                      ELSE IF t = next[gone] THEN prev[gone] ELSE prev[t]],
                    IF head = gone THEN next[gone] ELSE head, all \ {gone})
<1> DEFINE before == prev[gone]
           behind == next[gone]
           n2 == [t \in Timers |-> IF t = gone THEN null ELSE IF t = before THEN behind ELSE next[t]]
           p2 == [t \in Timers |-> IF t = gone THEN null ELSE IF t = behind THEN before ELSE prev[t]]
           h2 == IF head = gone THEN behind ELSE head
           left == all \ {gone}
<1>1. /\ \A t \in Timers : prev[t] # null \/ head = t <=> t \in all
      /\ head # null => head \in all /\ prev[head] = null
      /\ \A t \in all : /\ next[t] # null => next[t] \in all /\ prev[next[t]] = t
                        /\ prev[t] # null => prev[t] \in all /\ next[prev[t]] = t
      /\ \A t \in Timers \ all : next[t] = null /\ prev[t] = null
  BY DEF LinkedBy
<1>2. \A some \in SUBSET all :
         /\ head # null => head \in some
         /\ \A t \in some : next[t] # null => next[t] \in some
         => some = all
  BY DEF LinkedBy
<1>3. /\ \A t \in Timers : n2[t] = IF t = gone THEN null ELSE IF t = before THEN behind ELSE next[t]
      /\ \A t \in Timers : p2[t] = IF t = gone THEN null ELSE IF t = behind THEN before ELSE prev[t]
  OBVIOUS
<1>4. null \notin Timers /\ gone # null /\ gone \in Timers
  BY DEF Timers, null
\* No timer comes before itself: without it a list that does would hold the others.
<1>5. before # gone /\ behind # gone
  <2>1. SUFFICES ASSUME behind = gone PROVE FALSE
    BY <1>1, <1>4
  <2>2. head # gone /\ head # null => head \in left
    BY <1>1
  <2>3. head # gone
    BY <1>1, <1>4, <2>1
  <2>4. \A t \in left : next[t] # null => next[t] \in left
    BY <1>1, <1>4, <2>1
  <2>5. left = all
    BY <1>2, <2>2, <2>3, <2>4
  <2> QED
    BY <2>5
<1>6. /\ behind # null => behind \in left /\ prev[behind] = gone
      /\ before # null => before \in left /\ next[before] = gone
      /\ before = null <=> head = gone
  BY <1>1, <1>4, <1>5
<1> HIDE DEF n2, p2, before, behind
<1>7. \A t \in Timers : p2[t] # null \/ h2 = t <=> t \in left
  <2>1. ASSUME NEW t \in Timers, t # gone, t = behind PROVE p2[t] # null \/ h2 = t
    BY <1>3, <1>6, <2>1
  <2>2. ASSUME NEW t \in Timers, t # gone, t # behind
        PROVE  (p2[t] # null \/ h2 = t) <=> t \in all
    <3>1. p2[t] = prev[t]
      BY <1>3, <2>2
    <3>2. h2 = t <=> head = t
      BY <2>2
    <3> QED
      BY <1>1, <3>1, <3>2
  <2>3. ~(p2[gone] # null \/ h2 = gone)
    BY <1>3, <1>4, <1>5
  <2> QED
    BY <1>4, <1>6, <2>1, <2>2, <2>3
<1>8. h2 # null => h2 \in left /\ p2[h2] = null
  <2>1. CASE head = gone
    BY <1>3, <1>6, <2>1
  <2>2. CASE head # gone
    <3>1. head # null => head \in left /\ prev[head] = null /\ head # behind
      BY <1>1, <1>4, <1>6, <2>2
    <3> QED
      BY <1>3, <2>2, <3>1
  <2> QED
    BY <2>1, <2>2
<1>9. ASSUME NEW t \in left
      PROVE  /\ n2[t] # null => n2[t] \in left /\ p2[n2[t]] = t
             /\ p2[t] # null => p2[t] \in left /\ n2[p2[t]] = t
  <2>1. n2[t] # null => n2[t] \in left /\ p2[n2[t]] = t
    <3>1. CASE t = before
      BY <1>3, <1>4, <1>6, <3>1
    <3>2. CASE t # before
      <4>1. n2[t] = next[t]
        BY <1>3, <3>2
      <4>2. next[t] # null => next[t] \in all /\ prev[next[t]] = t
        BY <1>1
      <4>3. next[t] # null => next[t] # gone /\ next[t] # behind
        BY <1>4, <1>6, <3>2, <4>2 DEF before
      <4> QED
        BY <1>3, <4>1, <4>2, <4>3
    <3> QED
      BY <3>1, <3>2
  <2>2. p2[t] # null => p2[t] \in left /\ n2[p2[t]] = t
    <3>1. CASE t = behind
      BY <1>3, <1>4, <1>6, <3>1
    <3>2. CASE t # behind
      <4>1. p2[t] = prev[t]
        BY <1>3, <3>2
      <4>2. prev[t] # null => prev[t] \in all /\ next[prev[t]] = t
        BY <1>1
      <4>3. prev[t] # null => prev[t] # gone /\ prev[t] # before
        BY <1>4, <1>6, <3>2, <4>2 DEF behind
      <4> QED
        BY <1>3, <4>1, <4>2, <4>3
    <3> QED
      BY <3>1, <3>2
  <2> QED
    BY <2>1, <2>2
<1>10. \A t \in Timers \ left : n2[t] = null /\ p2[t] = null
  <2>1. \A t \in Timers \ left : t # gone => t # before /\ t # behind
    BY <1>4, <1>6
  <2> QED
    BY <1>1, <1>3, <2>1
<1>11. ASSUME NEW some \in SUBSET left, h2 # null => h2 \in some,
              \A t \in some : n2[t] # null => n2[t] \in some
       PROVE  some = left
  <2>1. \A t \in some : t # before => n2[t] = next[t]
    BY <1>3
  <2>2. before \in some => n2[before] = behind
    BY <1>3
  \* With the timer taken out it holds what the old links lead to, if they lead to it.
  <2>3. CASE head = gone \/ before \in some
    <3> DEFINE old == some \cup {gone}
    <3>1. behind # null => behind \in some
      BY <1>6, <1>11, <2>2, <2>3
    <3>2. head # null => head \in old
      BY <1>11, <2>3
    <3>3. next[gone] = behind /\ (before # null => next[before] = gone)
      BY <1>6 DEF behind
    <3>4. \A t \in old : next[t] # null => next[t] \in old
      BY <1>4, <1>6, <1>11, <2>1, <3>1, <3>3
    <3>5. old = all
      <4>1. old \in SUBSET all
        OBVIOUS
      <4> HIDE DEF old
      <4> QED
        BY <1>2, <3>2, <3>4, <4>1
    <3> QED
      BY <3>5
  <2>4. CASE head # gone /\ before \notin some
    <3>1. head # null => head \in some
      BY <1>11, <2>4
    <3>2. \A t \in some : next[t] # null => next[t] \in some
      BY <1>11, <2>1, <2>4
    <3>3. some = all
      BY <1>2, <3>1, <3>2
    <3> QED
      BY <1>4, <1>6, <2>4, <3>3
  <2> QED
    BY <2>3, <2>4
<1>12. LinkedBy(n2, p2, h2, left)
  <2> HIDE DEF left, h2
  <2> QED
    BY <1>7, <1>8, <1>9, <1>10, <1>11 DEF LinkedBy
<1> QED
  BY <1>12 DEF n2, p2, before, behind

----------------------------------------------------------------------------
(* enqueue_timer and the end of remove_timer.                              *)

\* The new operation is the last of its timer.
LEMMA EnqueueKeeps ==
    ASSUME QueueTypes, Operations, NEW t \in Timers, NEW op \in Nat \ DOMAIN waits,
           NEW time \in Nat, EnqueueOp(t, op, time),
           \A i \in DOMAIN heap_ : heap_[i].timer_ = t => heap_[i].time_ = time
    PROVE  /\ op_queue_' \in [Timers -> Seq(Nat)] /\ op_queue_'[t] = Append(op_queue_[t], op)
           /\ waits' \in [DOMAIN waits' -> Nat] /\ DOMAIN waits' = DOMAIN waits \cup {op}
           /\ waits'[op] = time /\ \A o \in DOMAIN waits : waits'[o] = waits[o]
           /\ Waiting' = Waiting \cup {t}
           /\ Operations'
<1> DEFINE q == op_queue_[t]
           m == Len(q)
<1>1. /\ op_queue_ \in [Timers -> Seq(Nat)] /\ q \in Seq(Nat) /\ DOMAIN waits \subseteq Nat
      /\ waits \in [DOMAIN waits -> Nat] /\ m \in Nat /\ DOMAIN q = 1..m
  BY PlacesOf DEF QueueTypes
<1>2. /\ op_queue_' = [op_queue_ EXCEPT ![t] = Append(q, op)]
      /\ waits' = [o \in DOMAIN waits \cup {op} |-> IF o = op THEN time ELSE waits[o]]
      /\ UNCHANGED heap_
  BY DEF EnqueueOp, heapVars
<1> HIDE DEF q, m
<1>3. /\ Append(q, op) \in Seq(Nat) /\ Append(q, op) # <<>> /\ DOMAIN Append(q, op) = 1..(m + 1)
      /\ \A k \in 1..m : Append(q, op)[k] = q[k]
      /\ Append(q, op)[m + 1] = op
  BY <1>1, AppendProperties, LenProperties DEF m
<1>4. /\ op_queue_' \in [Timers -> Seq(Nat)] /\ op_queue_'[t] = Append(q, op)
      /\ \A u \in Timers \ {t} : op_queue_'[u] = op_queue_[u]
  BY <1>1, <1>2, <1>3
<1>5. /\ waits' \in [DOMAIN waits' -> Nat] /\ DOMAIN waits' = DOMAIN waits \cup {op}
      /\ waits'[op] = time /\ \A o \in DOMAIN waits : waits'[o] = waits[o]
  BY <1>1, <1>2
<1>6. Waiting' = Waiting \cup {t}
  <2>1. \A u \in Timers : op_queue_'[u] # <<>> <=> op_queue_[u] # <<>> \/ u = t
    BY <1>3, <1>4
  <2> QED
    BY <2>1 DEF Waiting
\* Each place holds what it held, or the new operation, which was in none.
<1>7. \A u \in Timers : \A k \in DOMAIN op_queue_[u] : op_queue_[u][k] \in DOMAIN waits
  BY DEF Operations, Range
<1>8. ASSUME NEW u \in Timers, NEW k \in DOMAIN op_queue_'[u]
      PROVE  \/ u = t /\ k = m + 1 /\ op_queue_'[u][k] = op
             \/ k \in DOMAIN op_queue_[u] /\ op_queue_'[u][k] = op_queue_[u][k]
  <2>1. CASE u = t
    <3>1. k \in 1..m \/ k = m + 1
      BY <1>1, <1>3, <1>4, <2>1
    <3> QED
      BY <1>1, <1>3, <1>4, <2>1, <3>1 DEF q
  <2>2. CASE u # t
    BY <1>4, <2>2
  <2> QED
    BY <2>1, <2>2
<1>9. ASSUME NEW u \in Timers, NEW v \in Timers,
             NEW j \in DOMAIN op_queue_'[u], NEW k \in DOMAIN op_queue_'[v],
             op_queue_'[u][j] = op_queue_'[v][k]
      PROVE  u = v /\ j = k
  <2>1. /\ \/ u = t /\ j = m + 1 /\ op_queue_'[u][j] = op
           \/ j \in DOMAIN op_queue_[u] /\ op_queue_'[u][j] = op_queue_[u][j]
        /\ \/ v = t /\ k = m + 1 /\ op_queue_'[v][k] = op
           \/ k \in DOMAIN op_queue_[v] /\ op_queue_'[v][k] = op_queue_[v][k]
    BY <1>8
  <2> QED
    BY <1>7, <1>9, <2>1 DEF Operations
<1>10. ASSUME NEW u \in Timers, NEW k \in DOMAIN op_queue_[u]
       PROVE  k \in DOMAIN op_queue_'[u] /\ op_queue_'[u][k] = op_queue_[u][k]
  <2>1. CASE u = t
    <3>1. k \in 1..m /\ k \in 1..(m + 1)
      BY <1>1, <2>1 DEF q
    <3> QED
      BY <1>3, <1>4, <2>1, <3>1 DEF q
  <2>2. CASE u # t
    BY <1>4, <2>2
  <2> QED
    BY <2>1, <2>2
<1>11. DOMAIN waits' = UNION {Range(op_queue_'[u]) : u \in Timers}
  <2>1. ASSUME NEW o \in DOMAIN waits PROVE \E u \in Timers : o \in Range(op_queue_'[u])
    <3>1. PICK u \in Timers : o \in Range(op_queue_[u])
      BY DEF Operations
    <3>2. PICK k \in DOMAIN op_queue_[u] : o = op_queue_[u][k]
      BY <3>1 DEF Range
    <3> QED
      BY <1>10, <3>2 DEF Range
  <2>2. op \in Range(op_queue_'[t])
    <3>1. m + 1 \in 1..(m + 1)
      BY <1>1
    <3> QED
      BY <1>3, <1>4, <3>1 DEF Range
  <2>3. ASSUME NEW u \in Timers, NEW o \in Range(op_queue_'[u]) PROVE o \in DOMAIN waits'
    <3>1. PICK k \in DOMAIN op_queue_'[u] : o = op_queue_'[u][k]
      BY DEF Range
    <3> QED
      BY <1>5, <1>7, <1>8, <3>1
  <2> QED
    BY <1>5, <2>1, <2>2, <2>3
<1>12. ASSUME NEW i \in DOMAIN heap_, NEW k \in DOMAIN op_queue_'[heap_[i].timer_]
       PROVE  waits'[op_queue_'[heap_[i].timer_][k]] = heap_[i].time_
  <2> DEFINE u == heap_[i].timer_
  <2>1. u \in Timers
    BY HeapFacts
  <2>2. CASE u = t /\ k = m + 1 /\ op_queue_'[u][k] = op
    BY <1>5, <2>2
  <2>3. CASE k \in DOMAIN op_queue_[u] /\ op_queue_'[u][k] = op_queue_[u][k]
    <3>1. op_queue_[u][k] \in DOMAIN waits
      BY <1>7, <2>1, <2>3
    <3>2. waits[op_queue_[u][k]] = heap_[i].time_
      BY <2>3 DEF Operations
    <3> QED
      BY <1>5, <2>3, <3>1, <3>2
  <2> QED
    BY <1>8, <2>1, <2>2, <2>3
<1>13. Operations'
  <2>1. \A u, v \in Timers : \A j \in DOMAIN op_queue_'[u], k \in DOMAIN op_queue_'[v] :
           op_queue_'[u][j] = op_queue_'[v][k] => u = v /\ j = k
    BY <1>9
  <2>2. \A i \in DOMAIN heap_ : \A k \in DOMAIN op_queue_'[heap_[i].timer_] :
           waits'[op_queue_'[heap_[i].timer_][k]] = heap_[i].time_
    BY <1>12
  <2>3. heap_' = heap_
    BY <1>2
  <2> QED
    BY <1>11, <2>1, <2>2, <2>3 DEF Operations
<1> QED
  BY <1>4, <1>5, <1>6, <1>13 DEF q

\* enqueue_timer of a timer that is active: its first operation is due as soon.
LEMMA EnqueueActiveInv ==
    ASSUME QueueInv, stage = "idle", NEW t \in Timers, NEW op \in Nat \ DOMAIN waits,
           EnqueueActive(t, op)
    PROVE  QueueInv'
<1> DEFINE first == op_queue_[t][1]
           time == waits[first]
<1>1. /\ Active(t) /\ EnqueueOp(t, op, time)
      /\ UNCHANGED <<heap_, heap_index_, next_, prev_, timers_, now, stage, timer, index>>
  BY DEF EnqueueActive, EnqueueOp, links, locals_, heapVars
<1>2. /\ QueueTypes /\ KnownPlaces /\ Ordered /\ Members /\ Operations
      /\ InHeap = Waiting /\ Linked(Waiting)
  BY DEF QueueInv, Members
<1>3. t \in Waiting
  BY <1>1, <1>2 DEF Linked
<1>4. 1 \in DOMAIN op_queue_[t] /\ op_queue_[t] \in Seq(Nat)
  <2>1. op_queue_[t] \in Seq(Nat) /\ op_queue_[t] # <<>>
    BY <1>2, <1>3 DEF QueueTypes, Waiting
  <2>2. Len(op_queue_[t]) \in Nat \ {0}
    BY <2>1, EmptySeq, LenProperties
  <2> QED
    BY <2>1, <2>2, LenProperties
<1>5. first \in DOMAIN waits /\ time \in Nat /\ first # op
  <2>1. first \in DOMAIN waits
    BY <1>2, <1>4 DEF Operations, Range
  <2> QED
    BY <1>2, <2>1 DEF QueueTypes
<1>6. \A i \in DOMAIN heap_ : heap_[i].timer_ = t => heap_[i].time_ = time
  BY <1>2, <1>4 DEF Operations
<1> HIDE DEF time, first
<1>7. /\ op_queue_' \in [Timers -> Seq(Nat)] /\ op_queue_'[t] = Append(op_queue_[t], op)
      /\ waits' \in [DOMAIN waits' -> Nat] /\ DOMAIN waits' = DOMAIN waits \cup {op}
      /\ waits'[op] = time /\ \A o \in DOMAIN waits : waits'[o] = waits[o]
      /\ Waiting' = Waiting \cup {t}
      /\ Operations'
  BY <1>1, <1>2, <1>5, <1>6, EnqueueKeeps
<1>8. /\ outcome'.call = "enqueue" /\ outcome'.op = op
      /\ outcome'.earliest <=> heap_index_[t] = 0 /\ op_queue_'[t][1] = op
  BY <1>1 DEF EnqueueOp
<1>9. QueueTypes'
  BY <1>1, <1>2, <1>7, <1>8 DEF QueueTypes
<1>10. KnownPlaces' /\ Ordered' /\ Rising' /\ Handed'
  BY <1>1, <1>2, <1>8 DEF KnownPlaces, Ordered, Rising, Handed, Moving, Adding, Time
<1>11. Members'
  <2>1. Waiting' = Waiting
    BY <1>3, <1>7
  <2>2. InHeap' = InHeap
    BY <1>1 DEF InHeap
  <2>3. Linked(Waiting)'
    BY <1>1, <1>2, <2>1, LinkedSame
  <2> QED
    BY <1>1, <1>2, <2>1, <2>2, <2>3 DEF Members, Removing, Adding
<1>12. Earliest'
  <2>1. op_queue_'[t][1] = first
    <3>1. 1 \in 1..Len(op_queue_[t])
      BY <1>4, LenProperties
    <3> QED
      BY <1>4, <1>7, <3>1, AppendProperties DEF first
  <2>2. ~outcome'.earliest
    BY <1>5, <1>8, <2>1
  <2>3. first \in DOMAIN waits' \ {op} /\ ~(waits'[op] < waits'[first])
    BY <1>5, <1>7 DEF time
  <2> QED
    BY <1>8, <2>2, <2>3 DEF Earliest
<1> QED
  BY <1>7, <1>9, <1>10, <1>11, <1>12 DEF QueueInv

\* enqueue_timer of another timer: its entry is the last of the heap, and is to rise.
LEMMA EnqueueTimerInv ==
    ASSUME QueueInv, stage = "idle", NEW t \in Timers, NEW op \in Nat \ DOMAIN waits,
           NEW time \in Nat, EnqueueTimer(time, t, op)
    PROVE  QueueInv'
<1> DEFINE n == Len(heap_)
           new == [time_ |-> time, timer_ |-> t]
<1>1. /\ ~Active(t) /\ heap_' = Append(heap_, new)
      /\ heap_index_' = [heap_index_ EXCEPT ![t] = n]
      /\ stage' = "up" /\ timer' = t /\ index' = n
      /\ outcome' = [call |-> "enqueue", op |-> op, time |-> time]
      /\ UNCHANGED <<op_queue_, next_, prev_, timers_, now, waits>>
  BY DEF EnqueueTimer, links
<1>2. /\ QueueTypes /\ KnownPlaces /\ Ordered /\ Members /\ Operations
      /\ InHeap = Waiting /\ Linked(Waiting)
  BY DEF QueueInv, Members
<1>3. t \notin Waiting /\ op_queue_[t] = <<>>
  BY <1>1, <1>2 DEF Linked, Waiting
<1>4. /\ heap_ \in Seq(Entry) /\ new \in Entry /\ n \in Nat /\ DOMAIN heap_ = 1..n
      /\ \A k \in 1..n : heap_[k] \in Entry /\ heap_[k].timer_ \in Timers
      /\ heap_index_ \in [Timers -> Nat]
  BY <1>2, HeapFacts DEF QueueTypes, Entry
<1> HIDE DEF n, new
<1>5. /\ heap_' \in Seq(Entry) /\ Len(heap_') = n + 1 /\ DOMAIN heap_' = 1..(n + 1)
      /\ \A k \in 1..n : heap_'[k] = heap_[k]
      /\ heap_'[n + 1] = new
  BY <1>1, <1>4, AppendProperties, LenProperties DEF n
<1>6. outcome'.call = "enqueue" /\ outcome'.op = op /\ outcome'.time = time
  BY <1>1
<1>7. heap_index_' \in [Timers -> Nat] /\ heap_index_'[t] = n
  BY <1>1, <1>4
<1>8. QueueTypes'
  BY <1>1, <1>2, <1>4, <1>5, <1>6, <1>7 DEF QueueTypes
<1>9. new.timer_ = t /\ new.time_ = time
  BY DEF new
<1>10. \A k \in 1..n : heap_[k].timer_ # t
  BY <1>2, <1>3, <1>4 DEF InHeap
<1>11. KnownPlaces'
  <2>1. ASSUME NEW k \in DOMAIN heap_' PROVE heap_index_'[heap_'[k].timer_] = k - 1
    <3>1. CASE k = n + 1
      BY <1>4, <1>5, <1>7, <1>9, <3>1
    <3>2. CASE k \in 1..n
      <4>1. heap_'[k].timer_ = heap_[k].timer_ /\ heap_[k].timer_ # t /\ heap_[k].timer_ \in Timers
        BY <1>4, <1>5, <1>10, <3>2
      <4>2. heap_index_[heap_[k].timer_] = k - 1
        BY <1>2, <1>4, <3>2 DEF KnownPlaces
      <4> QED
        BY <1>1, <1>4, <4>1, <4>2
    <3> QED
      BY <1>4, <1>5, <3>1, <3>2
  <2> QED
    BY <2>1 DEF KnownPlaces
<1>12. \A i \in 1..n : Parent(i) \in Nat /\ Parent(i) < i /\ Parent(i) # n
  <2>1. \A i \in 1..n : i \in Nat /\ i > 0
    BY <1>4
  <2>2. \A i \in 1..n : Parent(i) \in Nat /\ Parent(i) < i
    BY <2>1, ParentFacts
  <2> QED
    BY <1>4, <2>1, <2>2
<1>13. ASSUME NEW i \in 1..n, i # n PROVE heap_'[Parent(i) + 1].time_ <= heap_'[i + 1].time_
  <2>1. i + 1 \in 1..n /\ Parent(i) + 1 \in 1..n /\ i \in 1..(n - 1)
    BY <1>4, <1>12, <1>13
  <2>2. heap_[Parent(i) + 1].time_ <= heap_[i + 1].time_
    BY <1>1, <1>2, <2>1 DEF Ordered, Time, n
  <2> QED
    BY <1>5, <2>1, <2>2
<1>14. Ordered'
  <2>1. (n + 1) - 1 = n /\ n < n + 1
    BY <1>4
  <2> QED
    BY <1>1, <1>5, <1>12, <1>13, <2>1 DEF Ordered, Time, Parent
<1>15. Members'
  <2>1. InHeap' = Waiting \cup {t}
    <3>1. \A x \in InHeap' : x \in InHeap \/ x = t
      <4>1. SUFFICES ASSUME NEW k \in 1..(n + 1) PROVE heap_'[k].timer_ \in InHeap \/ heap_'[k].timer_ = t
        BY <1>5 DEF InHeap
      <4>2. k \in 1..n \/ k = n + 1
        BY <1>4
      <4> QED
        BY <1>4, <1>5, <1>9, <4>2 DEF InHeap
    <3>2. \A x \in InHeap : x \in InHeap'
      <4>1. \A k \in 1..n : k \in 1..(n + 1)
        BY <1>4
      <4> QED
        BY <1>4, <1>5, <4>1 DEF InHeap
    <3>3. t \in InHeap'
      <4>1. n + 1 \in 1..(n + 1)
        BY <1>4
      <4> QED
        BY <1>5, <1>9, <4>1 DEF InHeap
    <3> HIDE DEF InHeap
    <3> QED
      BY <1>2, <3>1, <3>2, <3>3
  <2>2. Waiting' = Waiting
    BY <1>1 DEF Waiting
  <2>3. Linked(Waiting)'
    BY <1>1, <1>2, <2>2, LinkedSame
  <2> QED
    BY <1>1, <1>3, <1>6, <2>1, <2>2, <2>3 DEF Members, Removing, Adding
<1>16. Operations'
  <2>1. ASSUME NEW i \in DOMAIN heap_', NEW k \in DOMAIN op_queue_[heap_'[i].timer_]
        PROVE  waits[op_queue_[heap_'[i].timer_][k]] = heap_'[i].time_
    <3>1. CASE i = n + 1
      <4>1. op_queue_[heap_'[i].timer_] = <<>>
        BY <1>3, <1>5, <1>9, <3>1
      <4>2. DOMAIN <<>> = {}
        OBVIOUS
      <4> QED
        BY <4>1, <4>2
    <3>2. CASE i \in 1..n
      BY <1>2, <1>4, <1>5, <3>2 DEF Operations
    <3> QED
      BY <1>4, <1>5, <3>1, <3>2
  <2> QED
    BY <1>1, <1>2, <2>1 DEF Operations
<1>17. Rising'
  <2>1. (n + 1) - 1 = n
    BY <1>4
  <2> QED
    BY <1>1, <1>5, <1>6, <1>12, <2>1 DEF Rising, Parent, new
<1>18. Handed' /\ Earliest'
  BY <1>1, <1>6 DEF Handed, Earliest
<1> QED
  BY <1>8, <1>11, <1>14, <1>15, <1>16, <1>17, <1>18 DEF QueueInv

\* The new timer comes to the front of the list. Its operation is due before all others
\* exactly if its entry rose to the top.
LEMMA InsertTimerInv == ASSUME QueueInv, InsertTimer PROVE QueueInv'
<1> DEFINE n == Len(heap_)
           t == timer
           op == outcome.op
           time == outcome.time
           nextNew == [next_ EXCEPT ![t] = timers_]
           prevNew == [u \in Timers |-> IF u = timers_ THEN t
                                        ELSE IF u = t THEN null ELSE prev_[u]]
<1>1. /\ stage = "up" /\ ~Rises /\ outcome.call = "enqueue" /\ Adding /\ Moving
      /\ next_' = nextNew /\ prev_' = prevNew /\ timers_' = t
      /\ EnqueueOp(t, op, time) /\ stage' = "idle"
      /\ UNCHANGED <<heap_, heap_index_, now, timer, index>>
  BY DEF InsertTimer, EnqueueOp, heapVars, locals_, Adding, Moving
<1>2. /\ QueueTypes /\ KnownPlaces /\ Ordered /\ Members /\ Operations /\ Rising
      /\ t \in Timers \ Waiting /\ InHeap = Waiting \cup {t} /\ Linked(Waiting)
      /\ index \in Nat /\ index < Len(heap_)
  BY <1>1 DEF QueueInv, Members, Ordered, QueueTypes
<1>3. /\ op \in Nat \ DOMAIN waits /\ time \in Nat
      /\ heap_[index + 1].time_ = time /\ heap_[index + 1].timer_ = t
      /\ \A i \in 1..(Len(heap_) - 1) : Parent(i) = index => Time(index) < Time(i)
  <2>1. /\ op \in Nat \ DOMAIN waits /\ time \in Nat
        /\ heap_[index + 1] = [time_ |-> time, timer_ |-> t]
        /\ \A i \in 1..(Len(heap_) - 1) : Parent(i) = index => Time(index) < Time(i)
    BY <1>1, <1>2 DEF Rising
  <2> HIDE DEF time, t
  <2> QED
    BY <2>1
<1> HIDE DEF t, op, time, nextNew, prevNew
<1>4. /\ n \in Nat /\ DOMAIN heap_ = 1..n /\ index + 1 \in 1..n /\ index \in 0..(n - 1)
      /\ \A k \in 1..n : heap_[k].time_ \in Nat /\ heap_[k].timer_ \in Timers
      /\ \A i \in 0..(n - 1) : /\ i + 1 \in 1..n
                               /\ Time(i) = heap_[i + 1].time_ /\ Time(i) \in Nat
  <2>1. /\ n \in Nat /\ DOMAIN heap_ = 1..n
        /\ \A k \in 1..n : heap_[k].time_ \in Nat /\ heap_[k].timer_ \in Timers
        /\ \A i \in 0..(n - 1) : /\ i + 1 \in 1..n
                                 /\ Time(i) = heap_[i + 1].time_ /\ Time(i) \in Nat
    BY <1>2, HeapFacts
  <2>2. index \in 0..(n - 1) /\ index + 1 \in 1..n
    BY <1>2, <2>1
  <2> QED
    BY <2>1, <2>2
<1>5. Time(index) = time
  BY <1>3 DEF Time
<1>6. heap_index_[t] = index /\ \A i \in DOMAIN heap_ : heap_[i].timer_ = t => i = index + 1
  <2>1. \A i \in 1..n : heap_index_[heap_[i].timer_] = i - 1
    BY <1>2, <1>4 DEF KnownPlaces
  <2>2. heap_index_[t] = index
    BY <1>2, <1>3, <1>4, <2>1
  <2> QED
    BY <1>2, <1>4, <2>1, <2>2
<1>7. /\ op_queue_' \in [Timers -> Seq(Nat)] /\ op_queue_'[t] = Append(op_queue_[t], op)
      /\ waits' \in [DOMAIN waits' -> Nat] /\ DOMAIN waits' = DOMAIN waits \cup {op}
      /\ waits'[op] = time /\ \A o \in DOMAIN waits : waits'[o] = waits[o]
      /\ Waiting' = Waiting \cup {t}
      /\ Operations'
  <2>1. \A i \in DOMAIN heap_ : heap_[i].timer_ = t => heap_[i].time_ = time
    BY <1>3, <1>6
  <2>2. QueueTypes /\ Operations /\ t \in Timers
    BY <1>2
  <2>3. EnqueueOp(t, op, time) /\ op \in Nat \ DOMAIN waits /\ time \in Nat
    BY <1>1, <1>3
  <2> QED
    BY <2>1, <2>2, <2>3, EnqueueKeeps
<1>8. /\ outcome'.call = "enqueue" /\ outcome'.op = op
      /\ outcome'.earliest <=> heap_index_[t] = 0 /\ op_queue_'[t][1] = op
  BY <1>1 DEF EnqueueOp
<1>9. nextNew \in [Timers -> Timers \cup {null}] /\ prevNew \in [Timers -> Timers \cup {null}]
  BY <1>2 DEF QueueTypes, nextNew, prevNew
<1>10. QueueTypes'
  <2>1. DOMAIN waits' \subseteq Nat
    BY <1>2, <1>3, <1>7 DEF QueueTypes
  <2>2. timers_' \in Timers \cup {null}
    BY <1>1, <1>2 DEF Timers
  <2> QED
    BY <1>1, <1>2, <1>7, <1>8, <1>9, <2>1, <2>2 DEF QueueTypes
<1>11. KnownPlaces' /\ Rising' /\ Handed'
  BY <1>1, <1>2, <1>8 DEF KnownPlaces, Rising, Handed, Adding
<1>12. \A i \in 1..(n - 1) : Time(Parent(i)) <= Time(i)
  <2>1. ASSUME NEW i \in 1..(n - 1), i = index PROVE Time(Parent(i)) <= Time(i)
    <3>1. i \in Nat /\ i > 0 /\ i <= n - 1
      BY <1>4
    <3>2. Parent(i) \in Nat /\ Parent(i) < i
      BY <3>1, ParentFacts
    <3>3. Parent(i) \in 0..(n - 1) /\ i \in 0..(n - 1)
      BY <1>4, <3>1, <3>2
    <3>4. ~(Time(i) < Time(Parent(i)))
      BY <1>1, <2>1, <3>1 DEF Rises
    <3>5. Time(i) \in Nat /\ Time(Parent(i)) \in Nat
      BY <1>4, <3>3
    <3> QED
      BY <3>4, <3>5
  <2> QED
    BY <1>1, <1>2, <2>1 DEF Ordered
<1>13. Ordered'
  BY <1>1, <1>12 DEF Ordered, Moving, Time
<1>14. Members'
  <2>1. LinkedBy(next_, prev_, timers_, Waiting)
    BY <1>2, LinkedIs
  <2>2. /\ next_ \in [Timers -> Timers \cup {null}] /\ prev_ \in [Timers -> Timers \cup {null}]
        /\ timers_ \in Timers \cup {null} /\ Waiting \in SUBSET Timers
    BY <1>2 DEF QueueTypes, Waiting
  <2>3. LinkedBy(nextNew, prevNew, t, Waiting \cup {t})
    BY <1>2, <2>1, <2>2, LinkFirst DEF nextNew, prevNew
  <2>4. Linked(Waiting)'
    BY <1>1, <1>7, <2>3 DEF Linked, LinkedBy, Active
  <2>5. InHeap' = InHeap
    BY <1>1 DEF InHeap
  <2> QED
    BY <1>1, <1>2, <1>7, <2>4, <2>5 DEF Members, Removing, Adding
<1>15. op_queue_'[t][1] = op
  <2>1. op_queue_[t] = <<>>
    BY <1>2 DEF Waiting
  <2> QED
    BY <1>7, <2>1
\* At the top it is before its children, so before all: also those operations wait for.
<1>16. ASSUME index = 0, NEW o \in DOMAIN waits PROVE time < waits[o]
  <2>1. PICK u \in Timers : o \in Range(op_queue_[u])
    BY <1>2 DEF Operations
  <2>2. PICK k \in DOMAIN op_queue_[u] : o = op_queue_[u][k]
    BY <2>1 DEF Range
  <2>3. u \in Waiting
    <3>1. DOMAIN <<>> = {}
      OBVIOUS
    <3> QED
      BY <2>2, <3>1 DEF Waiting
  <2>4. PICK i \in DOMAIN heap_ : heap_[i].timer_ = u
    BY <1>2, <2>3 DEF InHeap
  <2>5. waits[o] = heap_[i].time_
    BY <1>2, <2>2, <2>4 DEF Operations
  <2>6. i # 1
    BY <1>2, <1>3, <1>16, <2>3, <2>4
  <2>7. i - 1 \in 1..(n - 1) /\ (i - 1) + 1 = i
    BY <1>4, <2>6
  <2>8. Time(0) < Time(i - 1)
    BY <1>2, <1>3, <1>12, <1>16, <2>7, FirstIsBefore
  <2>9. Time(i - 1) = heap_[i].time_
    BY <2>7 DEF Time
  <2> QED
    BY <1>5, <1>16, <2>5, <2>8, <2>9
\* Below the top there is a parent that is not later.
<1>17. ASSUME index > 0 PROVE \E o \in DOMAIN waits : ~(time < waits[o])
  <2> DEFINE p == Parent(index)
  <2>1. p \in Nat /\ p < index
    BY <1>2, <1>17, ParentFacts
  <2>2. index \in 1..(n - 1) /\ p \in 0..(n - 1) /\ p + 1 \in 1..n /\ p # index
    BY <1>4, <1>17, <2>1
  <2>3. Time(p) <= time
    BY <1>5, <1>12, <2>2
  <2> DEFINE u == heap_[p + 1].timer_
  <2>4. u # t
    BY <1>4, <1>6, <2>1, <2>2
  <2>5. u \in Waiting
    BY <1>2, <1>4, <2>2, <2>4 DEF InHeap
  <2>6. 1 \in DOMAIN op_queue_[u]
    <3>1. op_queue_[u] \in Seq(Nat) /\ op_queue_[u] # <<>>
      BY <1>2, <2>5 DEF QueueTypes, Waiting
    <3>2. Len(op_queue_[u]) \in Nat \ {0}
      BY <3>1, EmptySeq, LenProperties
    <3> QED
      BY <3>1, <3>2, LenProperties
  <2>7. waits[op_queue_[u][1]] = heap_[p + 1].time_
    BY <1>2, <1>4, <2>2, <2>6 DEF Operations
  <2>8. op_queue_[u][1] \in DOMAIN waits
    <3>1. u \in Timers
      BY <2>5 DEF Waiting
    <3> QED
      BY <1>2, <2>6, <3>1 DEF Operations, Range
  <2>9. Time(p) = heap_[p + 1].time_ /\ Time(p) \in Nat
    BY <1>4, <2>2
  <2>10. ~(time < waits[op_queue_[u][1]])
    <3> HIDE DEF p, u
    <3> QED
      BY <1>3, <2>3, <2>7, <2>9
  <2> QED
    BY <2>8, <2>10
<1>18. Earliest'
  <2>1. DOMAIN waits' \ {op} = DOMAIN waits
    BY <1>3, <1>7
  <2>2. index = 0 <=> \A o \in DOMAIN waits : time < waits[o]
    BY <1>2, <1>16, <1>17
  <2>3. outcome'.earliest <=> index = 0
    BY <1>6, <1>8, <1>15
  <2>4. outcome'.earliest <=>
           \A o \in DOMAIN waits' \ {outcome'.op} : waits'[outcome'.op] < waits'[o]
    BY <1>7, <1>8, <2>1, <2>2, <2>3
  <2> QED
    BY <2>4 DEF Earliest
<1> QED
  BY <1>7, <1>10, <1>11, <1>13, <1>14, <1>18 DEF QueueInv

\* Once its entry is gone, and what took its place is where it belongs, the timer leaves
\* the list.
LEMMA UnlinkTimerInv == ASSUME QueueInv, UnlinkTimer PROVE QueueInv'
<1> DEFINE n == Len(heap_)
           nextNew == [t \in Timers |-> IF t = timer THEN null
                                        ELSE IF t = prev_[timer] THEN next_[timer] ELSE next_[t]]
           prevNew == [t \in Timers |-> IF t = timer THEN null
                                        ELSE IF t = next_[timer] THEN prev_[timer] ELSE prev_[t]]
           headNew == IF timers_ = timer THEN next_[timer] ELSE timers_
<1>1. /\ \/ stage = "unlink"
         \/ stage = "up" /\ ~Rises /\ outcome.call # "enqueue"
         \/ stage = "down" /\ ~Sinks
      /\ next_' = nextNew /\ prev_' = prevNew /\ timers_' = headNew
      /\ stage' = IF outcome.call = "ready" THEN "ready" ELSE "idle"
      /\ UNCHANGED <<heap_, heap_index_, op_queue_, now, timer, index, waits, outcome>>
  BY DEF UnlinkTimer, heapVars, locals_
<1> HIDE DEF nextNew, prevNew, headNew
<1>2. /\ QueueTypes /\ KnownPlaces /\ Ordered /\ Members /\ Operations /\ Handed
      /\ outcome.call \in {"ready", "cancel"} /\ Removing
  BY <1>1 DEF QueueInv, QueueTypes, Removing
<1>3. timer \in Timers \ Waiting /\ InHeap = Waiting /\ Linked(Waiting \cup {timer})
  BY <1>2 DEF Members
<1>4. /\ next_ \in [Timers -> Timers \cup {null}] /\ prev_ \in [Timers -> Timers \cup {null}]
      /\ timers_ \in Timers \cup {null} /\ Waiting \cup {timer} \in SUBSET Timers
      /\ index \in Nat
  BY <1>2, <1>3 DEF QueueTypes, Waiting
<1>5. /\ nextNew \in [Timers -> Timers \cup {null}] /\ prevNew \in [Timers -> Timers \cup {null}]
      /\ headNew \in Timers \cup {null}
  BY <1>3, <1>4 DEF nextNew, prevNew, headNew
<1>6. stage' \in {"idle", "ready"} /\ (stage' = "ready" <=> outcome.call = "ready")
  BY <1>1
<1>7. QueueTypes'
  BY <1>1, <1>2, <1>5, <1>6 DEF QueueTypes
<1>8. KnownPlaces' /\ Operations'
  BY <1>1, <1>2 DEF KnownPlaces, Operations
<1>9. Rising' /\ Earliest'
  BY <1>1, <1>2, <1>6 DEF Rising, Earliest, Adding
<1>10. Handed'
  BY <1>1, <1>2, <1>6 DEF Handed
<1>11. /\ n \in Nat /\ \A i \in 0..(n - 1) : Time(i) \in Nat
  BY <1>2, HeapFacts
<1>12. ASSUME NEW i \in 1..(n - 1) PROVE Time(Parent(i)) <= Time(i)
  <2>1. /\ i \in Nat /\ i > 0 /\ i \in 0..(n - 1)
    BY <1>11
  <2>2. Parent(i) \in Nat /\ Parent(i) < i /\ (i = 2 * Parent(i) + 1 \/ i = 2 * Parent(i) + 2)
    BY <2>1, ParentFacts
  <2>3. Parent(i) \in 0..(n - 1)
    BY <1>11, <2>1, <2>2
  <2>4. CASE stage = "up" /\ i = index
    <3>1. ~(Time(i) < Time(Parent(i)))
      BY <1>1, <2>1, <2>4 DEF Rises
    <3> QED
      BY <1>11, <2>1, <2>3, <3>1
  <2>5. CASE stage = "down" /\ Parent(i) = index
    <3>1. Child < n /\ index < n
      BY <1>11, <2>1, <2>2, <2>3, <2>5 DEF Child
    <3>2. MinChild \in 1..(n - 1) /\ Time(MinChild) <= Time(i)
      BY <1>2, <2>5, <3>1, MinChildFacts
    <3>3. Time(index) < Time(MinChild)
      BY <1>1, <2>5, <3>1 DEF Sinks
    <3>4. MinChild \in 0..(n - 1)
      BY <1>11, <3>2
    <3>5. Time(index) \in Nat /\ Time(MinChild) \in Nat /\ Time(i) \in Nat
      BY <1>11, <2>1, <2>3, <2>5, <3>4
    <3> QED
      BY <2>5, <3>2, <3>3, <3>5
  <2> QED
    BY <1>2, <2>4, <2>5 DEF Ordered
<1>13. Ordered'
  BY <1>1, <1>6, <1>12 DEF Ordered, Moving, Time
<1>14. Members'
  <2>1. LinkedBy(next_, prev_, timers_, Waiting \cup {timer})
    BY <1>3, LinkedIs
  <2>2. LinkedBy(nextNew, prevNew, headNew, (Waiting \cup {timer}) \ {timer})
    BY <1>4, <2>1, Unlinked DEF nextNew, prevNew, headNew
  <2>3. (Waiting \cup {timer}) \ {timer} = Waiting
    BY <1>3
  <2>4. LinkedBy(nextNew, prevNew, headNew, Waiting)
    BY <2>2, <2>3
  <2>5. Waiting' = Waiting /\ InHeap' = InHeap
    BY <1>1 DEF Waiting, InHeap
  <2>6. Linked(Waiting)'
    BY <1>1, <2>4, <2>5 DEF Linked, LinkedBy, Active
  <2> QED
    BY <1>3, <1>6, <2>5, <2>6 DEF Members, Removing, Adding
<1> QED
  BY <1>7, <1>8, <1>9, <1>10, <1>13, <1>14 DEF QueueInv

----------------------------------------------------------------------------
(* The invariant.                                                          *)

\* Links that lead from timer n down to the first are a list of them.
LEMMA LinkedDown ==
    ASSUME NEW n \in Nat, NEW next, NEW some \in SUBSET (1..n), n # 0 => n \in some,
           \A t \in 1..n : next[t] = t - 1,
           \A t \in some : next[t] # null => next[t] \in some
    PROVE  some = 1..n
<1> DEFINE Missing == {k \in 0..(n - 1) : n - k \notin some}
<1> SUFFICES ASSUME some # 1..n PROVE FALSE
  OBVIOUS
<1>1. Missing \subseteq Nat
  OBVIOUS
<1>2. Missing # {}
  <2>1. PICK t \in 1..n : t \notin some
    OBVIOUS
  <2>2. n - t \in 0..(n - 1) /\ n - (n - t) = t
    OBVIOUS
  <2> QED
    BY <2>1, <2>2
<1> HIDE DEF Missing
<1>3. PICK k \in Missing : \A j \in Missing : k <= j
  BY <1>1, <1>2, Smallest
<1>4. k \in 0..(n - 1) /\ n - k \notin some
  BY DEF Missing
<1>5. k # 0
  BY <1>4
<1>6. k - 1 \in 0..(n - 1) /\ ~(k <= k - 1)
  BY <1>4, <1>5
<1>7. n - (k - 1) \in some
  BY <1>3, <1>6 DEF Missing
<1>8. n - (k - 1) \in 1..n /\ (n - (k - 1)) - 1 = n - k /\ n - k # 0
  BY <1>4, <1>5
<1>9. next[n - (k - 1)] = n - k
  BY <1>8
<1> QED
  BY <1>4, <1>7, <1>8, <1>9 DEF null

\* The queue that a run begins with is as it should be.
LEMMA InitQueueInv == ASSUME QueueInit PROVE QueueInv
<1>1. PICK times \in BoundedSeq(0..MaxTime, MaxTimers) : Filled(times)
  BY DEF QueueInit
<1> DEFINE n == Len(times)
<1>2. /\ times \in Seq(Nat) /\ n \in Nat /\ n <= MaxTimers /\ DOMAIN times = 1..n
      /\ \A k \in 1..n : times[k] \in Nat
  <2>1. PICK m \in 0..MaxTimers : times \in [1..m -> 0..MaxTime]
    BY DEF BoundedSeq, SeqOf
  <2>2. times \in [1..m -> Nat] /\ m \in Nat
    BY <2>1
  <2>3. times \in Seq(Nat) /\ n = m
    BY <2>2, LenProperties, IsASeq
  <2> HIDE DEF n
  <2> QED
    BY <2>1, <2>2, <2>3
<1> HIDE DEF n
<1>3. /\ \A k \in 2..n : times[k \div 2] <= times[k]
      /\ heap_ = [k \in 1..n |-> [time_ |-> times[k], timer_ |-> k]]
      /\ heap_index_ = [t \in Timers |-> IF t <= n THEN t - 1 ELSE 0]
      /\ op_queue_ = [t \in Timers |-> IF t <= n THEN <<t>> ELSE <<>>]
      /\ timers_ = n
      /\ next_ = [t \in Timers |-> IF t <= n THEN t - 1 ELSE null]
      /\ prev_ = [t \in Timers |-> IF t < n THEN t + 1 ELSE null]
      /\ waits = times
  BY <1>1 DEF Filled, n
<1>4. /\ now = 0 /\ stage = "idle" /\ index = 0 /\ outcome = [call |-> "none"]
  BY DEF QueueInit, Start
<1>5. outcome.call = "none"
  BY <1>4
<1>6. 1..n \subseteq Timers /\ MaxTimers \in Nat /\ \A t \in Timers : t <= n <=> t \in 1..n
  BY <1>2, BoundsAssumption DEF Timers
<1>7. /\ heap_ \in Seq(Entry) /\ Len(heap_) = n /\ DOMAIN heap_ = 1..n
      /\ \A k \in 1..n : heap_[k].time_ = times[k] /\ heap_[k].timer_ = k
  <2>1. \A k \in 1..n : [time_ |-> times[k], timer_ |-> k] \in Entry
    BY <1>2, <1>6 DEF Entry
  <2>2. heap_ \in [1..n -> Entry]
    BY <1>3, <2>1
  <2> QED
    BY <1>2, <1>3, <2>2, IsASeq, LenProperties
<1>8. \A t \in Timers : <<t>> \in Seq(Nat) /\ DOMAIN <<t>> = {1} /\ <<t>>[1] = t /\ <<t>> # <<>>
  BY DEF Timers
<1>9. /\ op_queue_ \in [Timers -> Seq(Nat)]
      /\ \A t \in 1..n : op_queue_[t] = <<t>>
      /\ \A t \in Timers \ (1..n) : op_queue_[t] = <<>>
  BY <1>3, <1>6, <1>8, EmptySeq
<1>10. QueueTypes
  <2>1. heap_index_ \in [Timers -> Nat]
    BY <1>3 DEF Timers
  <2>2. timers_ \in Timers \cup {null}
    BY <1>2, <1>3, <1>6 DEF null, Timers
  <2>3. next_ \in [Timers -> Timers \cup {null}]
    BY <1>2, <1>3, <1>6 DEF null, Timers
  <2>4. prev_ \in [Timers -> Timers \cup {null}]
    BY <1>2, <1>3, <1>6 DEF null, Timers
  <2>5. waits \in [DOMAIN waits -> Nat] /\ DOMAIN waits \subseteq Nat
    BY <1>2, <1>3
  <2> QED
    BY <1>4, <1>5, <1>7, <1>9, <2>1, <2>2, <2>3, <2>4, <2>5 DEF QueueTypes
<1>11. KnownPlaces
  BY <1>3, <1>6, <1>7 DEF KnownPlaces
<1>12. Ordered
  <2>1. ASSUME NEW i \in 1..(n - 1) PROVE Time(Parent(i)) <= Time(i)
    <3>1. i + 1 \in 2..n /\ (i + 1) \div 2 = Parent(i) + 1 /\ Parent(i) + 1 \in 1..n /\ i + 1 \in 1..n
      BY <1>2 DEF Parent
    <3>2. Time(i) = times[i + 1] /\ Time(Parent(i)) = times[Parent(i) + 1]
      BY <1>7, <3>1 DEF Time
    <3> QED
      BY <1>3, <3>1, <3>2
  <2> QED
    BY <1>4, <1>7, <2>1 DEF Ordered, Moving
<1>13. InHeap = 1..n /\ Waiting = 1..n
  <2>1. InHeap = 1..n
    BY <1>7 DEF InHeap
  <2>2. \A t \in Timers : op_queue_[t] # <<>> <=> t \in 1..n
    BY <1>8, <1>9
  <2>3. Waiting = 1..n
    BY <1>6, <2>2 DEF Waiting
  <2> QED
    BY <2>1, <2>3
<1>14. Linked(1..n)
  <2>1. \A t \in Timers : Active(t) <=> t \in 1..n
    BY <1>2, <1>3, <1>6 DEF Active, Timers, null
  <2>2. timers_ # null => timers_ \in 1..n /\ prev_[timers_] = null
    BY <1>2, <1>3, <1>6 DEF Timers, null
  <2>3. \A t \in 1..n : /\ next_[t] # null => next_[t] \in 1..n /\ prev_[next_[t]] = t
                        /\ prev_[t] # null => prev_[t] \in 1..n /\ next_[prev_[t]] = t
    BY <1>2, <1>3, <1>6 DEF Timers, null
  <2>4. \A t \in Timers \ (1..n) : next_[t] = null /\ prev_[t] = null
    BY <1>2, <1>3, <1>6 DEF Timers, null
  <2>5. \A t \in 1..n : next_[t] = t - 1
    BY <1>3, <1>6
  <2>6. ASSUME NEW some \in SUBSET (1..n), timers_ # null => timers_ \in some,
               \A t \in some : next_[t] # null => next_[t] \in some
        PROVE  some = 1..n
    BY <1>2, <1>3, <2>5, <2>6, LinkedDown DEF null
  <2> QED
    BY <2>1, <2>2, <2>3, <2>4, <2>6 DEF Linked
<1>15. Members
  BY <1>4, <1>13, <1>14 DEF Members, Removing, Adding
<1>16. \A t \in Timers : \A k \in DOMAIN op_queue_[t] : t \in 1..n /\ k = 1 /\ op_queue_[t][k] = t
  <2>1. DOMAIN <<>> = {}
    OBVIOUS
  <2> QED
    BY <1>8, <1>9, <2>1
<1>17. Operations
  <2>1. \A t, u \in Timers : \A j \in DOMAIN op_queue_[t], k \in DOMAIN op_queue_[u] :
           op_queue_[t][j] = op_queue_[u][k] => t = u /\ j = k
    BY <1>16
  <2>2. \A t \in 1..n : Range(op_queue_[t]) = {t}
    BY <1>6, <1>8, <1>9 DEF Range
  <2>3. \A t \in Timers \ (1..n) : Range(op_queue_[t]) = {}
    BY <1>16 DEF Range
  <2>4. DOMAIN waits = UNION {Range(op_queue_[t]) : t \in Timers}
    <3>1. \A op \in 1..n : op \in Range(op_queue_[op]) /\ op \in Timers
      BY <1>6, <2>2
    <3>2. \A t \in Timers : Range(op_queue_[t]) \subseteq 1..n
      BY <2>2, <2>3
    <3>3. DOMAIN waits = 1..n
      BY <1>2, <1>3
    <3> QED
      BY <3>1, <3>2, <3>3
  <2>5. \A i \in DOMAIN heap_ : \A k \in DOMAIN op_queue_[heap_[i].timer_] :
           waits[op_queue_[heap_[i].timer_][k]] = heap_[i].time_
    BY <1>3, <1>6, <1>7, <1>16
  <2> QED
    BY <2>1, <2>4, <2>5 DEF Operations
<1>18. Rising /\ Handed /\ Earliest
  BY <1>4, <1>5 DEF Rising, Handed, Earliest, Adding
<1> QED
  BY <1>10, <1>11, <1>12, <1>15, <1>17, <1>18 DEF QueueInv

\* What each call and each turn of its loops preserves.
LEMMA NextQueueInv == ASSUME QueueInv, [QueueNext]_timerVars PROVE QueueInv'
<1>1. ASSUME UNCHANGED timerVars PROVE QueueInv'
  <2>1. UNCHANGED <<heap_, heap_index_, op_queue_, next_, prev_, timers_, now, stage, timer, index,
                    waits, outcome>>
    BY <1>1 DEF timerVars, heapVars, links, locals_
  <2>2. QueueTypes'
    BY <2>1 DEF QueueInv, QueueTypes, Entry, Timers, null
  <2>3. KnownPlaces' /\ Operations'
    BY <2>1 DEF QueueInv, KnownPlaces, Operations
  <2>4. Ordered'
    BY <2>1 DEF QueueInv, Ordered, Moving, Time, Parent
  <2>5. Members'
    <3>1. Waiting' = Waiting /\ InHeap' = InHeap
      BY <2>1 DEF Waiting, InHeap
    <3> QED
      BY <2>1, <3>1, LinkedSame DEF QueueInv, Members, Removing, Adding
  <2>6. Rising' /\ Handed' /\ Earliest'
    BY <2>1 DEF QueueInv, Rising, Handed, Earliest, Adding, Time, Parent
  <2> QED
    BY <2>2, <2>3, <2>4, <2>5, <2>6 DEF QueueInv
<1>2. ASSUME stage = "idle", Calls PROVE QueueInv'
  <2>1. ASSUME NEW t \in Timers, NEW op \in Unused(1..MaxOps, DOMAIN waits), EnqueueActive(t, op)
        PROVE  QueueInv'
    <3>1. op \in Nat \ DOMAIN waits
      BY DEF Unused
    <3> QED
      BY <1>2, <2>1, <3>1, EnqueueActiveInv
  <2>2. ASSUME NEW t \in Unused(Timers, InUse), NEW op \in Unused(1..MaxOps, DOMAIN waits),
               NEW time \in 0..MaxTime, EnqueueTimer(time, t, op)
        PROVE  QueueInv'
    <3>1. op \in Nat \ DOMAIN waits /\ t \in Timers /\ time \in Nat
      BY DEF Unused
    <3> QED
      BY <1>2, <2>2, <3>1, EnqueueTimerInv
  <2>3. ASSUME NEW t \in Timers, NEW max_cancelled \in 1..MaxOps, CancelSome(t, max_cancelled)
        PROVE  QueueInv'
    <3>1. max_cancelled \in Nat
      OBVIOUS
    <3> QED
      BY <1>2, <2>3, <3>1, CancelSomeInv
  <2>4. ASSUME NEW t \in Timers, NEW max_cancelled \in 1..MaxOps, CancelTimer(t, max_cancelled)
        PROVE  QueueInv'
    <3>1. max_cancelled \in Nat
      OBVIOUS
    <3> QED
      BY <1>2, <2>4, <3>1, CancelTimerInv
  <2> QED
    BY <1>2, <2>1, <2>2, <2>3, <2>4, GetReadyTimersInv, TickInv DEF Calls
<1>3. ASSUME Turns PROVE QueueInv'
  BY <1>3, UpHeapInv, DownHeapInv, UnlinkTimerInv, InsertTimerInv, ReadyTimerInv, ReadyEndsInv
  DEF Turns
<1> QED
  BY <1>1, <1>2, <1>3 DEF QueueNext

\* The invariant says what the run checks.
LEMMA InvIsConsistent == ASSUME QueueInv PROVE QueueConsistent
<1>1. SUFFICES ASSUME stage = "idle"
               PROVE  /\ Structure
                      /\ DOMAIN waits = UNION {Range(op_queue_[t]) : t \in Timers}
                      /\ outcome.call = "ready" =>
                            /\ \A op \in DOMAIN waits : now < waits[op]
                            /\ \A k \in DOMAIN outcome.due : outcome.due[k] <= now
                            /\ \A k, l \in DOMAIN outcome.due : k < l => outcome.due[k] <= outcome.due[l]
                      /\ outcome.call = "enqueue" =>
                            (outcome.earliest <=>
                                \A op \in DOMAIN waits \ {outcome.op} : waits[outcome.op] < waits[op])
  BY DEF QueueConsistent
<1>2. InHeap = Waiting /\ Linked(Waiting)
  BY <1>1 DEF QueueInv, Members
<1>3. \A i \in 1..(Len(heap_) - 1) : Time(Parent(i)) <= Time(i)
  BY <1>1 DEF QueueInv, Ordered
<1>4. Structure
  BY <1>2, <1>3 DEF Structure, QueueInv, KnownPlaces, Operations, InHeap, Waiting
<1> QED
  BY <1>1, <1>4 DEF QueueInv, Operations, Handed, Earliest

\* Whatever was enqueued waits in the heap and in the list until it is handed over, when
\* it is due and in the order it is due, and whoever enqueues is told whether his is the
\* first: with any number of timers, of operations and of calls.
THEOREM QueueConsistentCorrect == QueueSpec => []QueueConsistent
<1>1. QueueInit => QueueInv
  BY InitQueueInv
<1>2. QueueInv /\ [QueueNext]_timerVars => QueueInv'
  BY NextQueueInv
<1>3. QueueInv => QueueConsistent
  BY InvIsConsistent
<1> QED
  BY <1>1, <1>2, <1>3, PTL DEF QueueSpec
=============================================================================
