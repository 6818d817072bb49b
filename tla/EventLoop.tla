----------------------------- MODULE EventLoop -----------------------------
(***************************************************************************)
(* What an asio io_service with a strand promises its callers: a handler   *)
(* that was handed over runs at most once; handlers of the strand never    *)
(* run at the same time and begin in the order in which the strand took    *)
(* them; and the loop is over only if it was told to stop or there was     *)
(* nothing left to do.                                                     *)
(***************************************************************************)
EXTENDS Sequences

CONSTANT Handlers

VARIABLES
    status,   \* of each handler: "new", "pending", "running" or "done"
    taken,    \* what the strand has taken and not yet begun, in this order
    strand,   \* the handlers the strand has taken so far
    over,     \* whether run returns once the running handlers are done
    offering, \* whether a handler is being handed over that does not count yet
    may_stop  \* whether some caller is going to stop the loop

vars == <<status, taken, strand, over, offering, may_stop>>

Init ==
    /\ status \in [Handlers -> {"new", "pending"}]
    /\ taken = <<>>
    /\ strand = {}
    /\ over = FALSE
    /\ offering \in BOOLEAN
    /\ may_stop \in BOOLEAN

HandOver(h) ==
    /\ status[h] = "new"
    /\ status' = [status EXCEPT ![h] = "pending"]
    /\ UNCHANGED <<taken, strand, over, may_stop>>

\* The strand has its queue for itself: a handler comes there when it is handed
\* over to the strand, or when the loop has come to it.
Take(h) ==
    /\ status[h] \in {"new", "pending"}
    /\ h \notin strand
    /\ status' = [status EXCEPT ![h] = "pending"]
    /\ taken' = Append(taken, h)
    /\ strand' = strand \cup {h}
    /\ UNCHANGED <<over, may_stop>>

StrandIdle == \A h \in strand : status[h] # "running"

Begin(h) ==
    /\ status[h] = "pending"
    /\ status' = [status EXCEPT ![h] = "running"]
    /\ IF h \in strand
       THEN taken # <<>> /\ h = Head(taken) /\ taken' = Tail(taken) /\ StrandIdle
       ELSE UNCHANGED taken
    /\ UNCHANGED <<strand, over, may_stop>>

\* It finds the strand free: taken and begun at once.
TakeAndBegin(h) ==
    /\ status[h] = "pending"
    /\ h \notin strand
    /\ taken = <<>> /\ StrandIdle
    /\ status' = [status EXCEPT ![h] = "running"]
    /\ strand' = strand \cup {h}
    /\ UNCHANGED <<taken, over, may_stop>>

Finish(h) ==
    /\ status[h] = "running"
    /\ status' = [status EXCEPT ![h] = "done"]
    /\ UNCHANGED <<taken, strand, over, may_stop>>

Stop ==
    /\ may_stop
    /\ over' = TRUE
    /\ UNCHANGED <<status, taken, strand, may_stop>>

RunOut ==
    /\ offering \/ \A h \in Handlers : status[h] \in {"new", "done"}
    /\ over' = TRUE
    /\ UNCHANGED <<status, taken, strand, may_stop>>

Offer == UNCHANGED <<status, taken, strand, over, may_stop>>

Next ==
    /\ \/ \E h \in Handlers : HandOver(h) \/ Take(h) \/ Begin(h) \/ TakeAndBegin(h) \/ Finish(h)
       \/ Stop \/ RunOut \/ Offer
    /\ offering' \in BOOLEAN

Spec == Init /\ [][Next]_vars
=============================================================================
