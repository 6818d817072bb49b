------------------------------ MODULE Session ------------------------------
(***************************************************************************)
(* The life of one WebSocket connection as WebsocketServer sees it: what   *)
(* its state can become in one step, and which thread is between the test  *)
(* and the write of close(). A close() that tested an open connection      *)
(* makes it "closing" however the connection has ended in between.         *)
(***************************************************************************)
CONSTANTS Threads,   \* threads that may call close
          None       \* no thread

VARIABLES
    state,      \* "none" before the connection is accepted
    holder      \* the thread inside close(), or None

vars == <<state, holder>>

Init == state = "none" /\ holder = None

Step(from, to) == state \in from /\ state' = to /\ UNCHANGED holder

Accept    == Step({"none"}, "reading")
Respond   == Step({"reading"}, "accepted") \/ Step({"reading"}, "rejected")
Open      == Step({"accepted"}, "open")
Fail      == Step({"reading", "accepted", "rejected"}, "failed")
PeerClose == Step({"open"}, "closing")
Terminate == Step({"open", "closing"}, "closed")

CloseCheck(t) ==
    /\ state = "open" /\ holder = None
    /\ holder' = t
    /\ UNCHANGED state

CloseSet(t) ==
    /\ holder = t
    /\ state' = "closing"
    /\ holder' = None

Next ==
    \/ Accept \/ Respond \/ Open \/ Fail \/ PeerClose \/ Terminate
    \/ \E t \in Threads : CloseCheck(t) \/ CloseSet(t)

Spec == Init /\ [][Next]_vars
=============================================================================
