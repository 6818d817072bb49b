------------------------------ MODULE Registry ------------------------------
(***************************************************************************)
(* What WebsocketServer promises its caller about who can be reached: a    *)
(* client that was accepted is a member until its connection is on its way *)
(* out, or another one with its id is, or the server is shutting down. No  *)
(* connection on its way out becomes a member, no two members share an id, *)
(* and a connection that is forgotten costs nobody its place any more.     *)
(***************************************************************************)
CONSTANTS
    Conns,      \* the connections that may ever be made
    IdOf        \* the id the client of each gives

VARIABLES
    members,    \* connections that can be addressed by their client's id
    ending,     \* connections whose closing handshake or end has begun
    forgotten,  \* those of them that the server has done with
    down        \* the server is shutting down

vars == <<members, ending, forgotten, down>>

Init ==
    /\ members = {}
    /\ ending = {}
    /\ forgotten = {}
    /\ down = FALSE

\* The client was accepted, and no member has its id.
Join(c) ==
    /\ c \notin ending
    /\ \A d \in members : IdOf[d] # IdOf[c]
    /\ members' = members \cup {c}
    /\ UNCHANGED <<ending, down>>

\* Either side ends the connection, or the network does.
End(c) ==
    /\ c \notin ending
    /\ ending' = ending \cup {c}
    /\ UNCHANGED <<members, down>>

Leave(c) ==
    /\ c \in members
    /\ \E d \in ending \ forgotten : IdOf[d] = IdOf[c]
    /\ members' = members \ {c}
    /\ UNCHANGED <<ending, down>>

ShutDown ==
    /\ ~down
    /\ down' = TRUE
    /\ UNCHANGED <<members, ending>>

\* Shutting down drops whoever is left.
Clear ==
    /\ down
    /\ members' = {}
    /\ UNCHANGED <<ending, down>>

\* In any step the server may be done with connections that are ending, for good.
Forget == forgotten \subseteq forgotten' /\ forgotten' \subseteq ending'

Next ==
    /\ \/ \E c \in Conns : Join(c) \/ End(c) \/ Leave(c)
       \/ ShutDown
       \/ Clear
       \/ UNCHANGED <<members, ending, down>>
    /\ Forget

Spec == Init /\ [][Next]_vars
=============================================================================
