------------------------ MODULE MCWebsocketServer ------------------------
(* WebsocketServer with small constants. Client ids are numbers in the key  *)
(* order of std::map; id 1 stands for the string "test".                    *)
EXTENDS WebsocketServer, TLC

CONSTANTS c1, c2, c3, t1, t2

\* on_validate gives every client the id "test".
HardcodedId == [c \in Conns |-> 1]

\* What its comments intend: each client gives an id of its own.
OneIdEach == [c \in Conns |-> IF c = c1 THEN 1 ELSE IF c = c2 THEN 2 ELSE 3]

\* Threads are alike.
JustCallers == Permutations({t1, t2})
=============================================================================
