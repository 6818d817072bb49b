-------------------------- MODULE WebsocketServer --------------------------
(***************************************************************************)
(* The static class WebsocketServer: two maps between client ids and       *)
(* connection handles, the mutex that guards them, the API the application *)
(* threads call, and the handlers websocketpp calls on the network thread. *)
(*                                                                         *)
(* Each websocketpp connection appears here only through what the server   *)
(* observes of it: the session state (m_state) and the lock its close()    *)
(* holds between reading and writing that state.                           *)
(*                                                                         *)
(* A critical section that cannot block is one step, taken when the mutex  *)
(* is free; broadcastData holds the mutex over several. stop reads the map *)
(* without the mutex, so a step of its loop may coincide with a write.     *)
(***************************************************************************)
EXTENDS Integers, FiniteSets

CONSTANTS Conns,     \* connection handles, one per TCP connection ever accepted
          Ids,       \* client ids: positive numbers, in the key order of std::map
          IdOf,      \* the id on_validate derives for a connection
          Callers,   \* application threads that call the API
          Net,       \* the network thread, in WebsocketServer::run
          None,      \* no thread, no connection
          MaxCalls   \* bound: API calls one thread makes

ASSUME ConstantsAssumption ==
    /\ Ids \subseteq Nat \ {0}
    /\ IdOf \in [Conns -> Ids]
    /\ Net \notin Callers
    /\ None \notin Conns \cup Callers \cup {Net}
    /\ MaxCalls \in Nat

VARIABLES
    websocketsLock,  \* the thread that holds the mutex, or None
    g_id_to_socket,  \* id -> connection, None where the map has no key
    g_socket_to_id,  \* connection -> id, 0 where the map has no key
    session,         \* state of each websocketpp connection
    stateLock,       \* holder of each connection's m_connection_state_lock
    listening,       \* transport endpoint in state LISTENING
    accepting,       \* an async_accept is outstanding
    stopped,         \* io_service::stop was called
    crashed,         \* undefined behaviour brought the process down
    pc,              \* where each thread is in an API call; "idle" outside
    id, hdl,         \* locals of the call
    result,          \* broadcastData: what it will return
    batch,           \* broadcastData: ids still to send to
    marked,          \* broadcastData: connections that took the frame;
                     \* stop: connections that were open when its loop began
    calls,           \* calls the thread has begun
    netPc,           \* where the network thread is in a handler
    netHdl, netId    \* locals of the handler

mapVars  == <<websocketsLock, g_id_to_socket, g_socket_to_id>>
connVars == <<session, stateLock>>
srvVars  == <<listening, accepting, stopped, crashed>>
callVars == <<pc, id, hdl, result, batch, marked, calls>>
netVars  == <<netPc, netHdl, netId>>
vars     == <<mapVars, connVars, srvVars, callVars, netVars>>

Threads == Callers \cup {Net}

\* Where a thread can be in an API call, and what it then holds: the id it
\* asked for, a handle it looked up, that handle for that id.
Labels == {"idle", "send_get", "send_push", "bc_lock", "bc_loop",
           "sc_get", "sc_check", "sc_set", "sc_erase",
           "st_listen", "st_begin", "st_loop", "st_check", "st_set", "st_next",
           "st_clear", "st_stop"}
LookedUp == {"send_push", "sc_check", "sc_set", "sc_erase"}
HasId    == LookedUp \cup {"send_get", "sc_get", "st_check", "st_set", "st_next"}
HasHdl   == LookedUp \cup {"st_check", "st_set", "st_next"}

\* Where the network thread can be in a handler.
NetLabels == {"idle", "validate", "close", "close_erase", "message", "callback"}

\* m_state is "connecting" in the first four; "accepted" and "rejected" tell
\* which handshake response is being written, "failed" and "closed" which
\* terminate_status the connection ended with.
SessionStates ==
    {"none", "reading", "accepted", "rejected", "open", "closing", "closed", "failed"}

\* The connection answering to an id can be found by sendText, sendData,
\* sendClose, broadcastData and stop.
Reachable == {c \in Conns : \E i \in Ids : g_id_to_socket[i] = c}

----------------------------------------------------------------------------
Init ==
    /\ websocketsLock = None
    /\ g_id_to_socket = [i \in Ids |-> None]
    /\ g_socket_to_id = [c \in Conns |-> 0]
    /\ session = [c \in Conns |-> "none"]
    /\ stateLock = [c \in Conns |-> None]
    /\ listening = TRUE
    /\ accepting = TRUE
    /\ stopped = FALSE
    /\ crashed = FALSE
    /\ pc = [t \in Threads |-> "idle"]
    /\ id = [t \in Threads |-> 0]
    /\ hdl = [t \in Threads |-> None]
    /\ result = [t \in Threads |-> FALSE]
    /\ batch = [t \in Threads |-> {}]
    /\ marked = [t \in Threads |-> {}]
    /\ calls = [t \in Threads |-> 0]
    /\ netPc = "idle"
    /\ netHdl = None
    /\ netId = 0

----------------------------------------------------------------------------
(* The maps: insert leaves an existing entry as it is; erase of a key that *)
(* is not there does nothing. A definition marked "Mutant" is a plausible  *)
(* bug that no action uses: with it in place of the definition it precedes *)
(* the property it is named for fails.                                     *)

KeysAfter(k) == {i \in Ids : i > k /\ g_id_to_socket[i] # None}

\* ++it or begin(): the smallest key after k, or end().
NextKey(k) ==
    IF KeysAfter(k) = {} THEN 0
    ELSE CHOOSE i \in KeysAfter(k) : \A j \in KeysAfter(k) : i <= j

\* Mutant for OwnClient: lower_bound instead of find.
FindLowerBound(i) == IF NextKey(i - 1) = 0 THEN None ELSE g_id_to_socket[NextKey(i - 1)]

Find(i) == g_id_to_socket[i]

Register(i, c) ==
    /\ g_id_to_socket' = [g_id_to_socket EXCEPT ![i] = IF @ = None THEN c ELSE @]
    /\ g_socket_to_id' = [g_socket_to_id EXCEPT ![c] = IF @ = 0 THEN i ELSE @]

\* Mutant for ForwardHasBackward: only the entry by handle is erased.
ForgetHandle(i, c) ==
    /\ g_socket_to_id' = [g_socket_to_id EXCEPT ![c] = 0]
    /\ UNCHANGED g_id_to_socket

\* Mutant for Inverse and ClosedUnregistered: only the entry by id is erased.
ForgetId(i, c) ==
    /\ g_id_to_socket' = [g_id_to_socket EXCEPT ![i] = None]
    /\ UNCHANGED g_socket_to_id

Unregister(i, c) ==
    /\ g_id_to_socket' = [g_id_to_socket EXCEPT ![i] = None]
    /\ g_socket_to_id' = [g_socket_to_id EXCEPT ![c] = 0]

----------------------------------------------------------------------------
(* Pieces shared by the API calls.                                         *)

Goto(t, label) == pc' = [pc EXCEPT ![t] = label]

\* The call returns; its locals go out of scope.
Return(t) ==
    /\ Goto(t, "idle")
    /\ id' = [id EXCEPT ![t] = 0]
    /\ hdl' = [hdl EXCEPT ![t] = None]
    /\ result' = [result EXCEPT ![t] = FALSE]
    /\ marked' = [marked EXCEPT ![t] = {}]

\* An application thread calls the API at any time; the network thread only
\* from inside the message callback.
Begin(t, label, i) ==
    /\ pc[t] = "idle"
    /\ t = Net => netPc = "callback"
    /\ calls[t] < MaxCalls
    /\ calls' = [calls EXCEPT ![t] = @ + 1]
    /\ Goto(t, label)
    /\ id' = [id EXCEPT ![t] = i]
    /\ UNCHANGED <<hdl, result, batch, marked, mapVars, connVars, srvVars, netVars>>

\* Mutant for TypeOK: the result of getWebsocket is not looked at.
GetWebsocketUnchecked(t, label) ==
    /\ websocketsLock = None
    /\ hdl' = [hdl EXCEPT ![t] = Find(id[t])]
    /\ Goto(t, label)
    /\ UNCHANGED <<id, result, marked, batch, calls, mapVars, connVars, srvVars, netVars>>

\* getWebsocket: a locked lookup; without an entry the caller returns false.
GetWebsocket(t, label) ==
    /\ websocketsLock = None
    /\ IF Find(id[t]) = None
       THEN Return(t)
       ELSE /\ hdl' = [hdl EXCEPT ![t] = Find(id[t])]
            /\ Goto(t, label)
            /\ UNCHANGED <<id, result, marked>>
    /\ UNCHANGED <<batch, calls, mapVars, connVars, srvVars, netVars>>

\* connection::close, first half: take m_connection_state_lock, test m_state.
CloseCheck(t, setLabel, errorStep) ==
    /\ stateLock[hdl[t]] = None
    /\ IF session[hdl[t]] = "open"
       THEN /\ stateLock' = [stateLock EXCEPT ![hdl[t]] = t]
            /\ Goto(t, setLabel)
            /\ UNCHANGED <<id, hdl, result, marked>>
       ELSE /\ errorStep
            /\ UNCHANGED stateLock
    /\ UNCHANGED <<session, batch, calls, mapVars, srvVars, netVars>>

\* connection::close, second half: m_state = closing whatever it is by now
\* (terminate writes m_state without the lock), then release.
CloseSet(t, label) ==
    /\ session' = [session EXCEPT ![hdl[t]] = "closing"]
    /\ stateLock' = [stateLock EXCEPT ![hdl[t]] = None]
    /\ Goto(t, label)
    /\ UNCHANGED <<id, hdl, result, batch, marked, calls, mapVars, srvVars, netVars>>

----------------------------------------------------------------------------
(* sendText and sendData: they differ in the opcode only.                  *)

SendBegin(t) == \E i \in Ids : Begin(t, "send_get", i)

SendGet(t) == pc[t] = "send_get" /\ GetWebsocket(t, "send_push")

\* server.send tests m_state under the connection's lock; sendText returns
\* whether it was open.
SendPush(t) ==
    /\ pc[t] = "send_push"
    /\ stateLock[hdl[t]] = None
    /\ Return(t)
    /\ UNCHANGED <<batch, calls, mapVars, connVars, srvVars, netVars>>

----------------------------------------------------------------------------
(* broadcastData: one send per map entry, the mutex held over the loop.    *)

BroadcastBegin(t) == Begin(t, "bc_lock", 0)

BroadcastLock(t) ==
    /\ pc[t] = "bc_lock"
    /\ websocketsLock = None
    /\ websocketsLock' = t
    /\ batch' = [batch EXCEPT ![t] = {i \in Ids : g_id_to_socket[i] # None}]
    /\ result' = [result EXCEPT ![t] = TRUE]
    /\ Goto(t, "bc_loop")
    /\ UNCHANGED <<id, hdl, marked, calls, g_id_to_socket, g_socket_to_id,
                   connVars, srvVars, netVars>>

\* Mutant for BroadcastReached: the error of server.send is not looked at.
SendUnchecked(t, c) ==
    /\ marked' = IF session[c] = "open" THEN [marked EXCEPT ![t] = @ \cup {c}] ELSE marked
    /\ UNCHANGED result

\* server.send to one connection, and what the loop makes of its error.
SendOne(t, c) ==
    IF session[c] = "open"
    THEN marked' = [marked EXCEPT ![t] = @ \cup {c}] /\ UNCHANGED result
    ELSE result' = [result EXCEPT ![t] = FALSE] /\ UNCHANGED marked

BroadcastSend(t) ==
    /\ pc[t] = "bc_loop"
    /\ \E i \in batch[t] :
          LET c == g_id_to_socket[i] IN
          /\ \A j \in batch[t] : i <= j
          /\ stateLock[c] = None
          /\ batch' = [batch EXCEPT ![t] = @ \ {i}]
          /\ SendOne(t, c)
    /\ UNCHANGED <<pc, id, hdl, calls, mapVars, connVars, srvVars, netVars>>

\* Mutant for CallsReturn: the unlock is forgotten.
KeepLock == UNCHANGED websocketsLock

Unlock == websocketsLock' = None

BroadcastEnd(t) ==
    /\ pc[t] = "bc_loop"
    /\ batch[t] = {}
    /\ Unlock
    /\ Return(t)
    /\ UNCHANGED <<batch, calls, g_id_to_socket, g_socket_to_id,
                   connVars, srvVars, netVars>>

----------------------------------------------------------------------------
(* sendClose: look up, close, then erase what was looked up.               *)

SendCloseBegin(t) == \E i \in Ids : Begin(t, "sc_get", i)

\* Mutant for RegistrySpec: erase without having closed.
SendCloseGetErase(t) == pc[t] = "sc_get" /\ GetWebsocket(t, "sc_erase")

SendCloseGet(t) == pc[t] = "sc_get" /\ GetWebsocket(t, "sc_check")

\* Mutant for OpenReachable: erase though close reported an error.
SendCloseCheckIgnored(t) ==
    /\ pc[t] = "sc_check"
    /\ CloseCheck(t, "sc_set", Goto(t, "sc_erase") /\ UNCHANGED <<id, hdl, result, marked>>)

SendCloseCheck(t) == pc[t] = "sc_check" /\ CloseCheck(t, "sc_set", Return(t))

SendCloseSet(t) == pc[t] = "sc_set" /\ CloseSet(t, "sc_erase")

SendCloseErase(t) ==
    /\ pc[t] = "sc_erase"
    /\ websocketsLock = None
    /\ Unregister(id[t], hdl[t])
    /\ Return(t)
    /\ UNCHANGED <<batch, calls, websocketsLock, connVars, srvVars, netVars>>

----------------------------------------------------------------------------
(* stop: its loop walks g_id_to_socket without the mutex. The local id is  *)
(* the key the iterator points at, 0 for end().                            *)

StopBegin(t) == Begin(t, "st_listen", 0)

\* stop_listening fails when the transport is not listening: stop gives up.
StopListening(t) ==
    /\ pc[t] = "st_listen"
    /\ IF listening THEN Goto(t, "st_begin") /\ UNCHANGED <<id, hdl, result, marked>>
                    ELSE Return(t)
    /\ listening' = FALSE
    /\ UNCHANGED <<batch, calls, mapVars, connVars, accepting, stopped, crashed, netVars>>

StopLoopBegin(t) ==
    /\ pc[t] = "st_begin"
    /\ id' = [id EXCEPT ![t] = NextKey(0)]
    /\ marked' = [marked EXCEPT ![t] = {c \in Conns : session[c] = "open"}]
    /\ Goto(t, "st_loop")
    /\ UNCHANGED <<hdl, result, batch, calls, mapVars, connVars, srvVars, netVars>>

StopLoopHead(t) ==
    /\ pc[t] = "st_loop"
    /\ IF id[t] = 0
       THEN Goto(t, "st_clear") /\ UNCHANGED hdl
       ELSE /\ g_id_to_socket[id[t]] # None
            /\ hdl' = [hdl EXCEPT ![t] = g_id_to_socket[id[t]]]
            /\ Goto(t, "st_check")
    /\ UNCHANGED <<id, result, batch, marked, calls, mapVars, connVars, srvVars, netVars>>

\* An error of close is ignored.
StopCheck(t) ==
    /\ pc[t] = "st_check"
    /\ CloseCheck(t, "st_set", Goto(t, "st_next") /\ UNCHANGED <<id, hdl, result, marked>>)

StopSet(t) == pc[t] = "st_set" /\ CloseSet(t, "st_next")

StopLoopNext(t) ==
    /\ pc[t] = "st_next"
    /\ g_id_to_socket[id[t]] # None
    /\ id' = [id EXCEPT ![t] = NextKey(@)]
    /\ Goto(t, "st_loop")
    /\ UNCHANGED <<hdl, result, batch, marked, calls, mapVars, connVars, srvVars, netVars>>

\* The node the iterator points at was erased by another thread: undefined
\* behaviour. The process dies, or the freed node still leads to a later key
\* or to end().
StopDangling(t) ==
    /\ pc[t] \in {"st_loop", "st_next"}
    /\ id[t] # 0
    /\ g_id_to_socket[id[t]] = None
    /\ \/ crashed' = TRUE /\ UNCHANGED <<pc, id>>
       \/ /\ \E k \in KeysAfter(id[t]) \cup {0} : id' = [id EXCEPT ![t] = k]
          /\ Goto(t, "st_loop")
          /\ UNCHANGED crashed
    /\ UNCHANGED <<hdl, result, batch, marked, calls, mapVars, connVars,
                   listening, accepting, stopped, netVars>>

\* Another thread is in a critical section that changes g_id_to_socket.
MapWriter(t) ==
    \/ \E u \in Threads \ {t} :
          \/ pc[u] = "st_clear"
          \/ pc[u] = "sc_erase" /\ g_id_to_socket[id[u]] # None
    \/ netPc = "validate" /\ g_id_to_socket[IdOf[netHdl]] = None
    \/ netPc = "close_erase" /\ g_id_to_socket[netId] # None

\* Data race of the unlocked loop with such a write: the outcomes in which
\* the tree is left intact are the two orders of the steps; the other is a
\* crash.
StopRace(t) ==
    /\ pc[t] \in {"st_begin", "st_loop", "st_next"}
    /\ websocketsLock = None
    /\ MapWriter(t)
    /\ crashed' = TRUE
    /\ UNCHANGED <<callVars, mapVars, connVars, listening, accepting, stopped, netVars>>

StopClear(t) ==
    /\ pc[t] = "st_clear"
    /\ websocketsLock = None
    /\ g_id_to_socket' = [i \in Ids |-> None]
    /\ g_socket_to_id' = [c \in Conns |-> 0]
    /\ Goto(t, "st_stop")
    /\ UNCHANGED <<id, hdl, result, batch, marked, calls, websocketsLock,
                   connVars, srvVars, netVars>>

StopEnd(t) ==
    /\ pc[t] = "st_stop"
    /\ stopped' = TRUE
    /\ Return(t)
    /\ UNCHANGED <<batch, calls, mapVars, connVars, listening, accepting,
                   crashed, netVars>>

----------------------------------------------------------------------------
(* The network thread: events it takes from the io_service, one at a time, *)
(* until the io_service is stopped, and the handlers they run.             *)

NetIdle == netPc = "idle" /\ ~stopped

Handle(label, c) ==
    /\ netPc' = label
    /\ netHdl' = c
    /\ UNCHANGED netId

HandlerDone == netPc' = "idle" /\ netHdl' = None /\ netId' = 0

\* The accept handler starts the new connection and, while the transport
\* listens, the next accept. An accept that completed before stop_listening
\* still delivers its connection.
Accept(c) ==
    /\ NetIdle /\ accepting
    /\ session[c] = "none"
    /\ session' = [session EXCEPT ![c] = "reading"]
    /\ accepting' = listening
    /\ UNCHANGED <<stateLock, mapVars, listening, stopped, crashed, callVars, netVars>>

\* stop_listening closed the acceptor: the accept fails and is not renewed.
AcceptAborted ==
    /\ NetIdle /\ accepting /\ ~listening
    /\ accepting' = FALSE
    /\ UNCHANGED <<mapVars, connVars, listening, stopped, crashed, callVars, netVars>>

\* A complete handshake request arrived: validate it. Without a query
\* string on_validate refuses the client.
ValidateRefuse(c) ==
    /\ NetIdle
    /\ session[c] = "reading"
    /\ session' = [session EXCEPT ![c] = "rejected"]
    /\ UNCHANGED <<stateLock, mapVars, srvVars, callVars, netVars>>

\* Mutant for NeverReRegistered: a request that arrives after the handshake
\* timer ended the connection is still validated.
ValidateAnyway(c) ==
    /\ NetIdle
    /\ session[c] \in {"reading", "failed"}
    /\ Handle("validate", c)
    /\ UNCHANGED <<mapVars, connVars, srvVars, callVars>>

ValidateBegin(c) ==
    /\ NetIdle
    /\ session[c] = "reading"
    /\ Handle("validate", c)
    /\ UNCHANGED <<mapVars, connVars, srvVars, callVars>>

ValidateInsert ==
    /\ netPc = "validate"
    /\ websocketsLock = None
    /\ Register(IdOf[netHdl], netHdl)
    /\ session' = [session EXCEPT ![netHdl] = "accepted"]
    /\ HandlerDone
    /\ UNCHANGED <<websocketsLock, stateLock, srvVars, callVars>>

\* Mutant for SessionsSpec: the response was written after the handshake timer
\* ended the connection, and opens it all the same.
OpenedAnyway(c) ==
    /\ NetIdle
    /\ session[c] \in {"accepted", "failed"}
    /\ stateLock[c] = None
    /\ session' = [session EXCEPT ![c] = "open"]
    /\ UNCHANGED <<stateLock, mapVars, srvVars, callVars, netVars>>

\* The handshake response was written.
Opened(c) ==
    /\ NetIdle
    /\ session[c] = "accepted"
    /\ stateLock[c] = None
    /\ session' = [session EXCEPT ![c] = "open"]
    /\ UNCHANGED <<stateLock, mapVars, srvVars, callVars, netVars>>

\* terminate before the connection opened (bad or refused request, transport
\* error, open handshake timeout); on_fail only reads the error code.
Failed(c) ==
    /\ NetIdle
    /\ session[c] \in {"reading", "accepted", "rejected"}
    /\ session' = [session EXCEPT ![c] = "failed"]
    /\ UNCHANGED <<stateLock, mapVars, srvVars, callVars, netVars>>

\* The peer's close frame arrived; the acknowledgement is queued.
PeerClose(c) ==
    /\ NetIdle
    /\ session[c] = "open"
    /\ session' = [session EXCEPT ![c] = "closing"]
    /\ UNCHANGED <<stateLock, mapVars, srvVars, callVars, netVars>>

\* terminate of an established connection, which takes no lock; it calls
\* on_close on its way out.
Terminate(c) ==
    /\ NetIdle
    /\ session[c] \in {"open", "closing"}
    /\ session' = [session EXCEPT ![c] = "closed"]
    /\ Handle("close", c)
    /\ UNCHANGED <<stateLock, mapVars, srvVars, callVars>>

\* getId in a handler: a locked lookup; without an entry the handler returns.
GetId(label) ==
    /\ websocketsLock = None
    /\ IF g_socket_to_id[netHdl] = 0
       THEN HandlerDone
       ELSE netPc' = label /\ netId' = g_socket_to_id[netHdl] /\ UNCHANGED netHdl
    /\ UNCHANGED <<mapVars, connVars, srvVars, callVars>>

CloseGetId == netPc = "close" /\ GetId("close_erase")

CloseErase ==
    /\ netPc = "close_erase"
    /\ websocketsLock = None
    /\ Unregister(netId, netHdl)
    /\ HandlerDone
    /\ UNCHANGED <<websocketsLock, connVars, srvVars, callVars>>

\* A data message of an open connection goes to on_message, and from there to
\* the application's callback, which may itself call the API.
Message(c) ==
    /\ NetIdle
    /\ session[c] = "open"
    /\ Handle("message", c)
    /\ UNCHANGED <<mapVars, connVars, srvVars, callVars>>

MessageGetId == netPc = "message" /\ GetId("callback")

\* The callback returned. The bytes read may hold another message, which is
\* dispatched while the session is still open.
MessageDone ==
    /\ netPc = "callback"
    /\ pc[Net] = "idle"
    /\ \/ HandlerDone
       \/ session[netHdl] = "open" /\ netPc' = "message" /\ netId' = 0 /\ UNCHANGED netHdl
    /\ UNCHANGED <<mapVars, connVars, srvVars, callVars>>

----------------------------------------------------------------------------
BeginCall(t) ==
    SendBegin(t) \/ BroadcastBegin(t) \/ SendCloseBegin(t) \/ StopBegin(t)

\* A step of a call under way.
CallStep(t) ==
    \/ SendGet(t) \/ SendPush(t)
    \/ BroadcastLock(t) \/ BroadcastSend(t) \/ BroadcastEnd(t)
    \/ SendCloseGet(t) \/ SendCloseCheck(t) \/ SendCloseSet(t) \/ SendCloseErase(t)
    \/ StopListening(t) \/ StopLoopBegin(t) \/ StopLoopHead(t) \/ StopCheck(t)
    \/ StopSet(t) \/ StopLoopNext(t) \/ StopDangling(t) \/ StopRace(t)
    \/ StopClear(t) \/ StopEnd(t)

\* An event the network thread takes up.
NetEvent ==
    \/ AcceptAborted
    \/ \E c \in Conns :
          \/ Accept(c) \/ ValidateRefuse(c) \/ ValidateBegin(c) \/ Opened(c)
          \/ Failed(c) \/ PeerClose(c) \/ Terminate(c) \/ Message(c)

\* A step of the handler it is in.
HandlerStep ==
    \/ ValidateInsert
    \/ CloseGetId \/ CloseErase
    \/ MessageGetId \/ MessageDone

Next ==
    /\ ~crashed
    /\ \/ \E t \in Threads : BeginCall(t) \/ CallStep(t)
       \/ NetEvent
       \/ HandlerStep

Spec == Init /\ [][Next]_vars

\* A thread inside a call goes on with it (nothing in a call waits but for the
\* two mutexes), and the network thread with its handler.
FairSpec ==
    /\ Spec
    /\ \A t \in Threads : WF_vars(~crashed /\ CallStep(t))
    /\ WF_vars(~crashed /\ HandlerStep)

----------------------------------------------------------------------------
(* Properties for every choice of the constants.                           *)

\* The types of the variables.
MapTypes ==
    /\ websocketsLock \in Threads \cup {None}
    /\ g_id_to_socket \in [Ids -> Conns \cup {None}]
    /\ g_socket_to_id \in [Conns -> Ids \cup {0}]
ServerTypes ==
    /\ session \in [Conns -> SessionStates]
    /\ stateLock \in [Conns -> Threads \cup {None}]
    /\ listening \in BOOLEAN /\ accepting \in BOOLEAN
    /\ stopped \in BOOLEAN /\ crashed \in BOOLEAN
CallTypes ==
    /\ pc \in [Threads -> Labels]
    /\ id \in [Threads -> Ids \cup {0}]
    /\ hdl \in [Threads -> Conns \cup {None}]
    /\ result \in [Threads -> BOOLEAN]
    /\ batch \in [Threads -> SUBSET Ids]
    /\ marked \in [Threads -> SUBSET Conns]
    /\ calls \in [Threads -> 0..MaxCalls]
NetTypes ==
    /\ netPc \in NetLabels
    /\ netHdl \in Conns \cup {None}
    /\ netId \in Ids \cup {0}

\* A call past its lookup has a handle, a handler has a connection, and only a
\* broadcast holds the mutex from one step to the next.
Positions ==
    /\ \A t \in Threads :
          /\ pc[t] \in HasId => id[t] # 0
          /\ pc[t] \in HasHdl => hdl[t] # None
          /\ websocketsLock = t <=> pc[t] = "bc_loop"
    /\ netPc # "idle" => netHdl # None
    /\ netPc = "close_erase" => netId # 0

\* Every variable has its type and each program position what it relies on: no
\* path of a call or a handler uses an id or a handle it did not obtain.
TypeOK == MapTypes /\ ServerTypes /\ CallTypes /\ NetTypes /\ Positions

\* The two maps agree in one direction: the connection an id leads to knows
\* that id, so on_close of that connection finds the entry to erase. (Line 138
\* may skip an insert, line 139 does not.)
ForwardHasBackward ==
    \A i \in Ids : g_id_to_socket[i] # None => g_socket_to_id[g_id_to_socket[i]] = i

\* A message or a close meant for an id goes to a client that gave that id,
\* however the entry changes between the lookup and the use of the handle.
OwnClient ==
    \A t \in Threads : pc[t] \in LookedUp => IdOf[hdl[t]] = id[t]

\* A connection whose end has begun is not entered into the maps again: what
\* was unregistered stays unregistered, across the lock-free steps of close()
\* and terminate() too.
Ended(c) == session[c] \in {"closing", "closed", "failed"}
NeverReRegistered ==
    [][\A c \in Conns :
          Ended(c) /\ (c \notin Reachable \/ g_socket_to_id[c] = 0)
          => /\ c \notin Reachable => c \notin Reachable'
             /\ g_socket_to_id[c] = 0 => g_socket_to_id'[c] = 0]_vars

\* broadcastData returns true only if every connection that an id leads to at
\* the time it returns has taken the frame.
BroadcastReached ==
    [][\A t \in Threads :
          pc[t] = "bc_loop" /\ pc'[t] = "idle" /\ result[t] => Reachable \subseteq marked[t]]_vars

\* Under FairSpec: every call returns unless undefined behaviour ends the
\* process: no thread waits for ever for websocketsLock or for the state lock
\* of a connection.
CallsReturn == \A t \in Threads : pc[t] # "idle" ~> pc[t] = "idle" \/ crashed

\* Under FairSpec: once websocketpp has closed an established connection,
\* on_close makes both maps forget it, whatever calls it overlaps.
ClosedUnregistered ==
    \A c \in Conns :
        session[c] = "closed" ~> \/ c \notin Reachable /\ g_socket_to_id[c] = 0
                                 \/ crashed

\* Each connection lives the life module Session describes, which Connection
\* is shown to implement: the handlers run here in no order, and close() meets
\* no state, that a websocketpp connection cannot produce.
S(c) == INSTANCE Session WITH state <- session[c], holder <- stateLock[c]
SessionsSpec ==
    /\ \A c \in Conns : S(c)!Init
    /\ [][\A c \in Conns : S(c)!Next \/ UNCHANGED <<session[c], stateLock[c]>>]_vars

----------------------------------------------------------------------------
(* Who can be reached. The comments of on_validate ask for an id of its    *)
(* own for every client in place of the hardcoded one; where clients share *)
(* an id, each of these says what another of them may do to a client.      *)

\* The maps are each other's inverse, but for a client that has come when its id
\* led to another one, or whose entry such another one has taken along.
Inverse ==
    /\ ForwardHasBackward
    /\ \A i \in Ids, c \in Conns : g_socket_to_id[c] = i =>
          \/ g_id_to_socket[i] = c
          \/ \E d \in Conns \ {c} : IdOf[d] = i /\ (g_id_to_socket[i] = d \/ Ended(d))

\* A client whose connection is open can be reached by its id until the server
\* begins to stop, whatever is closed meanwhile: its id leads to it, or to another
\* client that gave that id, unless the connection of such another one has ended.
OpenReachable ==
    \A c \in Conns : session[c] = "open" /\ listening =>
        \/ g_id_to_socket[IdOf[c]] = c
        \/ \E d \in Conns \ {c} :
              IdOf[d] = IdOf[c] /\ (g_id_to_socket[IdOf[c]] = d \/ Ended(d))

\* A connection that has ended is forgotten when the maps do not know it and
\* nobody is about to erase its id.
Erasing(c) ==
    \/ \E t \in Threads : pc[t] \in {"sc_set", "sc_erase"} /\ hdl[t] = c
    \/ netPc = "close_erase" /\ netHdl = c
Forgotten(c) == Ended(c) /\ g_socket_to_id[c] = 0 /\ ~Erasing(c)

\* The server implements Registry: a member leaves only when its own connection
\* is ending, or that of another client with its id which is not yet forgotten, or
\* with all others when the server stops; and no connection that is ending joins.
R == INSTANCE Registry WITH
        members   <- Reachable,
        ending    <- {c \in Conns : Ended(c)},
        forgotten <- {c \in Conns : Forgotten(c)},
        down      <- ~listening
RegistrySpec == R!Spec

----------------------------------------------------------------------------
(* What the comments of the code say, and the hardcoded id breaks.         *)

\* Line 162, "Remove websocket from the map": on_close takes out of the map no
\* connection but the one that closed.
OnCloseRemovesItself ==
    [][netPc = "close_erase" /\ netPc' = "idle" => Reachable \ {netHdl} \subseteq Reachable']_vars

\* Line 93, "Close all existing websocket connections": when the loop of stop
\* is over, no connection that was open when it began still is.
StopClosesAll ==
    \A t \in Threads : pc[t] = "st_clear" => \A c \in marked[t] : session[c] # "open"
=============================================================================
