------------------------ MODULE WebsocketServerProofs ------------------------
(***************************************************************************)
(* Theorems about WebsocketServer, for any number of connections, ids and  *)
(* application threads.                                                    *)
(***************************************************************************)
EXTENDS WebsocketServer, TLAPS

\* A connection is only ever filed under its own id, and the id on_close has
\* looked up for it is that one.
Own ==
    /\ \A c \in Conns : g_socket_to_id[c] \in {0, IdOf[c]}
    /\ netPc = "close_erase" => netId = IdOf[netHdl]

\* What a step that is about to act on a connection knows of its session.
SessionInv ==
    /\ netPc = "validate" => session[netHdl] = "reading"
    /\ netPc \in {"close", "close_erase"} => session[netHdl] \in {"closing", "closed"}
    /\ \A t \in Threads :
          /\ pc[t] \in {"sc_set", "st_set"} => session[hdl[t]] \in {"open", "closing", "closed"}
          /\ pc[t] = "sc_erase" => session[hdl[t]] \in {"closing", "closed"}

\* The loop of broadcastData: entries to come are in the map, and while no
\* send has failed, entries dealt with have taken the frame.
BroadcastInv ==
    \A t \in Threads : pc[t] = "bc_loop" =>
        /\ \A i \in batch[t] : g_id_to_socket[i] # None
        /\ result[t] => \A i \in Ids \ batch[t] :
              g_id_to_socket[i] # None => g_id_to_socket[i] \in marked[t]

IInv ==
    /\ TypeOK
    /\ Own
    /\ ForwardHasBackward
    /\ OwnClient
    /\ SessionInv
    /\ BroadcastInv

\* Initially no thread is in a call and the maps are empty.
LEMMA InitIInv == Init => IInv
<1> SUFFICES ASSUME Init PROVE IInv
  OBVIOUS
<1> USE ConstantsAssumption DEF ConstantsAssumption, Init
<1>1. TypeOK
  <2>1. MapTypes
    BY DEF MapTypes
  <2>2. ServerTypes
    BY DEF ServerTypes, SessionStates
  <2>3. CallTypes
    BY DEF CallTypes, Labels
  <2>4. NetTypes
    BY DEF NetTypes, NetLabels
  <2>5. Positions
    BY DEF Positions, HasId, HasHdl, LookedUp, Threads
  <2> QED
    BY <2>1, <2>2, <2>3, <2>4, <2>5 DEF TypeOK
<1>2. Own /\ ForwardHasBackward /\ OwnClient
  BY DEF Own, ForwardHasBackward, OwnClient, LookedUp
<1>3. SessionInv /\ BroadcastInv
  BY DEF SessionInv, BroadcastInv
<1> QED
  BY <1>1, <1>2, <1>3 DEF IInv

\* An iterator points at a key or is at the end.
LEMMA NextKeyType == \A k : NextKey(k) \in Ids \cup {0}
  BY DEF NextKey, KeysAfter

\* The map leads from an id to a connection that gave that id.
LEMMA ForwardOwn ==
    ASSUME IInv, NEW i \in Ids, g_id_to_socket[i] # None
    PROVE  g_id_to_socket[i] \in Conns /\ IdOf[g_id_to_socket[i]] = i
  BY ConstantsAssumption DEF ConstantsAssumption, IInv, TypeOK, MapTypes, Own,
     ForwardHasBackward

\* A return keeps the types of the call variables.
LEMMA ReturnTypes ==
    ASSUME CallTypes, NEW t \in Threads, Return(t), UNCHANGED <<batch, calls>>
    PROVE  CallTypes'
<1>1. pc' \in [Threads -> Labels]
  BY DEF CallTypes, Return, Goto, Labels
<1> QED
  BY <1>1 DEF CallTypes, Return

\* So does a jump.
LEMMA GotoTypes ==
    ASSUME CallTypes, NEW t \in Threads, NEW l \in Labels, Goto(t, l),
           UNCHANGED <<batch, calls, result, marked>>,
           id' \in [Threads -> Ids \cup {0}], hdl' \in [Threads -> Conns \cup {None}]
    PROVE  CallTypes'
  BY DEF CallTypes, Goto

\* A lookup ends the call or yields a connection that gave the id asked for.
LEMMA GetWebsocketStep ==
    ASSUME IInv, NEW t \in Threads, pc[t] \in {"send_get", "sc_get"},
           NEW label \in {"send_push", "sc_check"}, GetWebsocket(t, label)
    PROVE  (CallTypes /\ Positions /\ OwnClient)'
<1> USE ConstantsAssumption DEF ConstantsAssumption
<1> DEFINE c == g_id_to_socket[id[t]]
<1>1. CallTypes /\ id[t] \in Ids
  BY DEF IInv, TypeOK, CallTypes, Positions, HasId
<1>2. CASE c = None
  <2>1. Return(t) /\ UNCHANGED <<batch, calls, websocketsLock, netPc, netHdl, netId>>
    BY <1>2 DEF GetWebsocket, Find, mapVars, netVars
  <2>2. CallTypes'
    BY <1>1, <2>1, ReturnTypes
  <2>3. (Positions /\ OwnClient)'
    BY <1>1, <2>1 DEF IInv, TypeOK, CallTypes, MapTypes, Positions, OwnClient, Return,
       Goto, HasId, HasHdl, LookedUp, Threads
  <2> QED
    BY <2>2, <2>3
<1>3. CASE c # None
  <2>1. /\ hdl' = [hdl EXCEPT ![t] = c]
        /\ Goto(t, label)
        /\ UNCHANGED <<id, result, marked, batch, calls, websocketsLock, netPc, netHdl, netId>>
    BY <1>3 DEF GetWebsocket, Find, mapVars, netVars
  <2>2. c \in Conns /\ IdOf[c] = id[t]
    BY <1>1, <1>3, ForwardOwn
  <2>3. CallTypes'
    <3>1. label \in Labels
      BY DEF Labels
    <3>2. /\ id' \in [Threads -> Ids \cup {0}] 
          /\ hdl' \in [Threads -> Conns \cup {None}]
      BY <1>1, <2>1, <2>2 DEF CallTypes
    <3> QED
      BY <1>1, <2>1, <3>1, <3>2, GotoTypes
  <2>4. (Positions /\ OwnClient)'
    BY <1>1, <2>1, <2>2 DEF IInv, TypeOK, CallTypes, MapTypes, Positions, OwnClient, Goto,
       HasId, HasHdl, LookedUp, Threads
  <2> QED
    BY <2>3, <2>4
<1> QED
  BY <1>2, <1>3

\* The maps keep their types and stay in agreement: an insert that is skipped for
\* one map leaves the other consistent with it, an erase takes both entries.
LEMMA MapStep ==
    ASSUME IInv, Next PROVE (MapTypes /\ Own /\ ForwardHasBackward)'
<1> USE ConstantsAssumption DEF ConstantsAssumption, IInv, TypeOK, MapTypes, CallTypes,
      NetTypes, Positions, Own, ForwardHasBackward, OwnClient, Threads, NetLabels, HasHdl,
      HasId, LookedUp, mapVars, netVars
<1>1. ASSUME NEW t \in Threads, BeginCall(t) PROVE (MapTypes /\ Own /\ ForwardHasBackward)'
  BY <1>1 DEF BeginCall, SendBegin, BroadcastBegin, SendCloseBegin, StopBegin, Begin, Goto
<1>2. ASSUME NEW t \in Threads, CallStep(t) PROVE (MapTypes /\ Own /\ ForwardHasBackward)'
  <2>1. CASE BroadcastLock(t)
    BY <2>1 DEF BroadcastLock, Goto
  <2>2. CASE BroadcastEnd(t)
    BY <2>2 DEF BroadcastEnd, Unlock, Return, Goto
  <2>3. CASE SendCloseErase(t)
    BY <2>3 DEF SendCloseErase, Unregister, Return, Goto
  <2>4. CASE StopClear(t)
    BY <2>4 DEF StopClear, Goto
  <2>5. CASE SendGet(t) \/ SendPush(t) \/ BroadcastSend(t) \/ SendCloseGet(t) \/
        SendCloseCheck(t) \/ SendCloseSet(t) \/ StopListening(t) \/ StopLoopBegin(t) \/
        StopLoopHead(t) \/ StopCheck(t) \/ StopSet(t) \/ StopLoopNext(t) \/
        StopDangling(t) \/ StopRace(t) \/ StopEnd(t)
    BY <2>5 DEF SendGet, SendPush, BroadcastSend, SendCloseGet, SendCloseCheck,
       SendCloseSet, StopListening, StopLoopBegin, StopLoopHead, StopCheck, StopSet,
       StopLoopNext, StopDangling, StopRace, StopEnd, CloseCheck, CloseSet, Find,
       GetWebsocket, Goto, Return, SendOne
  <2> QED
    BY <1>2, <2>1, <2>2, <2>3, <2>4, <2>5 DEF CallStep
<1>3. CASE AcceptAborted
  BY <1>3 DEF AcceptAborted, NetIdle
<1>4. ASSUME NEW c \in Conns,
             Accept(c) \/ ValidateRefuse(c) \/ ValidateBegin(c) \/ Opened(c) \/
             Failed(c) \/ PeerClose(c) \/ Terminate(c) \/ Message(c)
      PROVE (MapTypes /\ Own /\ ForwardHasBackward)'
  BY <1>4 DEF Accept, ValidateRefuse, ValidateBegin, Opened, Failed, PeerClose, Terminate,
     Message, Handle, NetIdle
<1>5. CASE HandlerStep
  <2>1. CASE ValidateInsert
    <3>1. MapTypes'
      BY <2>1 DEF ValidateInsert, Register, HandlerDone
    <3>2. Own'
      BY <2>1 DEF ValidateInsert, Register, HandlerDone
    <3>3. ForwardHasBackward'
      BY <2>1 DEF ValidateInsert, Register, HandlerDone
    <3> QED
      BY <3>1, <3>2, <3>3
  <2>2. CASE CloseGetId
    BY <2>2 DEF CloseGetId, GetId, HandlerDone
  <2>3. CASE CloseErase
    BY <2>3 DEF CloseErase, Unregister, HandlerDone
  <2>4. CASE MessageGetId
    BY <2>4 DEF MessageGetId, GetId, HandlerDone
  <2>5. CASE MessageDone
    BY <2>5 DEF MessageDone, HandlerDone
  <2> QED
    BY <1>5, <2>1, <2>2, <2>3, <2>4, <2>5 DEF HandlerStep
<1> QED
  BY <1>1, <1>2, <1>3, <1>4, <1>5 DEF Next, NetEvent

\* What the network thread and the calls know of a connection's session stays
\* true: only close() may overtake the network thread, and only an open session.
LEMMA SessionStep ==
    ASSUME IInv, Next PROVE (ServerTypes /\ SessionInv)'
<1> USE ConstantsAssumption DEF ConstantsAssumption, IInv, TypeOK, CallTypes, ServerTypes,
      NetTypes, Positions, SessionInv, Threads, NetLabels, HasHdl, LookedUp, SessionStates,
      connVars, srvVars, callVars, netVars
<1>1. ASSUME NEW t \in Threads, BeginCall(t) PROVE (ServerTypes /\ SessionInv)'
  BY <1>1 DEF BeginCall, SendBegin, BroadcastBegin, SendCloseBegin, StopBegin, Begin, Goto
<1>2. ASSUME NEW t \in Threads, CallStep(t) PROVE (ServerTypes /\ SessionInv)'
  <2>1. CASE SendGet(t)
    BY <2>1 DEF SendGet, GetWebsocket, Find, Goto, Return
  <2>2. CASE SendPush(t)
    BY <2>2 DEF SendPush, Return, Goto
  <2>3. CASE BroadcastLock(t)
    BY <2>3 DEF BroadcastLock, Goto
  <2>4. CASE BroadcastSend(t)
    BY <2>4 DEF BroadcastSend, SendOne
  <2>5. CASE BroadcastEnd(t)
    BY <2>5 DEF BroadcastEnd, Unlock, Return, Goto
  <2>6. CASE SendCloseGet(t)
    BY <2>6 DEF SendCloseGet, GetWebsocket, Find, Goto, Return
  <2>7. CASE SendCloseCheck(t)
    BY <2>7 DEF SendCloseCheck, CloseCheck, Goto, Return
  <2>8. CASE SendCloseSet(t)
    BY <2>8 DEF SendCloseSet, CloseSet, Goto
  <2>9. CASE SendCloseErase(t)
    BY <2>9 DEF SendCloseErase, Unregister, Return, Goto
  <2>10. CASE StopListening(t)
    <3>1. ServerTypes'
      BY <2>10 DEF StopListening
    <3>2. /\ UNCHANGED <<session, netPc, netHdl>>
          /\ Return(t) \/ (Goto(t, "st_begin") /\ UNCHANGED hdl)
      BY <2>10 DEF StopListening
    <3>3. SessionInv'
      BY <3>2 DEF Return, Goto
    <3> QED
      BY <3>1, <3>3
  <2>11. CASE StopLoopBegin(t)
    BY <2>11 DEF StopLoopBegin, Goto
  <2>12. CASE StopLoopHead(t)
    BY <2>12 DEF StopLoopHead, Goto
  <2>13. CASE StopCheck(t)
    BY <2>13 DEF StopCheck, CloseCheck, Goto
  <2>14. CASE StopSet(t)
    BY <2>14 DEF StopSet, CloseSet, Goto
  <2>15. CASE StopLoopNext(t)
    BY <2>15 DEF StopLoopNext, Goto
  <2>16. CASE StopDangling(t)
    BY <2>16 DEF StopDangling, Goto
  <2>17. CASE StopRace(t)
    BY <2>17 DEF StopRace
  <2>18. CASE StopClear(t)
    BY <2>18 DEF StopClear, Goto
  <2>19. CASE StopEnd(t)
    BY <2>19 DEF StopEnd, Return, Goto
  <2> QED
    BY <1>2, <2>1, <2>2, <2>3, <2>4, <2>5, <2>6, <2>7, <2>8, <2>9, <2>10, <2>11, <2>12,
       <2>13, <2>14, <2>15, <2>16, <2>17, <2>18, <2>19 DEF CallStep
<1>3. CASE AcceptAborted
  BY <1>3 DEF AcceptAborted, NetIdle
<1>4. ASSUME NEW c \in Conns,
             Accept(c) \/ ValidateRefuse(c) \/ ValidateBegin(c) \/ Opened(c) \/
             Failed(c) \/ PeerClose(c) \/ Terminate(c) \/ Message(c)
      PROVE (ServerTypes /\ SessionInv)'
  <2>1. CASE Accept(c)
    BY <2>1 DEF Accept, NetIdle
  <2>2. CASE ValidateRefuse(c)
    BY <2>2 DEF ValidateRefuse, NetIdle
  <2>3. CASE ValidateBegin(c)
    BY <2>3 DEF ValidateBegin, Handle, NetIdle
  <2>4. CASE Opened(c)
    BY <2>4 DEF Opened, NetIdle
  <2>5. CASE Failed(c)
    BY <2>5 DEF Failed, NetIdle
  <2>6. CASE PeerClose(c)
    BY <2>6 DEF PeerClose, NetIdle
  <2>7. CASE Terminate(c)
    BY <2>7 DEF Terminate, Handle, NetIdle
  <2>8. CASE Message(c)
    BY <2>8 DEF Message, Handle, NetIdle
  <2> QED
    BY <1>4, <2>1, <2>2, <2>3, <2>4, <2>5, <2>6, <2>7, <2>8
<1>5. CASE HandlerStep
  <2>1. CASE ValidateInsert
    BY <2>1 DEF ValidateInsert, Register, HandlerDone
  <2>2. CASE CloseGetId
    BY <2>2 DEF CloseGetId, GetId, HandlerDone
  <2>3. CASE CloseErase
    BY <2>3 DEF CloseErase, Unregister, HandlerDone
  <2>4. CASE MessageGetId
    BY <2>4 DEF MessageGetId, GetId, HandlerDone
  <2>5. CASE MessageDone
    BY <2>5 DEF MessageDone, HandlerDone
  <2> QED
    BY <1>5, <2>1, <2>2, <2>3, <2>4, <2>5 DEF HandlerStep
<1> QED
  BY <1>1, <1>2, <1>3, <1>4, <1>5 DEF Next, NetEvent

\* Every call keeps to its positions: handles are looked up before they are used,
\* and the mutex is held in the loop of broadcastData alone.
LEMMA CallsStep ==
    ASSUME IInv, Next PROVE (CallTypes /\ Positions /\ OwnClient)'
<1> USE ConstantsAssumption DEF ConstantsAssumption, IInv, TypeOK, MapTypes, CallTypes,
      NetTypes, Positions, Own, ForwardHasBackward, OwnClient, BroadcastInv, Threads,
      Labels, NetLabels, HasHdl, HasId, LookedUp, mapVars, callVars, netVars
<1>1. ASSUME NEW t \in Threads, BeginCall(t) PROVE (CallTypes /\ Positions /\ OwnClient)'
  BY <1>1 DEF BeginCall, SendBegin, BroadcastBegin, SendCloseBegin, StopBegin, Begin, Goto
<1>2. ASSUME NEW t \in Threads, CallStep(t) PROVE (CallTypes /\ Positions /\ OwnClient)'
  <2>1. CASE SendGet(t)
    BY <2>1, GetWebsocketStep DEF SendGet
  <2>2. CASE SendPush(t)
    <3>1. CallTypes'
      BY <2>2 DEF SendPush, Return, Goto
    <3>2. (Positions /\ OwnClient)'
      BY <2>2 DEF SendPush, Return, Goto
    <3> QED
      BY <3>1, <3>2
  <2>3. CASE BroadcastLock(t)
    <3>1. CallTypes'
      BY <2>3 DEF BroadcastLock, Goto
    <3>2. (Positions /\ OwnClient)'
      BY <2>3 DEF BroadcastLock, Goto
    <3> QED
      BY <3>1, <3>2
  <2>4. CASE BroadcastSend(t)
    <3>1. CallTypes'
      <4>1. PICK i \in batch[t] : SendOne(t, g_id_to_socket[i]) /\ batch' = [batch EXCEPT ![t] = @ \ {i}]
        BY <2>4 DEF BroadcastSend
      <4>2. i \in Ids /\ pc[t] = "bc_loop"
        BY <2>4 DEF BroadcastSend, CallTypes
      <4>3. g_id_to_socket[i] \in Conns
        BY <4>2 DEF BroadcastInv, MapTypes
      <4>4. marked' \in [Threads -> SUBSET Conns]
        BY <4>1, <4>3 DEF SendOne, CallTypes
      <4>5. result' \in [Threads -> BOOLEAN]
        BY <4>1 DEF SendOne, CallTypes
      <4> QED
        BY <2>4, <4>1, <4>4, <4>5 DEF BroadcastSend
    <3>2. (Positions /\ OwnClient)'
      BY <2>4 DEF BroadcastSend, SendOne
    <3> QED
      BY <3>1, <3>2
  <2>5. CASE BroadcastEnd(t)
    <3>1. CallTypes'
      BY <2>5 DEF BroadcastEnd, Unlock, Return, Goto
    <3>2. (Positions /\ OwnClient)'
      BY <2>5 DEF BroadcastEnd, Unlock, Return, Goto
    <3> QED
      BY <3>1, <3>2
  <2>6. CASE SendCloseGet(t)
    BY <2>6, GetWebsocketStep DEF SendCloseGet
  <2>7. CASE SendCloseCheck(t)
    <3>1. CallTypes'
      <4>1. Return(t) \/ (Goto(t, "sc_set") /\ UNCHANGED <<id, hdl, result, marked>>)
        BY <2>7 DEF SendCloseCheck, CloseCheck
      <4>2. UNCHANGED <<batch, calls>>
        BY <2>7 DEF SendCloseCheck, CloseCheck
      <4> QED
        BY <4>1, <4>2, ReturnTypes, GotoTypes
    <3>2. (Positions /\ OwnClient)'
      BY <2>7 DEF SendCloseCheck, CloseCheck, Goto, Return
    <3> QED
      BY <3>1, <3>2
  <2>8. CASE SendCloseSet(t)
    <3>1. CallTypes'
      BY <2>8 DEF SendCloseSet, CloseSet, Goto
    <3>2. (Positions /\ OwnClient)'
      BY <2>8 DEF SendCloseSet, CloseSet, Goto
    <3> QED
      BY <3>1, <3>2
  <2>9. CASE SendCloseErase(t)
    <3>1. CallTypes'
      BY <2>9 DEF SendCloseErase, Unregister, Return, Goto
    <3>2. (Positions /\ OwnClient)'
      BY <2>9 DEF SendCloseErase, Unregister, Return, Goto
    <3> QED
      BY <3>1, <3>2
  <2>10. CASE StopListening(t)
    <3>1. CallTypes'
      <4>1. Return(t) \/ (Goto(t, "st_begin") /\ UNCHANGED <<id, hdl, result, marked>>)
        BY <2>10 DEF StopListening
      <4>2. UNCHANGED <<batch, calls>>
        BY <2>10 DEF StopListening
      <4> QED
        BY <4>1, <4>2, ReturnTypes, GotoTypes
    <3>2. (Positions /\ OwnClient)'
      BY <2>10 DEF StopListening, Goto, Return
    <3> QED
      BY <3>1, <3>2
  <2>11. CASE StopLoopBegin(t)
    <3>1. CallTypes'
      BY <2>11, NextKeyType DEF StopLoopBegin, Goto
    <3>2. (Positions /\ OwnClient)'
      BY <2>11 DEF StopLoopBegin, Goto
    <3> QED
      BY <3>1, <3>2
  <2>12. CASE StopLoopHead(t)
    <3>1. CallTypes'
      <4>1. id[t] \in Ids => g_id_to_socket[id[t]] \in Conns \cup {None}
        BY DEF MapTypes
      <4>2. hdl' \in [Threads -> Conns \cup {None}]
        BY <2>12, <4>1 DEF StopLoopHead
      <4> QED
        BY <2>12, <4>2 DEF StopLoopHead, Goto
    <3>2. (Positions /\ OwnClient)'
      BY <2>12 DEF StopLoopHead, Goto
    <3> QED
      BY <3>1, <3>2
  <2>13. CASE StopCheck(t)
    <3>1. CallTypes'
      BY <2>13 DEF StopCheck, CloseCheck, Goto
    <3>2. (Positions /\ OwnClient)'
      BY <2>13 DEF StopCheck, CloseCheck, Goto
    <3> QED
      BY <3>1, <3>2
  <2>14. CASE StopSet(t)
    <3>1. CallTypes'
      BY <2>14 DEF StopSet, CloseSet, Goto
    <3>2. (Positions /\ OwnClient)'
      BY <2>14 DEF StopSet, CloseSet, Goto
    <3> QED
      BY <3>1, <3>2
  <2>15. CASE StopLoopNext(t)
    <3>1. CallTypes'
      BY <2>15, NextKeyType DEF StopLoopNext, Goto
    <3>2. (Positions /\ OwnClient)'
      BY <2>15 DEF StopLoopNext, Goto
    <3> QED
      BY <3>1, <3>2
  <2>16. CASE StopDangling(t)
    <3>1. CallTypes'
      <4>1. \A k \in KeysAfter(id[t]) \cup {0} : k \in Ids \cup {0}
        BY DEF KeysAfter
      <4>2. id' \in [Threads -> Ids \cup {0}]
        BY <2>16, <4>1 DEF StopDangling
      <4>3. pc' \in [Threads -> Labels]
        BY <2>16 DEF StopDangling, Goto
      <4> QED
        BY <2>16, <4>2, <4>3 DEF StopDangling
    <3>2. (Positions /\ OwnClient)'
      BY <2>16 DEF StopDangling, Goto
    <3> QED
      BY <3>1, <3>2
  <2>17. CASE StopRace(t)
    <3>1. CallTypes'
      BY <2>17 DEF StopRace
    <3>2. (Positions /\ OwnClient)'
      BY <2>17 DEF StopRace
    <3> QED
      BY <3>1, <3>2
  <2>18. CASE StopClear(t)
    <3>1. CallTypes'
      BY <2>18 DEF StopClear, Goto
    <3>2. (Positions /\ OwnClient)'
      BY <2>18 DEF StopClear, Goto
    <3> QED
      BY <3>1, <3>2
  <2>19. CASE StopEnd(t)
    <3>1. CallTypes'
      BY <2>19 DEF StopEnd, Return, Goto
    <3>2. (Positions /\ OwnClient)'
      BY <2>19 DEF StopEnd, Return, Goto
    <3> QED
      BY <3>1, <3>2
  <2> QED
    BY <1>2, <2>1, <2>2, <2>3, <2>4, <2>5, <2>6, <2>7, <2>8, <2>9, <2>10, <2>11, <2>12,
       <2>13, <2>14, <2>15, <2>16, <2>17, <2>18, <2>19 DEF CallStep
<1>3. CASE AcceptAborted
  BY <1>3 DEF AcceptAborted, NetIdle
<1>4. ASSUME NEW c \in Conns,
             Accept(c) \/ ValidateRefuse(c) \/ ValidateBegin(c) \/ Opened(c) \/
             Failed(c) \/ PeerClose(c) \/ Terminate(c) \/ Message(c)
      PROVE (CallTypes /\ Positions /\ OwnClient)'
  <2>1. CASE Accept(c)
    BY <2>1 DEF Accept, NetIdle
  <2>2. CASE ValidateRefuse(c)
    BY <2>2 DEF ValidateRefuse, NetIdle
  <2>3. CASE ValidateBegin(c)
    BY <2>3 DEF ValidateBegin, Handle, NetIdle
  <2>4. CASE Opened(c)
    BY <2>4 DEF Opened, NetIdle
  <2>5. CASE Failed(c)
    BY <2>5 DEF Failed, NetIdle
  <2>6. CASE PeerClose(c)
    BY <2>6 DEF PeerClose, NetIdle
  <2>7. CASE Terminate(c)
    BY <2>7 DEF Terminate, Handle, NetIdle
  <2>8. CASE Message(c)
    BY <2>8 DEF Message, Handle, NetIdle
  <2> QED
    BY <1>4, <2>1, <2>2, <2>3, <2>4, <2>5, <2>6, <2>7, <2>8
<1>5. CASE HandlerStep
  <2>1. CASE ValidateInsert
    BY <2>1 DEF ValidateInsert, Register, HandlerDone
  <2>2. CASE CloseGetId
    BY <2>2 DEF CloseGetId, GetId, HandlerDone
  <2>3. CASE CloseErase
    BY <2>3 DEF CloseErase, Unregister, HandlerDone
  <2>4. CASE MessageGetId
    BY <2>4 DEF MessageGetId, GetId, HandlerDone
  <2>5. CASE MessageDone
    BY <2>5 DEF MessageDone, HandlerDone
  <2> QED
    BY <1>5, <2>1, <2>2, <2>3, <2>4, <2>5 DEF HandlerStep
<1> QED
  BY <1>1, <1>2, <1>3, <1>4, <1>5 DEF Next, NetEvent

\* The variables of the network thread keep their types.
LEMMA NetStep ==
    ASSUME IInv, Next PROVE NetTypes'
<1> USE ConstantsAssumption DEF ConstantsAssumption, IInv, TypeOK, MapTypes, NetTypes,
      Positions, NetLabels, netVars
<1>1. ASSUME NEW t \in Threads, BeginCall(t) PROVE NetTypes'
  BY <1>1 DEF BeginCall, SendBegin, BroadcastBegin, SendCloseBegin, StopBegin, Begin, Goto
<1>2. ASSUME NEW t \in Threads, CallStep(t) PROVE NetTypes'
  <2>1. CASE SendGet(t) \/ SendPush(t) \/ BroadcastLock(t) \/ BroadcastSend(t) \/
        BroadcastEnd(t) \/ SendCloseGet(t) \/ SendCloseCheck(t) \/ SendCloseSet(t) \/
        SendCloseErase(t) \/ StopListening(t) \/ StopLoopBegin(t) \/ StopLoopHead(t) \/
        StopCheck(t) \/ StopSet(t) \/ StopLoopNext(t) \/ StopDangling(t) \/ StopRace(t) \/
        StopClear(t) \/ StopEnd(t)
    BY <2>1 DEF SendGet, SendPush, BroadcastLock, BroadcastSend, BroadcastEnd,
       SendCloseGet, SendCloseCheck, SendCloseSet, SendCloseErase, StopListening,
       StopLoopBegin, StopLoopHead, StopCheck, StopSet, StopLoopNext, StopDangling,
       StopRace, StopClear, StopEnd, CloseCheck, CloseSet, Find, GetWebsocket, Goto,
       Return, SendOne, Unlock, Unregister
  <2> QED
    BY <1>2, <2>1 DEF CallStep
<1>3. CASE AcceptAborted
  BY <1>3 DEF AcceptAborted, NetIdle
<1>4. ASSUME NEW c \in Conns,
             Accept(c) \/ ValidateRefuse(c) \/ ValidateBegin(c) \/ Opened(c) \/
             Failed(c) \/ PeerClose(c) \/ Terminate(c) \/ Message(c)
      PROVE NetTypes'
  BY <1>4 DEF Accept, ValidateRefuse, ValidateBegin, Opened, Failed, PeerClose, Terminate,
     Message, Handle, NetIdle
<1>5. CASE HandlerStep
  <2>1. CASE ValidateInsert \/ CloseGetId \/ CloseErase \/ MessageGetId \/ MessageDone
    BY <2>1 DEF ValidateInsert, CloseGetId, CloseErase, MessageGetId, MessageDone, GetId,
       HandlerDone, Register, Unregister
  <2> QED
    BY <1>5, <2>1 DEF HandlerStep
<1> QED
  BY <1>1, <1>2, <1>3, <1>4, <1>5 DEF Next, NetEvent

\* While broadcastData holds the mutex the map does not change under its loop.
LEMMA BroadcastStep ==
    ASSUME IInv, Next PROVE BroadcastInv'
<1> USE ConstantsAssumption DEF ConstantsAssumption, IInv, TypeOK, MapTypes, CallTypes,
      Positions, NetTypes, BroadcastInv, Threads, Labels, mapVars, callVars, HasHdl,
      LookedUp
<1>1. ASSUME NEW t \in Threads, BeginCall(t) PROVE BroadcastInv'
  <2>1. PICK l \in Labels \ {"bc_loop"}, i \in Ids \cup {0} : Begin(t, l, i)
    BY <1>1 DEF BeginCall, SendBegin, BroadcastBegin, SendCloseBegin, StopBegin
  <2> QED
    BY <2>1 DEF Begin, Goto
<1>2. ASSUME NEW t \in Threads, CallStep(t) PROVE BroadcastInv'
  <2>1. CASE SendGet(t)
    BY <2>1 DEF SendGet, GetWebsocket, Find, Goto, Return
  <2>2. CASE SendPush(t)
    BY <2>2 DEF SendPush, Return, Goto
  <2>3. CASE BroadcastLock(t)
    BY <2>3 DEF BroadcastLock, Goto
  <2>4. CASE BroadcastSend(t)
    BY <2>4 DEF BroadcastSend, SendOne
  <2>5. CASE BroadcastEnd(t)
    BY <2>5 DEF BroadcastEnd, Unlock, Return, Goto
  <2>6. CASE SendCloseGet(t)
    BY <2>6 DEF SendCloseGet, GetWebsocket, Find, Goto, Return
  <2>7. CASE SendCloseCheck(t)
    BY <2>7 DEF SendCloseCheck, CloseCheck, Goto, Return
  <2>8. CASE SendCloseSet(t)
    BY <2>8 DEF SendCloseSet, CloseSet, Goto
  <2>9. CASE SendCloseErase(t)
    BY <2>9 DEF SendCloseErase, Unregister, Return, Goto
  <2>10. CASE StopListening(t)
    BY <2>10 DEF StopListening, Goto, Return
  <2>11. CASE StopLoopBegin(t)
    BY <2>11 DEF StopLoopBegin, Goto
  <2>12. CASE StopLoopHead(t)
    BY <2>12 DEF StopLoopHead, Goto
  <2>13. CASE StopCheck(t)
    BY <2>13 DEF StopCheck, CloseCheck, Goto
  <2>14. CASE StopSet(t)
    BY <2>14 DEF StopSet, CloseSet, Goto
  <2>15. CASE StopLoopNext(t)
    BY <2>15 DEF StopLoopNext, Goto
  <2>16. CASE StopDangling(t)
    BY <2>16 DEF StopDangling, Goto
  <2>17. CASE StopRace(t)
    BY <2>17 DEF StopRace
  <2>18. CASE StopClear(t)
    BY <2>18 DEF StopClear, Goto
  <2>19. CASE StopEnd(t)
    BY <2>19 DEF StopEnd, Return, Goto
  <2> QED
    BY <1>2, <2>1, <2>2, <2>3, <2>4, <2>5, <2>6, <2>7, <2>8, <2>9, <2>10, <2>11, <2>12,
       <2>13, <2>14, <2>15, <2>16, <2>17, <2>18, <2>19 DEF CallStep
<1>3. CASE AcceptAborted
  BY <1>3 DEF AcceptAborted, NetIdle
<1>4. ASSUME NEW c \in Conns,
             Accept(c) \/ ValidateRefuse(c) \/ ValidateBegin(c) \/ Opened(c) \/
             Failed(c) \/ PeerClose(c) \/ Terminate(c) \/ Message(c)
      PROVE BroadcastInv'
  BY <1>4 DEF Accept, ValidateRefuse, ValidateBegin, Opened, Failed, PeerClose, Terminate,
     Message, Handle, NetIdle
<1>5. CASE HandlerStep
  <2>1. CASE ValidateInsert
    BY <2>1 DEF ValidateInsert, Register, HandlerDone
  <2>2. CASE CloseGetId
    BY <2>2 DEF CloseGetId, GetId, HandlerDone
  <2>3. CASE CloseErase
    BY <2>3 DEF CloseErase, Unregister, HandlerDone
  <2>4. CASE MessageGetId
    BY <2>4 DEF MessageGetId, GetId, HandlerDone
  <2>5. CASE MessageDone
    BY <2>5 DEF MessageDone, HandlerDone
  <2> QED
    BY <1>5, <2>1, <2>2, <2>3, <2>4, <2>5 DEF HandlerStep
<1> QED
  BY <1>1, <1>2, <1>3, <1>4, <1>5 DEF Next, NetEvent

\* IInv is inductive.
LEMMA NextIInv == ASSUME IInv, [Next]_vars PROVE IInv'
<1>1. CASE Next
  BY <1>1, MapStep, SessionStep, CallsStep, NetStep, BroadcastStep DEF IInv, TypeOK
<1>2. CASE UNCHANGED vars
  BY <1>2 DEF vars, mapVars, connVars, srvVars, callVars, netVars, IInv, TypeOK, MapTypes,
     ServerTypes, CallTypes, NetTypes, Positions, Own, ForwardHasBackward, OwnClient,
     SessionInv, BroadcastInv
<1> QED
  BY <1>1, <1>2

\* IInv holds throughout.
THEOREM Invariance == Spec => []IInv
  BY InitIInv, NextIInv, PTL DEF Spec

\* Every call and every handler uses only ids and handles it obtained.
THEOREM TypeCorrect == Spec => []TypeOK
<1>1. IInv => TypeOK
  BY DEF IInv
<1> QED
  BY <1>1, Invariance, PTL

\* The connection an id leads to is filed under that id, so its on_close finds
\* the entry it has to erase.
THEOREM ForwardCorrect == Spec => []ForwardHasBackward
<1>1. IInv => ForwardHasBackward
  BY DEF IInv
<1> QED
  BY <1>1, Invariance, PTL

\* What is sent to an id, and what is closed by an id, belongs to that id.
THEOREM OwnClientCorrect == Spec => []OwnClient
<1>1. IInv => OwnClient
  BY DEF IInv
<1> QED
  BY <1>1, Invariance, PTL

----------------------------------------------------------------------------
(* Action properties.                                                      *)

\* What any step but on_validate, on_close, sendClose's erase and stop's clear
\* leaves as it is.
LEMMA MapFrame ==
    ASSUME IInv, Next, ~ValidateInsert, ~CloseErase,
           \A t \in Threads : ~SendCloseErase(t) /\ ~StopClear(t)
    PROVE  UNCHANGED <<g_id_to_socket, g_socket_to_id>>
<1> USE DEF mapVars
<1>1. ASSUME NEW t \in Threads, BeginCall(t) PROVE UNCHANGED <<g_id_to_socket, g_socket_to_id>>
  BY <1>1 DEF BeginCall, SendBegin, BroadcastBegin, SendCloseBegin, StopBegin, Begin
<1>2. ASSUME NEW t \in Threads, CallStep(t) PROVE UNCHANGED <<g_id_to_socket, g_socket_to_id>>
  BY <1>2 DEF CallStep, SendGet, SendPush, BroadcastLock, BroadcastSend,
     BroadcastEnd, SendCloseGet, SendCloseCheck, SendCloseSet, StopListening,
     StopLoopBegin, StopLoopHead, StopCheck, StopSet, StopLoopNext, StopDangling,
     StopRace, StopEnd, GetWebsocket, CloseCheck, CloseSet
<1>3. CASE NetEvent
  BY <1>3 DEF NetEvent, AcceptAborted, Accept, ValidateRefuse, ValidateBegin, Opened,
     Failed, PeerClose, Terminate, Message
<1>4. CASE HandlerStep
  BY <1>4 DEF HandlerStep, CloseGetId, MessageGetId, MessageDone, GetId
<1> QED
  BY <1>1, <1>2, <1>3, <1>4 DEF Next

\* on_validate alone adds to the maps.
LEMMA OnlyValidateAdds ==
    ASSUME IInv, Next, ~ValidateInsert
    PROVE  /\ \A i \in Ids : g_id_to_socket'[i] \in {g_id_to_socket[i], None}
           /\ \A c \in Conns : g_socket_to_id'[c] \in {g_socket_to_id[c], 0}
<1>1. CASE \E t \in Threads : SendCloseErase(t) \/ StopClear(t)
  BY <1>1 DEF SendCloseErase, Unregister, StopClear, IInv, TypeOK, MapTypes
<1>2. CASE CloseErase
  BY <1>2 DEF CloseErase, Unregister, IInv, TypeOK, MapTypes
<1>3. CASE ~CloseErase /\ \A t \in Threads : ~SendCloseErase(t) /\ ~StopClear(t)
  BY <1>3, MapFrame
<1> QED
  BY <1>1, <1>2, <1>3

\* One step: the connection on_validate adds is still in its handshake.
LEMMA NeverReRegisteredStep ==
    ASSUME IInv, [Next]_vars, NEW c \in Conns, Ended(c)
    PROVE  /\ c \notin Reachable => c \notin Reachable'
           /\ g_socket_to_id[c] = 0 => g_socket_to_id'[c] = 0
<1> USE ConstantsAssumption DEF ConstantsAssumption
<1>1. CASE ValidateInsert
  <2>1. c # netHdl
    BY <1>1 DEF ValidateInsert, IInv, SessionInv, Ended
  <2>2. /\ g_id_to_socket' = [g_id_to_socket EXCEPT ![IdOf[netHdl]] = IF @ = None THEN netHdl ELSE @]
        /\ g_socket_to_id' = [g_socket_to_id EXCEPT ![netHdl] = IF @ = 0 THEN IdOf[netHdl] ELSE @]
    BY <1>1 DEF ValidateInsert, Register
  <2> QED
    BY <2>1, <2>2 DEF Reachable, IInv, TypeOK, MapTypes
<1>2. CASE Next /\ ~ValidateInsert
  BY <1>2, OnlyValidateAdds DEF Reachable, IInv, TypeOK, MapTypes
<1>3. CASE UNCHANGED vars
  BY <1>3 DEF vars, mapVars, Reachable
<1> QED
  BY <1>1, <1>2, <1>3

\* A connection whose end has begun never comes back into the maps.
THEOREM NeverReRegisteredCorrect == Spec => NeverReRegistered
<1>1. IInv /\ [Next]_vars =>
        [\A c \in Conns :
            Ended(c) /\ (c \notin Reachable \/ g_socket_to_id[c] = 0)
            => /\ c \notin Reachable => c \notin Reachable'
               /\ g_socket_to_id[c] = 0 => g_socket_to_id'[c] = 0]_vars
  BY NeverReRegisteredStep
<1> QED
  BY <1>1, Invariance, PTL DEF Spec, NeverReRegistered

\* A thread leaves the loop of broadcastData by BroadcastEnd only.
LEMMA LoopEnds ==
    ASSUME IInv, [Next]_vars, NEW t \in Threads, pc[t] = "bc_loop", pc'[t] # "bc_loop"
    PROVE  BroadcastEnd(t)
<1> USE DEF IInv, TypeOK, CallTypes, Goto, Return
<1>1. ASSUME NEW u \in Threads, BeginCall(u) PROVE BroadcastEnd(t)
  BY <1>1 DEF BeginCall, SendBegin, BroadcastBegin, SendCloseBegin, StopBegin, Begin
<1>2. ASSUME NEW u \in Threads, u # t, CallStep(u) PROVE BroadcastEnd(t)
  BY <1>2 DEF CallStep, SendGet, SendPush, BroadcastLock, BroadcastSend, BroadcastEnd,
     SendCloseGet, SendCloseCheck, SendCloseSet, SendCloseErase, StopListening,
     StopLoopBegin, StopLoopHead, StopCheck, StopSet, StopLoopNext, StopDangling,
     StopRace, StopClear, StopEnd, GetWebsocket, CloseCheck, CloseSet, callVars
<1>3. CASE CallStep(t)
  BY <1>3 DEF CallStep, SendGet, SendPush, BroadcastLock, BroadcastSend,
     SendCloseGet, SendCloseCheck, SendCloseSet, SendCloseErase, StopListening,
     StopLoopBegin, StopLoopHead, StopCheck, StopSet, StopLoopNext, StopDangling,
     StopRace, StopClear, StopEnd
<1>4. CASE NetEvent \/ HandlerStep \/ UNCHANGED vars
  BY <1>4 DEF NetEvent, AcceptAborted, Accept, ValidateRefuse, ValidateBegin, Opened,
     Failed, PeerClose, Terminate, Message, HandlerStep, ValidateInsert, CloseGetId,
     CloseErase, MessageGetId, MessageDone, GetId, vars, callVars
<1> QED
  BY <1>1, <1>2, <1>3, <1>4 DEF Next

\* broadcastData returns true only if every connection in the map took the frame.
THEOREM BroadcastReachedCorrect == Spec => BroadcastReached
<1>1. ASSUME IInv, [Next]_vars, NEW t \in Threads,
             pc[t] = "bc_loop", pc'[t] = "idle", result[t]
      PROVE  Reachable \subseteq marked[t]
  <2>1. BroadcastEnd(t)
    BY <1>1, LoopEnds
  <2> QED
    BY <1>1, <2>1, ConstantsAssumption
    DEF BroadcastEnd, IInv, BroadcastInv, Reachable, TypeOK, MapTypes, ConstantsAssumption
<1>2. IInv /\ [Next]_vars =>
        [\A t \in Threads :
            pc[t] = "bc_loop" /\ pc'[t] = "idle" /\ result[t] => Reachable \subseteq marked[t]]_vars
  BY <1>1
<1> QED
  BY <1>2, Invariance, PTL DEF Spec, BroadcastReached

----------------------------------------------------------------------------
(* Who can be reached, whatever ids the clients give.                      *)

\* A client that was accepted is filed from the insert of on_validate on, and
\* who is about to clear the maps has stopped the listener.
Filed ==
    /\ \A c \in Conns : session[c] \in {"accepted", "open"} /\ listening
                        => g_socket_to_id[c] = IdOf[c]
    /\ \A t \in Threads :
          pc[t] \in {"st_begin", "st_loop", "st_check", "st_set", "st_next", "st_clear"}
          => ~listening

DInv == IInv /\ Inverse /\ Filed

\* Initially the maps are empty and no thread stops the server.
LEMMA InitDInv == Init => DInv
<1> SUFFICES ASSUME Init PROVE DInv
  OBVIOUS
<1>1. Inverse /\ Filed
  BY InitIInv, ConstantsAssumption
  DEF ConstantsAssumption, Init, Inverse, Filed, IInv
<1> QED
  BY <1>1, InitIInv DEF DInv

\* The two erases, by sendClose and on_close: the connection is ending, and the
\* entry that goes is the one of its id.
LEMMA ErasesOwn ==
    ASSUME IInv, CloseErase \/ \E t \in Threads : SendCloseErase(t)
    PROVE  \E c \in Conns :
              /\ Ended(c) /\ Erasing(c)
              /\ g_id_to_socket' = [g_id_to_socket EXCEPT ![IdOf[c]] = None]
              /\ g_socket_to_id' = [g_socket_to_id EXCEPT ![c] = 0]
              /\ UNCHANGED <<session, listening>>
<1> USE ConstantsAssumption DEF ConstantsAssumption, IInv, TypeOK, connVars, srvVars
<1>1. CASE CloseErase
  <2>1. netHdl \in Conns /\ netId = IdOf[netHdl] /\ Ended(netHdl) /\ Erasing(netHdl)
    BY <1>1 DEF CloseErase, NetTypes, Positions, Own, SessionInv, Ended, Erasing
  <2> QED
    BY <1>1, <2>1 DEF CloseErase, Unregister
<1>2. ASSUME NEW t \in Threads, SendCloseErase(t)
      PROVE  \E c \in Conns :
                /\ Ended(c) /\ Erasing(c)
                /\ g_id_to_socket' = [g_id_to_socket EXCEPT ![IdOf[c]] = None]
                /\ g_socket_to_id' = [g_socket_to_id EXCEPT ![c] = 0]
                /\ UNCHANGED <<session, listening>>
  <2>1. hdl[t] \in Conns /\ id[t] = IdOf[hdl[t]] /\ Ended(hdl[t]) /\ Erasing(hdl[t])
    BY <1>2 DEF SendCloseErase, CallTypes, Positions, OwnClient, LookedUp, HasHdl,
       SessionInv, Ended, Erasing
  <2> QED
    BY <1>2, <2>1 DEF SendCloseErase, Unregister
<1> QED
  BY <1>1, <1>2

\* The insert of on_validate: of a connection that is in its handshake.
LEMMA InsertsOwn ==
    ASSUME IInv, ValidateInsert
    PROVE  /\ netHdl \in Conns /\ session[netHdl] = "reading"
           /\ g_id_to_socket' = [g_id_to_socket EXCEPT
                 ![IdOf[netHdl]] = IF @ = None THEN netHdl ELSE @]
           /\ g_socket_to_id' = [g_socket_to_id EXCEPT
                 ![netHdl] = IF @ = 0 THEN IdOf[netHdl] ELSE @]
           /\ session' = [session EXCEPT ![netHdl] = "accepted"]
           /\ listening' = listening
  BY DEF ValidateInsert, Register, IInv, TypeOK, NetTypes, Positions, SessionInv, srvVars

\* The listener stays stopped, and a connection becomes accepted in on_validate
\* and nowhere else.
LEMMA SessionFrame ==
    ASSUME IInv, Next
    PROVE  /\ listening' => listening
           /\ \A c \in Conns : session'[c] \in {"accepted", "open"} =>
                 session[c] \in {"accepted", "open"} \/ (ValidateInsert /\ c = netHdl)
<1> USE DEF IInv, TypeOK, ServerTypes, CallTypes, srvVars, connVars
<1>1. ASSUME NEW t \in Threads, BeginCall(t) PROVE UNCHANGED <<session, listening>>
  BY <1>1 DEF BeginCall, SendBegin, BroadcastBegin, SendCloseBegin, StopBegin, Begin
<1>2. ASSUME NEW t \in Threads, CallStep(t)
      PROVE  /\ listening' => listening
             /\ \A c \in Conns : session'[c] \in {session[c], "closing"}
  <2>1. CASE SendCloseSet(t) \/ StopSet(t)
    BY <2>1 DEF SendCloseSet, StopSet, CloseSet
  <2>2. CASE ~SendCloseSet(t) /\ ~StopSet(t)
    <3>1. UNCHANGED session /\ (listening' => listening)
      BY <1>2, <2>2 DEF CallStep, SendGet, SendPush, BroadcastLock, BroadcastSend,
         BroadcastEnd, SendCloseGet, SendCloseCheck, SendCloseErase, StopListening,
         StopLoopBegin, StopLoopHead, StopCheck, StopLoopNext, StopDangling,
         StopRace, StopClear, StopEnd, GetWebsocket, CloseCheck
    <3> QED
      BY <3>1
  <2> QED
    BY <2>1, <2>2
<1>3. CASE NetEvent
  BY <1>3 DEF NetEvent, AcceptAborted, Accept, ValidateRefuse, ValidateBegin, Opened,
     Failed, PeerClose, Terminate, Message
<1>4. CASE HandlerStep
  BY <1>4 DEF HandlerStep, ValidateInsert, CloseGetId, CloseErase, MessageGetId,
     MessageDone, GetId
<1> QED
  BY <1>1, <1>2, <1>3, <1>4 DEF Next

\* An erase takes the entry of a connection that is ending; a clear comes after
\* the listener was stopped.
LEMMA FiledStep == ASSUME DInv, Next PROVE Filed'
<1> USE ConstantsAssumption DEF ConstantsAssumption
<1>1. IInv /\ Filed /\ MapTypes /\ ServerTypes /\ CallTypes /\ Own
  BY DEF DInv, IInv, TypeOK
<1>2. ASSUME NEW c \in Conns, session'[c] \in {"accepted", "open"}, listening'
      PROVE  g_socket_to_id'[c] = IdOf[c]
  <2>1. listening /\ (session[c] \in {"accepted", "open"} \/ (ValidateInsert /\ c = netHdl))
    BY <1>1, <1>2, SessionFrame
  <2>2. CASE ValidateInsert
    BY <1>1, <2>1, <2>2, InsertsOwn DEF MapTypes, Own, Filed
  <2>3. CASE ~ValidateInsert
    <3>1. g_socket_to_id[c] = IdOf[c] /\ session[c] \in {"accepted", "open"}
      BY <1>1, <2>1, <2>3 DEF Filed
    <3>2. CASE CloseErase \/ \E t \in Threads : SendCloseErase(t)
      BY <1>1, <3>1, <3>2, ErasesOwn DEF MapTypes, Ended
    <3>3. ASSUME NEW t \in Threads, StopClear(t) PROVE FALSE
      BY <1>1, <2>1, <3>3 DEF StopClear, Filed
    <3>4. CASE ~CloseErase /\ \A t \in Threads : ~SendCloseErase(t) /\ ~StopClear(t)
      BY <1>1, <2>3, <3>1, <3>4, MapFrame
    <3> QED
      BY <3>2, <3>3, <3>4
  <2> QED
    BY <2>2, <2>3
<1> DEFINE Stopping == {"st_begin", "st_loop", "st_check", "st_set", "st_next", "st_clear"}
<1>3. ASSUME NEW t \in Threads, pc'[t] \in Stopping PROVE ~listening'
  <2>1. pc[t] \in Stopping \/ StopListening(t)
    <3>1. ASSUME NEW u \in Threads, BeginCall(u) PROVE pc[t] \in Stopping
      BY <1>1, <1>3, <3>1 DEF BeginCall, SendBegin, BroadcastBegin, SendCloseBegin,
         StopBegin, Begin, Goto, CallTypes
    <3>2. ASSUME NEW u \in Threads, u # t, CallStep(u) PROVE pc[t] \in Stopping
      BY <1>1, <1>3, <3>2 DEF CallStep, SendGet, SendPush, BroadcastLock, BroadcastSend,
         BroadcastEnd, SendCloseGet, SendCloseCheck, SendCloseSet, SendCloseErase,
         StopListening, StopLoopBegin, StopLoopHead, StopCheck, StopSet, StopLoopNext,
         StopDangling, StopRace, StopClear, StopEnd, GetWebsocket, CloseCheck, CloseSet,
         callVars, Goto, Return, CallTypes
    <3>3. ASSUME CallStep(t), ~StopListening(t) PROVE pc[t] \in Stopping
      BY <1>1, <1>3, <3>3 DEF CallStep, SendGet, SendPush, BroadcastLock, BroadcastSend,
         BroadcastEnd, SendCloseGet, SendCloseCheck, SendCloseSet, SendCloseErase,
         StopLoopBegin, StopLoopHead, StopCheck, StopSet, StopLoopNext,
         StopDangling, StopRace, StopClear, StopEnd, GetWebsocket, CloseCheck, CloseSet,
         callVars, Goto, Return, CallTypes
    <3>4. CASE NetEvent \/ HandlerStep
      <4>1. UNCHANGED pc
        BY <3>4 DEF NetEvent, AcceptAborted, Accept, ValidateRefuse, ValidateBegin, Opened,
           Failed, PeerClose, Terminate, Message, HandlerStep, ValidateInsert, CloseGetId,
           CloseErase, MessageGetId, MessageDone, GetId, callVars
      <4> QED
        BY <1>3, <4>1
    <3> QED
      BY <3>1, <3>2, <3>3, <3>4 DEF Next
  <2>2. CASE pc[t] \in Stopping
    BY <1>1, <2>2, SessionFrame DEF Filed
  <2>3. CASE StopListening(t)
    BY <2>3 DEF StopListening
  <2> QED
    BY <2>1, <2>2, <2>3
<1> QED
  BY <1>2, <1>3 DEF Filed

\* How a step changes who is ending and whether the server is going down.
LEMMA EndingStep ==
    ASSUME IInv, Next,
           ~ValidateInsert, ~CloseErase, \A t \in Threads : ~SendCloseErase(t) /\ ~StopClear(t)
    PROVE  \/ listening' = listening /\ {c \in Conns : Ended(c)}' = {c \in Conns : Ended(c)}
           \/ listening' = listening
              /\ \E d \in Conns : /\ ~Ended(d)
                                  /\ {c \in Conns : Ended(c)}' = {c \in Conns : Ended(c)} \cup {d}
           \/ listening' = FALSE /\ {c \in Conns : Ended(c)}' = {c \in Conns : Ended(c)}
<1> USE DEF IInv, TypeOK, ServerTypes, connVars, srvVars, Ended
<1> DEFINE Same == UNCHANGED <<session, listening>>
<1> DEFINE Ends(d) == listening' = listening /\ session[d] \notin {"closing", "closed",
      "failed"}
                      /\ \E s \in {"closing", "closed", "failed"} : session' = [session EXCEPT ![d] = s]
<1> DEFINE Moves == listening' = listening
                    /\ \A c \in Conns : Ended(c)' <=> Ended(c)
<1> DEFINE Downs == listening' = FALSE /\ UNCHANGED session
<1>1. ASSUME NEW t \in Threads, BeginCall(t) PROVE Same
  BY <1>1 DEF BeginCall, SendBegin, BroadcastBegin, SendCloseBegin, StopBegin, Begin
<1>2. ASSUME NEW t \in Threads, CallStep(t) PROVE Same \/ Moves \/ Downs \/ \E d \in Conns : Ends(d)
  <2>1. CASE SendCloseSet(t) \/ StopSet(t)
    <3>1. hdl[t] \in Conns /\ session' = [session EXCEPT ![hdl[t]] = "closing"] /\ listening' = listening
      BY <2>1 DEF SendCloseSet, StopSet, CloseSet, CallTypes, Positions, HasHdl, LookedUp
    <3> QED
      BY <3>1
  <2>2. CASE StopListening(t)
    BY <2>2 DEF StopListening
  <2>3. CASE ~SendCloseSet(t) /\ ~StopSet(t) /\ ~StopListening(t)
    BY <1>2, <2>3 DEF CallStep, SendGet, SendPush, BroadcastLock, BroadcastSend,
       BroadcastEnd, SendCloseGet, SendCloseCheck,
       StopLoopBegin, StopLoopHead, StopCheck, StopLoopNext, StopDangling,
       StopRace, StopEnd, GetWebsocket, CloseCheck
  <2> QED
    BY <2>1, <2>2, <2>3
<1>3. AcceptAborted => Same
  BY DEF AcceptAborted
<1>4. ASSUME NEW c \in Conns,
             Accept(c) \/ ValidateRefuse(c) \/ ValidateBegin(c) \/ Opened(c) \/ Message(c)
      PROVE  Same \/ Moves
  BY <1>4 DEF Accept, ValidateRefuse, ValidateBegin, Opened, Message
<1>5. ASSUME NEW c \in Conns, Failed(c) \/ PeerClose(c) \/ Terminate(c)
      PROVE  Moves \/ Ends(c)
  BY <1>5 DEF Failed, PeerClose, Terminate
<1>6. HandlerStep => Same
  BY DEF HandlerStep, CloseGetId, MessageGetId, MessageDone, GetId
<1>7. Same \/ Moves \/ Downs \/ \E d \in Conns : Ends(d)
  <2> HIDE DEF Same, Moves, Downs, Ends
  <2> QED BY <1>1, <1>2, <1>3, <1>4, <1>5, <1>6 DEF Next, NetEvent
<1> QED
  BY <1>7

\* Whose end has begun does not come back to life.
LEMMA EndedStays == ASSUME IInv, [Next]_vars, NEW c \in Conns, Ended(c) PROVE Ended(c)'
<1>1. CASE ValidateInsert
  BY <1>1, InsertsOwn DEF Ended, IInv, TypeOK, ServerTypes
<1>2. CASE CloseErase \/ \E t \in Threads : SendCloseErase(t)
  BY <1>2, ErasesOwn DEF Ended
<1>3. ASSUME NEW t \in Threads, StopClear(t) PROVE Ended(c)'
  BY <1>3 DEF StopClear, connVars, Ended
<1>4. CASE Next /\ ~ValidateInsert /\ ~CloseErase /\ \A t \in Threads : ~SendCloseErase(t) /\ ~StopClear(t)
  BY <1>4, EndingStep
<1>5. CASE UNCHANGED vars
  BY <1>5 DEF vars, connVars, Ended
<1> QED
  BY <1>1, <1>2, <1>3, <1>4, <1>5

\* The maps stay each other's inverse but for namesakes: an insert is skipped only
\* if the id leads to one, and only one that is ending takes the entry of another.
LEMMA InverseStep == ASSUME IInv, Inverse, Next PROVE Inverse'
<1> USE ConstantsAssumption DEF ConstantsAssumption
<1>1. MapTypes /\ Own /\ (\A c \in Conns : IdOf[c] \in Ids) /\ ForwardHasBackward'
  BY NextIInv DEF IInv, TypeOK
<1>2. \A d \in Conns : Ended(d) => Ended(d)'
  BY EndedStays
<1> SUFFICES ASSUME NEW i \in Ids, NEW c \in Conns, g_socket_to_id'[c] = i
             PROVE  \/ g_id_to_socket'[i] = c
                    \/ \E d \in Conns \ {c} :
                          IdOf[d] = i /\ (g_id_to_socket'[i] = d \/ Ended(d)')
  BY <1>1 DEF Inverse
<1>3. \A k \in Ids : g_id_to_socket[k] # None =>
          g_id_to_socket[k] \in Conns /\ IdOf[g_id_to_socket[k]] = k
  BY ForwardOwn
<1>4. g_socket_to_id[c] = i =>
          \/ g_id_to_socket[i] = c
          \/ \E d \in Conns \ {c} : IdOf[d] = i /\ (g_id_to_socket[i] = d \/ Ended(d))
  BY DEF Inverse
<1>5. CASE ValidateInsert
  <2>1. \A k \in Ids : g_id_to_socket[k] # None => g_id_to_socket'[k] = g_id_to_socket[k]
    BY <1>1, <1>5, InsertsOwn DEF MapTypes
  <2>2. CASE g_socket_to_id[c] = i
    BY <1>2, <1>4, <2>1, <2>2
  <2>3. CASE g_socket_to_id[c] # i
    <3>1. c = netHdl /\ i = IdOf[c]
      BY <1>1, <1>5, <2>3, InsertsOwn DEF MapTypes
    <3>2. g_id_to_socket'[i] = IF g_id_to_socket[i] = None THEN c ELSE g_id_to_socket[i]
      BY <1>1, <1>5, <3>1, InsertsOwn DEF MapTypes
    <3> QED
      BY <1>3, <3>2
  <2> QED
    BY <2>2, <2>3
<1>6. CASE CloseErase \/ \E t \in Threads : SendCloseErase(t)
  <2>1. PICK e \in Conns :
           /\ Ended(e)
           /\ g_id_to_socket' = [g_id_to_socket EXCEPT ![IdOf[e]] = None]
           /\ g_socket_to_id' = [g_socket_to_id EXCEPT ![e] = 0]
    BY <1>6, ErasesOwn
  <2>2. c # e /\ g_socket_to_id[c] = i
    BY <1>1, <2>1 DEF MapTypes
  <2>3. CASE IdOf[e] = i
    BY <1>2, <2>1, <2>2, <2>3
  <2>4. CASE IdOf[e] # i
    <3>1. g_id_to_socket'[i] = g_id_to_socket[i]
      BY <1>1, <2>1, <2>4 DEF MapTypes
    <3> QED
      BY <1>2, <1>4, <2>2, <3>1
  <2> QED
    BY <2>3, <2>4
<1>7. ASSUME NEW t \in Threads, StopClear(t) PROVE FALSE
  BY <1>7 DEF StopClear
<1>8. CASE ~ValidateInsert /\ ~CloseErase /\ \A t \in Threads : ~SendCloseErase(t) /\ ~StopClear(t)
  <2>1. UNCHANGED <<g_id_to_socket, g_socket_to_id>>
    BY <1>8, MapFrame
  <2> QED
    BY <1>2, <1>4, <2>1
<1> QED
  BY <1>5, <1>6, <1>7, <1>8

\* DInv is inductive.
LEMMA NextDInv == ASSUME DInv, [Next]_vars PROVE DInv'
<1>1. IInv'
  BY NextIInv DEF DInv
<1>2. CASE Next
  BY <1>1, <1>2, InverseStep, FiledStep DEF DInv
<1>3. CASE UNCHANGED vars
  BY <1>1, <1>3 DEF DInv, IInv, Inverse, Filed, Ended, vars, mapVars, connVars, srvVars,
     callVars
<1> QED
  BY <1>2, <1>3

\* DInv holds throughout.
LEMMA DInvariance == Spec => []DInv
<1>1. DInv /\ [Next]_vars => DInv'
  BY NextDInv
<1> QED
  BY <1>1, InitDInv, PTL DEF Spec

\* The maps are each other's inverse, but for what clients with the same id do to
\* each other.
THEOREM InverseCorrect == Spec => []Inverse
<1>1. DInv => Inverse
  BY DEF DInv
<1> QED
  BY <1>1, DInvariance, PTL

\* Whoever is open can be reached until the server begins to stop, but for what
\* clients with the same id do to each other.
THEOREM OpenReachableCorrect == Spec => []OpenReachable
<1>1. DInv => OpenReachable
  BY ConstantsAssumption DEF ConstantsAssumption, DInv, Inverse, Filed, OpenReachable
<1> QED
  BY <1>1, DInvariance, PTL

----------------------------------------------------------------------------
(* The server implements Registry, whatever ids the clients give.          *)

\* Nobody comes to erase the entries of a connection that has ended but whom it
\* was still filed for.
LEMMA ErasingStep ==
    ASSUME IInv, [Next]_vars, NEW c \in Conns, Erasing(c)'
    PROVE  Erasing(c) \/ session[c] = "open" \/ g_socket_to_id[c] # 0
<1> USE DEF IInv, TypeOK, CallTypes
<1>1. ASSUME NEW t \in Threads, pc'[t] \in {"sc_set", "sc_erase"}, hdl'[t] = c
      PROVE  Erasing(c) \/ session[c] = "open"
  <2>1. ASSUME NEW u \in Threads, BeginCall(u)
        PROVE  pc[t] \in {"sc_set", "sc_erase"} /\ hdl[t] = c
    BY <1>1, <2>1 DEF BeginCall, SendBegin, BroadcastBegin, SendCloseBegin, StopBegin,
       Begin, Goto
  <2>2. ASSUME NEW u \in Threads, u # t, CallStep(u)
        PROVE  pc[t] \in {"sc_set", "sc_erase"} /\ hdl[t] = c
    BY <1>1, <2>2 DEF CallStep, SendGet, SendPush, BroadcastLock, BroadcastSend,
       BroadcastEnd, SendCloseGet, SendCloseCheck, SendCloseSet, SendCloseErase,
       StopListening, StopLoopBegin, StopLoopHead, StopCheck, StopSet, StopLoopNext,
       StopDangling, StopRace, StopClear, StopEnd, GetWebsocket, CloseCheck, CloseSet,
       callVars, Goto, Return
  <2>3. CASE SendCloseCheck(t)
    BY <1>1, <2>3 DEF SendCloseCheck, CloseCheck, Goto, Return
  <2>4. CASE SendCloseSet(t)
    BY <1>1, <2>4 DEF SendCloseSet, CloseSet, Erasing
  <2>5. ASSUME CallStep(t), ~SendCloseCheck(t), ~SendCloseSet(t)
        PROVE  FALSE
    BY <1>1, <2>5 DEF CallStep, SendGet, SendPush, BroadcastLock, BroadcastSend,
       BroadcastEnd, SendCloseGet, SendCloseErase,
       StopListening, StopLoopBegin, StopLoopHead, StopCheck, StopSet, StopLoopNext,
       StopDangling, StopRace, StopClear, StopEnd, GetWebsocket, CloseCheck, CloseSet,
       callVars, Goto, Return
  <2>6. CASE NetEvent \/ HandlerStep \/ UNCHANGED vars
    <3>1. UNCHANGED <<pc, hdl>>
      BY <2>6 DEF NetEvent, AcceptAborted, Accept, ValidateRefuse, ValidateBegin, Opened,
         Failed, PeerClose, Terminate, Message, HandlerStep, ValidateInsert, CloseGetId,
         CloseErase, MessageGetId, MessageDone, GetId, callVars, vars
    <3> QED
      BY <1>1, <3>1 DEF Erasing
  <2> QED
    BY <2>1, <2>2, <2>3, <2>4, <2>5, <2>6 DEF Next, Erasing
<1>2. ASSUME netPc' = "close_erase", netHdl' = c
      PROVE  Erasing(c) \/ g_socket_to_id[c] # 0
  <2>1. CASE CloseGetId
    BY <1>2, <2>1 DEF CloseGetId, GetId, HandlerDone
  <2>2. CASE NetEvent
    BY <1>2, <2>2 DEF NetEvent, AcceptAborted, Accept, ValidateRefuse, ValidateBegin,
       Opened, Failed, PeerClose, Terminate, Message, Handle, netVars, Erasing
  <2>3. CASE HandlerStep /\ ~CloseGetId
    BY <1>2, <2>3 DEF HandlerStep, ValidateInsert, CloseErase, MessageGetId, MessageDone,
       GetId, HandlerDone, netVars, Erasing
  <2>4. ASSUME NEW t \in Threads, BeginCall(t) \/ CallStep(t) PROVE UNCHANGED <<netPc, netHdl>>
    BY <2>4 DEF BeginCall, SendBegin, BroadcastBegin, SendCloseBegin, StopBegin, Begin,
       CallStep, SendGet, SendPush, BroadcastLock, BroadcastSend,
       BroadcastEnd, SendCloseGet, SendCloseCheck, SendCloseSet, SendCloseErase,
       StopListening, StopLoopBegin, StopLoopHead, StopCheck, StopSet, StopLoopNext,
       StopDangling, StopRace, StopClear, StopEnd, GetWebsocket, CloseCheck, CloseSet,
       netVars
  <2>5. CASE UNCHANGED vars
    BY <1>2, <2>5 DEF vars, netVars, Erasing
  <2> QED
    BY <1>2, <2>1, <2>2, <2>3, <2>4, <2>5 DEF Next, Erasing
<1> QED
  BY <1>1, <1>2 DEF Erasing

\* So a connection is forgotten for good.
LEMMA ForgottenStays ==
    ASSUME IInv, [Next]_vars
    PROVE  {c \in Conns : Forgotten(c)} \subseteq {c \in Conns : Forgotten(c)}'
<1> SUFFICES ASSUME NEW c \in Conns, Forgotten(c) PROVE Forgotten(c)'
  OBVIOUS
<1>1. Ended(c) /\ g_socket_to_id[c] = 0 /\ ~Erasing(c)
  BY DEF Forgotten
<1>2. Ended(c)' /\ g_socket_to_id'[c] = 0
  BY <1>1, EndedStays, NeverReRegisteredStep
<1>3. ~Erasing(c)'
  BY <1>1, ErasingStep DEF Ended
<1> QED
  BY <1>2, <1>3 DEF Forgotten

\* Every step is a step of Registry or leaves its variables alone.
LEMMA RegistryStep == ASSUME DInv, [Next]_vars PROVE [R!Next]_(R!vars)
<1> USE ConstantsAssumption DEF ConstantsAssumption
<1> DEFINE E == {c \in Conns : Ended(c)}
           F == {c \in Conns : Forgotten(c)}
<1>1. IInv /\ MapTypes /\ ServerTypes
  BY DEF DInv, IInv, TypeOK
<1>2. R!Forget
  <2>1. F' \subseteq E'
    BY DEF Forgotten
  <2> QED
    BY <1>1, <2>1, ForgottenStays DEF R!Forget
<1>3. CASE ValidateInsert
  <2>1. netHdl \in Conns /\ netHdl \notin E /\ E' = E /\ listening' = listening
    BY <1>1, <1>3, InsertsOwn DEF Ended, ServerTypes
  <2>2. CASE g_id_to_socket[IdOf[netHdl]] = None
    <3>1. Reachable' = Reachable \cup {netHdl}
      <4>1. IdOf[netHdl] \in Ids
        BY <2>1
      <4>2. \A i \in Ids : g_id_to_socket'[i] =
                IF i = IdOf[netHdl] THEN netHdl ELSE g_id_to_socket[i]
        BY <1>1, <1>3, <2>2, <4>1, InsertsOwn DEF MapTypes
      <4>3. netHdl # None
        BY <2>1
      <4> QED
        BY <2>1, <2>2, <4>1, <4>2, <4>3 DEF Reachable
    <3>2. \A d \in Reachable : IdOf[d] # IdOf[netHdl]
      BY <1>1, <2>2, ForwardOwn DEF Reachable
    <3> QED
      BY <1>2, <2>1, <3>1, <3>2 DEF R!Next, R!Join, R!vars
  <2>3. CASE g_id_to_socket[IdOf[netHdl]] # None
    <3>1. Reachable' = Reachable
      BY <1>1, <1>3, <2>3, InsertsOwn DEF Reachable, MapTypes
    <3> QED
      BY <1>2, <2>1, <3>1 DEF R!Next, R!vars
  <2> QED
    BY <2>2, <2>3
<1>4. CASE CloseErase \/ \E t \in Threads : SendCloseErase(t)
  <2>1. PICK e \in Conns :
           /\ Ended(e) /\ Erasing(e)
           /\ g_id_to_socket' = [g_id_to_socket EXCEPT ![IdOf[e]] = None]
           /\ UNCHANGED <<session, listening>>
    BY <1>1, <1>4, ErasesOwn
  <2>2. E' = E /\ e \in E \ F
    BY <2>1 DEF Ended, Forgotten
  <2>3. CASE g_id_to_socket[IdOf[e]] = None
    <3>1. Reachable' = Reachable
      BY <1>1, <2>1, <2>3 DEF Reachable, MapTypes
    <3> QED
      BY <1>2, <2>1, <2>2, <3>1 DEF R!Next, R!vars
  <2>4. CASE g_id_to_socket[IdOf[e]] # None
    <3> DEFINE c == g_id_to_socket[IdOf[e]]
    <3>1. c \in Reachable /\ IdOf[c] = IdOf[e] /\ c \in Conns
      BY <1>1, <2>4, ForwardOwn DEF Reachable
    <3>2. Reachable' = Reachable \ {c}
      <4>1. \A i \in Ids : g_id_to_socket[i] = c => i = IdOf[e]
        BY <1>1, <2>4, <3>1, ForwardOwn
      <4> QED
        BY <1>1, <2>1, <2>4, <4>1 DEF Reachable, MapTypes
    <3> QED
      BY <1>2, <2>1, <2>2, <3>1, <3>2 DEF R!Next, R!Leave, R!vars
  <2> QED
    BY <2>3, <2>4
<1>5. ASSUME NEW t \in Threads, StopClear(t) PROVE [R!Next]_(R!vars)
  <2>1. ~listening /\ listening' = listening /\ E' = E
    BY <1>5 DEF StopClear, DInv, Filed, Ended, connVars, srvVars
  <2>2. Reachable' = {}
    BY <1>5 DEF StopClear, Reachable
  <2> QED
    BY <1>2, <2>1, <2>2 DEF R!Next, R!Clear, R!vars
<1>6. CASE Next /\ ~ValidateInsert /\ ~CloseErase /\ \A t \in Threads : ~SendCloseErase(t) /\ ~StopClear(t)
  <2>1. Reachable' = Reachable
    BY <1>1, <1>6, MapFrame DEF Reachable
  <2>2. listening \in BOOLEAN
    BY <1>1 DEF ServerTypes
  <2>3. \/ listening' = listening /\ E' = E
        \/ listening' = listening /\ \E d \in Conns : d \notin E /\ E' = E \cup {d}
        \/ listening' = FALSE /\ E' = E
    BY <1>1, <1>6, EndingStep
  <2> HIDE DEF E
  <2>4. CASE listening' = listening /\ E' = E
    BY <1>2, <2>1, <2>4 DEF R!Next, R!vars, E
  <2>5. CASE listening' = listening /\ \E d \in Conns : d \notin E /\ E' = E \cup {d}
    BY <1>2, <2>1, <2>5 DEF R!vars, R!Next, R!End, E
  <2>6. CASE listening' = FALSE /\ E' = E
    BY <1>2, <2>1, <2>2, <2>6 DEF R!vars, R!Next, R!ShutDown, E
  <2> QED
    BY <2>3, <2>4, <2>5, <2>6
<1>7. CASE UNCHANGED vars
  <2>1. UNCHANGED <<Reachable, E, F, listening>>
    BY <1>7 DEF vars, mapVars, connVars, srvVars, callVars, netVars, Reachable, Ended,
       Forgotten, Erasing
  <2> QED
    BY <2>1 DEF R!vars
<1> QED
  BY <1>3, <1>4, <1>5, <1>6, <1>7

\* The server implements Registry: whoever was accepted stays reachable until its
\* connection is ending, that of a client with the same id is, or the server stops.
THEOREM RegistryCorrect == Spec => RegistrySpec
<1>1. Init => R!Init
  BY ConstantsAssumption
  DEF ConstantsAssumption, Init, R!Init, Reachable, Ended, Forgotten
<1>2. DInv /\ [Next]_vars => [R!Next]_(R!vars)
  BY RegistryStep
<1> QED
  BY <1>1, <1>2, DInvariance, PTL DEF Spec, RegistrySpec, R!Spec

----------------------------------------------------------------------------
(* Each connection of WebsocketServer lives the life of a Session: the link *)
(* between the server's model and that of one websocketpp connection.       *)

\* A thread between the test and the write of close() holds the state lock of
\* the connection, so no other thread is between its test and write.
Holding ==
    \A t \in Threads : pc[t] \in {"sc_set", "st_set"} => stateLock[hdl[t]] = t

\* The inductive invariant of this section.
LInv == IInv /\ Holding

\* A step of a call: it leaves sessions and state locks alone, or is one half
\* of close() on the handle the call holds.
LEMMA CallSession ==
    ASSUME IInv, NEW t \in Threads, CallStep(t)
    PROVE  \/ UNCHANGED <<session, stateLock>> /\ pc'[t] \notin {"sc_set", "st_set"}
           \/ /\ hdl[t] \in Conns /\ stateLock[hdl[t]] = None /\ session[hdl[t]] = "open"
              /\ stateLock' = [stateLock EXCEPT ![hdl[t]] = t]
              /\ UNCHANGED <<session, hdl>>
           \/ UNCHANGED <<session, pc, hdl, stateLock>>
           \/ /\ pc[t] \in {"sc_set", "st_set"} /\ hdl[t] \in Conns
              /\ session' = [session EXCEPT ![hdl[t]] = "closing"]
              /\ stateLock' = [stateLock EXCEPT ![hdl[t]] = None]
              /\ pc'[t] \notin {"sc_set", "st_set"}
              /\ UNCHANGED hdl
<1> USE DEF IInv, TypeOK, CallTypes, Positions, HasHdl, LookedUp, connVars, callVars
<1>1. CASE SendGet(t) \/ SendCloseGet(t)
  BY <1>1 DEF SendGet, SendCloseGet, GetWebsocket, Goto, Return
<1>2. CASE SendPush(t) \/ BroadcastEnd(t) \/ SendCloseErase(t) \/ StopEnd(t)
  BY <1>2 DEF SendPush, BroadcastEnd, SendCloseErase, StopEnd, Goto, Return
<1>3. CASE BroadcastLock(t) \/ StopLoopBegin(t) \/ StopLoopHead(t) \/ StopLoopNext(t)
           \/ StopClear(t)
  BY <1>3 DEF BroadcastLock, StopLoopBegin, StopLoopHead, StopLoopNext, StopClear, Goto
<1>4. CASE BroadcastSend(t) \/ StopRace(t)
  BY <1>4 DEF BroadcastSend, StopRace
<1>5. CASE StopDangling(t)
  BY <1>5 DEF StopDangling, Goto
<1>6. CASE StopListening(t)
  <2>1. UNCHANGED <<session, stateLock>> /\ (Return(t) \/ Goto(t, "st_begin"))
    BY <1>6 DEF StopListening
  <2> QED
    BY <2>1 DEF Return, Goto
<1>7. CASE SendCloseCheck(t)
  BY <1>7 DEF SendCloseCheck, CloseCheck, Goto, Return
<1>8. CASE StopCheck(t)
  BY <1>8 DEF StopCheck, CloseCheck, Goto
<1>9. CASE SendCloseSet(t) \/ StopSet(t)
  BY <1>9 DEF SendCloseSet, StopSet, CloseSet, Goto
<1> QED
  BY <1>1, <1>2, <1>3, <1>4, <1>5, <1>6, <1>7, <1>8, <1>9 DEF CallStep

\* What a call of one thread leaves alone in another.
LEMMA OthersKeep ==
    ASSUME IInv, NEW t \in Threads, BeginCall(t) \/ CallStep(t), NEW u \in Threads, u # t
    PROVE  pc'[u] = pc[u] /\ hdl'[u] = hdl[u]
<1> USE DEF IInv, TypeOK, CallTypes, callVars, Goto, Return
<1>1. CASE BeginCall(t)
  BY <1>1 DEF BeginCall, SendBegin, BroadcastBegin, SendCloseBegin, StopBegin, Begin
<1>2. CASE SendGet(t) \/ SendCloseGet(t) \/ SendPush(t) \/ BroadcastEnd(t)
           \/ SendCloseErase(t) \/ StopEnd(t) \/ BroadcastLock(t) \/ StopLoopBegin(t)
           \/ StopLoopHead(t) \/ StopLoopNext(t) \/ StopClear(t)
  BY <1>2 DEF SendGet, SendCloseGet, GetWebsocket, SendPush, BroadcastEnd, SendCloseErase,
     StopEnd, BroadcastLock, StopLoopBegin, StopLoopHead, StopLoopNext, StopClear
<1>3. CASE BroadcastSend(t) \/ StopRace(t) \/ StopDangling(t)
  BY <1>3 DEF BroadcastSend, StopRace, StopDangling
<1>4. CASE StopListening(t)
  <2>1. Return(t) \/ (Goto(t, "st_begin") /\ UNCHANGED hdl)
    BY <1>4 DEF StopListening
  <2> QED
    BY <2>1
<1>5. CASE SendCloseCheck(t) \/ StopCheck(t)
  BY <1>5 DEF SendCloseCheck, StopCheck, CloseCheck
<1>6. CASE SendCloseSet(t) \/ StopSet(t)
  BY <1>6 DEF SendCloseSet, StopSet, CloseSet
<1> QED
  BY <1>1, <1>2, <1>3, <1>4, <1>5, <1>6 DEF CallStep

\* A handler or an event does not touch calls and state locks.
LEMMA NetKeeps == ASSUME NetEvent \/ HandlerStep PROVE UNCHANGED <<pc, hdl, stateLock>>
<1> USE DEF callVars, connVars
<1>1. CASE NetEvent
  BY <1>1 DEF NetEvent, AcceptAborted, Accept, ValidateRefuse, ValidateBegin, Opened, Failed,
     PeerClose, Terminate, Message
<1>2. CASE HandlerStep
  BY <1>2 DEF HandlerStep, ValidateInsert, CloseGetId, CloseErase, MessageGetId, MessageDone,
     GetId
<1> QED
  BY <1>1, <1>2

\* Holding is inductive: a lock is taken only when it is free, and released
\* only by the thread that holds it.
LEMMA HoldingStep == ASSUME LInv, [Next]_vars PROVE Holding'
<1> USE ConstantsAssumption DEF ConstantsAssumption, LInv, Holding
<1>1. ASSUME NEW t \in Threads, BeginCall(t) PROVE Holding'
  BY <1>1 DEF BeginCall, SendBegin, BroadcastBegin, SendCloseBegin, StopBegin, Begin, Goto,
     connVars, IInv, TypeOK, CallTypes
<1>2. ASSUME NEW t \in Threads, CallStep(t) PROVE Holding'
  <2> SUFFICES ASSUME NEW u \in Threads, pc'[u] \in {"sc_set", "st_set"}
               PROVE  stateLock'[hdl'[u]] = u
    OBVIOUS
  <2>1. u # t => pc'[u] = pc[u] /\ hdl'[u] = hdl[u] /\ stateLock[hdl[u]] = u
    BY <1>2, OthersKeep
  <2>2. /\ u # None /\ stateLock \in [Conns -> Threads \cup {None}]
        /\ hdl \in [Threads -> Conns \cup {None}]
    BY DEF Threads, IInv, TypeOK, ServerTypes, CallTypes
  <2>3. u # t => hdl[u] \in Conns
    BY <2>1 DEF IInv, TypeOK, CallTypes, Positions, HasHdl, LookedUp
  <2>4. CASE UNCHANGED <<session, stateLock>> /\ pc'[t] \notin {"sc_set", "st_set"}
    BY <2>1, <2>4
  <2>5. CASE /\ hdl[t] \in Conns /\ stateLock[hdl[t]] = None /\ session[hdl[t]] = "open"
             /\ stateLock' = [stateLock EXCEPT ![hdl[t]] = t]
             /\ UNCHANGED <<session, hdl>>
    BY <2>1, <2>2, <2>3, <2>5
  <2>6. CASE UNCHANGED <<session, pc, hdl, stateLock>>
    BY <2>6
  <2>7. CASE /\ pc[t] \in {"sc_set", "st_set"} /\ hdl[t] \in Conns
             /\ session' = [session EXCEPT ![hdl[t]] = "closing"]
             /\ stateLock' = [stateLock EXCEPT ![hdl[t]] = None]
             /\ pc'[t] \notin {"sc_set", "st_set"}
             /\ UNCHANGED hdl
    <3>1. stateLock[hdl[t]] = t
      BY <2>7
    <3> QED
      BY <2>1, <2>2, <2>3, <2>7, <3>1
  <2> QED
    BY <1>2, CallSession, <2>4, <2>5, <2>6, <2>7
<1>3. CASE NetEvent \/ HandlerStep
  BY <1>3, NetKeeps
<1>4. CASE UNCHANGED vars
  BY <1>4 DEF vars, connVars, callVars
<1> QED
  BY <1>1, <1>2, <1>3, <1>4 DEF Next

\* Every step is, for each connection, a step of Session or no step.
LEMMA SessionsStep ==
    ASSUME LInv, [Next]_vars, NEW c \in Conns
    PROVE  S(c)!Next \/ UNCHANGED <<session[c], stateLock[c]>>
<1> USE ConstantsAssumption DEF ConstantsAssumption, LInv
<1> DEFINE Goal == S(c)!Next \/ UNCHANGED <<session[c], stateLock[c]>>
<1>0. session \in [Conns -> SessionStates] /\ stateLock \in [Conns -> Threads \cup {None}]
  BY DEF IInv, TypeOK, ServerTypes
<1>1. ASSUME NEW t \in Threads, BeginCall(t) PROVE Goal
  BY <1>1 DEF BeginCall, SendBegin, BroadcastBegin, SendCloseBegin, StopBegin, Begin, connVars
<1>2. ASSUME NEW t \in Threads, CallStep(t) PROVE Goal
  <2>1. CASE UNCHANGED <<session, stateLock>>
    BY <2>1
  <2>2. CASE /\ hdl[t] \in Conns /\ stateLock[hdl[t]] = None /\ session[hdl[t]] = "open"
             /\ stateLock' = [stateLock EXCEPT ![hdl[t]] = t]
             /\ UNCHANGED <<session, hdl>>
    BY <1>0, <2>2 DEF S!Next, S!CloseCheck
  <2>3. CASE /\ pc[t] \in {"sc_set", "st_set"} /\ hdl[t] \in Conns
             /\ session' = [session EXCEPT ![hdl[t]] = "closing"]
             /\ stateLock' = [stateLock EXCEPT ![hdl[t]] = None]
             /\ pc'[t] \notin {"sc_set", "st_set"}
             /\ UNCHANGED hdl
    <3>1. stateLock[hdl[t]] = t
      BY <2>3 DEF Holding
    <3> QED
      BY <1>0, <2>3, <3>1 DEF S!Next, S!CloseSet
  <2> QED
    BY <1>2, CallSession, <2>1, <2>2, <2>3
<1>3. CASE AcceptAborted
  BY <1>3 DEF AcceptAborted, connVars
<1>4. ASSUME NEW d \in Conns,
             Accept(d) \/ ValidateRefuse(d) \/ Opened(d) \/ Failed(d)
             \/ PeerClose(d) \/ Terminate(d)
      PROVE  Goal
  BY <1>0, <1>4 DEF Accept, ValidateRefuse, Opened, Failed, PeerClose, Terminate,
     S!Next, S!Step, S!Accept, S!Respond, S!Open, S!Fail, S!PeerClose, S!Terminate
<1>5. ASSUME NEW d \in Conns, ValidateBegin(d) \/ Message(d) PROVE Goal
  BY <1>5 DEF ValidateBegin, Message, connVars
<1>6. CASE ValidateInsert
  <2>1. session[netHdl] = "reading"
    BY <1>6 DEF ValidateInsert, IInv, SessionInv
  <2> QED
    BY <1>0, <1>6, <2>1 DEF ValidateInsert, S!Next, S!Respond, S!Step
<1>7. CASE CloseGetId \/ CloseErase \/ MessageGetId \/ MessageDone
  BY <1>7 DEF CloseGetId, CloseErase, MessageGetId, MessageDone, GetId, connVars
<1>8. CASE UNCHANGED vars
  BY <1>8 DEF vars, connVars
<1> QED
  BY <1>1, <1>2, <1>3, <1>4, <1>5, <1>6, <1>7, <1>8 DEF Next, NetEvent, HandlerStep

\* Every connection is a Session from its first state on: whatever the calls
\* and the handlers do, they meet states that a websocketpp connection has.
THEOREM SessionsCorrect == Spec => SessionsSpec
<1>1. Init => LInv /\ \A c \in Conns : S(c)!Init
  BY InitIInv DEF Init, LInv, Holding, S!Init
<1>2. LInv /\ [Next]_vars => LInv'
  BY HoldingStep, NextIInv DEF LInv
<1>3. LInv /\ [Next]_vars =>
        [\A c \in Conns : S(c)!Next \/ UNCHANGED <<session[c], stateLock[c]>>]_vars
  BY SessionsStep
<1> QED
  BY <1>1, <1>2, <1>3, PTL DEF Spec, SessionsSpec
=============================================================================
