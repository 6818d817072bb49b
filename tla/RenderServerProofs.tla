------------------------- MODULE RenderServerProofs -------------------------
(***************************************************************************)
(* What holds of RenderServer for any number of server threads and clients *)
(* and, where it is said, for a receiveMessage that does not call start.   *)
(***************************************************************************)
EXTENDS RenderServer, TLAPS

----------------------------------------------------------------------------
(* Types.                                                                  *)

\* The application's thread is no server thread, and no thread is 0.
LEMMA ThreadFacts ==
    /\ App \in Threads /\ App \notin NetThreads
    /\ NetThreads \subseteq Threads
    /\ 0 \notin NetThreads
BY ConstantsAssumption DEF Threads, NetThreads

\* A call waits for, or has created, a thread exactly where its program counter
\* says so.
CallTypes ==
    /\ Types
    /\ \A t \in Threads : target[t] # 0 <=> pc[t] \in {"start_assign", "stop_joining"}

\* The types of the variables hold at the start.
LEMMA TypeInit == Init => CallTypes
<1> SUFFICES ASSUME Init PROVE CallTypes
  OBVIOUS
<1>1. 0 \in 0..MaxClients
  BY ConstantsAssumption
<1>2. Types
  BY <1>1 DEF Init, Types, NetStates, CallLabels
<1>3. \A t \in Threads : pc[t] = "idle" /\ target[t] = 0
  BY DEF Init
<1> QED
  BY <1>2, <1>3 DEF CallTypes

\* A call, on whatever thread, keeps the types.
LEMMA TypeCall ==
    ASSUME CallTypes, NEW t \in Threads, CallBegins(t) \/ CallStep(t)
    PROVE  CallTypes'
<1> USE ThreadFacts DEF CallTypes, Types, NetStates, CallLabels, Goto
<1>1. CASE StartSpawn(t)
  <2>1. PICK n \in NetThreads : /\ net' = [net EXCEPT ![n] = "spawned"]
                                /\ target' = [target EXCEPT ![t] = n]
    BY <1>1 DEF StartSpawn
  <2>2. n # 0
    OBVIOUS
  <2> QED
    BY <1>1, <2>1, <2>2 DEF StartSpawn, objVars, srvVars
<1>2. CASE StartAssign(t)
  BY <1>2 DEF StartAssign, srvVars
<1>3. CASE StopBegin(t)
  BY <1>3 DEF StopBegin, MayCall, objVars, srvVars
<1>4. CASE StopListening(t)
  BY <1>4 DEF StopListening, objVars
<1>5. CASE StopService(t)
  BY <1>5 DEF StopService, objVars
<1>6. CASE StopJoin(t)
  BY <1>6 DEF StopJoin, Joinable, objVars, srvVars
<1>7. CASE StopJoined(t)
  BY <1>7 DEF StopJoined, objVars, srvVars
<1>8. CASE StopDelete(t)
  BY <1>8 DEF StopDelete, srvVars
<1> QED
  BY <1>1, <1>2, <1>3, <1>4, <1>5, <1>6, <1>7, <1>8 DEF CallBegins, CallStep

\* So does a step of a server thread.
LEMMA TypeRun ==
    ASSUME CallTypes, NEW n \in NetThreads, LoopStep(n) \/ Event(n)
    PROVE  CallTypes'
<1> USE ConstantsAssumption DEF CallTypes, Types, NetStates, Enter, MayHandle, objVars, srvVars, callVars
<1>1. CASE LoopStep(n)
  BY <1>1 DEF LoopStep, RunBegin, RunEnd, MessageDone
<1>2. CASE Accept(n)
  BY <1>2 DEF Accept
<1>3. CASE AcceptAborted(n)
  BY <1>3 DEF AcceptAborted
<1>4. CASE ClientGone(n)
  BY <1>4 DEF ClientGone
<1>5. CASE Message(n)
  BY <1>5 DEF Message
<1> QED
  BY <1>1, <1>2, <1>3, <1>4, <1>5 DEF Event

\* And every step keeps them.
LEMMA TypeNext == CallTypes /\ [Next]_vars => CallTypes'
<1> SUFFICES ASSUME CallTypes, [Next]_vars PROVE CallTypes'
  OBVIOUS
<1> USE DEF objVars, srvVars, callVars
<1>1. CASE Construct
  BY <1>1, ConstantsAssumption DEF Construct, CallTypes, Types
<1>2. CASE Destroy
  BY <1>2 DEF Destroy, CallTypes, Types
<1>3. CASE LateProgress
  BY <1>3 DEF LateProgress, CallTypes, Types
<1>4. CASE UNCHANGED vars
  BY <1>4 DEF vars, CallTypes, Types
<1> QED
  BY <1>1, <1>2, <1>3, <1>4, TypeCall, TypeRun DEF Next

\* So they hold always.
LEMMA CallTypesCorrect == Spec => []CallTypes
<1>1. Init => CallTypes
  BY TypeInit
<1>2. CallTypes /\ [Next]_vars => CallTypes'
  BY TypeNext
<1> QED
  BY <1>1, <1>2, PTL DEF Spec

----------------------------------------------------------------------------
(* The server that serves while it listens.                                *)

\* run has work, or it ends. Before init nothing runs, and while the transport listens the accept is
\* outstanding, so that run has work; only a stop that no longer listens is
\* about to stop the io_service.
Serving ==
    /\ \A n \in NetThreads : net[n] \in {"loop", "callback"} => Work \/ stopped
    /\ transport = "UNINITIALIZED" =>
          /\ object = "none" /\ ~stopped
          /\ \A n \in NetThreads : net[n] = "none"
    /\ transport = "LISTENING" =>
          /\ accepting /\ ~stopped
          /\ \A n \in NetThreads : net[n] # "returned"
    /\ \A t \in Threads : pc[t] = "stop_service" => transport = "READY"

\* The steps of a call keep what serving rests on.
LEMMA ServingCall ==
    ASSUME CallTypes, Serving, NEW t \in Threads, CallBegins(t) \/ CallStep(t)
    PROVE  Serving'
<1> USE ThreadFacts DEF CallTypes, Types, Serving, Work, CallLabels, NetStates, Goto, objVars, srvVars
<1>1. CASE StartSpawn(t)
  BY <1>1 DEF StartSpawn, MayCall
<1>2. CASE StartAssign(t)
  BY <1>2 DEF StartAssign
<1>3. CASE StopBegin(t)
  BY <1>3 DEF StopBegin
<1>4. CASE StopListening(t)
  BY <1>4 DEF StopListening
<1>5. CASE StopService(t)
  BY <1>5 DEF StopService
<1>6. CASE StopJoin(t)
  BY <1>6 DEF StopJoin
<1>7. CASE StopJoined(t)
  BY <1>7 DEF StopJoined
<1>8. CASE StopDelete(t)
  BY <1>8 DEF StopDelete
<1> QED
  BY <1>1, <1>2, <1>3, <1>4, <1>5, <1>6, <1>7, <1>8 DEF CallBegins, CallStep

\* So do the steps of a server thread in run, and of the clients.
LEMMA ServingRun ==
    ASSUME CallTypes, Serving, NEW n \in NetThreads, LoopStep(n) \/ Event(n)
    PROVE  Serving'
<1> USE DEF CallTypes, Types, Serving, NetStates, Enter, MayHandle, objVars, srvVars, callVars
<1>1. CASE RunBegin(n)
  BY <1>1 DEF RunBegin, Work
<1>2. CASE RunEnd(n)
  BY <1>2 DEF RunEnd, Work
<1>3. CASE MessageDone(n)
  BY <1>3 DEF MessageDone, Work
<1>4. CASE Accept(n)
  <2>1. Work'
    BY <1>4, ConstantsAssumption DEF Accept, Work
  <2> QED
    BY <1>4, <2>1 DEF Accept
<1>5. CASE AcceptAborted(n)
  <2>1. Work' \/ stopped'
    <3>1. clients \in Nat /\ clients' = clients
      BY <1>5, ConstantsAssumption DEF AcceptAborted
    <3>2. clients = 0 \/ clients > 0
      BY <3>1
    <3>3. clients = 0 => stopped'
      BY <1>5 DEF AcceptAborted
    <3>4. clients > 0 => clients' > 0
      BY <3>1
    <3> QED
      BY <3>2, <3>3, <3>4 DEF Work
  <2> QED
    BY <1>5, <2>1 DEF AcceptAborted
<1>6. CASE ClientGone(n)
  <2>1. Work' \/ stopped'
    <3>1. clients \in Nat /\ clients > 0 /\ clients' = clients - 1
      BY <1>6, ConstantsAssumption DEF ClientGone
    <3>2. clients = 1 \/ clients' > 0
      BY <3>1
    <3>3. clients = 1 /\ ~accepting => stopped'
      BY <1>6 DEF ClientGone
    <3>4. accepting => accepting'
      BY <1>6 DEF ClientGone
    <3> QED
      BY <3>2, <3>3, <3>4 DEF Work
  <2> QED
    BY <1>6, <2>1 DEF ClientGone
<1>7. CASE Message(n)
  BY <1>7 DEF Message, Work
<1> QED
  BY <1>1, <1>2, <1>3, <1>4, <1>5, <1>6, <1>7 DEF LoopStep, Event

\* So does every step.
LEMMA ServingNext == CallTypes /\ Serving /\ [Next]_vars => Serving'
<1> SUFFICES ASSUME CallTypes, Serving, [Next]_vars PROVE Serving'
  OBVIOUS
<1> USE DEF Serving, Work, objVars, srvVars, callVars
<1>1. CASE Construct
  BY <1>1 DEF Construct
<1>2. CASE Destroy
  BY <1>2 DEF Destroy
<1>3. CASE LateProgress
  BY <1>3 DEF LateProgress
<1>4. CASE UNCHANGED vars
  BY <1>4 DEF vars
<1> QED
  BY <1>1, <1>2, <1>3, <1>4, ServingCall, ServingRun DEF Next

\* So it holds always.
LEMMA ServingCorrect == Spec => []Serving
<1>1. Init => Serving
  BY DEF Init, Serving
<1>2. CallTypes /\ Serving /\ [Next]_vars => Serving'
  BY ServingNext
<1> QED
  BY <1>1, <1>2, CallTypesCorrect, PTL DEF Spec

\* WebsocketServer.cpp, init and run: while the transport listens an accept is
\* outstanding and the io_service goes on, and no thread stays in run without work,
\* whether the port could be bound or not and whatever receiveMessage calls.
THEOREM RenderTypeCorrect == Spec => []TypeOK
<1>1. CallTypes /\ Serving => TypeOK
  BY DEF CallTypes, Serving, TypeOK
<1> QED
  BY <1>1, CallTypesCorrect, ServingCorrect, PTL

\* RenderServer.h:54, "server running...", as far as it is true: a server whose
\* port was bound and that was never stopped serves until stop is called, for
\* any number of clients that come and go and whatever receiveMessage calls.
THEOREM ServesCorrect == Spec => []ServesWhileListening
<1>1. CallTypes /\ Serving => ServesWhileListening
  BY DEF CallTypes, Types, Serving, ServesWhileListening, ServesUntilStopped
<1> QED
  BY <1>1, CallTypesCorrect, ServingCorrect, PTL

----------------------------------------------------------------------------
(* No thread left behind.                                                  *)

\* A thread that was created and not joined is the one the pointer leads to, or
\* the one that start is about to store there.
Stored(n) ==
    net[n] # "none" /\ net[n] # "joined" =>
        server_thread = n \/ (pc[App] = "start_assign" /\ target[App] = n)

\* What the application's thread has to do with the pointer. Until it destroys
\* the object it is in no call.
AppOwns ==
    /\ pc[App] = "start_assign" =>
          /\ server_thread = 0 /\ object = "alive"
          /\ net[target[App]] \notin {"none", "joined"}
    /\ pc[App] \in {"stop_listening", "stop_service", "stop_join", "stop_joining", "stop_delete"}
          => server_thread # 0 /\ object = "alive"
    /\ pc[App] = "stop_joining" => target[App] = server_thread
    /\ pc[App] = "stop_delete" => net[server_thread] = "joined"
    /\ object # "alive" => server_thread = 0

\* A server thread that calls stop does so in a callback and waits for itself,
\* so that it is terminated when it comes to join.
StopsItself(n) ==
    pc[n] # "idle" =>
        /\ pc[n] \in {"stop_listening", "stop_service", "stop_join"}
        /\ net[n] = "callback" /\ server_thread = n

Owned ==
    /\ \A n \in NetThreads : Stored(n) /\ StopsItself(n)
    /\ server_thread # 0 /\ pc[App] # "stop_delete"
          => net[server_thread] \notin {"none", "joined"}
    /\ AppOwns

\* At the start there is no thread to own.
LEMMA OwnedInit == Init => Owned
BY ThreadFacts DEF Init, Owned, Stored, AppOwns, StopsItself

\* start and stop on the application's thread.
LEMMA OwnedAppCall ==
    ASSUME CallTypes, Owned, CallBegins(App) \/ CallStep(App)
    PROVE  Owned'
<1> USE ThreadFacts DEF CallTypes, Types, Owned, Stored, AppOwns, StopsItself, CallLabels,
                        NetStates, Goto, objVars, srvVars
<1>1. CASE StartSpawn(App)
  BY <1>1 DEF StartSpawn, MayCall
<1>2. CASE StartAssign(App)
  BY <1>2 DEF StartAssign
<1>3. CASE StopBegin(App)
  BY <1>3 DEF StopBegin, MayCall
<1>4. CASE StopListening(App)
  BY <1>4 DEF StopListening
<1>5. CASE StopService(App)
  BY <1>5 DEF StopService
<1>6. CASE StopJoin(App)
  BY <1>6 DEF StopJoin, Joinable
<1>7. CASE StopJoined(App)
  BY <1>7 DEF StopJoined
<1>8. CASE StopDelete(App)
  BY <1>8 DEF StopDelete
<1> QED
  BY <1>1, <1>2, <1>3, <1>4, <1>5, <1>6, <1>7, <1>8 DEF CallBegins, CallStep

\* stop on a server thread, from receiveMessage.
LEMMA OwnedNetCall ==
    ASSUME CallTypes, Owned, "start" \notin CallbackCalls,
           NEW t \in NetThreads, CallBegins(t) \/ CallStep(t)
    PROVE  Owned'
<1> USE ThreadFacts DEF CallTypes, Types, Owned, Stored, AppOwns, StopsItself, CallLabels,
                        NetStates, Goto, objVars, srvVars
<1>1. ~StartSpawn(t)
  BY DEF StartSpawn, MayCall
<1>2. ~(StartAssign(t) \/ StopJoined(t) \/ StopDelete(t))
  BY DEF StartAssign, StopJoined, StopDelete
<1>3. CASE StopBegin(t)
  BY <1>3 DEF StopBegin, MayCall
<1>4. CASE StopListening(t)
  BY <1>4 DEF StopListening
<1>5. CASE StopService(t)
  BY <1>5 DEF StopService
<1>6. CASE StopJoin(t)
  BY <1>6 DEF StopJoin, Joinable
<1> QED
  BY <1>1, <1>2, <1>3, <1>4, <1>5, <1>6 DEF CallBegins, CallStep

\* The steps of a server thread leave a thread its owner.
LEMMA OwnedRun ==
    ASSUME CallTypes, Owned, NEW n \in NetThreads, LoopStep(n) \/ Event(n)
    PROVE  Owned'
<1> USE ThreadFacts DEF CallTypes, Types, Owned, Stored, AppOwns, StopsItself, NetStates, Enter,
                        MayHandle, objVars, srvVars, callVars
<1>1. CASE RunBegin(n)
  BY <1>1 DEF RunBegin
<1>2. CASE RunEnd(n)
  BY <1>2 DEF RunEnd
<1>3. CASE MessageDone(n)
  BY <1>3 DEF MessageDone
<1>4. CASE Accept(n)
  BY <1>4 DEF Accept
<1>5. CASE AcceptAborted(n)
  BY <1>5 DEF AcceptAborted
<1>6. CASE ClientGone(n)
  BY <1>6 DEF ClientGone
<1>7. CASE Message(n)
  BY <1>7 DEF Message
<1> QED
  BY <1>1, <1>2, <1>3, <1>4, <1>5, <1>6, <1>7 DEF LoopStep, Event

\* So does every step, if the callback does not start a server.
LEMMA OwnedNext ==
    ASSUME CallTypes, Owned, "start" \notin CallbackCalls, [Next]_vars
    PROVE  Owned'
<1> USE DEF Owned, Stored, AppOwns, StopsItself, objVars, srvVars, callVars
<1>1. CASE Construct
  BY <1>1 DEF Construct
<1>2. CASE Destroy
  BY <1>2 DEF Destroy
<1>3. CASE LateProgress
  BY <1>3 DEF LateProgress
<1>4. CASE UNCHANGED vars
  BY <1>4 DEF vars
<1> QED
  BY <1>1, <1>2, <1>3, <1>4, OwnedAppCall, OwnedNetCall, OwnedRun DEF Next, Threads

\* A server thread has an owner for as long as it runs.
LEMMA OwnedCorrect == "start" \notin CallbackCalls => (Spec => []Owned)
<1> SUFFICES ASSUME "start" \notin CallbackCalls PROVE Spec => []Owned
  OBVIOUS
<1>1. Init => Owned
  BY OwnedInit
<1>2. CallTypes /\ Owned /\ [Next]_vars => Owned'
  BY OwnedNext
<1> QED
  BY <1>1, <1>2, CallTypesCorrect, PTL DEF Spec

\* RenderServer.h, start and stop: there is never a second server thread, and
\* none runs when the pointer is null. With a start from receiveMessage that
\* would be false: it could come between the creation of the thread and the
\* assignment of the pointer.
THEOREM NoThreadLeftCorrect == "start" \notin CallbackCalls => (Spec => []NoThreadLeft)
<1> SUFFICES ASSUME "start" \notin CallbackCalls PROVE Spec => []NoThreadLeft
  OBVIOUS
<1>1. Owned => NoThreadLeft
  <2> SUFFICES ASSUME Owned PROVE NoThreadLeft
    OBVIOUS
  <2>1. \A n \in NetThreads : Alive(n) =>
            server_thread = n \/ (pc[App] = "start_assign" /\ target[App] = n)
    BY DEF Owned, Stored, Alive
  <2>2. pc[App] = "start_assign" => server_thread = 0
    BY DEF Owned, AppOwns
  <2> QED
    BY <2>1, <2>2, ThreadFacts DEF NoThreadLeft
<1>2. Spec => []Owned
  BY OwnedCorrect
<1> QED
  BY <1>1, <1>2, PTL

\* RenderServer.h, the destructor: it stops the server first, so that no server
\* thread is left to deliver a message to an object that is gone.
THEOREM NoDanglingMessageCorrect == "start" \notin CallbackCalls => (Spec => []NoDanglingMessage)
<1> SUFFICES ASSUME "start" \notin CallbackCalls PROVE Spec => []NoDanglingMessage
  OBVIOUS
<1>1. Owned => NoDanglingMessage
  <2> SUFFICES ASSUME Owned, object # "alive", NEW n \in NetThreads PROVE ~Alive(n)
    BY DEF NoDanglingMessage
  <2>1. server_thread = 0 /\ pc[App] # "start_assign"
    BY DEF Owned, AppOwns
  <2> QED
    BY <2>1, ThreadFacts DEF Owned, Stored, Alive
<1>2. Spec => []Owned
  BY OwnedCorrect
<1> QED
  BY <1>1, <1>2, PTL
=============================================================================
