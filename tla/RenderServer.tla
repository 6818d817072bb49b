---------------------------- MODULE RenderServer ----------------------------
(***************************************************************************)
(* The facade RenderServer: its server thread, started, stopped and joined *)
(* by the application's thread while that thread runs the io_service, and  *)
(* the callbacks bound to the object. WebsocketServer is static: its       *)
(* endpoint lives as long as the process.                                  *)
(*                                                                         *)
(* The calls have no lock. The application calls them from one thread; the *)
(* message callback runs on the server thread and may call them as well.   *)
(* Steps of WebsocketServer that module WebsocketServer models in detail   *)
(* (the maps, the loop of stop) are left out here.                         *)
(***************************************************************************)
EXTENDS Integers, FiniteSets

CONSTANTS App,            \* the application's thread
          MaxThreads,     \* bound: server threads ever created
          MaxClients,     \* bound: connections alive at a time
          ListenOutcomes, \* what listen on the port may do: subset of BOOLEAN
          CallbackCalls   \* calls receiveMessage makes: subset of {"start", "stop"}

NetThreads == 1..MaxThreads
Threads == NetThreads \cup {App}

ASSUME ConstantsAssumption ==
    /\ MaxThreads \in Nat /\ MaxClients \in Nat
    /\ App \notin NetThreads \cup {0}
    /\ ListenOutcomes \subseteq BOOLEAN
    /\ CallbackCalls \subseteq {"start", "stop"}

VARIABLES
    object,         \* the RenderServer: "none", "alive", "destroyed"
    server_thread,  \* the thread the pointer leads to, 0 for a null pointer
    transport,      \* state of the transport endpoint
    accepting,      \* an async_accept is outstanding
    clients,        \* connections: each has a read or a timer outstanding
    stopped,        \* io_service::stopped
    net,            \* where each server thread is
    pc,             \* where each thread is in start, stop or the destructor
    target,         \* the thread a stop joins, or a start has created
    running,        \* start has said "server running", and no stop has begun
    crashed         \* the process was terminated

objVars  == <<object, server_thread>>
srvVars  == <<transport, accepting, clients, stopped>>
callVars == <<pc, target, running>>
vars     == <<objVars, srvVars, net, callVars, crashed>>

\* "returned": the thread function has returned and nobody has joined it yet.
NetStates  == {"none", "spawned", "loop", "callback", "returned", "joined"}
CallLabels == {"idle", "start_assign", "stop_listening", "stop_service", "stop_join",
               "stop_joining", "stop_delete"}
Alive(n) == net[n] \in {"spawned", "loop", "callback"}

Init ==
    /\ object = "none"
    /\ server_thread = 0
    /\ transport = "UNINITIALIZED"
    /\ accepting = FALSE
    /\ clients = 0
    /\ stopped = FALSE
    /\ net = [n \in NetThreads |-> "none"]
    /\ pc = [t \in Threads |-> "idle"]
    /\ target = [t \in Threads |-> 0]
    /\ running = FALSE
    /\ crashed = FALSE

Goto(t, label) == pc' = [pc EXCEPT ![t] = label]

\* The io_service has work: an accept, or reads and timers of a connection.
Work == accepting \/ clients > 0

----------------------------------------------------------------------------
(* Constructor and destructor. A definition marked "Mutant" is a plausible *)
(* bug that no action uses: with it in place of the definition it precedes *)
(* the property it is named for fails.                                     *)

\* Mutant for TypeOK: listen says LISTENING before it knows that it can.
ConstructTooEarly ==
    /\ object = "none"
    /\ transport = "UNINITIALIZED"
    /\ object' = "alive"
    /\ transport' = "LISTENING"
    /\ accepting' \in ListenOutcomes
    /\ UNCHANGED <<server_thread, clients, stopped, net, callVars, crashed>>

\* init and the callbacks. A port that cannot be bound leaves the transport in
\* READY; the exception of listen is swallowed and the result of init not
\* looked at. (On a second object init_asio throws: it is not constructed.)
Construct ==
    /\ object = "none"
    /\ transport = "UNINITIALIZED"
    /\ object' = "alive"
    /\ \E listens \in ListenOutcomes :
          /\ transport' = IF listens THEN "LISTENING" ELSE "READY"
          /\ accepting' = listens
    /\ UNCHANGED <<server_thread, clients, stopped, net, callVars, crashed>>

\* Mutant for NoDanglingMessage: the destructor does not stop the server.
DestroyWithoutStop ==
    /\ object = "alive"
    /\ pc[App] = "idle"
    /\ object' = "destroyed"
    /\ UNCHANGED <<server_thread, srvVars, net, callVars, crashed>>

\* The destructor calls stop; here it does what is left after that.
Destroy ==
    /\ object = "alive"
    /\ pc[App] = "idle"
    /\ server_thread = 0
    /\ object' = "destroyed"
    /\ UNCHANGED <<server_thread, srvVars, net, callVars, crashed>>

\* Calls are made on an object that exists; on the server thread only from
\* receiveMessage, by a renderer that makes such calls.
MayCall(t, call) ==
    /\ pc[t] = "idle"
    /\ object = "alive"
    /\ t # App => net[t] = "callback" /\ call \in CallbackCalls

----------------------------------------------------------------------------
(* start.                                                                  *)

\* The new thread may run before its pointer is stored.
StartSpawn(t) ==
    /\ MayCall(t, "start")
    /\ server_thread = 0
    /\ \E n \in NetThreads :
          /\ net[n] = "none"
          /\ \A m \in NetThreads : m < n => net[m] # "none"
          /\ net' = [net EXCEPT ![n] = "spawned"]
          /\ target' = [target EXCEPT ![t] = n]
    /\ Goto(t, "start_assign")
    /\ UNCHANGED <<objVars, srvVars, running, crashed>>

StartAssign(t) ==
    /\ pc[t] = "start_assign"
    /\ server_thread' = target[t]
    /\ target' = [target EXCEPT ![t] = 0]
    /\ running' = TRUE
    /\ Goto(t, "idle")
    /\ UNCHANGED <<object, srvVars, net, crashed>>

----------------------------------------------------------------------------
(* stop: WebsocketServer::stop, then join and delete the thread.           *)

StopBegin(t) ==
    /\ MayCall(t, "stop")
    /\ server_thread # 0
    /\ running' = FALSE
    /\ Goto(t, "stop_listening")
    /\ UNCHANGED <<objVars, srvVars, net, target, crashed>>

\* stop_listening fails unless the transport is listening, and then the
\* io_service is not stopped.
StopListening(t) ==
    /\ pc[t] = "stop_listening"
    /\ IF transport = "LISTENING"
       THEN transport' = "READY" /\ Goto(t, "stop_service")
       ELSE UNCHANGED transport /\ Goto(t, "stop_join")
    /\ UNCHANGED <<objVars, accepting, clients, stopped, net, target, running, crashed>>

\* Mutant for StopReturns: the io_service is left running, as if it ended when
\* it no longer listens.
StopServiceNot(t) ==
    /\ pc[t] = "stop_service"
    /\ Goto(t, "stop_join")
    /\ UNCHANGED <<objVars, srvVars, net, target, running, crashed>>

StopService(t) ==
    /\ pc[t] = "stop_service"
    /\ stopped' = TRUE
    /\ Goto(t, "stop_join")
    /\ UNCHANGED <<objVars, transport, accepting, clients, net, target, running, crashed>>

\* Mutant for NoThreadLeft: the thread is detached and deleted.
StopDetached(t) ==
    /\ pc[t] = "stop_join"
    /\ server_thread' = 0
    /\ Goto(t, "idle")
    /\ UNCHANGED <<object, srvVars, net, target, running, crashed>>

\* Joining oneself, a thread that was joined, or none throws std::system_error
\* (or worse); on the server thread nothing catches it.
Joinable(t, n) == n # 0 /\ n # t /\ net[n] # "joined"

StopJoin(t) ==
    /\ pc[t] = "stop_join"
    /\ IF Joinable(t, server_thread)
       THEN /\ target' = [target EXCEPT ![t] = server_thread]
            /\ Goto(t, "stop_joining")
            /\ UNCHANGED crashed
       ELSE crashed' = TRUE /\ UNCHANGED <<target, pc>>
    /\ UNCHANGED <<objVars, srvVars, net, running>>

StopJoined(t) ==
    /\ pc[t] = "stop_joining"
    /\ net[target[t]] = "returned"
    /\ net' = [net EXCEPT ![target[t]] = "joined"]
    /\ target' = [target EXCEPT ![t] = 0]
    /\ Goto(t, "stop_delete")
    /\ UNCHANGED <<objVars, srvVars, running, crashed>>

\* The pointer is read again; ~thread of a thread not joined terminates.
StopDelete(t) ==
    /\ pc[t] = "stop_delete"
    /\ IF server_thread # 0 /\ net[server_thread] # "joined"
       THEN crashed' = TRUE /\ UNCHANGED <<server_thread, pc>>
       ELSE server_thread' = 0 /\ Goto(t, "idle") /\ UNCHANGED crashed
    /\ UNCHANGED <<object, srvVars, net, target, running>>

----------------------------------------------------------------------------
(* The server thread: io_service::run, and the handlers it runs.           *)

Enter(n, state) == net' = [net EXCEPT ![n] = state]

\* Mutant for ServesWhileListening: run gives up after its first handler.
RunOne(n) ==
    /\ net[n] = "loop"
    /\ Enter(n, "returned")
    /\ UNCHANGED <<objVars, srvVars, callVars, crashed>>

\* Without work run stops the io_service; stopped, it returns at once.
RunBegin(n) ==
    /\ net[n] = "spawned"
    /\ stopped' = (stopped \/ ~Work)
    /\ Enter(n, IF stopped' THEN "returned" ELSE "loop")
    /\ UNCHANGED <<objVars, transport, accepting, clients, callVars, crashed>>

RunEnd(n) ==
    /\ net[n] = "loop"
    /\ stopped
    /\ Enter(n, "returned")
    /\ UNCHANGED <<objVars, srvVars, callVars, crashed>>

\* A handler runs if the thread does not see the io_service stopped.
MayHandle(n) == net[n] = "loop" /\ ~stopped

Accept(n) ==
    /\ MayHandle(n) /\ accepting
    /\ clients < MaxClients
    /\ clients' = clients + 1
    /\ accepting' = (transport = "LISTENING")
    /\ UNCHANGED <<objVars, transport, stopped, net, callVars, crashed>>

\* The acceptor was closed; with the last work gone the io_service stops.
AcceptAborted(n) ==
    /\ MayHandle(n) /\ accepting
    /\ transport # "LISTENING"
    /\ accepting' = FALSE
    /\ stopped' = (clients = 0)
    /\ UNCHANGED <<objVars, transport, clients, net, callVars, crashed>>

ClientGone(n) ==
    /\ MayHandle(n)
    /\ clients > 0
    /\ clients' = clients - 1
    /\ stopped' = (clients = 1 /\ ~accepting)
    /\ UNCHANGED <<objVars, transport, accepting, net, callVars, crashed>>

\* on_message calls RenderServer::on_message, and that receiveMessage.
Message(n) ==
    /\ MayHandle(n)
    /\ clients > 0
    /\ IF object = "alive" THEN Enter(n, "callback") /\ UNCHANGED crashed
                           ELSE crashed' = TRUE /\ UNCHANGED net
    /\ UNCHANGED <<objVars, srvVars, callVars>>

MessageDone(n) ==
    /\ net[n] = "callback"
    /\ pc[n] = "idle"
    /\ Enter(n, "loop")
    /\ UNCHANGED <<objVars, srvVars, callVars, crashed>>

----------------------------------------------------------------------------
\* The renderer's progress callback is bound to the object and never unbound:
\* called after the destructor it reads a member of a dead object. (Otherwise
\* on_progress changes nothing here: write_jpeg_to_memory has no body, so the
\* image stays empty and is not broadcast.)
LateProgress ==
    /\ object = "destroyed"
    /\ crashed' = TRUE
    /\ UNCHANGED <<objVars, srvVars, net, callVars>>

----------------------------------------------------------------------------
CallBegins(t) == StartSpawn(t) \/ StopBegin(t)

CallStep(t) ==
    \/ StartAssign(t)
    \/ StopListening(t) \/ StopService(t) \/ StopJoin(t) \/ StopJoined(t) \/ StopDelete(t)

\* What a server thread does by itself.
LoopStep(n) == RunBegin(n) \/ RunEnd(n) \/ MessageDone(n)

Event(n) == Accept(n) \/ AcceptAborted(n) \/ ClientGone(n) \/ Message(n)

Next ==
    /\ ~crashed
    /\ \/ Construct \/ Destroy \/ LateProgress
       \/ \E t \in Threads : CallBegins(t) \/ CallStep(t)
       \/ \E n \in NetThreads : LoopStep(n) \/ Event(n)

Spec == Init /\ [][Next]_vars

\* Threads go on with what they do, receiveMessage returns, and a thread sees
\* that its io_service was stopped. Nothing is assumed of clients.
FairSpec ==
    /\ Spec
    /\ \A t \in Threads : WF_vars(~crashed /\ CallStep(t))
    /\ \A n \in NetThreads : WF_vars(~crashed /\ LoopStep(n))

----------------------------------------------------------------------------
(* Properties.                                                             *)

Types ==
    /\ object \in {"none", "alive", "destroyed"}
    /\ server_thread \in NetThreads \cup {0}
    /\ transport \in {"UNINITIALIZED", "READY", "LISTENING"}
    /\ accepting \in BOOLEAN /\ stopped \in BOOLEAN
    /\ clients \in 0..MaxClients
    /\ net \in [NetThreads -> NetStates]
    /\ pc \in [Threads -> CallLabels]
    /\ target \in [Threads -> NetThreads \cup {0}]
    /\ running \in BOOLEAN /\ crashed \in BOOLEAN

\* Types; a transport that listens has an accept outstanding and an io_service that
\* is not stopped, whatever became of the port (init ignores that listen failed) and
\* of the clients; and no thread is kept in run by an io_service without work.
TypeOK ==
    /\ Types
    /\ transport = "LISTENING" => accepting /\ ~stopped
    /\ \A n \in NetThreads : net[n] \in {"loop", "callback"} => Work \/ stopped

\* If receiveMessage does not call start, there is at most one server thread;
\* when the pointer is null and no start is under way there is none: stop
\* has waited for it, whether WebsocketServer::stop went through or gave up.
NoThreadLeft ==
    /\ \A m, n \in NetThreads : Alive(m) /\ Alive(n) => m = n
    /\ server_thread = 0 /\ (\A t \in Threads : pc[t] # "start_assign")
        => \A n \in NetThreads : ~Alive(n)

\* No message reaches an object that the destructor has finished with.
NoDanglingMessage ==
    \A n \in NetThreads : object # "alive" => ~Alive(n)

\* RenderServer.h:54, "server running...": a server that start has announced
\* runs until stop is called.
ServesUntilStopped ==
    running /\ server_thread # 0 => net[server_thread] # "returned"

\* It does if the port was bound and stop was never called before: clients that
\* come and go, and accepts that fail, do not end run.
ServesWhileListening == transport = "LISTENING" => ServesUntilStopped

\* Under FairSpec, if receiveMessage does not call start: start and stop return,
\* unless the process is terminated (a stop on the server thread joins itself
\* and throws): nobody waits for ever for a thread that nothing stops.
StopReturns == \A t \in Threads : pc[t] # "idle" ~> pc[t] = "idle" \/ crashed
=============================================================================
