---------------------------- MODULE Connection ----------------------------
(***************************************************************************)
(* One websocketpp server connection: its states, the queue of outgoing    *)
(* frames and the write flag, the handshake timer, and the handlers the    *)
(* network thread runs, interleaved with send and close calls of the       *)
(* application's threads.                                                  *)
(*                                                                         *)
(* The io_service runs one handler at a time on the network thread. What a *)
(* handler does between two points where another thread can interfere is   *)
(* one step. m_connection_state_lock is held by close() only from one step *)
(* to the next; a section under m_write_lock is a single step.             *)
(***************************************************************************)
EXTENDS Integers, Sequences

CONSTANTS Users,      \* application threads that call send and close
          Net,        \* the network thread
          None,       \* no thread
          MaxCalls,   \* bound: calls of send and close that pass their test, per thread
          MaxFrames   \* bound: frames pushed when the peer may still send a ping or a bad close

ASSUME ConstantsAssumption ==
    /\ Net \notin Users
    /\ None \notin Users \cup {Net}
    /\ MaxCalls \in Nat /\ MaxFrames \in Nat

VARIABLES
    m_state,                  \* session::state
    m_internal_state,         \* session::internal_state
    m_response,               \* status of the handshake response
    m_was_clean,              \* a close frame was received or acknowledged
    m_connection_state_lock,  \* the thread that holds it, or None
    m_send_queue,             \* frames not yet handed to the transport
    m_current_msgs,           \* frames of the transport write under way
    m_write_flag,             \* a transport write of frames is under way
    posted,                   \* write_frame tasks dispatched to the io_service
    writing,                  \* the outstanding async_write
    reading,                  \* the outstanding async_read_at_least
    timer,                    \* the timer m_handshake_timer points at
    strays,                   \* other timers whose handler will still run
    netPc,                    \* where the network thread is in a handler
    pc,                       \* where each thread is in send or close
    calls,                    \* calls of each thread so far
    crashed,                  \* undefined behaviour brought the process down
    pushed, wire,             \* history: how many frames were pushed; those written
    closeCalls, failCalls     \* history: calls of the close and fail handlers

stateVars == <<m_state, m_internal_state, m_response, m_was_clean>>
queueVars == <<m_send_queue, m_current_msgs, m_write_flag, posted, pushed, wire>>
timerVars == <<timer, strays>>
callVars  == <<m_connection_state_lock, pc, calls>>
histVars  == <<closeCalls, failCalls>>
vars == <<stateVars, queueVars, timerVars, callVars, histVars,
          writing, reading, netPc, crashed>>

Threads == Users \cup {Net}
Frames == [n : Nat, op : {"data", "pong", "close"}, terminal : BOOLEAN]

\* The socket was shut down: async_shutdown completes inside terminate.
Shut == closeCalls + failCalls > 0

Init ==
    /\ m_state = "connecting"
    /\ m_internal_state = "USER_INIT"
    /\ m_response = "none"
    /\ m_was_clean = FALSE
    /\ m_connection_state_lock = None
    /\ m_send_queue = <<>>
    /\ m_current_msgs = <<>>
    /\ m_write_flag = FALSE
    /\ posted = 0
    /\ writing = "none"
    /\ reading = "none"
    /\ timer = "none"
    /\ strays = 0
    /\ netPc = "idle"
    /\ pc = [t \in Threads |-> "idle"]
    /\ calls = [t \in Threads |-> 0]
    /\ crashed = FALSE
    /\ pushed = 0
    /\ wire = <<>>
    /\ closeCalls = 0
    /\ failCalls = 0

----------------------------------------------------------------------------
(* Pieces shared by the calls and the handlers. A definition marked        *)
(* "Mutant" is a plausible bug that no action uses: with it in place of    *)
(* the definition it precedes the property it is named for fails.          *)

Goto(label) == netPc' = label

\* Mutant for HandshakeEnds: the timer is not started.
NoTimer == UNCHANGED timerVars

\* set_timer: the pointer is overwritten; the timer it pointed at stays armed.
SetTimer ==
    /\ timer' = "armed"
    /\ strays' = IF timer = "none" THEN strays ELSE strays + 1

\* cancel has no effect on a timer that has expired: its handler is queued.
CancelTimer ==
    /\ timer' = "none"
    /\ strays' = IF timer = "due" THEN strays + 1 ELSE strays

Frame(op, terminal) == [n |-> pushed + 1, op |-> op, terminal |-> terminal]

\* Mutant for FramesInOrder: control frames overtake queued messages.
PushInFront(op, terminal) ==
    /\ pushed' = pushed + 1
    /\ m_send_queue' = IF op = "data" THEN Append(m_send_queue, Frame(op, terminal))
                                      ELSE <<Frame(op, terminal)>> \o m_send_queue
    /\ posted' = IF m_write_flag THEN posted ELSE posted + 1
    /\ UNCHANGED <<m_current_msgs, m_write_flag, wire>>

\* write_push under m_write_lock, then the dispatch of write_frame unless a
\* write is under way.
Push(op, terminal) ==
    /\ pushed' = pushed + 1
    /\ m_send_queue' = Append(m_send_queue, Frame(op, terminal))
    /\ posted' = IF m_write_flag THEN posted ELSE posted + 1
    /\ UNCHANGED <<m_current_msgs, m_write_flag, wire>>

----------------------------------------------------------------------------
(* send and close, by an application thread or from the message callback.  *)
(* A call that finds the connection not open returns an error and changes  *)
(* nothing: that is no step here.                                          *)

MayCall(t) ==
    /\ pc[t] = "idle"
    /\ t = Net => netPc = "callback"
    /\ calls[t] < MaxCalls
    /\ calls' = [calls EXCEPT ![t] = @ + 1]

\* Mutant for PromisesAlone: send does not test the state.
SendUntested(t) ==
    /\ MayCall(t)
    /\ m_connection_state_lock = None
    /\ m_internal_state = "PROCESS_CONNECTION"
    /\ pc' = [pc EXCEPT ![t] = "send_push"]
    /\ UNCHANGED <<stateVars, queueVars, timerVars, histVars, m_connection_state_lock,
                   writing, reading, netPc, crashed>>

\* send tests the state under the lock and pushes after releasing it.
SendCheck(t) ==
    /\ MayCall(t)
    /\ m_connection_state_lock = None
    /\ m_state = "open"
    /\ pc' = [pc EXCEPT ![t] = "send_push"]
    /\ UNCHANGED <<stateVars, queueVars, timerVars, histVars, m_connection_state_lock,
                   writing, reading, netPc, crashed>>

SendPush(t) ==
    /\ pc[t] = "send_push"
    /\ Push("data", FALSE)
    /\ pc' = [pc EXCEPT ![t] = "idle"]
    /\ UNCHANGED <<stateVars, timerVars, histVars, m_connection_state_lock, calls,
                   writing, reading, netPc, crashed>>

\* close keeps the lock until it returns.
CloseCheck(t) ==
    /\ MayCall(t)
    /\ m_connection_state_lock = None
    /\ m_state = "open"
    /\ m_connection_state_lock' = t
    /\ pc' = [pc EXCEPT ![t] = "close_set"]
    /\ UNCHANGED <<stateVars, queueVars, timerVars, histVars,
                   writing, reading, netPc, crashed>>

\* send_close_frame: m_state is overwritten whatever it is by now.
CloseSet(t) ==
    /\ pc[t] = "close_set"
    /\ m_state' = "closing"
    /\ SetTimer
    /\ pc' = [pc EXCEPT ![t] = "close_push"]
    /\ UNCHANGED <<m_internal_state, m_response, m_was_clean, queueVars, histVars,
                   m_connection_state_lock, calls, writing, reading, netPc, crashed>>

\* The close frame is terminal when it reports a protocol error; in that case
\* handle_read_frame returns without another read.
ClosePush(t) ==
    LET protocolError == t = Net /\ netPc = "error" IN
    /\ pc[t] = "close_push"
    /\ Push("close", protocolError)
    /\ pc' = [pc EXCEPT ![t] = "idle"]
    /\ m_connection_state_lock' = None
    /\ netPc' = IF protocolError THEN "idle" ELSE netPc
    /\ UNCHANGED <<stateVars, timerVars, histVars, calls, writing, reading, crashed>>

\* A close about to assign m_handshake_timer while the network thread cancels
\* or assigns it: a data race on a shared_ptr. Left intact, the pointer ends
\* up as in one of the two orders; the other outcome is a crash.
TimerRace(t) ==
    /\ t \in Users
    /\ pc[t] = "close_set"
    /\ netPc \in {"ack", "terminate", "acknowledged"}
    /\ crashed' = TRUE
    /\ UNCHANGED <<stateVars, queueVars, timerVars, callVars, histVars,
                   writing, reading, netPc>>

----------------------------------------------------------------------------
(* terminate, and the timers.                                              *)

\* terminate takes no lock. The shutdown of the socket completes at once and
\* the close or fail handler runs before terminate returns. After the peer's
\* acknowledgement the loop over the frames read goes on.
Terminate ==
    /\ netPc \in {"terminate", "acknowledged"}
    /\ CancelTimer
    /\ m_state' = "closed"
    /\ failCalls' = IF m_state = "connecting" THEN failCalls + 1 ELSE failCalls
    /\ closeCalls' = IF m_state \in {"open", "closing"} THEN closeCalls + 1 ELSE closeCalls
    /\ Goto(IF netPc = "acknowledged" THEN "frames" ELSE "idle")
    /\ UNCHANGED <<m_internal_state, m_response, m_was_clean, queueVars, callVars,
                   writing, reading, crashed>>

TimerExpires ==
    /\ timer = "armed"
    /\ timer' = "due"
    /\ UNCHANGED <<stateVars, queueVars, strays, callVars, histVars,
                   writing, reading, netPc, crashed>>

\* handle_open_handshake_timeout and handle_close_handshake_timeout.
TimerFires ==
    /\ netPc = "idle"
    /\ \/ timer = "due" /\ timer' = "none" /\ UNCHANGED strays
       \/ strays > 0 /\ strays' = strays - 1 /\ UNCHANGED timer
    /\ Goto("terminate")
    /\ UNCHANGED <<stateVars, queueVars, callVars, histVars, writing, reading, crashed>>

----------------------------------------------------------------------------
(* The opening handshake.                                                  *)

\* handle_accept: start, transport init (synchronous), read_handshake.
Start ==
    /\ netPc = "idle"
    /\ m_internal_state = "USER_INIT"
    /\ m_internal_state' = "READ_HTTP_REQUEST"
    /\ SetTimer
    /\ reading' = "handshake"
    /\ UNCHANGED <<m_state, m_response, m_was_clean, queueVars, callVars, histVars,
                   writing, netPc, crashed>>

\* handle_read_handshake with a complete request, which the server accepts or
\* refuses. An incomplete one makes it read on: no step. If the timer ended
\* the connection meanwhile it ignores what was read.
ReadRequest ==
    /\ netPc = "idle"
    /\ reading = "handshake"
    /\ reading' = "none"
    /\ IF m_state = "closed"
       THEN UNCHANGED <<m_internal_state, m_response, writing>>
       ELSE /\ m_internal_state' = "PROCESS_HTTP_REQUEST"
            /\ m_response' \in {"switching_protocols", "error"}
            /\ writing' = "response"
    /\ UNCHANGED <<m_state, m_was_clean, queueVars, timerVars, callVars, histVars,
                   netPc, crashed>>

\* The read failed; end of file on a closed connection is expected.
ReadFailed ==
    /\ netPc = "idle"
    /\ reading # "none"
    /\ reading' = "none"
    /\ \/ Goto("terminate")
       \/ m_state = "closed" /\ UNCHANGED netPc
    /\ UNCHANGED <<stateVars, queueVars, timerVars, callVars, histVars, writing, crashed>>

\* Mutant for SessionSpec: a connection the timer ended is opened.
OpenAnyway ==
    /\ netPc = "idle"
    /\ writing = "response"
    /\ writing' = "none"
    /\ CancelTimer
    /\ IF m_response = "error"
       THEN Goto("terminate") /\ UNCHANGED <<m_state, m_internal_state>>
       ELSE /\ m_internal_state' = "PROCESS_CONNECTION"
            /\ m_state' = "open"
            /\ Goto("frames")
    /\ UNCHANGED <<m_response, m_was_clean, queueVars, callVars, histVars, reading, crashed>>

\* handle_write_http_response: the connection opens, and what was read behind
\* the request is taken as frames.
WroteResponse ==
    /\ netPc = "idle"
    /\ writing = "response"
    /\ writing' = "none"
    /\ IF m_state = "closed"
       THEN UNCHANGED <<m_state, m_internal_state, timerVars, netPc>>
       ELSE /\ CancelTimer
            /\ IF m_response = "error"
               THEN Goto("terminate") /\ UNCHANGED <<m_state, m_internal_state>>
               ELSE /\ m_internal_state' = "PROCESS_CONNECTION"
                    /\ m_state' = "open"
                    /\ Goto("frames")
    /\ UNCHANGED <<m_response, m_was_clean, queueVars, callVars, histVars, reading, crashed>>

ResponseFailed ==
    /\ netPc = "idle"
    /\ writing = "response"
    /\ writing' = "none"
    /\ Goto("terminate")
    /\ UNCHANGED <<stateVars, queueVars, timerVars, callVars, histVars, reading, crashed>>

----------------------------------------------------------------------------
(* Writing frames.                                                         *)

Terminals(q) == {i \in DOMAIN q : q[i].terminal}

\* Mutant for NothingAfterTerminal: the whole queue is taken.
TakeAll(q) == Len(q)

\* How many frames one write takes: up to the first terminal one.
TakeLen(q) ==
    IF Terminals(q) = {} THEN Len(q)
    ELSE CHOOSE i \in Terminals(q) : \A j \in Terminals(q) : i <= j

\* Mutant for BuffersStable: the write flag is not looked at.
WriteFrameUnflagged ==
    /\ netPc = "idle"
    /\ posted > 0
    /\ posted' = posted - 1
    /\ IF m_send_queue = <<>>
       THEN UNCHANGED <<m_send_queue, m_current_msgs, m_write_flag, writing>>
       ELSE LET k == TakeLen(m_send_queue) IN
            /\ m_current_msgs' = m_current_msgs \o SubSeq(m_send_queue, 1, k)
            /\ m_send_queue' = SubSeq(m_send_queue, k + 1, Len(m_send_queue))
            /\ m_write_flag' = TRUE
            /\ writing' = IF Shut THEN "doomed" ELSE "frames"
    /\ UNCHANGED <<stateVars, pushed, wire, timerVars, callVars, histVars,
                   reading, netPc, crashed>>

\* Mutant for TypeOK: an empty queue is written, too.
WriteFrameEmpty ==
    /\ netPc = "idle"
    /\ posted > 0
    /\ posted' = posted - 1
    /\ IF m_write_flag
       THEN UNCHANGED <<m_send_queue, m_current_msgs, m_write_flag, writing>>
       ELSE LET k == TakeLen(m_send_queue) IN
            /\ m_current_msgs' = m_current_msgs \o SubSeq(m_send_queue, 1, k)
            /\ m_send_queue' = SubSeq(m_send_queue, k + 1, Len(m_send_queue))
            /\ m_write_flag' = TRUE
            /\ writing' = IF Shut THEN "doomed" ELSE "frames"
    /\ UNCHANGED <<stateVars, pushed, wire, timerVars, callVars, histVars,
                   reading, netPc, crashed>>

\* The posted task. A write on a socket that was shut down is doomed to fail.
WriteFrame ==
    /\ netPc = "idle"
    /\ posted > 0
    /\ posted' = posted - 1
    /\ IF m_write_flag \/ m_send_queue = <<>>
       THEN UNCHANGED <<m_send_queue, m_current_msgs, m_write_flag, writing>>
       ELSE LET k == TakeLen(m_send_queue) IN
            /\ m_current_msgs' = m_current_msgs \o SubSeq(m_send_queue, 1, k)
            /\ m_send_queue' = SubSeq(m_send_queue, k + 1, Len(m_send_queue))
            /\ m_write_flag' = TRUE
            /\ writing' = IF Shut THEN "doomed" ELSE "frames"
    /\ UNCHANGED <<stateVars, pushed, wire, timerVars, callVars, histVars,
                   reading, netPc, crashed>>

LastTerminal == m_current_msgs # <<>> /\ m_current_msgs[Len(m_current_msgs)].terminal

\* Mutant for WriterAwake: what was queued during the write is not looked for.
ReleaseOnly ==
    /\ m_write_flag' = FALSE
    /\ UNCHANGED posted

\* Mutant for FramesLeave: the flag is not released.
FlagStays ==
    /\ posted' = IF m_send_queue # <<>> THEN posted + 1 ELSE posted
    /\ UNCHANGED m_write_flag

\* Release the write flag and look for frames queued during the write.
Release ==
    /\ m_write_flag' = FALSE
    /\ posted' = IF m_send_queue # <<>> THEN posted + 1 ELSE posted

\* handle_write_frame. After a terminal frame the flag is kept for good.
WroteFrames ==
    /\ netPc = "idle"
    /\ writing = "frames"
    /\ writing' = "none"
    /\ wire' = wire \o m_current_msgs
    /\ m_current_msgs' = <<>>
    /\ IF LastTerminal
       THEN Goto("terminate") /\ UNCHANGED <<m_write_flag, posted>>
       ELSE Release /\ UNCHANGED netPc
    /\ UNCHANGED <<stateVars, m_send_queue, pushed, timerVars, callVars, histVars,
                   reading, crashed>>

\* The same with an error. The flag is kept, and the frames are lost.
WriteFailed ==
    /\ netPc = "idle"
    /\ writing \in {"frames", "doomed"}
    /\ writing' = "none"
    /\ m_current_msgs' = <<>>
    /\ Goto("terminate")
    /\ UNCHANGED <<stateVars, m_send_queue, m_write_flag, posted, pushed, wire,
                   timerVars, callVars, histVars, reading, crashed>>

----------------------------------------------------------------------------
(* Reading frames: the loop of handle_read_frame over the bytes of a read. *)
(* Frames that are ignored are no step: a data or ping frame unless the    *)
(* connection is open, any frame when it is closed, a pong.                *)

ReadFrames ==
    /\ netPc = "idle"
    /\ reading = "frames"
    /\ reading' = "none"
    /\ Goto("frames")
    /\ UNCHANGED <<stateVars, queueVars, timerVars, callVars, histVars, writing, crashed>>

\* read_frame at the end of the loop; on a socket that was shut down the read
\* can only end in end of file.
ReadOn ==
    /\ netPc = "frames"
    /\ Goto("idle")
    /\ reading' = IF Shut THEN "eof" ELSE "frames"
    /\ UNCHANGED <<stateVars, queueVars, timerVars, callVars, histVars, writing, crashed>>

\* A data message: the message handler, which may call send and close.
Message ==
    /\ netPc = "frames"
    /\ m_state = "open"
    /\ Goto("callback")
    /\ UNCHANGED <<stateVars, queueVars, timerVars, callVars, histVars,
                   writing, reading, crashed>>

MessageDone ==
    /\ netPc = "callback"
    /\ pc[Net] = "idle"
    /\ Goto("frames")
    /\ UNCHANGED <<stateVars, queueVars, timerVars, callVars, histVars,
                   writing, reading, crashed>>

\* A ping: pong tests the state under the lock and pushes after releasing it.
Ping ==
    /\ netPc = "frames"
    /\ m_connection_state_lock = None
    /\ m_state = "open"
    /\ pushed < MaxFrames
    /\ Goto("pong")
    /\ UNCHANGED <<stateVars, queueVars, timerVars, callVars, histVars,
                   writing, reading, crashed>>

Pong ==
    /\ netPc = "pong"
    /\ Push("pong", FALSE)
    /\ Goto("frames")
    /\ UNCHANGED <<stateVars, timerVars, callVars, histVars, writing, reading, crashed>>

\* A well-formed close frame: the peer's close, or its acknowledgement of
\* ours. m_state is read without the lock.
PeerCloses ==
    /\ netPc = "frames"
    /\ \/ m_state = "open" /\ Goto("ack") /\ UNCHANGED m_was_clean
       \/ /\ m_state = "closing" /\ ~m_was_clean
          /\ m_was_clean' = TRUE
          /\ Goto("acknowledged")
    /\ UNCHANGED <<m_state, m_internal_state, m_response, queueVars, timerVars, callVars,
                   histVars, writing, reading, crashed>>

\* A close frame with an invalid code or reason is acknowledged in any state
\* but closed.
PeerClosesBadly ==
    /\ netPc = "frames"
    /\ m_state \in {"open", "closing"}
    /\ pushed < MaxFrames
    /\ Goto("ack")
    /\ UNCHANGED <<stateVars, queueVars, timerVars, callVars, histVars,
                   writing, reading, crashed>>

\* Mutant for ClosingEnds: the acknowledgement is sent without a timer.
AckUntimed ==
    /\ netPc = "ack"
    /\ m_state' = "closing"
    /\ m_was_clean' = TRUE
    /\ Goto("ack_push")
    /\ UNCHANGED <<m_internal_state, m_response, queueVars, timerVars, callVars, histVars,
                   writing, reading, crashed>>

\* send_close_ack: send_close_frame without m_connection_state_lock.
Ack ==
    /\ netPc = "ack"
    /\ m_state' = "closing"
    /\ m_was_clean' = TRUE
    /\ SetTimer
    /\ Goto("ack_push")
    /\ UNCHANGED <<m_internal_state, m_response, queueVars, callVars, histVars,
                   writing, reading, crashed>>

AckPush ==
    /\ netPc = "ack_push"
    /\ Push("close", TRUE)
    /\ Goto("frames")
    /\ UNCHANGED <<stateVars, timerVars, callVars, histVars, writing, reading, crashed>>

\* Bytes that are no valid frame: close with a protocol error, or terminate if
\* close refuses.
ProtocolError ==
    /\ netPc = "frames"
    /\ m_connection_state_lock = None
    /\ IF m_state = "open"
       THEN /\ m_connection_state_lock' = Net
            /\ pc' = [pc EXCEPT ![Net] = "close_set"]
            /\ Goto("error")
       ELSE Goto("terminate") /\ UNCHANGED <<m_connection_state_lock, pc>>
    /\ UNCHANGED <<stateVars, queueVars, timerVars, calls, histVars,
                   writing, reading, crashed>>

----------------------------------------------------------------------------
CallBegins(t) == SendCheck(t) \/ CloseCheck(t)

\* The rest of a call under way.
CallStep(t) == SendPush(t) \/ CloseSet(t) \/ ClosePush(t)

\* A handler the network thread takes up.
HandlerBegins ==
    \/ Start \/ ReadRequest \/ ReadFailed \/ WroteResponse \/ ResponseFailed
    \/ TimerFires \/ WriteFrame \/ WroteFrames \/ WriteFailed \/ ReadFrames

\* The next frame of the bytes it read, or their end.
FrameRead ==
    \/ Message \/ Ping \/ PeerCloses \/ PeerClosesBadly \/ ProtocolError \/ ReadOn

\* The rest of a handler.
HandlerStep == Terminate \/ MessageDone \/ Pong \/ Ack \/ AckPush

Next ==
    /\ ~crashed
    /\ \/ \E t \in Threads : CallBegins(t) \/ CallStep(t) \/ TimerRace(t)
       \/ HandlerBegins \/ FrameRead \/ HandlerStep
       \/ TimerExpires

Spec == Init /\ [][Next]_vars

\* A thread goes on with a call or a handler it is in, and timers expire. The
\* io_service runs every task that is ready in turn, and the bytes of a read
\* come to an end, however busy the peer keeps the network thread. Nothing is
\* assumed of the peer: it may never send, read or answer.
FairSpec ==
    /\ Spec
    /\ \A t \in Threads : WF_vars(~crashed /\ CallStep(t))
    /\ WF_vars(~crashed /\ HandlerStep)
    /\ WF_vars(~crashed /\ TimerExpires)
    /\ SF_vars(~crashed /\ ReadOn)
    /\ SF_vars(~crashed /\ TimerFires)
    /\ SF_vars(~crashed /\ WriteFrame)

----------------------------------------------------------------------------
(* Properties.                                                             *)

StateTypes ==
    /\ m_state \in {"connecting", "open", "closing", "closed"}
    /\ m_internal_state \in {"USER_INIT", "READ_HTTP_REQUEST", "PROCESS_HTTP_REQUEST",
                             "PROCESS_CONNECTION"}
    /\ m_response \in {"none", "switching_protocols", "error"}
    /\ m_was_clean \in BOOLEAN
    /\ m_connection_state_lock \in Threads \cup {None}
QueueTypes ==
    /\ m_send_queue \in Seq(Frames)
    /\ m_current_msgs \in Seq(Frames)
    /\ m_write_flag \in BOOLEAN
    /\ posted \in Nat
    /\ pushed \in Nat
    /\ wire \in Seq(Frames)
TransportTypes ==
    /\ writing \in {"none", "response", "frames", "doomed"}
    /\ reading \in {"none", "handshake", "frames", "eof"}
    /\ timer \in {"none", "armed", "due"}
    /\ strays \in Nat
    /\ closeCalls \in Nat /\ failCalls \in Nat
ThreadTypes ==
    /\ netPc \in {"idle", "frames", "callback", "pong", "ack", "ack_push",
                  "acknowledged", "error", "terminate"}
    /\ pc \in [Threads -> {"idle", "send_push", "close_set", "close_push"}]
    /\ calls \in [Threads -> 0..MaxCalls]
    /\ crashed \in BOOLEAN

\* What handle_write_frame and the lock rely on: a write of frames has at least
\* one (m_current_msgs.back() is defined) and the flag set; the state lock is
\* held exactly inside close.
Held ==
    /\ writing \in {"frames", "doomed"} <=> m_current_msgs # <<>>
    /\ m_current_msgs # <<>> => m_write_flag
    /\ \A t \in Threads :
          m_connection_state_lock = t <=> pc[t] \in {"close_set", "close_push"}

\* Every variable has its type, and an outstanding write has its frames.
TypeOK == StateTypes /\ QueueTypes /\ TransportTypes /\ ThreadTypes /\ Held

\* Frames go out in the order they were pushed, each once; none is lost as long
\* as the connection is not being terminated.
InFlight == wire \o m_current_msgs \o m_send_queue
Ending == Shut \/ netPc = "terminate"
FramesInOrder ==
    /\ \A i, j \in DOMAIN InFlight : i < j => InFlight[i].n < InFlight[j].n
    /\ ~Ending => Len(InFlight) = pushed

\* A terminal frame is the last the peer gets: nothing pushed behind it, by a
\* send that had tested the state earlier or by a second close, is written.
NothingAfterTerminal ==
    \A i \in DOMAIN wire : wire[i].terminal => i = Len(wire)

\* No wake-up is lost: while the connection lives, frames in the queue have a
\* write_frame task on its way or a write whose end will look for them.
WriterAwake ==
    ~Ending =>
        /\ m_write_flag => writing = "frames"
        /\ m_send_queue # <<>> /\ ~m_write_flag => posted > 0

\* The frames of a write stay alive and unchanged until the transport is done
\* with them: it reads their bytes in place. (transport/base/connection.hpp:73:
\* only one async_write in flight.)
BuffersStable ==
    [][writing # "none" /\ writing' # "none" => m_current_msgs' = m_current_msgs]_vars

\* What WebsocketServer sees of the connection is a Session.
Connecting ==
    CASE m_internal_state = "USER_INIT" -> "none"
      [] m_internal_state = "READ_HTTP_REQUEST" -> "reading"
      [] OTHER -> IF m_response = "error" THEN "rejected" ELSE "accepted"
AbstractState ==
    CASE m_state = "connecting" -> Connecting
      [] m_state = "closed" -> IF m_internal_state = "PROCESS_CONNECTION" THEN "closed"
                                                                         ELSE "failed"
      [] OTHER -> m_state
Holder ==
    IF m_connection_state_lock # None /\ pc[m_connection_state_lock] = "close_set"
    THEN m_connection_state_lock ELSE None
S == INSTANCE Session WITH state <- AbstractState, holder <- Holder
SessionSpec == S!Spec

\* connection.hpp:62 and 70: the close handler is called once for a connection
\* that was opened, the fail handler once for one that was not, and never both.
HandlersOnce ==
    /\ closeCalls + failCalls <= 1
    /\ failCalls > 0 => m_internal_state # "PROCESS_CONNECTION"
    /\ closeCalls > 0 => m_internal_state = "PROCESS_CONNECTION"

\* connection.hpp:785: once close has returned successfully "no additional
\* messages may be sent": no data frame follows a close frame to the peer.
SilentAfterClose ==
    \A i, j \in DOMAIN wire : wire[i].op = "close" /\ wire[j].op = "data" => j < i

\* Without calls from an application thread, only from the message callback, the
\* lock is never needed and both promises are kept.
OnlyNetCalls == \A u \in Users : calls[u] = 0
PromisesAlone == OnlyNetCalls => HandlersOnce /\ SilentAfterClose

\* Under FairSpec: the opening handshake ends, whatever the peer does.
HandshakeEnds == m_internal_state = "READ_HTTP_REQUEST" ~> m_state # "connecting"

\* Under FairSpec: a closing connection gets closed, whatever the peer does.
ClosingEnds == m_state = "closing" ~> m_state = "closed" \/ crashed

\* Under FairSpec: if the transport's writes come to an end, every frame leaves
\* the queue for the wire, unless the connection ends.
FramesLeave ==
    []<>(writing # "frames") =>
        (m_current_msgs \o m_send_queue # <<>>
            ~> m_current_msgs \o m_send_queue = <<>> \/ Shut \/ crashed)
=============================================================================
