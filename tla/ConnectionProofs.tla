-------------------------- MODULE ConnectionProofs --------------------------
(***************************************************************************)
(* What holds of Connection for any number of threads, calls and frames.   *)
(***************************************************************************)
EXTENDS Connection, TLAPS, SequenceTheorems, WellFoundedInduction

\* What each phase of the connection rules out: no handler of frames, no call
\* and no frame before it opened, no timer before it started.
Phases ==
    /\ m_internal_state = "USER_INIT" =>
          /\ m_state = "connecting" /\ netPc = "idle"
          /\ reading = "none" /\ writing = "none" /\ timer = "none" /\ strays = 0
    /\ m_internal_state # "PROCESS_CONNECTION" =>
          /\ m_state \in {"connecting", "closed"}
          /\ netPc \in {"idle", "terminate"}
          /\ \A t \in Threads : pc[t] = "idle"
          /\ m_send_queue = <<>> /\ ~m_write_flag
    /\ m_internal_state = "PROCESS_CONNECTION" => m_state # "connecting"
    /\ reading = "handshake" => m_internal_state = "READ_HTTP_REQUEST"
    /\ reading = "frames" => m_internal_state = "PROCESS_CONNECTION"
    /\ writing = "response" => m_internal_state = "PROCESS_HTTP_REQUEST"
    /\ netPc = "ack" => m_state \in {"open", "closing"}
    /\ m_state = "closed" => Shut

\* How the current messages and the written ones contain terminal frames: one
\* that was written keeps the write flag up for good.
OneTerminal ==
    /\ \A i \in DOMAIN m_current_msgs :
          m_current_msgs[i].terminal => i = Len(m_current_msgs)
    /\ \A i \in DOMAIN wire : wire[i].terminal => m_current_msgs = <<>> /\ m_write_flag

\* The inductive invariant the other proofs build on.
CInv == TypeOK /\ Phases /\ WriterAwake

----------------------------------------------------------------------------
(* The queue and the frames of a write.                                    *)

\* A push appends one frame and leaves the write under way alone.
LEMMA PushStep ==
    ASSUME QueueTypes, NEW op \in {"data", "pong", "close"}, NEW terminal \in BOOLEAN,
           Push(op, terminal)
    PROVE  /\ QueueTypes'
           /\ UNCHANGED <<m_current_msgs, m_write_flag, wire>>
           /\ m_send_queue' = Append(m_send_queue, Frame(op, terminal))
           /\ m_send_queue' # <<>>
           /\ posted' >= posted
           /\ ~m_write_flag => posted' > 0
<1>1. Frame(op, terminal) \in Frames
  BY DEF Frame, Frames, QueueTypes
<1>2. m_send_queue' = Append(m_send_queue, Frame(op, terminal))
  BY DEF Push
<1>3. m_send_queue' \in Seq(Frames) /\ m_send_queue' # <<>>
  BY <1>1, <1>2, AppendProperties DEF QueueTypes
<1> QED
  BY <1>2, <1>3 DEF Push, QueueTypes

\* A set of numbers that is not empty has a least one.
LEMMA SmallestNat == ASSUME NEW T, T \subseteq Nat, T # {} PROVE \E i \in T : \A j \in T : i <= j
<1> DEFINE Less == {ss \in Nat \X Nat : ss[1] < ss[2]}
<1>1. IsWellFoundedOn(Less, Nat)
  BY NatLessThanWellFounded DEF OpToRel
<1>2. \A i, j \in Nat : j < i => <<j, i>> \in Less
  OBVIOUS
<1> HIDE DEF Less
<1>3. PICK i \in T : \A j \in T : ~(<<j, i>> \in Less)
  BY <1>1, WFMin
<1>4. ASSUME NEW j \in T PROVE i <= j
  <2>1. i \in Nat /\ j \in Nat
    OBVIOUS
  <2>2. ~(j < i)
    BY <1>2, <1>3, <2>1
  <2> QED
    BY <2>1, <2>2
<1> QED
  BY <1>4

\* A write takes at least one frame, and no more than are queued; a terminal
\* one is the last it takes.
LEMMA TakeLenProperties ==
    ASSUME NEW q \in Seq(Frames), q # <<>>
    PROVE  /\ TakeLen(q) \in 1..Len(q)
           /\ \A i \in 1..TakeLen(q) : q[i].terminal => i = TakeLen(q)
<1>1. Len(q) \in Nat \ {0} /\ DOMAIN q = 1..Len(q)
  BY EmptySeq, LenProperties
<1>2. \A i \in 1..Len(q) : q[i].terminal => i \in Terminals(q)
  BY <1>1 DEF Terminals
<1>3. CASE Terminals(q) = {}
  <2>1. TakeLen(q) = Len(q)
    BY <1>3 DEF TakeLen
  <2>2. \A i \in 1..Len(q) : ~q[i].terminal
    BY <1>2, <1>3
  <2>3. TakeLen(q) \in 1..Len(q)
    BY <1>1, <2>1
  <2>4. \A i \in 1..TakeLen(q) : ~q[i].terminal
    BY <2>1, <2>2
  <2> QED
    BY <2>3, <2>4
<1>4. CASE Terminals(q) # {}
  <2>1. \E i \in Terminals(q) : \A j \in Terminals(q) : i <= j
    <3>1. Terminals(q) \subseteq Nat
      BY <1>1 DEF Terminals
    <3> QED
      BY <1>4, <3>1, SmallestNat
  <2>2. TakeLen(q) \in Terminals(q) /\ \A j \in Terminals(q) : TakeLen(q) <= j
    BY <1>4, <2>1 DEF TakeLen
  <2>3. Terminals(q) \subseteq 1..Len(q)
    BY <1>1 DEF Terminals
  <2> QED
    BY <1>2, <1>1, <2>2, <2>3
<1> QED
  BY <1>3, <1>4

\* What a write_frame task that finds frames to write does to the queue.
LEMMA WriteStep ==
    ASSUME QueueTypes, WriteFrame, ~m_write_flag, m_send_queue # <<>>
    PROVE  LET k == TakeLen(m_send_queue) IN
           /\ k \in 1..Len(m_send_queue)
           /\ SubSeq(m_send_queue, 1, k) \in Seq(Frames)
           /\ Len(SubSeq(m_send_queue, 1, k)) = k
           /\ \A i \in 1..k : SubSeq(m_send_queue, 1, k)[i] = m_send_queue[i]
           /\ m_current_msgs' = m_current_msgs \o SubSeq(m_send_queue, 1, k)
           /\ m_current_msgs' \in Seq(Frames) /\ m_current_msgs' # <<>>
           /\ m_send_queue' = SubSeq(m_send_queue, k + 1, Len(m_send_queue))
           /\ m_send_queue' \in Seq(Frames)
           /\ m_write_flag' = TRUE
           /\ writing' \in {"frames", "doomed"} /\ (~Shut => writing' = "frames")
<1> DEFINE k == TakeLen(m_send_queue)
<1> DEFINE q == m_send_queue
<1>1. q \in Seq(Frames) /\ k \in 1..Len(q) /\ Len(q) \in Nat
  BY TakeLenProperties, LenProperties DEF QueueTypes
<1>2. /\ m_current_msgs' = m_current_msgs \o SubSeq(q, 1, k)
      /\ q' = SubSeq(q, k + 1, Len(q))
      /\ m_write_flag' = TRUE
      /\ writing' \in {"frames", "doomed"} /\ (~Shut => writing' = "frames")
  BY DEF WriteFrame
<1> HIDE DEF k, q
<1>3. \A i \in 1..Len(q) : q[i] \in Frames
  BY <1>1, ElementOfSeq
<1>4. /\ SubSeq(q, 1, k) \in Seq(Frames) /\ Len(SubSeq(q, 1, k)) = k
      /\ \A i \in 1..k : SubSeq(q, 1, k)[i] = q[i]
  <2>1. \A i \in 1..k : q[i] \in Frames
    BY <1>1, <1>3
  <2>2. k \in Int /\ 1 <= k
    BY <1>1
  <2> QED
    BY <2>1, <2>2, SubSeqProperties
<1>5. SubSeq(q, k + 1, Len(q)) \in Seq(Frames)
  <2>1. \A i \in (k + 1)..Len(q) : q[i] \in Frames
    BY <1>1, <1>3
  <2>2. k + 1 \in Int /\ Len(q) \in Int
    BY <1>1
  <2> QED
    BY <2>1, <2>2, SubSeqProperties
<1>6. m_current_msgs' \in Seq(Frames) /\ m_current_msgs' # <<>>
  <2>1. SubSeq(q, 1, k) # <<>>
    BY <1>1, <1>4, EmptySeq
  <2> QED
    BY <1>2, <1>4, <2>1, ConcatProperties, ConcatEqualIffEmpty DEF QueueTypes
<1> QED
  BY <1>1, <1>2, <1>4, <1>5, <1>6 DEF k, q

\* The variables other than the queue keep their types.
LEMMA StateStep == ASSUME CInv, Next PROVE (StateTypes /\ TransportTypes /\ ThreadTypes)'
<1> USE ConstantsAssumption DEF CInv, TypeOK, StateTypes, TransportTypes, ThreadTypes, Goto,
      stateVars, queueVars, timerVars, callVars, histVars
<1>1. ASSUME NEW t \in Threads, CallBegins(t) \/ CallStep(t) \/ TimerRace(t)
      PROVE  (StateTypes /\ TransportTypes /\ ThreadTypes)'
  <2>1. CASE SendCheck(t)
    BY <2>1 DEF SendCheck, MayCall
  <2>2. CASE CloseCheck(t)
    BY <2>2 DEF CloseCheck, MayCall
  <2>3. CASE SendPush(t)
    BY <2>3 DEF SendPush, Push
  <2>4. CASE CloseSet(t)
    BY <2>4 DEF CloseSet, SetTimer
  <2>5. CASE ClosePush(t)
    BY <2>5 DEF ClosePush, Push
  <2>6. CASE TimerRace(t)
    BY <2>6 DEF TimerRace
  <2> QED
    BY <1>1, <2>1, <2>2, <2>3, <2>4, <2>5, <2>6 DEF CallBegins, CallStep
<1>2. CASE Start
  BY <1>2 DEF Start, SetTimer
<1>3. CASE ReadRequest
  BY <1>3 DEF ReadRequest
<1>4. CASE ReadFailed
  BY <1>4 DEF ReadFailed
<1>5. CASE WroteResponse
  BY <1>5 DEF WroteResponse, CancelTimer
<1>6. CASE ResponseFailed
  BY <1>6 DEF ResponseFailed
<1>7. CASE TimerFires
  BY <1>7 DEF TimerFires
<1>8. CASE WriteFrame
  BY <1>8 DEF WriteFrame
<1>9. CASE WroteFrames
  BY <1>9 DEF WroteFrames, Release
<1>10. CASE WriteFailed
  BY <1>10 DEF WriteFailed
<1>11. CASE ReadFrames
  BY <1>11 DEF ReadFrames
<1>12. CASE Message
  BY <1>12 DEF Message
<1>13. CASE Ping
  BY <1>13 DEF Ping
<1>14. CASE PeerCloses
  <2>1. m_was_clean' \in BOOLEAN
    BY <1>14 DEF PeerCloses
  <2>2. netPc' \in {"ack", "acknowledged"}
    BY <1>14 DEF PeerCloses
  <2> QED
    BY <1>14, <2>1, <2>2 DEF PeerCloses
<1>15. CASE PeerClosesBadly
  BY <1>15 DEF PeerClosesBadly
<1>16. CASE ProtocolError
  BY <1>16 DEF ProtocolError, Threads
<1>17. CASE ReadOn
  BY <1>17 DEF ReadOn
<1>18. CASE Terminate
  BY <1>18 DEF Terminate, CancelTimer
<1>19. CASE MessageDone
  BY <1>19 DEF MessageDone
<1>20. CASE Pong
  BY <1>20 DEF Pong, Push
<1>21. CASE Ack
  BY <1>21 DEF Ack, SetTimer
<1>22. CASE AckPush
  BY <1>22 DEF AckPush, Push
<1>23. CASE TimerExpires
  BY <1>23 DEF TimerExpires
<1> QED
  BY <1>1, <1>2, <1>3, <1>4, <1>5, <1>6, <1>7, <1>8, <1>9, <1>10, <1>11, <1>12, <1>13, <1>14,
     <1>15, <1>16, <1>17, <1>18, <1>19, <1>20, <1>21, <1>22, <1>23
     DEF Next, HandlerBegins, FrameRead, HandlerStep

\* Every step keeps to what its phase allows.
LEMMA PhasesStep == ASSUME CInv, Next PROVE Phases'
<1> USE ConstantsAssumption DEF CInv, TypeOK, StateTypes, TransportTypes, ThreadTypes, Held,
      Phases, Shut, Goto, stateVars, queueVars, timerVars, callVars, histVars
<1>1. ASSUME NEW t \in Threads, CallBegins(t) \/ CallStep(t) \/ TimerRace(t)
      PROVE  Phases'
  <2>1. CASE SendCheck(t)
    BY <2>1 DEF SendCheck, MayCall
  <2>2. CASE CloseCheck(t)
    BY <2>2 DEF CloseCheck, MayCall
  <2>3. CASE SendPush(t)
    BY <2>3 DEF SendPush, Push
  <2>4. CASE CloseSet(t)
    BY <2>4 DEF CloseSet, SetTimer
  <2>5. CASE ClosePush(t)
    BY <2>5 DEF ClosePush, Push
  <2>6. CASE TimerRace(t)
    BY <2>6 DEF TimerRace
  <2> QED
    BY <1>1, <2>1, <2>2, <2>3, <2>4, <2>5, <2>6 DEF CallBegins, CallStep
<1>2. CASE Start
  BY <1>2 DEF Start, SetTimer
<1>3. CASE ReadRequest
  BY <1>3 DEF ReadRequest
<1>4. CASE ReadFailed
  BY <1>4 DEF ReadFailed
<1>5. CASE WroteResponse
  BY <1>5 DEF WroteResponse, CancelTimer
<1>6. CASE ResponseFailed
  BY <1>6 DEF ResponseFailed
<1>7. CASE TimerFires
  BY <1>7 DEF TimerFires
<1>8. CASE WriteFrame
  BY <1>8 DEF WriteFrame
<1>9. CASE WroteFrames
  BY <1>9 DEF WroteFrames, Release
<1>10. CASE WriteFailed
  BY <1>10 DEF WriteFailed
<1>11. CASE ReadFrames
  BY <1>11 DEF ReadFrames
<1>12. CASE Message
  BY <1>12 DEF Message
<1>13. CASE Ping
  BY <1>13 DEF Ping
<1>14. CASE PeerCloses
  BY <1>14 DEF PeerCloses
<1>15. CASE PeerClosesBadly
  BY <1>15 DEF PeerClosesBadly
<1>16. CASE ProtocolError
  BY <1>16 DEF ProtocolError
<1>17. CASE ReadOn
  BY <1>17 DEF ReadOn
<1>18. CASE Terminate
  BY <1>18 DEF Terminate, CancelTimer
<1>19. CASE MessageDone
  BY <1>19 DEF MessageDone
<1>20. CASE Pong
  BY <1>20 DEF Pong, Push
<1>21. CASE Ack
  BY <1>21 DEF Ack, SetTimer
<1>22. CASE AckPush
  BY <1>22 DEF AckPush, Push
<1>23. CASE TimerExpires
  BY <1>23 DEF TimerExpires
<1> QED
  BY <1>1, <1>2, <1>3, <1>4, <1>5, <1>6, <1>7, <1>8, <1>9, <1>10, <1>11, <1>12, <1>13, <1>14,
     <1>15, <1>16, <1>17, <1>18, <1>19, <1>20, <1>21, <1>22, <1>23
     DEF Next, HandlerBegins, FrameRead, HandlerStep

\* No step loses the wake-up of the writer.
LEMMA AwakeStep == ASSUME CInv, Next PROVE WriterAwake'
<1> USE ConstantsAssumption DEF CInv, TypeOK, StateTypes, TransportTypes, Held, Phases,
      WriterAwake, Ending, Shut, Goto, stateVars, queueVars, timerVars, callVars, histVars
<1>1. ASSUME NEW t \in Threads, CallBegins(t) \/ CallStep(t) \/ TimerRace(t)
      PROVE  WriterAwake'
  <2>1. CASE SendCheck(t)
    BY <2>1 DEF SendCheck, MayCall
  <2>2. CASE CloseCheck(t)
    BY <2>2 DEF CloseCheck, MayCall
  <2>3. CASE SendPush(t)
    <3>1. Push("data", FALSE)
      BY <2>3 DEF SendPush
    <3> QED
      BY <2>3, <3>1, PushStep DEF SendPush
  <2>4. CASE CloseSet(t)
    BY <2>4 DEF CloseSet, SetTimer
  <2>5. CASE ClosePush(t)
    <3>1. PICK terminal \in BOOLEAN : Push("close", terminal)
      BY <2>5 DEF ClosePush
    <3> QED
      BY <2>5, <3>1, PushStep DEF ClosePush
  <2>6. CASE TimerRace(t)
    BY <2>6 DEF TimerRace
  <2> QED
    BY <1>1, <2>1, <2>2, <2>3, <2>4, <2>5, <2>6 DEF CallBegins, CallStep
<1>2. CASE Start
  BY <1>2 DEF Start, SetTimer
<1>3. CASE ReadRequest
  BY <1>3 DEF ReadRequest
<1>4. CASE ReadFailed
  BY <1>4 DEF ReadFailed
<1>5. CASE WroteResponse
  BY <1>5 DEF WroteResponse, CancelTimer
<1>6. CASE ResponseFailed
  BY <1>6 DEF ResponseFailed
<1>7. CASE TimerFires
  BY <1>7 DEF TimerFires
<1>8. CASE WriteFrame
  BY <1>8 DEF WriteFrame
<1>9. CASE WroteFrames
  <2>1. CASE LastTerminal
    BY <1>9, <2>1 DEF WroteFrames
  <2>2. CASE ~LastTerminal
    BY <1>9, <2>2 DEF WroteFrames, Release, QueueTypes
  <2> QED
    BY <2>1, <2>2
<1>10. CASE WriteFailed
  BY <1>10 DEF WriteFailed
<1>11. CASE ReadFrames
  BY <1>11 DEF ReadFrames
<1>12. CASE Message
  BY <1>12 DEF Message
<1>13. CASE Ping
  BY <1>13 DEF Ping
<1>14. CASE PeerCloses
  BY <1>14 DEF PeerCloses
<1>15. CASE PeerClosesBadly
  BY <1>15 DEF PeerClosesBadly
<1>16. CASE ProtocolError
  BY <1>16 DEF ProtocolError
<1>17. CASE ReadOn
  BY <1>17 DEF ReadOn
<1>18. CASE Terminate
  BY <1>18 DEF Terminate, CancelTimer
<1>19. CASE MessageDone
  BY <1>19 DEF MessageDone
<1>20. CASE Pong
  <2>1. Push("pong", FALSE)
    BY <1>20 DEF Pong
  <2> QED
    BY <1>20, <2>1, PushStep DEF Pong
<1>21. CASE Ack
  BY <1>21 DEF Ack, SetTimer
<1>22. CASE AckPush
  <2>1. Push("close", TRUE)
    BY <1>22 DEF AckPush
  <2> QED
    BY <1>22, <2>1, PushStep DEF AckPush
<1>23. CASE TimerExpires
  BY <1>23 DEF TimerExpires
<1> QED
  BY <1>1, <1>2, <1>3, <1>4, <1>5, <1>6, <1>7, <1>8, <1>9, <1>10, <1>11, <1>12, <1>13, <1>14,
     <1>15, <1>16, <1>17, <1>18, <1>19, <1>20, <1>21, <1>22, <1>23
     DEF Next, HandlerBegins, FrameRead, HandlerStep

\* The queue keeps its type, and a write its frames and the flag.
LEMMA QueueStep == ASSUME CInv, Next PROVE QueueTypes' /\ Held'
<1> USE ConstantsAssumption DEF CInv, TypeOK, StateTypes, ThreadTypes, Held, Phases, Goto,
      stateVars, queueVars, timerVars, callVars, histVars
<1>1. ASSUME NEW t \in Threads, CallBegins(t) \/ CallStep(t) \/ TimerRace(t)
      PROVE  QueueTypes' /\ Held'
  <2>1. CASE SendCheck(t)
    BY <2>1 DEF SendCheck, MayCall, QueueTypes
  <2>2. CASE CloseCheck(t)
    BY <2>2 DEF CloseCheck, MayCall, QueueTypes, Threads
  <2>3. CASE SendPush(t)
    <3>1. Push("data", FALSE)
      BY <2>3 DEF SendPush
    <3> QED
      BY <2>3, <3>1, PushStep DEF SendPush
  <2>4. CASE CloseSet(t)
    BY <2>4 DEF CloseSet, SetTimer, QueueTypes
  <2>5. CASE ClosePush(t)
    <3>1. PICK terminal \in BOOLEAN : Push("close", terminal)
      BY <2>5 DEF ClosePush
    <3>2. QueueTypes' /\ UNCHANGED <<m_current_msgs, m_write_flag, wire>>
      BY <3>1, PushStep
    <3> QED
      BY <2>5, <3>2 DEF ClosePush, Threads
  <2>6. CASE TimerRace(t)
    BY <2>6 DEF TimerRace, QueueTypes
  <2> QED
    BY <1>1, <2>1, <2>2, <2>3, <2>4, <2>5, <2>6 DEF CallBegins, CallStep
<1>2. CASE Start
  BY <1>2 DEF Start, SetTimer, QueueTypes
<1>3. CASE ReadRequest
  BY <1>3 DEF ReadRequest, QueueTypes
<1>4. CASE ReadFailed
  BY <1>4 DEF ReadFailed, QueueTypes
<1>5. CASE WroteResponse
  BY <1>5 DEF WroteResponse, CancelTimer, QueueTypes
<1>6. CASE ResponseFailed
  BY <1>6 DEF ResponseFailed, QueueTypes
<1>7. CASE TimerFires
  BY <1>7 DEF TimerFires, QueueTypes
<1>8. CASE WriteFrame
  <2>1. CASE m_write_flag \/ m_send_queue = <<>>
    BY <1>8, <2>1 DEF WriteFrame, QueueTypes
  <2>2. CASE ~m_write_flag /\ m_send_queue # <<>>
    <3>1. /\ m_current_msgs' \in Seq(Frames) /\ m_current_msgs' # <<>>
          /\ m_send_queue' \in Seq(Frames)
          /\ m_write_flag' = TRUE /\ writing' \in {"frames", "doomed"}
      BY <1>8, <2>2, WriteStep
    <3> QED
      BY <1>8, <3>1 DEF WriteFrame, QueueTypes
  <2> QED
    BY <2>1, <2>2
<1>9. CASE WroteFrames
  <2>1. wire' \in Seq(Frames) /\ m_current_msgs' \in Seq(Frames)
    BY <1>9, ConcatProperties, EmptySeq DEF WroteFrames, QueueTypes
  <2>2. \/ UNCHANGED <<m_write_flag, posted>>
        \/ m_write_flag' = FALSE /\ posted' \in {posted, posted + 1}
    <3>1. CASE LastTerminal
      BY <1>9, <3>1 DEF WroteFrames
    <3>2. CASE ~LastTerminal
      BY <1>9, <3>2 DEF WroteFrames, Release
    <3> QED
      BY <3>1, <3>2
  <2>3. m_write_flag' \in BOOLEAN
    BY <2>2 DEF QueueTypes
  <2>4. posted' \in Nat
    BY <2>2 DEF QueueTypes
  <2> QED
    BY <1>9, <2>1, <2>3, <2>4 DEF WroteFrames, QueueTypes
<1>10. CASE WriteFailed
  BY <1>10, EmptySeq DEF WriteFailed, QueueTypes
<1>11. CASE ReadFrames
  BY <1>11 DEF ReadFrames, QueueTypes
<1>12. CASE Message
  BY <1>12 DEF Message, QueueTypes
<1>13. CASE Ping
  BY <1>13 DEF Ping, QueueTypes
<1>14. CASE PeerCloses
  BY <1>14 DEF PeerCloses, QueueTypes
<1>15. CASE PeerClosesBadly
  BY <1>15 DEF PeerClosesBadly, QueueTypes
<1>16. CASE ProtocolError
  BY <1>16 DEF ProtocolError, QueueTypes, Threads
<1>17. CASE ReadOn
  BY <1>17 DEF ReadOn, QueueTypes
<1>18. CASE Terminate
  BY <1>18 DEF Terminate, CancelTimer, QueueTypes
<1>19. CASE MessageDone
  BY <1>19 DEF MessageDone, QueueTypes
<1>20. CASE Pong
  <2>1. Push("pong", FALSE)
    BY <1>20 DEF Pong
  <2> QED
    BY <1>20, <2>1, PushStep DEF Pong
<1>21. CASE Ack
  BY <1>21 DEF Ack, SetTimer, QueueTypes
<1>22. CASE AckPush
  <2>1. Push("close", TRUE)
    BY <1>22 DEF AckPush
  <2> QED
    BY <1>22, <2>1, PushStep DEF AckPush
<1>23. CASE TimerExpires
  BY <1>23 DEF TimerExpires, QueueTypes
<1> QED
  BY <1>1, <1>2, <1>3, <1>4, <1>5, <1>6, <1>7, <1>8, <1>9, <1>10, <1>11, <1>12, <1>13, <1>14,
     <1>15, <1>16, <1>17, <1>18, <1>19, <1>20, <1>21, <1>22, <1>23
     DEF Next, HandlerBegins, FrameRead, HandlerStep

\* The invariant holds initially.
LEMMA InitCInv == Init => CInv
<1> SUFFICES ASSUME Init PROVE CInv
  OBVIOUS
<1> USE ConstantsAssumption DEF ConstantsAssumption, Init
<1>1. StateTypes /\ TransportTypes
  BY DEF StateTypes, TransportTypes
<1>2. calls \in [Threads -> 0..MaxCalls]
  BY 0 \in 0..MaxCalls
<1>3. ThreadTypes
  BY <1>2 DEF ThreadTypes
<1>4. QueueTypes
  BY EmptySeq DEF QueueTypes
<1>5. Held
  BY DEF Held, Threads
<1>6. Phases /\ WriterAwake
  BY DEF Phases, Shut, WriterAwake
<1> QED
  BY <1>1, <1>4, <1>5, <1>6, <1>3 DEF CInv, TypeOK

\* Every step keeps the invariant.
LEMMA NextCInv == ASSUME CInv, [Next]_vars PROVE CInv'
<1>1. CASE Next
  BY <1>1, StateStep, QueueStep, PhasesStep, AwakeStep DEF CInv, TypeOK
<1>2. CASE UNCHANGED vars
  BY <1>2 DEF vars, stateVars, queueVars, timerVars, callVars, histVars, CInv, TypeOK,
     StateTypes, QueueTypes, TransportTypes, ThreadTypes, Held, Phases, WriterAwake,
     Ending, Shut
<1> QED
  BY <1>1, <1>2

\* The invariant holds throughout.
LEMMA Invariance == Spec => []CInv
  BY InitCInv, NextCInv, PTL DEF Spec

\* Every variable keeps its type, and every write of frames has frames.
THEOREM ConnectionTypeCorrect == Spec => []TypeOK
<1>1. CInv => TypeOK
  BY DEF CInv
<1> QED
  BY <1>1, Invariance, PTL

\* The writer is never asleep over frames that wait.
THEOREM WriterAwakeCorrect == Spec => []WriterAwake
<1>1. CInv => WriterAwake
  BY DEF CInv
<1> QED
  BY <1>1, Invariance, PTL

----------------------------------------------------------------------------
(* What the transport and WebsocketServer rely on.                         *)

\* No step changes the frames of a write under way: a task that finds frames to
\* take finds the flag down, hence no write of frames, and no response, since
\* the connection is open.
THEOREM BuffersStableCorrect == Spec => BuffersStable
<1>1. ASSUME CInv, [Next]_vars, writing # "none", writing' # "none"
      PROVE  m_current_msgs' = m_current_msgs
  <2> USE <1>1 DEF CInv, TypeOK, TransportTypes, Held, Phases, stateVars, queueVars, timerVars,
        callVars, histVars
  <2>1. ASSUME NEW t \in Threads, CallBegins(t) \/ CallStep(t) \/ TimerRace(t)
        PROVE  m_current_msgs' = m_current_msgs
    BY <2>1 DEF CallBegins, CallStep, SendCheck, CloseCheck, SendPush, CloseSet, ClosePush,
       TimerRace, Push
  <2>2. CASE WriteFrame
    BY <2>2 DEF WriteFrame
  <2>3. CASE HandlerBegins /\ ~WriteFrame
    BY <2>3 DEF HandlerBegins, Start, ReadRequest, ReadFailed, WroteResponse, ResponseFailed,
       TimerFires, WroteFrames, WriteFailed, ReadFrames
  <2>4. CASE FrameRead \/ TimerExpires
    BY <2>4 DEF FrameRead, Message, Ping, PeerCloses, PeerClosesBadly, ProtocolError, ReadOn,
       TimerExpires
  <2>5. CASE HandlerStep
    BY <2>5 DEF HandlerStep, Terminate, MessageDone, Pong, Ack, AckPush, Push
  <2>6. CASE UNCHANGED vars
    BY <2>6 DEF vars
  <2> QED
    BY <2>1, <2>2, <2>3, <2>4, <2>5, <2>6 DEF Next
<1> QED
  BY <1>1, Invariance, PTL DEF Spec, BuffersStable

\* Every step is a step of Session or changes nothing of it.
LEMMA SessionStep == ASSUME CInv, Next PROVE [S!Next]_(S!vars)
<1> USE ConstantsAssumption DEF CInv, TypeOK, StateTypes, ThreadTypes, Held, Phases, Goto,
      AbstractState, Connecting, Holder, S!vars, stateVars, queueVars, timerVars, callVars, histVars
<1>1. ASSUME NEW t \in Threads, CallBegins(t) \/ CallStep(t) \/ TimerRace(t)
      PROVE  [S!Next]_(S!vars)
  <2>1. CASE SendCheck(t)
    BY <2>1 DEF SendCheck, MayCall
  <2>2. CASE CloseCheck(t)
    BY <2>2 DEF CloseCheck, MayCall, S!Next, S!CloseCheck
  <2>3. CASE SendPush(t)
    BY <2>3 DEF SendPush, Push
  <2>4. CASE CloseSet(t)
    BY <2>4 DEF CloseSet, SetTimer, S!Next, S!CloseSet
  <2>5. CASE ClosePush(t)
    BY <2>5 DEF ClosePush, Push
  <2>6. CASE TimerRace(t)
    BY <2>6 DEF TimerRace
  <2> QED
    BY <1>1, <2>1, <2>2, <2>3, <2>4, <2>5, <2>6 DEF CallBegins, CallStep
<1>2. CASE Start
  BY <1>2 DEF Start, SetTimer, S!Next, S!Step, S!Accept
<1>3. CASE ReadRequest
  BY <1>3 DEF ReadRequest, S!Next, S!Step, S!Respond
<1>4. CASE ReadFailed
  BY <1>4 DEF ReadFailed
<1>5. CASE WroteResponse
  BY <1>5 DEF WroteResponse, CancelTimer, S!Next, S!Step, S!Open
<1>6. CASE ResponseFailed
  BY <1>6 DEF ResponseFailed
<1>7. CASE TimerFires
  BY <1>7 DEF TimerFires
<1>8. CASE WriteFrame
  BY <1>8 DEF WriteFrame
<1>9. CASE WroteFrames
  BY <1>9 DEF WroteFrames, Release
<1>10. CASE WriteFailed
  BY <1>10 DEF WriteFailed
<1>11. CASE ReadFrames
  BY <1>11 DEF ReadFrames
<1>12. CASE Message
  BY <1>12 DEF Message
<1>13. CASE Ping
  BY <1>13 DEF Ping
<1>14. CASE PeerCloses
  BY <1>14 DEF PeerCloses
<1>15. CASE PeerClosesBadly
  BY <1>15 DEF PeerClosesBadly
<1>16. CASE ProtocolError
  BY <1>16 DEF ProtocolError, S!Next, S!CloseCheck, Threads
<1>17. CASE ReadOn
  BY <1>17 DEF ReadOn
<1>18. CASE Terminate
  BY <1>18 DEF Terminate, CancelTimer, S!Next, S!Step, S!Fail, S!Terminate
<1>19. CASE MessageDone
  BY <1>19 DEF MessageDone
<1>20. CASE Pong
  BY <1>20 DEF Pong, Push
<1>21. CASE Ack
  BY <1>21 DEF Ack, SetTimer, S!Next, S!Step, S!PeerClose
<1>22. CASE AckPush
  BY <1>22 DEF AckPush, Push
<1>23. CASE TimerExpires
  BY <1>23 DEF TimerExpires
<1> QED
  BY <1>1, <1>2, <1>3, <1>4, <1>5, <1>6, <1>7, <1>8, <1>9, <1>10, <1>11, <1>12, <1>13, <1>14,
     <1>15, <1>16, <1>17, <1>18, <1>19, <1>20, <1>21, <1>22, <1>23
     DEF Next, HandlerBegins, FrameRead, HandlerStep

\* The connection implements Session, the view WebsocketServer has of it,
\* however calls, timers, the peer and the transport interleave.
THEOREM SessionCorrect == Spec => SessionSpec
<1>1. Init => S!Init
  BY DEF Init, S!Init, AbstractState, Connecting, Holder
<1>2. CInv /\ [Next]_vars => [S!Next]_(S!vars)
  <2>1. CASE UNCHANGED vars
    BY <2>1 DEF vars, stateVars, callVars, S!vars, AbstractState, Connecting, Holder
  <2> QED
    BY <2>1, SessionStep
<1> QED
  BY <1>1, <1>2, Invariance, PTL DEF Spec, SessionSpec, S!Spec

----------------------------------------------------------------------------
(* Frames: their order, and what follows a terminal one.                   *)

\* What a step can do to the frames: nothing, one push, or one of the three
\* steps of a write.
LEMMA FrameSteps ==
    ASSUME CInv, Next
    PROVE  \/ UNCHANGED <<m_send_queue, m_current_msgs, m_write_flag, wire, pushed>>
           \/ \E op \in {"data", "pong", "close"}, terminal \in BOOLEAN : Push(op, terminal)
           \/ WriteFrame /\ ~m_write_flag /\ m_send_queue # <<>>
           \/ WroteFrames
           \/ WriteFailed
<1> USE DEF stateVars, queueVars, timerVars, callVars, histVars
<1>1. ASSUME NEW t \in Threads, CallBegins(t) \/ CallStep(t) \/ TimerRace(t)
      PROVE  \/ UNCHANGED <<m_send_queue, m_current_msgs, m_write_flag, wire, pushed>>
             \/ \E op \in {"data", "pong", "close"}, terminal \in BOOLEAN : Push(op, terminal)
  <2>1. CASE SendPush(t)
    BY <2>1 DEF SendPush
  <2>2. CASE ClosePush(t)
    BY <2>2 DEF ClosePush
  <2>3. CASE CallBegins(t) \/ CloseSet(t) \/ TimerRace(t)
    BY <2>3 DEF CallBegins, SendCheck, CloseCheck, CloseSet, TimerRace
  <2> QED
    BY <1>1, <2>1, <2>2, <2>3 DEF CallStep
<1>2. CASE Pong \/ AckPush
  BY <1>2 DEF Pong, AckPush
<1>3. CASE WriteFrame
  BY <1>3 DEF WriteFrame
<1>4. CASE HandlerBegins /\ ~WriteFrame /\ ~WroteFrames /\ ~WriteFailed
  BY <1>4 DEF HandlerBegins, Start, ReadRequest, ReadFailed, WroteResponse, ResponseFailed,
     TimerFires, ReadFrames
<1>5. CASE FrameRead \/ TimerExpires
  BY <1>5 DEF FrameRead, Message, Ping, PeerCloses, PeerClosesBadly, ProtocolError, ReadOn,
     TimerExpires
<1>6. CASE HandlerStep /\ ~Pong /\ ~AckPush
  BY <1>6 DEF HandlerStep, Terminate, MessageDone, Ack
<1> QED
  BY <1>1, <1>2, <1>3, <1>4, <1>5, <1>6 DEF Next

\* The end of a write leaves the flag up exactly if its last frame is terminal.
LEMMA WroteStep ==
    ASSUME CInv, WroteFrames
    PROVE  /\ wire' = wire \o m_current_msgs /\ m_current_msgs' = <<>>
           /\ m_current_msgs # <<>> /\ m_write_flag
           /\ LastTerminal => m_write_flag' = m_write_flag
           /\ UNCHANGED <<m_send_queue, pushed>>
<1>1. wire' = wire \o m_current_msgs /\ m_current_msgs' = <<>> /\ UNCHANGED <<m_send_queue, pushed>>
  BY DEF WroteFrames
<1>2. m_current_msgs # <<>> /\ m_write_flag
  BY DEF WroteFrames, CInv, TypeOK, Held
<1>3. LastTerminal => m_write_flag' = m_write_flag
  BY DEF WroteFrames
<1> QED
  BY <1>1, <1>2, <1>3

\* NothingAfterTerminal, made inductive.
TInv == CInv /\ OneTerminal /\ NothingAfterTerminal

\* A concatenation has a terminal frame at its end only, if its parts do and the
\* first has none.
LEMMA TerminalStep == ASSUME TInv, [Next]_vars PROVE (OneTerminal /\ NothingAfterTerminal)'
<1>1. /\ wire \in Seq(Frames) /\ m_current_msgs \in Seq(Frames) /\ m_send_queue \in Seq(Frames)
      /\ QueueTypes /\ OneTerminal /\ NothingAfterTerminal /\ CInv
  BY DEF TInv, CInv, TypeOK, QueueTypes
<1>2. CASE UNCHANGED <<m_current_msgs, m_write_flag, wire>>
  BY <1>1, <1>2 DEF OneTerminal, NothingAfterTerminal
<1>3. CASE WriteFrame /\ ~m_write_flag /\ m_send_queue # <<>>
  <2> DEFINE k == TakeLen(m_send_queue)
  <2> DEFINE taken == SubSeq(m_send_queue, 1, k)
  <2>1. m_current_msgs = <<>>
    BY <1>1, <1>3 DEF CInv, TypeOK, Held
  <2>2. /\ k \in 1..Len(m_send_queue) /\ taken \in Seq(Frames) /\ Len(taken) = k
        /\ \A i \in 1..k : taken[i] = m_send_queue[i]
        /\ m_current_msgs' = m_current_msgs \o taken
    BY <1>1, <1>3, WriteStep
  <2>3. m_current_msgs' = taken
    BY <2>1, <2>2, ConcatEmptySeq
  <2>4. \A i \in 1..k : m_send_queue[i].terminal => i = k
    BY <1>1, <1>3, TakeLenProperties
  <2>5. \A i \in DOMAIN wire : ~wire[i].terminal
    BY <1>1, <1>3 DEF OneTerminal
  <2>6. wire' = wire
    BY <1>3 DEF WriteFrame
  <2>7. DOMAIN taken = 1..k
    BY <2>2, LenProperties
  <2> HIDE DEF k, taken
  <2> QED
    BY <2>2, <2>3, <2>4, <2>5, <2>6, <2>7 DEF OneTerminal, NothingAfterTerminal
<1>4. CASE WroteFrames
  <2>1. /\ wire' = wire \o m_current_msgs /\ m_current_msgs' = <<>>
        /\ m_current_msgs # <<>> /\ m_write_flag
        /\ LastTerminal => m_write_flag' = m_write_flag
    BY <1>1, <1>4, WroteStep
  <2>2. \A i \in DOMAIN wire : ~wire[i].terminal
    BY <1>1, <2>1 DEF OneTerminal
  <2>3. /\ DOMAIN wire = 1..Len(wire) /\ Len(wire) \in Nat
        /\ DOMAIN m_current_msgs = 1..Len(m_current_msgs) /\ Len(m_current_msgs) \in Nat
    BY <1>1, LenProperties
  <2>4. /\ Len(wire') = Len(wire) + Len(m_current_msgs)
        /\ DOMAIN wire' = 1..(Len(wire) + Len(m_current_msgs))
        /\ \A i \in 1..(Len(wire) + Len(m_current_msgs)) :
              wire'[i] = IF i <= Len(wire) THEN wire[i] ELSE m_current_msgs[i - Len(wire)]
    BY <1>1, <2>1, ConcatProperties, LenProperties
  <2>5. ASSUME NEW i \in DOMAIN wire', wire'[i].terminal
        PROVE  i = Len(wire') /\ LastTerminal
    <3>1. i \in 1..(Len(wire) + Len(m_current_msgs))
      BY <2>4
    <3>2. i > Len(wire)
      BY <2>2, <2>3, <2>4, <2>5, <3>1
    <3>3. i - Len(wire) \in DOMAIN m_current_msgs /\ wire'[i] = m_current_msgs[i - Len(wire)]
      BY <2>3, <2>4, <3>1, <3>2
    <3>4. i - Len(wire) = Len(m_current_msgs) /\ m_current_msgs[Len(m_current_msgs)].terminal
      BY <1>1, <2>5, <3>3 DEF OneTerminal
    <3>5. i = Len(wire')
      BY <2>3, <2>4, <3>1, <3>4
    <3>6. LastTerminal
      BY <2>1, <3>4 DEF LastTerminal
    <3> QED
      BY <3>5, <3>6
  <2>6. NothingAfterTerminal'
    BY <2>5 DEF NothingAfterTerminal
  <2>7. OneTerminal'
    <3>1. DOMAIN m_current_msgs' = {}
      BY <2>1
    <3> QED
      BY <2>1, <2>5, <3>1 DEF OneTerminal
  <2> QED
    BY <2>6, <2>7
<1>5. CASE WriteFailed
  <2>1. wire' = wire /\ m_current_msgs' = <<>> /\ m_write_flag' = m_write_flag
    BY <1>5 DEF WriteFailed
  <2>2. DOMAIN m_current_msgs' = {}
    BY <2>1
  <2> QED
    BY <1>1, <2>1, <2>2 DEF OneTerminal, NothingAfterTerminal
<1>6. CASE UNCHANGED vars
  BY <1>2, <1>6 DEF vars, queueVars
<1>7. CASE \E op \in {"data", "pong", "close"}, terminal \in BOOLEAN : Push(op, terminal)
  BY <1>2, <1>7 DEF Push
<1> QED
  BY <1>1, <1>2, <1>3, <1>4, <1>5, <1>6, <1>7, FrameSteps

\* Nothing is written behind a terminal frame, whatever was pushed behind it.
THEOREM NothingAfterTerminalCorrect == Spec => []NothingAfterTerminal
<1>1. Init => TInv
  BY InitCInv DEF Init, TInv, OneTerminal, NothingAfterTerminal
<1>2. TInv /\ [Next]_vars => TInv'
  BY NextCInv, TerminalStep DEF TInv
<1>3. TInv => NothingAfterTerminal
  BY DEF TInv
<1> QED
  BY <1>1, <1>2, <1>3, PTL DEF Spec

\* Frames in flight are numbered by pushes: with it FramesInOrder is inductive.
Numbered == \A i \in DOMAIN InFlight : InFlight[i].n <= pushed

OInv == CInv /\ FramesInOrder /\ Numbered

\* A connection that is ending stays so.
LEMMA EndingStays == ASSUME CInv, [Next]_vars, Ending PROVE Ending'
<1> USE DEF CInv, TypeOK, StateTypes, TransportTypes, Phases, Ending, Shut, Goto,
      stateVars, queueVars, timerVars, callVars, histVars
<1>1. ASSUME NEW t \in Threads, CallBegins(t) \/ CallStep(t) \/ TimerRace(t)
      PROVE  Ending'
  BY <1>1 DEF CallBegins, CallStep, SendCheck, CloseCheck, SendPush, CloseSet, ClosePush,
     TimerRace
<1>2. CASE HandlerBegins
  BY <1>2 DEF HandlerBegins, Start, ReadRequest, ReadFailed, WroteResponse, ResponseFailed,
     TimerFires, WriteFrame, WroteFrames, WriteFailed, ReadFrames
<1>3. CASE FrameRead \/ TimerExpires
  BY <1>3 DEF FrameRead, Message, Ping, PeerCloses, PeerClosesBadly, ProtocolError, ReadOn,
     TimerExpires
<1>4. CASE Terminate
  BY <1>4 DEF Terminate
<1>5. CASE HandlerStep /\ ~Terminate
  BY <1>5 DEF HandlerStep, MessageDone, Pong, Ack, AckPush
<1>6. CASE UNCHANGED vars
  BY <1>6 DEF vars
<1> QED
  BY <1>1, <1>2, <1>3, <1>4, <1>5, <1>6 DEF Next

\* A push appends its frame to what is in flight.
LEMMA PushInFlight ==
    ASSUME QueueTypes, NEW op \in {"data", "pong", "close"}, NEW terminal \in BOOLEAN,
           Push(op, terminal)
    PROVE  /\ Frame(op, terminal) \in Frames /\ pushed' = pushed + 1
           /\ InFlight' = Append(InFlight, Frame(op, terminal))
<1> DEFINE f == Frame(op, terminal)
           front == wire \o m_current_msgs
<1>1. /\ wire \in Seq(Frames) /\ m_current_msgs \in Seq(Frames) /\ m_send_queue \in Seq(Frames)
      /\ pushed \in Nat
  BY DEF QueueTypes
<1>2. front \in Seq(Frames) /\ InFlight = front \o m_send_queue
  BY <1>1, ConcatProperties DEF InFlight
<1>3. f \in Frames /\ pushed' = pushed + 1
  BY <1>1 DEF Push, Frame, Frames
<1>4. m_send_queue' = Append(m_send_queue, f) /\ wire' = wire /\ m_current_msgs' = m_current_msgs
  BY DEF Push
<1>5. InFlight' = front \o Append(m_send_queue, f)
  BY <1>4 DEF InFlight
<1> HIDE DEF f, front
<1>6. <<f>> \in Seq(Frames)
  BY <1>3
<1>7. Append(m_send_queue, f) = m_send_queue \o <<f>>
  BY <1>1, <1>3, AppendIsConcat
<1>8. front \o m_send_queue \in Seq(Frames)
  BY <1>1, <1>2, ConcatProperties
<1>9. Append(InFlight, f) = (front \o m_send_queue) \o <<f>>
  BY <1>2, <1>3, <1>8, AppendIsConcat
<1>10. (front \o m_send_queue) \o <<f>> = front \o (m_send_queue \o <<f>>)
  BY <1>1, <1>2, <1>6, ConcatAssociative
<1> QED
  BY <1>3, <1>5, <1>7, <1>9, <1>10 DEF f

\* A push appends to what is in flight, a write that begins or ends moves it on,
\* and a write that fails takes its frames out of the middle.
LEMMA InFlightStep ==
    ASSUME CInv, [Next]_vars
    PROVE  \/ InFlight' = InFlight /\ pushed' = pushed
           \/ \E f \in Frames : /\ f.n = pushed + 1 /\ pushed' = pushed + 1
                                /\ InFlight' = Append(InFlight, f)
           \/ WriteFailed /\ InFlight' = wire \o m_send_queue
<1>1. /\ wire \in Seq(Frames) /\ m_current_msgs \in Seq(Frames) /\ m_send_queue \in Seq(Frames)
      /\ pushed \in Nat /\ QueueTypes
  BY DEF CInv, TypeOK, QueueTypes
<1> DEFINE front == wire \o m_current_msgs
<1>2. front \in Seq(Frames) /\ InFlight = front \o m_send_queue
  BY <1>1, ConcatProperties DEF InFlight
<1>3. CASE UNCHANGED <<m_send_queue, m_current_msgs, m_write_flag, wire, pushed>>
  BY <1>3 DEF InFlight
<1>4. ASSUME NEW op \in {"data", "pong", "close"}, NEW terminal \in BOOLEAN, Push(op, terminal)
      PROVE  \E f \in Frames : /\ f.n = pushed + 1 /\ pushed' = pushed + 1
                               /\ InFlight' = Append(InFlight, f)
  BY <1>1, <1>4, PushInFlight DEF Frame
<1>5. CASE WriteFrame /\ ~m_write_flag /\ m_send_queue # <<>>
  <2> DEFINE k == TakeLen(m_send_queue)
  <2> DEFINE s1 == SubSeq(m_send_queue, 1, k)
  <2> DEFINE s2 == SubSeq(m_send_queue, k + 1, Len(m_send_queue))
  <2>1. /\ k \in 1..Len(m_send_queue) /\ s1 \in Seq(Frames)
        /\ m_current_msgs' = m_current_msgs \o s1
        /\ m_send_queue' = s2 /\ m_send_queue' \in Seq(Frames)
    BY <1>1, <1>5, WriteStep
  <2>2. wire' = wire /\ pushed' = pushed
    BY <1>5 DEF WriteFrame
  <2>3. Len(m_send_queue) \in Nat
    BY <1>1, LenProperties
  <2>4. s1 \o s2 = SubSeq(m_send_queue, 1, Len(m_send_queue))
    <3>1. 1 \in 1..Len(m_send_queue) + 1 /\ k \in 1 - 1..Len(m_send_queue)
          /\ Len(m_send_queue) \in k..Len(m_send_queue)
      BY <2>1, <2>3
    <3> QED
      BY <1>1, <3>1, ConcatAdjacentSubSeq
  <2>5. s1 \o s2 = m_send_queue
    BY <1>1, <2>4, SubSeqFull
  <2> HIDE DEF k, s1, s2
  <2>6. InFlight' = (wire \o (m_current_msgs \o s1)) \o s2
    BY <2>1, <2>2 DEF InFlight
  <2>7. s1 \in Seq(Frames) /\ s2 \in Seq(Frames)
    BY <2>1
  <2>8. (wire \o m_current_msgs) \o s1 = wire \o (m_current_msgs \o s1)
    BY <1>1, <2>7, ConcatAssociative
  <2>9. (front \o s1) \o s2 = front \o (s1 \o s2)
    <3>1. front \in Seq(Frames)
      BY <1>2
    <3> HIDE DEF front
    <3> QED
      BY <2>7, <3>1, ConcatAssociative
  <2> QED
    BY <1>2, <2>2, <2>5, <2>6, <2>8, <2>9
<1>6. CASE WroteFrames
  <2>1. /\ wire' = front /\ m_current_msgs' = <<>> /\ UNCHANGED <<m_send_queue, pushed>>
    BY <1>6, WroteStep
  <2>2. InFlight' = (front \o <<>>) \o m_send_queue
    BY <2>1 DEF InFlight
  <2> QED
    BY <1>2, <2>1, <2>2, ConcatEmptySeq
<1>7. CASE WriteFailed
  <2>1. wire' = wire /\ m_current_msgs' = <<>> /\ m_send_queue' = m_send_queue
    BY <1>7 DEF WriteFailed
  <2>2. InFlight' = (wire \o <<>>) \o m_send_queue
    BY <2>1 DEF InFlight
  <2> QED
    BY <1>1, <1>7, <2>2, ConcatEmptySeq
<1>8. CASE UNCHANGED vars
  BY <1>3, <1>8 DEF vars, queueVars
<1> QED
  BY <1>3, <1>4, <1>5, <1>6, <1>7, <1>8, FrameSteps

\* The numbers stay in order, and without a failed write none gets lost.
LEMMA OrderStep == ASSUME OInv, [Next]_vars PROVE (FramesInOrder /\ Numbered)'
<1>1. CInv /\ FramesInOrder /\ Numbered
  BY DEF OInv
<1>2. /\ wire \in Seq(Frames) /\ m_current_msgs \in Seq(Frames) /\ m_send_queue \in Seq(Frames)
      /\ pushed \in Nat
  BY <1>1 DEF CInv, TypeOK, QueueTypes
<1>3. wire \o m_current_msgs \in Seq(Frames) /\ InFlight \in Seq(Frames)
  BY <1>2, ConcatProperties DEF InFlight
<1>4. /\ Len(InFlight) \in Nat /\ DOMAIN InFlight = 1..Len(InFlight)
      /\ \A i \in 1..Len(InFlight) : InFlight[i] \in Frames
  BY <1>3, LenProperties, ElementOfSeq
<1>5. ~Ending' => ~Ending
  BY <1>1, EndingStays
<1>6. CASE InFlight' = InFlight /\ pushed' = pushed
  BY <1>1, <1>5, <1>6 DEF FramesInOrder, Numbered
<1>7. ASSUME NEW f \in Frames, f.n = pushed + 1, pushed' = pushed + 1,
             InFlight' = Append(InFlight, f)
      PROVE  (FramesInOrder /\ Numbered)'
  <2>1. /\ Append(InFlight, f) \in Seq(Frames)
        /\ Len(Append(InFlight, f)) = Len(InFlight) + 1
        /\ \A i \in 1..Len(InFlight) : Append(InFlight, f)[i] = InFlight[i]
        /\ Append(InFlight, f)[Len(InFlight) + 1] = f
    BY <1>3, AppendProperties
  <2>2. DOMAIN InFlight' = 1..(Len(InFlight) + 1)
    BY <1>7, <2>1, LenProperties
  <2>3. \A i \in 1..Len(InFlight) : InFlight[i].n \in Nat /\ InFlight[i].n <= pushed
    BY <1>1, <1>4 DEF Numbered, Frames
  <2>4. Numbered'
    BY <1>2, <1>4, <1>7, <2>1, <2>2, <2>3 DEF Numbered
  <2>5. ASSUME NEW i \in DOMAIN InFlight', NEW j \in DOMAIN InFlight', i < j
        PROVE  InFlight'[i].n < InFlight'[j].n
    <3>1. i \in 1..Len(InFlight) /\ j \in 1..(Len(InFlight) + 1)
      BY <1>4, <2>2, <2>5
    <3>2. CASE j = Len(InFlight) + 1
      BY <1>2, <1>7, <2>1, <2>3, <3>1, <3>2
    <3>3. CASE j # Len(InFlight) + 1
      <4>1. j \in 1..Len(InFlight)
        BY <1>4, <3>1, <3>3
      <4> QED
        BY <1>1, <1>4, <1>7, <2>1, <2>5, <3>1, <4>1 DEF FramesInOrder
    <3> QED
      BY <3>2, <3>3
  <2>6. ~Ending' => Len(InFlight)' = pushed'
    BY <1>1, <1>5, <1>7, <2>1 DEF FramesInOrder
  <2> QED
    BY <2>4, <2>5, <2>6 DEF FramesInOrder
<1>8. CASE WriteFailed /\ InFlight' = wire \o m_send_queue
  <2> DEFINE a == Len(wire)
  <2> DEFINE b == Len(m_current_msgs)
  <2> DEFINE c == Len(m_send_queue)
  <2>1. a \in Nat /\ b \in Nat /\ c \in Nat
    BY <1>2, LenProperties
  <2>2. /\ Len(wire \o m_current_msgs) = a + b
        /\ \A i \in 1..(a + b) :
              (wire \o m_current_msgs)[i] = IF i <= a THEN wire[i] ELSE m_current_msgs[i - a]
    BY <1>2, ConcatProperties
  <2>3. /\ Len(InFlight) = a + b + c
        /\ \A i \in 1..(a + b + c) :
              InFlight[i] = IF i <= a + b THEN (wire \o m_current_msgs)[i]
                                          ELSE m_send_queue[i - (a + b)]
    BY <1>2, <1>3, <2>2, ConcatProperties DEF InFlight
  <2>4. /\ wire \o m_send_queue \in Seq(Frames)
        /\ Len(wire \o m_send_queue) = a + c
        /\ \A i \in 1..(a + c) :
              (wire \o m_send_queue)[i] = IF i <= a THEN wire[i] ELSE m_send_queue[i - a]
    BY <1>2, ConcatProperties
  <2>5. DOMAIN InFlight' = 1..(a + c)
    BY <1>8, <2>4, LenProperties
  <2> HIDE DEF a, b, c
  <2> DEFINE at(i) == IF i <= a THEN i ELSE i + b
  <2>6. ASSUME NEW i \in 1..(a + c)
        PROVE  at(i) \in 1..(a + b + c) /\ InFlight'[i] = InFlight[at(i)]
    <3>1. CASE i <= a
      <4>1. i \in 1..(a + b) /\ i \in 1..(a + b + c) /\ i <= a + b
        BY <2>1, <3>1
      <4>2. InFlight[i] = wire[i]
        BY <2>2, <2>3, <3>1, <4>1
      <4> QED
        BY <1>8, <2>4, <3>1, <4>1, <4>2
    <3>2. CASE ~(i <= a)
      <4>1. i + b \in 1..(a + b + c) /\ ~(i + b <= a + b) /\ (i + b) - (a + b) = i - a
        BY <2>1, <3>2
      <4>2. InFlight[i + b] = m_send_queue[i - a]
        BY <2>3, <4>1
      <4> QED
        BY <1>8, <2>4, <3>2, <4>1, <4>2
    <3> QED
      BY <3>1, <3>2
  <2>7. \A i, j \in 1..(a + c) : i < j => at(i) < at(j)
    BY <2>1
  <2> HIDE DEF at
  <2>8. pushed' = pushed /\ Ending'
    BY <1>8 DEF WriteFailed, Goto, Ending
  <2>9. ASSUME NEW i \in DOMAIN InFlight', NEW j \in DOMAIN InFlight', i < j
        PROVE  InFlight'[i].n < InFlight'[j].n
    BY <1>1, <1>4, <2>3, <2>5, <2>6, <2>7, <2>9 DEF FramesInOrder
  <2>10. Numbered'
    BY <1>1, <1>4, <2>3, <2>5, <2>6, <2>8 DEF Numbered
  <2> QED
    BY <2>8, <2>9, <2>10 DEF FramesInOrder
<1> QED
  BY <1>1, <1>6, <1>7, <1>8, InFlightStep

\* Frames reach the wire in the order of the pushes, and none of them is lost
\* before the connection ends.
THEOREM FramesInOrderCorrect == Spec => []FramesInOrder
<1>1. Init => OInv
  <2> SUFFICES ASSUME Init PROVE OInv
    OBVIOUS
  <2>1. InFlight = <<>> /\ pushed = 0
    BY EmptySeq, ConcatEmptySeq DEF Init, InFlight
  <2> QED
    BY <2>1, InitCInv DEF OInv, FramesInOrder, Numbered
<1>2. OInv /\ [Next]_vars => OInv'
  BY NextCInv, OrderStep DEF OInv
<1>3. OInv => FramesInOrder
  BY DEF OInv
<1> QED
  BY <1>1, <1>2, <1>3, PTL DEF Spec


----------------------------------------------------------------------------
(* The promises to an application that calls only from the callback.       *)

HasOp(s, op) == \E i \in DOMAIN s : s[i].op = op

\* No data behind a close frame.
Silent(s) == \A i, j \in DOMAIN s : s[i].op = "close" /\ s[j].op = "data" => j < i

\* What a concatenation has, and when no data follows a close frame in it.
LEMMA ConcatSilent ==
    ASSUME NEW s \in Seq(Frames), NEW u \in Seq(Frames)
    PROVE  /\ s \o u \in Seq(Frames)
           /\ \A op : HasOp(s \o u, op) <=> HasOp(s, op) \/ HasOp(u, op)
           /\ Silent(s \o u) <=>
                 Silent(s) /\ Silent(u) /\ ~(HasOp(s, "close") /\ HasOp(u, "data"))
<1> DEFINE w == s \o u
           m == Len(s)
           n == Len(u)
<1>1. /\ m \in Nat /\ n \in Nat /\ DOMAIN s = 1..m /\ DOMAIN u = 1..n
      /\ w \in Seq(Frames) /\ Len(w) = m + n /\ DOMAIN w = 1..(m + n)
  BY LenProperties, ConcatProperties
<1>2. \A i \in 1..(m + n) : w[i] = IF i <= m THEN s[i] ELSE u[i - m]
  BY ConcatProperties
<1> HIDE DEF w, m, n
<1>3. \A i \in 1..m : i \in 1..(m + n) /\ w[i] = s[i]
  BY <1>1, <1>2
<1>4. \A i \in 1..n : i + m \in 1..(m + n) /\ w[i + m] = u[i]
  BY <1>1, <1>2
<1>5. \A i \in 1..(m + n) : \/ i \in 1..m /\ w[i] = s[i]
                            \/ i - m \in 1..n /\ w[i] = u[i - m]
  BY <1>1, <1>2
<1>6. ASSUME NEW op PROVE HasOp(w, op) <=> HasOp(s, op) \/ HasOp(u, op)
  <2>1. HasOp(w, op) => HasOp(s, op) \/ HasOp(u, op)
    BY <1>1, <1>5 DEF HasOp
  <2>2. HasOp(s, op) => HasOp(w, op)
    BY <1>1, <1>3 DEF HasOp
  <2>3. HasOp(u, op) => HasOp(w, op)
    BY <1>1, <1>4 DEF HasOp
  <2> QED
    BY <2>1, <2>2, <2>3
<1>7. ASSUME Silent(w) PROVE Silent(s) /\ Silent(u) /\ ~(HasOp(s, "close") /\ HasOp(u, "data"))
  <2>1. Silent(s)
    BY <1>1, <1>3, <1>7 DEF Silent
  <2>2. ASSUME NEW i \in 1..n, NEW j \in 1..n, u[i].op = "close", u[j].op = "data" PROVE j < i
    <3>1. j + m < i + m
      BY <1>1, <1>4, <1>7, <2>2 DEF Silent
    <3> QED
      BY <1>1, <3>1
  <2>3. ASSUME NEW i \in 1..m, NEW j \in 1..n, s[i].op = "close", u[j].op = "data" PROVE FALSE
    <3>1. j + m < i
      BY <1>1, <1>3, <1>4, <1>7, <2>3 DEF Silent
    <3> QED
      BY <1>1, <2>3, <3>1
  <2> QED
    BY <1>1, <2>1, <2>2, <2>3 DEF Silent, HasOp
<1>8. ASSUME Silent(s), Silent(u), ~(HasOp(s, "close") /\ HasOp(u, "data")) PROVE Silent(w)
  <2>1. ASSUME NEW i \in 1..(m + n), NEW j \in 1..(m + n), w[i].op = "close", w[j].op = "data"
        PROVE  j < i
    <3>1. CASE i \in 1..m /\ w[i] = s[i]
      <4>1. HasOp(s, "close")
        BY <1>1, <2>1, <3>1 DEF HasOp
      <4>2. j \in 1..m /\ w[j] = s[j]
        BY <1>1, <1>5, <1>8, <2>1, <4>1 DEF HasOp
      <4> QED
        BY <1>1, <1>8, <2>1, <3>1, <4>2 DEF Silent
    <3>2. CASE i - m \in 1..n /\ w[i] = u[i - m]
      <4>1. CASE j \in 1..m
        BY <1>1, <3>2, <4>1
      <4>2. CASE j - m \in 1..n /\ w[j] = u[j - m]
        <5>1. j - m < i - m
          BY <1>1, <1>8, <2>1, <3>2, <4>2 DEF Silent
        <5> QED
          BY <1>1, <5>1
      <4> QED
        BY <1>5, <4>1, <4>2
    <3> QED
      BY <1>5, <3>1, <3>2
  <2> QED
    BY <1>1, <2>1 DEF Silent
<1> QED
  BY <1>1, <1>6, <1>7, <1>8 DEF w

\* One more frame: data needs that there is no close frame.
LEMMA AppendSilent ==
    ASSUME NEW s \in Seq(Frames), NEW f \in Frames
    PROVE  /\ \A op : HasOp(Append(s, f), op) <=> HasOp(s, op) \/ f.op = op
           /\ Silent(s) /\ ~(HasOp(s, "close") /\ f.op = "data") => Silent(Append(s, f))
<1>1. <<f>> \in Seq(Frames) /\ Append(s, f) = s \o <<f>>
  BY AppendIsConcat
<1>2. Silent(<<f>>)
  BY DEF Silent
<1>3. \A op : HasOp(<<f>>, op) <=> f.op = op
  BY DEF HasOp
<1>4. /\ \A op : HasOp(s \o <<f>>, op) <=> HasOp(s, op) \/ HasOp(<<f>>, op)
      /\ Silent(s) /\ Silent(<<f>>) /\ ~(HasOp(s, "close") /\ HasOp(<<f>>, "data"))
            => Silent(s \o <<f>>)
  BY <1>1, ConcatSilent
<1> QED
  BY <1>1, <1>2, <1>3, <1>4

\* Without calls of other threads, a thread that is in send or close knows the
\* state, as only it could change it.
AloneControl ==
    /\ \A u \in Users : pc[u] = "idle"
    /\ pc[Net] # "idle" => netPc \in {"callback", "error"}
    /\ pc[Net] \in {"send_push", "close_set"} => m_state = "open"
    /\ pc[Net] = "close_push" \/ netPc = "ack_push" => m_state = "closing"
    /\ Shut => m_state = "closed"
    /\ HandlersOnce

\* Data is pushed while no close frame is.
AloneFrames ==
    /\ m_state \in {"connecting", "open"} => ~HasOp(InFlight, "close")
    /\ Silent(InFlight)

AInv == CInv /\ (OnlyNetCalls => AloneControl /\ AloneFrames)

\* No call is taken back.
LEMMA CallsStay == ASSUME CInv, [Next]_vars, OnlyNetCalls' PROVE OnlyNetCalls
<1> USE ConstantsAssumption DEF OnlyNetCalls, CInv, TypeOK, ThreadTypes, callVars
<1>1. ASSUME NEW t \in Threads, CallBegins(t) PROVE OnlyNetCalls
  <2>1. \A u \in Users : calls'[u] = 0 => calls[u] = 0
    BY <1>1 DEF CallBegins, SendCheck, CloseCheck, MayCall, Threads
  <2> QED
    BY <2>1
<1>2. ASSUME NEW t \in Threads, CallStep(t) \/ TimerRace(t) PROVE OnlyNetCalls
  BY <1>2 DEF CallStep, SendPush, CloseSet, ClosePush, TimerRace
<1>3. CASE HandlerBegins
  BY <1>3 DEF HandlerBegins, Start, ReadRequest, ReadFailed, WroteResponse, ResponseFailed,
     TimerFires, WriteFrame, WroteFrames, WriteFailed, ReadFrames
<1>4. CASE FrameRead \/ TimerExpires
  BY <1>4 DEF FrameRead, Message, Ping, PeerCloses, PeerClosesBadly, ProtocolError, ReadOn,
     TimerExpires
<1>5. CASE HandlerStep
  BY <1>5 DEF HandlerStep, Terminate, MessageDone, Pong, Ack, AckPush
<1>6. CASE UNCHANGED vars
  BY <1>6 DEF vars
<1> QED
  BY <1>1, <1>2, <1>3, <1>4, <1>5, <1>6 DEF Next

\* Every step keeps what is known of a lone thread.
LEMMA ControlStep ==
    ASSUME CInv, AloneControl, Next, OnlyNetCalls, OnlyNetCalls'
    PROVE  AloneControl'
<1> USE ConstantsAssumption DEF CInv, TypeOK, StateTypes, TransportTypes, ThreadTypes, Phases,
      AloneControl, HandlersOnce, Shut, Goto, Threads,
      stateVars, queueVars, timerVars, callVars, histVars
<1>1. ASSUME NEW t \in Threads, CallBegins(t) PROVE AloneControl'
  <2>1. t = Net
    BY <1>1 DEF CallBegins, SendCheck, CloseCheck, MayCall, OnlyNetCalls
  <2>2. CASE SendCheck(t)
    BY <2>1, <2>2 DEF SendCheck, MayCall
  <2>3. CASE CloseCheck(t)
    BY <2>1, <2>3 DEF CloseCheck, MayCall
  <2> QED
    BY <1>1, <2>2, <2>3 DEF CallBegins
<1>2. ASSUME NEW t \in Threads, CallStep(t) \/ TimerRace(t) PROVE AloneControl'
  <2>1. t = Net
    BY <1>2 DEF CallStep, SendPush, CloseSet, ClosePush, TimerRace
  <2>2. CASE SendPush(t)
    BY <2>1, <2>2 DEF SendPush
  <2>3. CASE CloseSet(t)
    BY <2>1, <2>3 DEF CloseSet
  <2>4. CASE ClosePush(t)
    BY <2>1, <2>4 DEF ClosePush
  <2> QED
    BY <1>2, <2>1, <2>2, <2>3, <2>4 DEF CallStep, TimerRace
<1>3. CASE Start
  BY <1>3 DEF Start
<1>4. CASE ReadRequest
  BY <1>4 DEF ReadRequest
<1>5. CASE WroteResponse
  BY <1>5 DEF WroteResponse
<1>6. CASE ReadFailed \/ ResponseFailed \/ TimerFires \/ ReadFrames
  BY <1>6 DEF ReadFailed, ResponseFailed, TimerFires, ReadFrames
<1>7. CASE WriteFrame \/ WroteFrames \/ WriteFailed
  BY <1>7 DEF WriteFrame, WroteFrames, WriteFailed
<1>8. CASE Message \/ Ping \/ PeerCloses \/ PeerClosesBadly
  BY <1>8 DEF Message, Ping, PeerCloses, PeerClosesBadly
<1>9. CASE ProtocolError
  BY <1>9 DEF ProtocolError
<1>10. CASE ReadOn \/ TimerExpires
  BY <1>10 DEF ReadOn, TimerExpires
<1>11. CASE Terminate
  BY <1>11 DEF Terminate
<1>12. CASE MessageDone \/ Pong \/ Ack \/ AckPush
  BY <1>12 DEF MessageDone, Pong, Ack, AckPush
<1> QED
  BY <1>1, <1>2, <1>3, <1>4, <1>5, <1>6, <1>7, <1>8, <1>9, <1>10, <1>11, <1>12
     DEF Next, HandlerBegins, FrameRead, HandlerStep

\* A step leaves what is in flight, pushes a frame, or loses the write under way;
\* and the state does not go back to one in which there is no close frame.
LEMMA FramesStep ==
    ASSUME CInv, AloneControl, AloneFrames, Next
    PROVE  AloneFrames'
<1>1. /\ wire \in Seq(Frames) /\ m_current_msgs \in Seq(Frames) /\ m_send_queue \in Seq(Frames)
      /\ pushed \in Nat /\ QueueTypes
  BY DEF CInv, TypeOK, QueueTypes
<1>2. wire \o m_current_msgs \in Seq(Frames) /\ InFlight \in Seq(Frames)
  BY <1>1, ConcatProperties DEF InFlight
<1>3. m_state' \in {"connecting", "open"} => m_state \in {"connecting", "open"}
  <2> USE ConstantsAssumption DEF CInv, TypeOK, StateTypes, TransportTypes, ThreadTypes, Phases,
        stateVars
  <2>1. CASE WroteResponse
    BY <2>1 DEF WroteResponse
  <2>2. ASSUME NEW t \in Threads, CallBegins(t) \/ CallStep(t) \/ TimerRace(t)
        PROVE  m_state' \in {"closing", m_state}
    BY <2>2 DEF CallBegins, CallStep, SendCheck, CloseCheck, SendPush, CloseSet, ClosePush,
       TimerRace
  <2>3. CASE HandlerBegins /\ ~WroteResponse
    BY <2>3 DEF HandlerBegins, Start, ReadRequest, ReadFailed, ResponseFailed,
       TimerFires, WriteFrame, WroteFrames, WriteFailed, ReadFrames
  <2>4. CASE FrameRead \/ TimerExpires
    BY <2>4 DEF FrameRead, Message, Ping, PeerCloses, PeerClosesBadly, ProtocolError, ReadOn,
       TimerExpires
  <2>5. CASE HandlerStep
    BY <2>5 DEF HandlerStep, Terminate, MessageDone, Pong, Ack, AckPush
  <2> QED
    BY <2>1, <2>2, <2>3, <2>4, <2>5 DEF Next
<1>4. ASSUME NEW op \in {"data", "pong", "close"}, NEW terminal \in BOOLEAN, Push(op, terminal),
             op = "data" => m_state = "open",
             op = "close" => m_state' \notin {"connecting", "open"}
      PROVE  AloneFrames'
  <2>1. /\ Frame(op, terminal) \in Frames /\ Frame(op, terminal).op = op
        /\ InFlight' = Append(InFlight, Frame(op, terminal))
    BY <1>1, <1>4, PushInFlight DEF Frame
  <2>2. HasOp(InFlight', "close") <=> HasOp(InFlight, "close") \/ op = "close"
    BY <1>2, <2>1, AppendSilent
  <2>3. Silent(InFlight')
    BY <1>2, <1>4, <2>1, AppendSilent DEF AloneFrames
  <2>4. HasOp(InFlight, "close")' <=> HasOp(InFlight', "close")
    BY DEF HasOp
  <2>5. Silent(InFlight)' <=> Silent(InFlight')
    BY DEF Silent
  <2> QED
    BY <1>3, <1>4, <2>2, <2>3, <2>4, <2>5 DEF AloneFrames
<1>5. CASE InFlight' = InFlight
  BY <1>3, <1>5 DEF AloneFrames, HasOp, Silent
<1>6. CASE InFlight' = wire \o m_send_queue
  <2>1. /\ \A op : HasOp(wire \o m_current_msgs, op) <=> HasOp(wire, op) \/ HasOp(m_current_msgs, op)
        /\ Silent(wire \o m_current_msgs) => Silent(wire)
    BY <1>1, ConcatSilent
  <2>2. /\ \A op : HasOp(InFlight, op) <=> HasOp(wire \o m_current_msgs, op) \/ HasOp(m_send_queue, op)
        /\ Silent(InFlight) =>
              /\ Silent(wire \o m_current_msgs) /\ Silent(m_send_queue)
              /\ ~(HasOp(wire \o m_current_msgs, "close") /\ HasOp(m_send_queue, "data"))
    BY <1>1, <1>2, ConcatSilent DEF InFlight
  <2>3. /\ \A op : HasOp(wire \o m_send_queue, op) <=> HasOp(wire, op) \/ HasOp(m_send_queue, op)
        /\ Silent(wire) /\ Silent(m_send_queue) /\ ~(HasOp(wire, "close") /\ HasOp(m_send_queue, "data"))
              => Silent(wire \o m_send_queue)
    BY <1>1, ConcatSilent
  <2>4. Silent(InFlight') /\ (HasOp(InFlight', "close") => HasOp(InFlight, "close"))
    BY <1>6, <2>1, <2>2, <2>3 DEF AloneFrames
  <2>5. HasOp(InFlight, "close")' <=> HasOp(InFlight', "close")
    BY DEF HasOp
  <2>6. Silent(InFlight)' <=> Silent(InFlight')
    BY DEF Silent
  <2> QED
    BY <1>3, <2>4, <2>5, <2>6 DEF AloneFrames
<1>7. ASSUME NEW t \in Threads, SendPush(t) PROVE AloneFrames'
  <2>1. Push("data", FALSE) /\ t = Net /\ m_state = "open"
    BY <1>7 DEF SendPush, AloneControl, Threads
  <2> QED
    BY <1>4, <2>1
<1>8. ASSUME NEW t \in Threads, ClosePush(t) PROVE AloneFrames'
  <2>1. t = Net /\ m_state = "closing" /\ m_state' = m_state
    BY <1>8 DEF ClosePush, AloneControl, Threads, stateVars
  <2>2. \E terminal \in BOOLEAN : Push("close", terminal)
    BY <1>8 DEF ClosePush
  <2> QED
    BY <1>4, <2>1, <2>2
<1>9. CASE Pong
  BY <1>4, <1>9 DEF Pong
<1>10. CASE AckPush
  <2>1. Push("close", TRUE) /\ m_state = "closing" /\ m_state' = m_state
    BY <1>10 DEF AckPush, AloneControl, stateVars
  <2> QED
    BY <1>4, <2>1
<1>11. ASSUME ~(\E t \in Threads : SendPush(t) \/ ClosePush(t)), ~Pong, ~AckPush
       PROVE  pushed' = pushed
  <2> USE DEF queueVars
  <2>1. ASSUME NEW t \in Threads, CallBegins(t) \/ CallStep(t) \/ TimerRace(t)
        PROVE  pushed' = pushed
    BY <1>11, <2>1 DEF CallBegins, CallStep, SendCheck, CloseCheck, CloseSet, TimerRace
  <2>2. CASE HandlerBegins
    BY <2>2 DEF HandlerBegins, Start, ReadRequest, ReadFailed, WroteResponse, ResponseFailed,
       TimerFires, WriteFrame, WroteFrames, WriteFailed, ReadFrames
  <2>3. CASE FrameRead \/ TimerExpires
    BY <2>3 DEF FrameRead, Message, Ping, PeerCloses, PeerClosesBadly, ProtocolError, ReadOn,
       TimerExpires
  <2>4. CASE HandlerStep
    BY <1>11, <2>4 DEF HandlerStep, Terminate, MessageDone, Ack
  <2> QED
    BY <2>1, <2>2, <2>3, <2>4 DEF Next
<1>12. pushed # pushed + 1
  BY <1>1
<1> QED
  BY <1>5, <1>6, <1>7, <1>8, <1>9, <1>10, <1>11, <1>12, InFlightStep

\* Both promises are kept while only the message callback has called.
THEOREM PromisesAloneCorrect == Spec => []PromisesAlone
<1>1. Init => AInv
  <2> SUFFICES ASSUME Init PROVE AInv
    OBVIOUS
  <2>1. InFlight = <<>>
    BY EmptySeq, ConcatEmptySeq DEF Init, InFlight
  <2>2. AloneFrames
    BY <2>1 DEF AloneFrames, HasOp, Silent
  <2>3. AloneControl
    BY ConstantsAssumption DEF Init, AloneControl, HandlersOnce, Shut, Threads
  <2> QED
    BY <2>2, <2>3, InitCInv DEF AInv
<1>2. AInv /\ [Next]_vars => AInv'
  <2> SUFFICES ASSUME AInv, [Next]_vars, OnlyNetCalls' PROVE (AloneControl /\ AloneFrames)'
    BY NextCInv DEF AInv
  <2>1. CInv /\ OnlyNetCalls /\ AloneControl /\ AloneFrames
    BY CallsStay DEF AInv
  <2>2. CASE Next
    BY <2>1, <2>2, ControlStep, FramesStep
  <2>3. CASE UNCHANGED vars
    BY <2>1, <2>3 DEF vars, stateVars, queueVars, callVars, histVars, AloneControl, AloneFrames,
       HandlersOnce, Shut, InFlight, HasOp, Silent
  <2> QED
    BY <2>2, <2>3
<1>3. AInv => PromisesAlone
  <2> SUFFICES ASSUME AInv, OnlyNetCalls PROVE HandlersOnce /\ SilentAfterClose
    BY DEF PromisesAlone
  <2>1. /\ wire \in Seq(Frames) /\ m_current_msgs \in Seq(Frames) /\ m_send_queue \in Seq(Frames)
        /\ wire \o m_current_msgs \in Seq(Frames) /\ Silent(InFlight) /\ HandlersOnce
    BY ConcatProperties DEF AInv, AloneControl, AloneFrames, CInv, TypeOK, QueueTypes
  <2>2. Silent(wire \o m_current_msgs)
    BY <2>1, ConcatSilent DEF InFlight
  <2>3. Silent(wire)
    BY <2>1, <2>2, ConcatSilent
  <2> QED
    BY <2>1, <2>3 DEF SilentAfterClose, Silent
<1> QED
  BY <1>1, <1>2, <1>3, PTL DEF Spec
=============================================================================
