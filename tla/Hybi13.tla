------------------------------- MODULE Hybi13 -------------------------------
(***************************************************************************)
(* How a websocketpp connection reads frames (RFC 6455, hybi13): the loop  *)
(* of handle_read_frame over what the transport has read, and consume of   *)
(* the processor, one step per turn of its loop. No extension is enabled.  *)
(*                                                                         *)
(* The peer sends a stream of frames, records with the fields of the       *)
(* header and a payload, which can be shorter than the size of the last    *)
(* frame. Positions in that stream count from 1; a payload is bytes.       *)
(***************************************************************************)
EXTENDS Utf8

CONSTANTS
    Streams,                \* streams the peer may send
    payload_size_basic,     \* the largest size in a basic header, and in the 16
    payload_size_extended,  \* bits of an extended one
    SizeRange,              \* how many values a size_t has
    max_message_size

\* The limit is 32000000 by default, and a size_t has at least 32 bits.
ASSUME SizesAssumption ==
    /\ payload_size_basic \in Nat /\ payload_size_extended \in Nat /\ SizeRange \in Nat
    /\ 0 < payload_size_basic /\ payload_size_basic < payload_size_extended
    /\ payload_size_extended < SizeRange
    /\ max_message_size \in Nat \ {0} /\ 2 * max_message_size <= SizeRange

Opcodes == {"TEXT", "BINARY", "CONTINUATION", "CLOSE", "PING", "PONG", "RSV", "CONTROL_RSV"}
Frames ==
    [opcode : Opcodes, fin : BOOLEAN, rsv : BOOLEAN, masked : BOOLEAN,
     code : {"7bit", "16bit", "64bit"}, size : Nat, payload : Seq(Byte)]

\* All that are left of a size are the seven bits of a basic header, unless there is
\* an extended one; and the peer may stop within the payload of the last frame.
ASSUME StreamsAssumption ==
    \A s \in Streams :
        /\ s \in Seq(Frames)
        /\ \A k \in DOMAIN s :
              /\ s[k].code = "7bit" => s[k].size <= payload_size_basic
              /\ IF k < Len(s) THEN Len(s[k].payload) = s[k].size
                              ELSE Len(s[k].payload) <= s[k].size

VARIABLES
    stream,
    arrived,    \* how many bytes the transport has read: the end of m_buf
    consumed,   \* how many of them were consumed: p in handle_read_frame
    reader,     \* "read" (the transport reads), "consume" or "closed"
    m_state, m_bytes_needed,
    m_header,   \* the bytes read of the basic and the extended header
    m_data_msg, m_control_msg, m_current_msg,
    dispatched, \* the messages that were complete, in their order
    error       \* ec of consume, or "none"

position  == <<stream, arrived, consumed>>
messages  == <<m_data_msg, m_control_msg, m_current_msg>>
frameVars == <<position, reader, m_state, m_bytes_needed, m_header, messages, dispatched, error>>

BASIC_HEADER_LENGTH == 2
Controls == {"CLOSE", "PING", "PONG", "CONTROL_RSV"}
Reserved == {"RSV", "CONTROL_RSV"}

\* What is in the stream where.
HeaderLength(f) ==
    BASIC_HEADER_LENGTH
    + (CASE f.code = "7bit" -> 0 [] f.code = "16bit" -> 2 [] f.code = "64bit" -> 8)
    + (IF f.masked THEN 4 ELSE 0)
FrameEnd[k \in 0..Len(stream)] ==
    IF k = 0 THEN 0 ELSE FrameEnd[k - 1] + HeaderLength(stream[k]) + Len(stream[k].payload)
Total == FrameEnd[Len(stream)]
FrameAt(byte) == CHOOSE k \in DOMAIN stream : FrameEnd[k - 1] < byte /\ byte <= FrameEnd[k]
OffsetOf(byte) == byte - FrameEnd[FrameAt(byte) - 1] - HeaderLength(stream[FrameAt(byte)]) - 1

\* A masking key, rotated: of which frame, and by how much.
NoMessage == [opcode |-> "none", payload |-> <<>>, validator |-> utf8_accept,
              key |-> <<0, 0>>]
Message(opcode, key) == [NoMessage EXCEPT !.opcode = opcode, !.key = key]
Content(m) == [opcode |-> m.opcode, payload |-> m.payload]

\* Unmasking gives the byte only if the key is that of its frame in the right
\* rotation, and otherwise some other byte.
Unmasked(byte, key) ==
    IF key = <<FrameAt(byte), OffsetOf(byte) % 4>>
    THEN stream[FrameAt(byte)].payload[OffsetOf(byte) + 1]
    ELSE (stream[FrameAt(byte)].payload[OffsetOf(byte) + 1] + 128) % 256

\* handle_write_http_response: some bytes can have come with the request.
FrameInit ==
    /\ stream \in Streams
    /\ arrived \in 0..Total /\ consumed = 0
    /\ reader = "consume"
    /\ m_state = "HEADER_BASIC"
    /\ m_bytes_needed = BASIC_HEADER_LENGTH
    /\ m_header = <<>>
    /\ m_data_msg = NoMessage /\ m_control_msg = NoMessage
    /\ m_current_msg = "data"
    /\ dispatched = <<>>
    /\ error = "none"

\* A definition marked "Mutant" is a plausible bug that no action uses: with it
\* in place of the one it precedes the property it is named for fails.

----------------------------------------------------------------------------
\* The transport has read some more.
ReadSome ==
    /\ reader = "read"
    /\ arrived' \in (arrived + 1)..Total
    /\ reader' = "consume"
    /\ UNCHANGED <<stream, consumed, m_state, m_bytes_needed, m_header, messages, dispatched, error>>

\* handle_read_frame closes the connection on an error and reads no more.
Fail(e) ==
    /\ error' = e
    /\ reader' = "closed"

InConsume(state) ==
    /\ reader = "consume"
    /\ m_state = state
    /\ consumed < arrived \/ m_bytes_needed = 0

ConsumeEnds ==
    /\ reader = "consume" /\ m_state # "READY"
    /\ consumed = arrived /\ m_bytes_needed > 0
    /\ reader' = "read"
    /\ UNCHANGED <<position, m_state, m_bytes_needed, m_header, messages, dispatched, error>>

\* The next bytes, as many as are there and needed.
Available == {n \in 0..m_bytes_needed : consumed + n <= arrived}
Chunk == CHOOSE n \in Available : \A k \in Available : k <= n

CopyHeader ==
    /\ consumed' = consumed + Chunk
    /\ m_header' = m_header \o [k \in 1..Chunk |-> consumed + k]
Lacking == Chunk < m_bytes_needed
MoreBytes == m_bytes_needed' = m_bytes_needed - Chunk

\* The frame whose header is read, and validate_incoming_basic_header.
Frame == stream[FrameAt(m_header'[1])]
Control == Frame.opcode \in Controls
NewMessage == m_data_msg = NoMessage

BasicError ==
    CASE Control /\ Frame.code # "7bit" -> "control_too_big"
      [] Frame.rsv -> "invalid_rsv_bit"
      [] Frame.opcode \in Reserved -> "invalid_opcode"
      [] Control /\ ~Frame.fin -> "fragmented_control"
      [] ~Control /\ NewMessage = (Frame.opcode = "CONTINUATION") -> "invalid_continuation"
      [] ~Frame.masked -> "masking_required"
      [] OTHER -> "none"

HeaderBasic ==
    /\ InConsume("HEADER_BASIC")
    /\ CopyHeader
    /\ \/ Lacking /\ MoreBytes /\ UNCHANGED <<m_state, reader, error>>
       \/ ~Lacking /\ IF BasicError = "none"
          THEN /\ m_state' = "HEADER_EXTENDED"
               /\ m_bytes_needed' = HeaderLength(Frame) - BASIC_HEADER_LENGTH
               /\ UNCHANGED <<reader, error>>
          ELSE MoreBytes /\ Fail(BasicError) /\ UNCHANGED m_state
    /\ UNCHANGED <<stream, arrived, messages, dispatched>>

\* The sum is one of size_t.
TooBig(payload) == (Len(payload) + Frame.size) % SizeRange > max_message_size

\* validate_incoming_extended_header.
NonMinimal ==
    \/ Frame.code = "16bit" /\ Frame.size <= payload_size_basic
    \/ Frame.code = "64bit" /\ Frame.size <= payload_size_extended

\* Mutant for FramesRead: a fragment is unmasked with the key of the first one.
StartPayloadOldKey(key) ==
    IF Control
    THEN /\ m_control_msg' = Message(Frame.opcode, key)
         /\ m_current_msg' = "control"
         /\ UNCHANGED m_data_msg
    ELSE /\ m_data_msg' = IF NewMessage THEN Message(Frame.opcode, key) ELSE m_data_msg
         /\ m_current_msg' = "data"
         /\ UNCHANGED m_control_msg

\* A control frame has a message of its own; a fragment only changes the key of
\* the data message.
StartPayload(key) ==
    IF Control
    THEN /\ m_control_msg' = Message(Frame.opcode, key)
         /\ m_current_msg' = "control"
         /\ UNCHANGED m_data_msg
    ELSE /\ m_data_msg' = IF NewMessage THEN Message(Frame.opcode, key)
                          ELSE [m_data_msg EXCEPT !.key = key]
         /\ m_current_msg' = "data"
         /\ UNCHANGED m_control_msg

HeaderExtended ==
    /\ InConsume("HEADER_EXTENDED")
    /\ CopyHeader
    /\ \/ Lacking /\ MoreBytes /\ UNCHANGED <<m_state, messages, reader, error>>
       \/ ~Lacking /\ NonMinimal
          /\ MoreBytes /\ Fail("non_minimal_encoding") /\ UNCHANGED <<m_state, messages>>
       \/ ~Lacking /\ ~NonMinimal
          /\ m_state' = "APPLICATION"
          /\ m_bytes_needed' = Frame.size
          /\ IF ~Control /\ TooBig(m_data_msg.payload)
             THEN Fail("message_too_big") /\ UNCHANGED messages
             ELSE StartPayload(<<FrameAt(m_header'[1]), 0>>) /\ UNCHANGED <<reader, error>>
    /\ UNCHANGED <<stream, arrived, dispatched>>

----------------------------------------------------------------------------
(* The payload.                                                            *)

Current == IF m_current_msg = "data" THEN m_data_msg ELSE m_control_msg

\* process_payload_bytes: byte_mask_circ rotates the key, text is validated.
WithPayload(msg) ==
    LET bytes == [k \in 1..Chunk |->
                     Unmasked(consumed + k, <<msg.key[1], (msg.key[2] + k - 1) % 4>>)]
    IN [msg EXCEPT !.payload = @ \o bytes,
                   !.key = <<@[1], (@[2] + Chunk) % 4>>,
                   !.validator = IF msg.opcode = "TEXT" THEN Decode(@, bytes) ELSE @]

SetCurrent(msg) ==
    IF m_current_msg = "data" THEN m_data_msg' = msg /\ UNCHANGED m_control_msg
                              ELSE m_control_msg' = msg /\ UNCHANGED m_data_msg

ResetHeaders ==
    /\ m_state' = "HEADER_BASIC"
    /\ m_bytes_needed' = BASIC_HEADER_LENGTH
    /\ m_header' = <<>>

\* finalize_message asks whether the frame is one of text, not the message.
EndsWithin(msg) == stream[FrameAt(m_header[1])].opcode = "TEXT" /\ msg.validator # utf8_accept

Application ==
    /\ InConsume("APPLICATION")
    /\ LET msg == WithPayload(Current) IN
       /\ SetCurrent(msg)
       /\ \/ /\ msg.validator = utf8_reject
             /\ Fail("invalid_utf8")
             /\ UNCHANGED <<consumed, m_state, m_bytes_needed, m_header>>
          \/ /\ msg.validator # utf8_reject
             /\ consumed' = consumed + Chunk
             /\ \/ Lacking /\ MoreBytes /\ UNCHANGED <<m_state, m_header, reader, error>>
                \/ ~Lacking /\ IF ~stream[FrameAt(m_header[1])].fin
                   THEN ResetHeaders /\ UNCHANGED <<reader, error>>
                   ELSE /\ MoreBytes
                        /\ IF EndsWithin(msg)
                           THEN Fail("invalid_utf8") /\ UNCHANGED m_state
                           ELSE m_state' = "READY" /\ UNCHANGED <<reader, error>>
                        /\ UNCHANGED m_header
    /\ UNCHANGED <<stream, arrived, m_current_msg, dispatched>>

\* consume returns, the caller takes the message, and calls again if bytes are left.
Dispatch ==
    /\ reader = "consume" /\ m_state = "READY"
    /\ dispatched' = Append(dispatched, Content(Current))
    /\ SetCurrent(NoMessage)
    /\ ResetHeaders
    /\ reader' = IF consumed < arrived THEN "consume" ELSE "read"
    /\ UNCHANGED <<position, m_current_msg, error>>

----------------------------------------------------------------------------
FrameNext ==
    ReadSome \/ ConsumeEnds \/ HeaderBasic \/ HeaderExtended \/ Application \/ Dispatch

FrameSpec == FrameInit /\ [][FrameNext]_frameVars

----------------------------------------------------------------------------
(* What RFC 6455 makes of a stream.                                        *)

\* What the frame does to the messages so far: the error it is, if it is one.
\* partial is the message of which a fragment has come, NoMessage if there is none.
Wrong(f, partial) ==
    \/ ~f.masked \/ f.rsv \/ f.opcode \in Reserved
    \/ f.code = "16bit" /\ f.size <= payload_size_basic
    \/ f.code = "64bit" /\ f.size <= payload_size_extended
    \/ f.opcode \in Controls /\ (~f.fin \/ f.size > payload_size_basic)
    \/ f.opcode \in {"TEXT", "BINARY"} /\ partial # <<>>
    \/ f.opcode = "CONTINUATION" /\ partial = <<>>
    \/ f.opcode \notin Controls
         /\ f.size + (IF partial = <<>> THEN 0 ELSE Len(partial[1].payload)) > max_message_size

Joined(f, partial) ==
    IF partial = <<>> THEN Content(f)
    ELSE [opcode |-> partial[1].opcode, payload |-> partial[1].payload \o f.payload]

\* Only the last frame of a stream can lack bytes.
HasAll(f) == Len(f.payload) = f.size
Ends(f)   == f.fin /\ HasAll(f)

\* Text is UTF-8 to its end, or as far as it has come.
WellEncoded(m, ends) ==
    m.opcode = "TEXT" => IF ends THEN IsUtf8(m.payload) ELSE BeginsUtf8(m.payload)

\* A reader that takes whole frames: the messages that are complete, the partial one,
\* and whether a frame was wrong, or text was not UTF-8. It stops at what is wrong.
Taken(read, f, m) ==
    CASE f.opcode \in Controls /\ HasAll(f)  -> [read EXCEPT !.messages = Append(@, Content(f))]
      [] f.opcode \in Controls /\ ~HasAll(f) -> read
      [] f.opcode \notin Controls /\ ~WellEncoded(m, Ends(f)) -> [read EXCEPT !.wrong = TRUE]
      [] f.opcode \notin Controls /\ WellEncoded(m, Ends(f)) ->
            IF Ends(f) THEN [read EXCEPT !.messages = Append(@, m), !.partial = <<>>]
                       ELSE [read EXCEPT !.partial = <<m>>]
Whole(read, f) ==
    IF read.wrong THEN read
    ELSE IF Wrong(f, read.partial) THEN [read EXCEPT !.wrong = TRUE]
    ELSE Taken(read, f, Joined(f, read.partial))

NothingRead == [messages |-> <<>>, partial |-> <<>>, wrong |-> FALSE]
ReadUpTo[k \in 0..Len(stream)] ==
    IF k = 0 THEN NothingRead ELSE Whole(ReadUpTo[k - 1], stream[k])
ReadWhole == ReadUpTo[Len(stream)]

Unfinished(m) == m.opcode = "TEXT" /\ ~IsUtf8(m.payload)

\* hybi13.hpp:514, "ensure that text messages end on a valid UTF8 code point".
TextComplete == \A k \in DOMAIN dispatched : ~Unfinished(dispatched[k])

LegalSizes == \A k \in DOMAIN stream : 2 * stream[k].size < SizeRange

\* However the bytes are divided among the reads, what is dispatched is a beginning
\* of what RFC 6455 makes of the stream; when everything has been read it is all of
\* it, and the reader has closed exactly if something was wrong. No message under way
\* is larger than max_message_size, however many fragments it has. Excepted are texts
\* of several fragments that end within a character, and sizes with the most
\* significant bit set, which RFC 6455 forbids: the sum of two can wrap.
FramesRead ==
    /\ LegalSizes /\ TextComplete =>
          LET whole == ReadWhole IN
             /\ IsPrefix(dispatched, whole.messages)
             /\ reader = "closed" =>
                   whole.wrong /\ dispatched = whole.messages
             /\ reader = "read" /\ arrived = Total =>
                   ~whole.wrong /\ dispatched = whole.messages
    /\ LegalSizes =>
          Len(m_data_msg.payload) <= max_message_size
    /\ Len(m_control_msg.payload) <= payload_size_basic

=============================================================================
