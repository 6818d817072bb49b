------------------------------ MODULE MCHybi13 ------------------------------
(* Streams of frames for Hybi13.                                           *)
EXTENDS Hybi13

CONSTANT MaxFrames

Plainly(opcode, fin, payload) ==
    [opcode |-> opcode, fin |-> fin, payload |-> payload, size |-> Len(payload),
     code |-> IF Len(payload) <= payload_size_basic THEN "7bit"
              ELSE IF Len(payload) <= payload_size_extended THEN "16bit" ELSE "64bit",
     rsv |-> FALSE, masked |-> TRUE]

\* Frames as they should be, among them halves of a character: 195, 169.
Fragments ==
    {Plainly("TEXT", fin, payload) :
        fin \in BOOLEAN, payload \in {<<>>, <<65, 65, 65, 65, 195>>, <<195>>}}
    \cup {Plainly("CONTINUATION", fin, payload) :
        fin \in BOOLEAN, payload \in {<<>>, <<169>>, <<169, 65, 65, 195>>}}
    \cup {Plainly("PING", TRUE, <<65>>)}

\* Frames with one thing wrong, that are large, or lack bytes.
Odd == {[Plainly("PING", TRUE, <<>>) EXCEPT !.fin = FALSE],
        [Plainly("PING", TRUE, <<65, 65>>) EXCEPT !.code = "16bit"],
        [Plainly("BINARY", TRUE, <<65>>) EXCEPT !.rsv = TRUE],
        [Plainly("BINARY", TRUE, <<65>>) EXCEPT !.masked = FALSE],
        [Plainly("BINARY", TRUE, <<65>>) EXCEPT !.opcode = "RSV"],
        [Plainly("PING", TRUE, <<65, 65>>) EXCEPT !.opcode = "CONTROL_RSV", !.code = "16bit"],
        [Plainly("BINARY", TRUE, <<65>>) EXCEPT !.code = "16bit"],
        [Plainly("BINARY", TRUE, <<65, 65, 65>>) EXCEPT !.code = "64bit"],
        [Plainly("BINARY", TRUE, <<65>>) EXCEPT !.code = "64bit", !.size = max_message_size + 1],
        [Plainly("CONTINUATION", TRUE, <<65>>) EXCEPT !.code = "64bit", !.size = SizeRange - 1],
        [Plainly("CONTINUATION", TRUE, <<195>>) EXCEPT !.size = 2],
        [Plainly("PING", TRUE, <<65>>) EXCEPT !.size = 2],
        Plainly("BINARY", TRUE, <<195, 65, 65, 65, 65, 65>>),
        Plainly("BINARY", TRUE, <<65, 65, 65, 65, 65, 65, 65, 65, 65>>),
        Plainly("CONTINUATION", TRUE, <<65, 65, 65, 65, 65, 65>>),
        Plainly("CLOSE", TRUE, <<>>)}

\* Texts of one frame with the bytes at which the rules of UTF-8 change.
Leads == {65, 128, 193, 194, 223, 224, 225, 236, 237, 238, 239, 240, 241, 243, 244, 245}
Utf8Texts ==
    {Plainly("TEXT", TRUE, <<b>> \o s) :
        b \in Leads, s \in BoundedSeq({65, 127, 128, 143, 144, 159, 160, 191, 192}, 1)}
    \cup {Plainly("TEXT", TRUE, <<b, c>> \o s) :
        b \in Leads, c \in {128, 143, 144, 159, 160, 191},
        s \in {<<65>>, <<128>>, <<191, 128>>, <<128, 191>>, <<128, 194>>, <<159, 160>>}}

\* One text; any MaxFrames frames as they should be; what a text that goes on is
\* followed by, up to a last fragment; and something odd behind the beginning of a
\* message or a ping.
FrameStreams ==
    {<<f>> : f \in Utf8Texts}
    \cup UNION {[1..n -> Fragments] : n \in 1..MaxFrames}
    \cup {<<f>> \o rest : f \in {g \in Fragments : g.opcode = "TEXT" /\ ~g.fin},
                        rest \in {r \in [1..MaxFrames -> Fragments] : r[MaxFrames].fin}}
    \cup {<<f, g>> : f \in {Plainly("TEXT", FALSE, <<65, 65, 65, 65>>), Plainly("PING", TRUE, <<65>>)}, g \in Odd}

=============================================================================
