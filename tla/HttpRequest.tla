----------------------------- MODULE HttpRequest -----------------------------
(* How a websocketpp connection reads the request of the opening handshake:  *)
(* handle_read_handshake, which reads until the request is ready, and        *)
(* request::consume, one step per turn of its loop.                          *)
(*                                                                           *)
(* What the peer sends is lines, each with two bytes of delimiter behind it, *)
(* and then more bytes: a body and frames behind a blank line, or else the   *)
(* part of a line that does not end. All that matters of a line is its size  *)
(* and what each of two parsers makes of it. As a request line it has a      *)
(* "method", or it begins with a blank and so has none ("no_method"), or it  *)
(* is "bad". As a header it is "host" (with a value), "length" (with a       *)
(* value, Content-Length) and then has a number n, another "header", or      *)
(* "bad". A line without bytes is blank. Offsets count from 0.               *)
(***************************************************************************)
EXTENDS Integers, SequencesExt

CONSTANTS
    Requests,           \* records with the lines and how many bytes are behind them
    max_header_size,
    max_body_size

RequestKinds == {"method", "no_method", "bad"}
HeaderKinds  == {"host", "length", "header", "bad"}

\* The header ends with the first line that is blank.
ASSUME RequestsAssumption ==
    \A r \in Requests :
        /\ r.lines \in Seq(Range(r.lines)) /\ r.more \in Nat
        /\ \A k \in DOMAIN r.lines :
              LET line == r.lines[k] IN
                 /\ line.size \in Nat
                 /\ line.as_request \in RequestKinds /\ line.as_header \in HeaderKinds
                 /\ line.size = 0 =>
                       k = Len(r.lines) /\ line.as_request = "bad" /\ line.as_header = "bad"
                 /\ line.as_header = "length" => line.n \in Nat

ASSUME LimitsAssumption == max_header_size \in Nat /\ max_body_size \in Nat

VARIABLES
    request,
    transferred,        \* how many bytes consume has been given so far
    begin,              \* offset of the first byte that was not processed
    lines_processed,    \* how many lines were processed, by either parser
    m_method,           \* "empty", or "set" to one that is not
    m_headers,          \* the lines processed as headers
    m_header_bytes,
    m_body, m_body_bytes_needed,
    http,               \* "read", "consume", "ready", or "failed" (consume has thrown)
    http_error,
    m_buf_cursor,       \* how many bytes are left for handle_read_frame
    reads

buffered == <<request, transferred, begin>>
parsed   == <<lines_processed, m_method, m_headers>>
body     == <<m_body, m_body_bytes_needed>>
httpVars == <<buffered, parsed, m_header_bytes, body, http, http_error, m_buf_cursor, reads>>

\* header_delimiter, and its sizeof, which counts the terminating null.
DelimiterSize   == 2
DelimiterSizeof == 3

LineEnd[k \in 0..Len(request.lines)] ==
    IF k = 0 THEN 0 ELSE LineEnd[k - 1] + request.lines[k].size + DelimiterSize
Sent == LineEnd[Len(request.lines)] + request.more

\* The delimiters that are in m_buf, and the line from begin up to one of them.
Delimiters == {LineEnd[k] - DelimiterSize : k \in DOMAIN request.lines}
InBuffer == {d \in Delimiters : begin <= d /\ d + DelimiterSize <= transferred}
End == CHOOSE d \in InBuffer : \A e \in InBuffer : d <= e
LinesAt == {k \in DOMAIN request.lines :
               LineEnd[k - 1] = begin /\ LineEnd[k] = End + DelimiterSize}
Bad == [as_request |-> "bad", as_header |-> "bad", size |-> 1]
Line == IF LinesAt = {} THEN Bad ELSE request.lines[CHOOSE k \in LinesAt : TRUE]

HttpInit ==
    /\ request \in Requests
    /\ transferred = 0 /\ begin = 0
    /\ lines_processed = 0 /\ m_method = "empty" /\ m_headers = <<>>
    /\ m_header_bytes = 0
    /\ m_body = 0 /\ m_body_bytes_needed = 0
    /\ http = "read" /\ http_error = "none"
    /\ m_buf_cursor = 0
    /\ reads = 0

\* A definition marked "Mutant" is a plausible bug that no action uses: with it
\* in place of the one it precedes the property it is named for fails.

----------------------------------------------------------------------------
ReadHandshake ==
    /\ http = "read"
    /\ transferred' \in (transferred + 1)..Sent
    /\ http' = "consume"
    /\ reads' = reads + 1
    /\ UNCHANGED <<request, begin, parsed, m_header_bytes, body, http_error, m_buf_cursor>>

\* An exception: the response is an error, and no more bytes are read.
Throw(e) ==
    /\ http' = "failed" /\ http_error' = e
    /\ UNCHANGED <<buffered, parsed, m_header_bytes, body, m_buf_cursor>>

\* The request is ready at offset end: what is behind it goes to the frame reader.
Ready(end) ==
    /\ http' = "ready"
    /\ m_buf_cursor' = transferred - end

\* The line is too large together with what was counted before. Every line counts
\* with the size of the delimiter as sizeof gives it.
HeaderBytes(size) == m_header_bytes + size + DelimiterSizeof

InHeaders == http = "consume" /\ m_body_bytes_needed = 0

\* Without a method, a line is processed as a request line, also one behind another
\* request line that had none; then the lines are headers.
Wellformed(line, no_method) ==
    IF no_method THEN line.as_request # "bad" ELSE line.as_header # "bad"

ProcessLine ==
    /\ InHeaders
    /\ InBuffer # {} /\ End > begin
    /\ IF HeaderBytes(End - begin) > max_header_size THEN Throw("too_large")
       ELSE IF ~Wellformed(Line, m_method = "empty") THEN Throw("bad_request")
       ELSE /\ m_header_bytes' = HeaderBytes(End - begin)
            /\ lines_processed' = lines_processed + 1
            /\ IF m_method = "empty"
               THEN /\ m_method' = IF Line.as_request = "method" THEN "set" ELSE "empty"
                    /\ UNCHANGED m_headers
               ELSE /\ m_headers' = Append(m_headers, Line)
                    /\ UNCHANGED m_method
            /\ begin' = End + DelimiterSize
            /\ UNCHANGED <<request, transferred, body, http, http_error, m_buf_cursor>>
    /\ UNCHANGED reads

\* Mutant for RequestRead: the bytes kept in m_buf count again when more come.
OutOfBytesCounted ==
    /\ InHeaders
    /\ InBuffer = {}
    /\ IF HeaderBytes(transferred - begin) > max_header_size THEN Throw("too_large")
       ELSE /\ m_header_bytes' = HeaderBytes(transferred - begin)
            /\ http' = "read"
            /\ UNCHANGED <<buffered, parsed, body, http_error, m_buf_cursor>>
    /\ UNCHANGED reads

\* No delimiter in what is left: it stays in m_buf, and only the delimiter that was
\* not found remains counted.
OutOfBytes ==
    /\ InHeaders
    /\ InBuffer = {}
    /\ IF HeaderBytes(transferred - begin) > max_header_size THEN Throw("too_large")
       ELSE /\ m_header_bytes' = HeaderBytes(transferred - begin) - (transferred - begin)
            /\ http' = "read"
            /\ UNCHANGED <<buffered, parsed, body, http_error, m_buf_cursor>>
    /\ UNCHANGED reads

\* process_body with the bytes from offset start on.
ProcessBody(start, needed) ==
    LET room == {n \in 0..needed : start + n <= transferred}
        processed == CHOOSE n \in room : \A k \in room : k <= n
    IN /\ m_body' = m_body + processed
       /\ m_body_bytes_needed' = needed - processed
       /\ begin' = start + processed
       /\ IF processed = needed THEN Ready(start + processed)
          ELSE http' = "read" /\ UNCHANGED m_buf_cursor

Has(kind) == \E k \in DOMAIN m_headers : m_headers[k].as_header = kind
\* The values of several such headers are joined with commas, and only the number
\* before the first comma is read.
FirstLength == CHOOSE k \in DOMAIN m_headers :
    /\ m_headers[k].as_header = "length"
    /\ \A j \in 1..(k - 1) : m_headers[j].as_header # "length"
ContentLength == m_headers[FirstLength].n

\* The blank line, and prepare_body.
EndOfHeaders ==
    /\ InHeaders
    /\ InBuffer # {} /\ End = begin
    /\ IF HeaderBytes(0) > max_header_size THEN Throw("too_large")
       ELSE IF m_method = "empty" \/ ~Has("host") THEN Throw("incomplete")
       ELSE IF Has("length") /\ ContentLength > max_body_size THEN Throw("body_too_large")
       ELSE /\ m_header_bytes' = HeaderBytes(0)
            /\ IF Has("length") THEN ProcessBody(End + DelimiterSize, ContentLength)
               ELSE /\ begin' = End + DelimiterSize
                    /\ Ready(begin')
                    /\ UNCHANGED body
            /\ UNCHANGED <<request, transferred, parsed, http_error>>
    /\ UNCHANGED reads

\* consume was called with a body under way.
MoreBody ==
    /\ http = "consume" /\ m_body_bytes_needed > 0
    /\ ProcessBody(begin, m_body_bytes_needed)
    /\ UNCHANGED <<request, transferred, parsed, m_header_bytes, http_error, reads>>

----------------------------------------------------------------------------
HttpNext == ReadHandshake \/ ProcessLine \/ OutOfBytes \/ EndOfHeaders \/ MoreBody

HttpSpec == HttpInit /\ [][HttpNext]_httpVars

----------------------------------------------------------------------------
(* What the request is, whatever pieces it comes in.                       *)

Lines == request.lines
Complete == Lines # <<>> /\ Last(Lines).size = 0
HeaderLines == IF Complete THEN Front(Lines) ELSE Lines
HeadSize == LineEnd[Len(Lines)] + IF Complete THEN 0 ELSE request.more

\* The first line with a method is the request line. The lines in front of it must
\* be request lines but for the method, and those behind it are the headers.
NoMethodBefore(k) == \A j \in 1..(k - 1) : HeaderLines[j].as_request # "method"
Headers(kind) == {k \in DOMAIN HeaderLines :
                     ~NoMethodBefore(k) /\ HeaderLines[k].as_header = kind}
\* The first length header decides.
BodySize == IF Headers("length") = {} THEN 0
            ELSE HeaderLines[CHOOSE k \in Headers("length") :
                                \A j \in Headers("length") : k <= j].n

Meaning ==
    IF \E k \in DOMAIN HeaderLines : ~Wellformed(HeaderLines[k], NoMethodBefore(k))
    THEN "bad_request"
    ELSE IF ~Complete THEN "unfinished"
    ELSE IF Headers("host") = {} THEN "incomplete"
    ELSE IF BodySize > max_body_size THEN "body_too_large"
    ELSE "request"

\* In however many pieces a request comes, it is taken for what it is: it is ready
\* with its body, what is left for the frame reader is what is behind it, and an
\* error is the error in it. A request that is ready had no more header bytes than
\* the limit; one refused for its size exceeds the limit if every line and every
\* read is counted with three bytes. And nobody waits for bytes that are there.
RequestRead ==
    /\ http = "ready" =>
          /\ Meaning = "request" /\ m_body = BodySize
          /\ transferred - m_buf_cursor = LineEnd[Len(Lines)] + BodySize
          /\ LineEnd[Len(Lines)] <= max_header_size
    /\ http = "failed" /\ http_error # "too_large" => http_error = Meaning
    /\ http = "failed" /\ http_error = "too_large" =>
          HeadSize + Len(Lines) + 3 * reads > max_header_size
    /\ http = "read" /\ transferred = Sent =>
          \/ Meaning = "unfinished"
          \/ Meaning = "request" /\ request.more < BodySize
=============================================================================
