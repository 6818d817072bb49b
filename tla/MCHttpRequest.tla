---------------------------- MODULE MCHttpRequest ----------------------------
(* Requests for HttpRequest: up to three lines in front of the blank one.   *)
EXTENDS HttpRequest

\* With the smallest sizes at which a limit of 16 is passed by some of them.
HttpLine(as_request, as_header, size) ==
    [as_request |-> as_request, as_header |-> as_header, size |-> size]
HostLine    == HttpLine("bad", "host", 1)
RequestLine == HttpLine("method", "bad", 1)
\* As " Host: b" and "Host : b c", which either parser takes.
BlankHost   == HttpLine("no_method", "host", 1)
MethodHost  == HttpLine("method", "host", 1)
LengthLine(n) == [as_request |-> "bad", as_header |-> "length", size |-> 2, n |-> n]

FirstLines == {RequestLine, HostLine, BlankHost, MethodHost}
MoreLines  == {RequestLine, HostLine, HttpLine("bad", "header", 4)}
              \cup {LengthLine(n) : n \in {0, 2, 3}}
Blank      == HttpLine("bad", "bad", 0)

HeaderLists == {<<>>} \cup {<<f>> \o rest : f \in FirstLines, rest \in BoundedSeq(MoreLines, 2)}

AllRequests ==
    {[lines |-> lines, more |-> more] : lines \in HeaderLists, more \in {0, 3}}
    \cup {[lines |-> Append(lines, Blank), more |-> more] : lines \in HeaderLists, more \in {0, 3}}
=============================================================================
