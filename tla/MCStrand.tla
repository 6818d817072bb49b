------------------------------ MODULE MCStrand ------------------------------
(* The strand and the io_service below it with programs that are chosen at *)
(* the start.                                                              *)
EXTENDS Strand, SequencesExt

Hand(h) == [do |-> "hand_over", op |-> h]
Cancel(h) == [do |-> "cancel", op |-> h]
CancelAll == [do |-> "cancel_ops"]
StopIt == [do |-> "stop"]

\* via and wrapped of each handler, does of threads and handlers that do something.
Program(via, wrapped, does, started, arrives) ==
    [via     |-> via @@ [h \in Handlers |-> "post"],
     wrapped |-> [h \in Handlers |-> h \in wrapped],
     does    |-> does @@ [x \in Handlers \cup Apps |-> <<>>],
     started |-> started, arrives |-> arrives]

\* A pending read keeps the loop alive, as websocketpp's accept does.
Reading == "h1" :> "read"

\* Wrapped handlers posted by a thread, by two, and by a handler in the strand.
Posted ==
    {Program(Reading, {"h1", "h2", "h3"},
             "a1" :> <<Hand("h2")>> @@ "h2" :> <<Hand("h3")>>, {"h1"}, {"read"}),
     Program(Reading, {"h2", "h3", "h4"},
             "a1" :> <<Hand("h2")>> @@ "a2" :> <<Hand("h3")>> @@ "h2" :> <<Hand("h4")>>,
             {"h1"}, {}),
     Program(Reading, {},
             "a1" :> <<Hand("h2"), Hand("h3")>> @@ "h2" :> <<Hand("h4")>>, {}, {})}

\* Handlers posted to the strand, next to one that is wrapped in it.
InStrandPosted ==
    {Program(Reading @@ [h \in {"h2", "h3", "h4"} |-> "strand"], {},
             "a1" :> <<Hand("h2"), Hand("h3")>> @@ "h2" :> <<Hand("h4")>>, {"h1"}, {}),
     Program(Reading @@ [h \in {"h2", "h3"} |-> "strand"], {"h1"},
             "a1" :> <<Hand("h2")>> @@ "a2" :> <<Hand("h3")>>, {"h1"}, {}),
     Program(Reading @@ [h \in {"h2", "h3"} |-> "strand"], {"h1"},
             "a1" :> <<Hand("h2")>> @@ "h1" :> <<Hand("h3")>>, {"h1"}, {"read"})}

\* A timer that is cancelled, by the thread that set it and by the handler of
\* another one.
Timed ==
    {Program("h2" :> "timer", {"h2"},
             "a1" :> <<Hand("h2"), Cancel("h2")>> @@ "h2" :> <<Hand("h3")>>, {}, {}),
     Program(Reading @@ "h2" :> "timer" @@ "h3" :> "timer", {},
             "h1" :> <<Hand("h2"), Hand("h3")>> @@ "h2" :> <<Cancel("h3")>>, {"h1"}, {"read"})}

\* A read and a write: cancelled, ready together, one after the other.
Socket ==
    {Program(Reading @@ "h2" :> "write", {"h2"},
             "a1" :> <<CancelAll>>, {"h1", "h2"}, {"read"}),
     Program(Reading @@ "h2" :> "write", {}, "h1" :> <<Hand("h3")>>, {"h1", "h2"}, {"read", "write"}),
     Program(Reading @@ "h2" :> "write", {"h1", "h2"},
             "h1" :> <<Hand("h2")>> @@ "h2" :> <<Hand("h3")>>, {"h1"}, {"read", "write"})}

Stopped ==
    {Program(Reading, {"h1", "h2"},
             "a1" :> <<Hand("h2")>> @@ "a2" :> <<StopIt>> @@ "h2" :> <<Hand("h3")>>, {"h1"}, {}),
     Program(Reading, {}, "h1" :> <<StopIt>>, {"h1"}, {"read"})}

AllPrograms == Posted \cup InStrandPosted \cup Timed \cup Socket \cup Stopped
=============================================================================
