---------------------------- MODULE MCSequential ----------------------------
(* The sequential parts, each behaviour about one of them: jsmn and its     *)
(* helpers, the request of the handshake, the frames, the timer queue.      *)
EXTENDS MCJson, MCHttpRequest, MCHybi13, TimerQueue

VARIABLE part

NoText    == Plain(<<>>)
NoRequest == [lines |-> <<>>, more |-> 0]
NoStream  == <<>>

ASSUME NoInputs == NoText \in Inputs /\ NoRequest \in Requests /\ NoStream \in Streams

AllTexts   == Texts \cup {NoText}
AllStreams == FrameStreams \cup {NoStream}

allVars == <<part, vars, utilVars, httpVars, frameVars, timerVars>>

SeqInit ==
    /\ part \in {"json", "request", "frames", "timers"}
    /\ IF part = "json"    THEN UtilInit  ELSE input = NoText /\ UtilInit
    /\ IF part = "request" THEN HttpInit  ELSE request = NoRequest /\ HttpInit
    /\ IF part = "frames"  THEN FrameInit ELSE stream = NoStream /\ FrameInit
    /\ IF part = "timers"  THEN QueueInit ELSE Filled(<<>>) /\ Start

SeqNext ==
    /\ UNCHANGED part
    /\ \/ part = "json"    /\ UtilNext  /\ UNCHANGED <<httpVars, frameVars, timerVars>>
       \/ part = "request" /\ HttpNext  /\ UNCHANGED <<vars, utilVars, frameVars, timerVars>>
       \/ part = "frames"  /\ FrameNext /\ UNCHANGED <<vars, utilVars, httpVars, timerVars>>
       \/ part = "timers"  /\ QueueNext /\ UNCHANGED <<vars, utilVars, httpVars, frameVars>>

SeqSpec == SeqInit /\ [][SeqNext]_allVars
=============================================================================
