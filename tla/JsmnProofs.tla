----------------------------- MODULE JsmnProofs -----------------------------
(***************************************************************************)
(* What holds of jsmn_parse for every text, every array of tokens and      *)
(* every sequence of calls, and of jsmn_split_string for every text.       *)
(***************************************************************************)
EXTENDS JsmnUtil, SequenceTheorems, FiniteSetTheorems, WellFoundedInduction, TLAPS

Results == Nat \cup {NOMEM, INVAL, PART, NotYet}
Tokens  == [type : TokenTypes, start : Nat, end : Nat \cup {-1}, size : Nat]

\* How far the tokens go: a token that is being read begins behind all others.
Base == IF mode \in {"idle", "loop"} THEN pos ELSE start

TokensBefore(end) ==
    \A e \in DOMAIN tokens :
        /\ tokens[e].start <= end /\ tokens[e].end <= end
        /\ tokens[e].end = -1 => tokens[e].type \in {"OBJECT", "ARRAY"}
        /\ tokens[e].end # -1 => tokens[e].start <= tokens[e].end

\* Types with what the types of TypeOK rest on: no token begins or ends behind
\* Base, so that it is safe to go back there, and a parser that was not called
\* since jsmn_init has nothing yet.
JInv ==
    /\ input \in Inputs
    /\ len \in 0..Len(Chars)
    /\ num_tokens \in Nat \cup {NoArray}
    /\ pos \in 0..len
    /\ tokens \in Seq(Tokens)
    /\ TokensBefore(Base)
    /\ tokens # <<>> => Len(tokens) <= num_tokens
    /\ toksuper \in -1..(Len(tokens) - 1)
    /\ count \in Nat
    /\ mode \in {"idle", "loop", "primitive", "string", "unicode"}
    /\ start \in Nat
    /\ mode \notin {"idle", "loop"} => start <= pos
    /\ mode \in {"string", "unicode"} => start < pos
    /\ digits \in 0..4
    /\ result \in Results
    /\ mode = "idle" /\ result = NotYet => pos = 0 /\ tokens = <<>> /\ toksuper = -1
    /\ counted \in [result : Results, len : Nat]

----------------------------------------------------------------------------
(* Texts and tokens.                                                       *)

\* There is a character wherever jsmn looks at one.
LEMMA CharFacts ==
    ASSUME JInv
    PROVE  /\ Len(Chars) \in Nat /\ len \in Nat /\ pos \in Nat
           /\ pos <= len
           /\ ~AtEnd => pos < len
<1>1. Chars \in Seq(STRING)
  BY InputsAssumption DEF JInv, Chars
<1>2. Len(Chars) \in Nat
  BY <1>1, LenProperties
<1> QED
  BY <1>2 DEF JInv, AtEnd

\* The tokens are a sequence of tokens with offsets.
LEMMA TokenFacts ==
    ASSUME JInv
    PROVE  /\ Len(tokens) \in Nat /\ DOMAIN tokens = 1..Len(tokens)
           /\ \A e \in DOMAIN tokens : /\ tokens[e] \in Tokens
                                       /\ tokens[e].start \in Nat
                                       /\ tokens[e].end \in Nat \cup {-1}
<1>1. Len(tokens) \in Nat /\ DOMAIN tokens = 1..Len(tokens)
  BY LenProperties DEF JInv
<1>2. \A e \in DOMAIN tokens : tokens[e] \in Tokens
  BY <1>1, ElementOfSeq DEF JInv
<1>3. \A e \in DOMAIN tokens : tokens[e].start \in Nat /\ tokens[e].end \in Nat \cup {-1}
  BY <1>2 DEF Tokens
<1> QED
  BY <1>1, <1>2, <1>3

\* A token has its type and there is room for it.
LEMMA Append1Properties ==
    ASSUME JInv, ~Full, NEW token \in Tokens, token.start >= Base,
           token.end = -1 \/ token.start <= token.end,
           token.end = -1 => token.type \in {"OBJECT", "ARRAY"},
           num_tokens # NoArray
    PROVE  /\ Append1(token) \in Seq(Tokens)
           /\ Len(Append1(token)) = Len(tokens) + 1
           /\ Len(Append1(token)) <= num_tokens
           /\ Append1(token)[Len(tokens) + 1] = token
           /\ \A e \in DOMAIN tokens :
                 /\ Append1(token)[e].start = tokens[e].start
                 /\ Append1(token)[e].end = tokens[e].end
                 /\ Append1(token)[e].type = tokens[e].type
<1> DEFINE grown == IF toksuper = -1 THEN tokens
                    ELSE [tokens EXCEPT ![toksuper + 1].size = @ + 1]
<1>1. tokens \in Seq(Tokens) /\ Len(tokens) \in Nat /\ DOMAIN tokens = 1..Len(tokens)
  BY LenProperties DEF JInv
<1>2. toksuper # -1 => toksuper + 1 \in DOMAIN tokens
  BY <1>1 DEF JInv
<1>3. /\ grown \in Seq(Tokens) /\ Len(grown) = Len(tokens)
      /\ \A e \in DOMAIN tokens : /\ grown[e].start = tokens[e].start
                                  /\ grown[e].end = tokens[e].end
                                  /\ grown[e].type = tokens[e].type
  <2>1. CASE toksuper = -1
    BY <1>1, <2>1
  <2>2. CASE toksuper # -1
    <3> DEFINE k == toksuper + 1
               t == [tokens[k] EXCEPT !.size = @ + 1]
    <3>1. k \in 1..Len(tokens) /\ tokens[k] \in Tokens
      BY <1>1, <1>2, <2>2, ElementOfSeq
    <3>2. t \in Tokens /\ t.start = tokens[k].start /\ t.end = tokens[k].end
          /\ t.type = tokens[k].type
      BY <3>1 DEF Tokens
    <3>3. grown = [tokens EXCEPT ![k] = t]
      BY <2>2
    <3> HIDE DEF k, t, grown
    <3>4. grown \in Seq(Tokens) /\ Len(grown) = Len(tokens)
          /\ \A e \in 1..Len(tokens) : grown[e] = IF e = k THEN t ELSE tokens[e]
      BY <1>1, <3>1, <3>2, <3>3, ExceptSeq
    <3> QED
      BY <1>1, <3>2, <3>4
  <2> QED
    BY <2>1, <2>2
<1>4. Append1(token) = Append(grown, token)
  BY DEF Append1
<1> HIDE DEF grown
<1>5. /\ Append(grown, token) \in Seq(Tokens)
      /\ Len(Append(grown, token)) = Len(tokens) + 1
      /\ Append(grown, token)[Len(tokens) + 1] = token
      /\ \A e \in 1..Len(tokens) : Append(grown, token)[e] = grown[e]
  BY <1>1, <1>3, AppendProperties
<1>6. Len(tokens) + 1 <= num_tokens
  BY <1>1 DEF Full, JInv, NoArray
<1> QED
  BY <1>1, <1>3, <1>4, <1>5, <1>6

\* Where tokens do not change, neither do their bounds.
LEMMA BaseGrows ==
    ASSUME JInv, tokens' = tokens, Base' >= Base, Base' \in Nat
    PROVE  TokensBefore(Base)'
<1>1. Base \in Nat
  BY CharFacts DEF JInv, Base
<1>3. \A e \in DOMAIN tokens : tokens[e].start \in Nat /\ tokens[e].end \in Nat \cup {-1}
  BY TokenFacts
<1>4. \A e \in DOMAIN tokens :
          /\ tokens[e].start <= Base /\ tokens[e].end <= Base
          /\ tokens[e].end = -1 => tokens[e].type \in {"OBJECT", "ARRAY"}
          /\ tokens[e].end # -1 => tokens[e].start <= tokens[e].end
  BY DEF JInv, TokensBefore
<1> HIDE DEF Base
<1>5. \A e \in DOMAIN tokens : tokens[e].start <= Base' /\ tokens[e].end <= Base'
  BY <1>1, <1>3, <1>4
<1> QED
  BY <1>4, <1>5 DEF TokensBefore

\* A new token ends where the next may begin.
LEMMA TokenAdded ==
    ASSUME JInv, ~Full, num_tokens # NoArray,
           NEW token \in Tokens, token.start >= Base, token.end <= Base',
           token.end = -1 \/ token.start <= token.end,
           token.end = -1 => token.type \in {"OBJECT", "ARRAY"},
           tokens' = Append1(token), Base' \in Nat, Base' >= token.start
    PROVE  /\ tokens' \in Seq(Tokens)
           /\ Len(tokens) \in Nat /\ Len(tokens') = Len(tokens) + 1
           /\ Len(tokens') <= num_tokens
           /\ TokensBefore(Base)'
<1> DEFINE added == Append1(token)
<1>1. /\ added \in Seq(Tokens) /\ Len(added) = Len(tokens) + 1 /\ Len(added) <= num_tokens
      /\ added[Len(tokens) + 1] = token
      /\ \A e \in DOMAIN tokens : /\ added[e].start = tokens[e].start
                                  /\ added[e].end = tokens[e].end
                                  /\ added[e].type = tokens[e].type
  BY Append1Properties
<1>2. Len(tokens) \in Nat /\ DOMAIN tokens = 1..Len(tokens) /\ DOMAIN added = 1..Len(added)
  BY <1>1, LenProperties DEF JInv
<1>3. tokens' = added
  OBVIOUS
<1> HIDE DEF added
<1>4. \A e \in 1..Len(tokens) : tokens[e].start \in Nat /\ tokens[e].end \in Nat \cup {-1}
  BY <1>2, TokenFacts
<1>5. Base \in Nat
  BY CharFacts DEF JInv, Base
<1>6. token.start \in Nat /\ token.end \in Nat \cup {-1}
  BY DEF Tokens
<1>7. ASSUME NEW e \in DOMAIN added
      PROVE  /\ added[e].start <= Base' /\ added[e].end <= Base'
             /\ added[e].end = -1 => added[e].type \in {"OBJECT", "ARRAY"}
             /\ added[e].end # -1 => added[e].start <= added[e].end
  <2>1. CASE e = Len(tokens) + 1
    BY <1>1, <2>1
  <2>2. CASE e \in 1..Len(tokens)
    <3>1. /\ tokens[e].start <= Base /\ tokens[e].end <= Base
          /\ tokens[e].end = -1 => tokens[e].type \in {"OBJECT", "ARRAY"}
          /\ tokens[e].end # -1 => tokens[e].start <= tokens[e].end
      BY <1>2, <2>2 DEF JInv, TokensBefore
    <3>2. Base <= Base'
      BY <1>5, <1>6
    <3> HIDE DEF Base
    <3>3. tokens[e].start <= Base' /\ tokens[e].end <= Base'
      BY <1>4, <1>5, <2>2, <3>1, <3>2
    <3> QED
      BY <1>1, <1>2, <2>2, <3>1, <3>3
  <2>3. e \in 1..Len(tokens) \/ e = Len(tokens) + 1
    BY <1>1, <1>2
  <2> QED
    BY <2>1, <2>2, <2>3
<1> QED
  BY <1>1, <1>2, <1>3, <1>7 DEF TokensBefore

----------------------------------------------------------------------------
(* The steps.                                                              *)

\* The invariant holds initially.
LEMMA JInit == Init => JInv
<1> SUFFICES ASSUME Init PROVE JInv
  OBVIOUS
<1>1. Len(Chars) \in Nat
  BY InputsAssumption, LenProperties DEF Init, Chars
<1>2. tokens \in Seq(Tokens) /\ Len(tokens) = 0 /\ DOMAIN tokens = {}
  BY EmptySeq, LenProperties DEF Init
<1> QED
  BY <1>1, <1>2 DEF Init, JInv, TokensBefore, Results, NotYet, NoArray

\* The caller starts a parse, resumes it or takes its result.
LEMMA JCaller == ASSUME JInv, Caller PROVE JInv'
<1> USE DEF args, parser, locals, NoArray, NotYet, NOMEM, INVAL, PART, Results, Goto
<1>1. input' = input /\ Chars' = Chars /\ input.stops \subseteq 0..Len(Chars)
  BY InputsAssumption DEF Caller, CallCount, Counted, CallParse, JInv, Chars
<1>2. CASE CallCount
  <2>1. len' \in 0..Len(Chars) /\ pos' \in 0..len'
    BY <1>1, <1>2, CharFacts DEF CallCount, JInv
  <2>2. TokensBefore(Base)'
    BY <1>2, CharFacts, BaseGrows DEF CallCount, Base
  <2> QED
    BY <1>1, <1>2, <2>1, <2>2 DEF CallCount, JInv
<1>3. CASE Counted
  <2>1. tokens' \in Seq(Tokens) /\ Len(tokens') = 0 /\ DOMAIN tokens' = {}
    BY <1>3, EmptySeq, LenProperties DEF Counted
  <2> QED
    BY <1>1, <1>3, <2>1, CharFacts DEF Counted, JInv, TokensBefore
<1>4. CASE CallParse
  <2>1. len' \in 0..Len(Chars) /\ pos' \in 0..len'
    BY <1>1, <1>4, CharFacts DEF CallParse, JInv
  <2>2. TokensBefore(Base)'
    BY <1>4, CharFacts, BaseGrows DEF CallParse, Base
  <2>3. num_tokens' \in Nat
    BY <1>4, InputsAssumption DEF CallParse
  <2>4. Len(tokens) \in Nat
    BY LenProperties DEF JInv
  <2>5. tokens # <<>> => Len(tokens) <= num_tokens'
    BY <1>4, <2>3, <2>4 DEF CallParse, JInv
  <2> QED
    BY <1>1, <1>4, <2>1, <2>2, <2>3, <2>4, <2>5 DEF CallParse, JInv
<1> QED
  BY <1>2, <1>3, <1>4 DEF Caller

\* Giving up goes back to the start of what was read.
LEMMA JGiveUp ==
    ASSUME JInv, mode \notin {"idle", "loop"}, NEW error \in {NOMEM, INVAL, PART},
           GiveUp(error), UNCHANGED <<args, counted>>, start' = start, digits' \in 0..4
    PROVE  JInv'
<1>1. pos' = start /\ mode' = "idle" /\ result' = error /\ start \in 0..len
  BY CharFacts DEF GiveUp, Return, JInv
<1>2. Base' = start /\ Base = start
  BY <1>1 DEF Base
<1>3. TokensBefore(Base)'
  BY <1>1, <1>2, BaseGrows DEF GiveUp, JInv
<1>4. error # NotYet
  BY DEF NotYet, NOMEM, INVAL, PART
<1> QED
  BY <1>1, <1>3, <1>4 DEF GiveUp, JInv, args, Results, Chars

\* A primitive or string was found: it gets a token, or there is none left.
LEMMA JFound ==
    ASSUME JInv, mode \notin {"idle", "loop"},
           NEW type \in {"STRING", "PRIMITIVE"}, NEW from \in Nat, NEW next \in 0..len,
           from >= start, from <= pos, pos <= next,
           Found(Token(type, from, pos), next),
           UNCHANGED <<args, counted, locals>>
    PROVE  JInv'
<1> DEFINE token == Token(type, from, pos)
<1>1. CASE Full
  <2>1. GiveUp(NOMEM)
    BY <1>1 DEF Found
  <2> QED
    BY <2>1, JGiveUp DEF locals, JInv
<1>2. CASE ~Full
  <2>1. /\ tokens' = Append1(token) /\ count' = count + 1 /\ pos' = next
        /\ mode' = "loop" /\ toksuper' = toksuper /\ result' = result
    BY <1>2 DEF Found, Goto
  <2>2. /\ token \in Tokens /\ token.start = from /\ token.end = pos
        /\ token.start <= token.end /\ token.end # -1
    BY CharFacts DEF Token, Tokens, TokenTypes
  <2>3. Base = start /\ Base' = next
    BY <2>1 DEF Base
  <2> HIDE DEF token
  <2>4. CASE num_tokens = NoArray
    <3>1. tokens' = tokens
      BY <2>1, <2>4 DEF Append1
    <3>2. TokensBefore(Base)'
      BY <2>3, <3>1, BaseGrows, CharFacts DEF JInv
    <3> QED
      BY <2>1, <3>1, <3>2, CharFacts DEF JInv, args, locals, Chars, Results
  <2>5. CASE num_tokens # NoArray
    <3>1. /\ tokens' \in Seq(Tokens)
          /\ Len(tokens) \in Nat /\ Len(tokens') = Len(tokens) + 1
          /\ Len(tokens') <= num_tokens
          /\ TokensBefore(Base)'
      BY <1>2, <2>1, <2>2, <2>3, <2>5, TokenAdded, CharFacts DEF JInv
    <3> QED
      BY <2>1, <3>1, CharFacts DEF JInv, args, locals, Chars, Results
  <2> QED
    BY <2>4, <2>5
<1> QED
  BY <1>1, <1>2

\* An opening bracket.
LEMMA JOpen == ASSUME JInv, ParseOpen PROVE JInv'
<1> USE DEF args, locals, NoArray, Results
<1>1. /\ mode = "loop" /\ pos < len /\ UNCHANGED <<args, locals, counted>>
      /\ count' = count + 1
  BY CharFacts DEF ParseOpen, InLoop
<1>2. CASE Full
  <2>1. mode' = "idle" /\ result' = NOMEM /\ UNCHANGED parser
    BY <1>2 DEF ParseOpen, Return
  <2>2. TokensBefore(Base)'
    BY <1>1, <2>1, CharFacts, BaseGrows DEF Base, parser
  <2> QED
    BY <1>1, <2>1, <2>2, CharFacts DEF JInv, Chars, parser, NOMEM, NotYet
<1>3. CASE ~Full
  <2> DEFINE token == Token(TypeOfBracket(Char), pos, -1)
  <2>1. /\ tokens' = Append1(token) /\ pos' = pos + 1
        /\ toksuper' = IF num_tokens = NoArray THEN toksuper ELSE Len(tokens)
        /\ UNCHANGED <<mode, result>>
    BY <1>3 DEF ParseOpen
  <2>2. /\ token \in Tokens /\ token.start = pos /\ token.end = -1
        /\ token.type \in {"OBJECT", "ARRAY"}
    BY CharFacts DEF Token, Tokens, TokenTypes, TypeOfBracket
  <2>3. Base = pos /\ Base' = pos + 1
    BY <1>1, <2>1 DEF Base
  <2> HIDE DEF token
  <2>4. CASE num_tokens = NoArray
    <3>1. tokens' = tokens
      BY <2>1, <2>4 DEF Append1
    <3>2. TokensBefore(Base)'
      BY <2>3, <3>1, BaseGrows, CharFacts
    <3> QED
      BY <1>1, <2>1, <2>4, <3>1, <3>2, CharFacts DEF JInv, Chars
  <2>5. CASE num_tokens # NoArray
    <3>1. /\ tokens' \in Seq(Tokens)
          /\ Len(tokens) \in Nat /\ Len(tokens') = Len(tokens) + 1
          /\ Len(tokens') <= num_tokens
          /\ TokensBefore(Base)'
      BY <1>3, <2>1, <2>2, <2>3, <2>5, TokenAdded, CharFacts
    <3> QED
      BY <1>1, <2>1, <2>5, <3>1, CharFacts DEF JInv, Chars
  <2> QED
    BY <2>4, <2>5
<1> QED
  BY <1>2, <1>3

\* What closing a token changes.
LEMMA CloseProperties ==
    ASSUME JInv, NEW e \in OpenTokens, CloseToken(e)
    PROVE  /\ tokens' \in Seq(Tokens) /\ Len(tokens') = Len(tokens)
           /\ tokens # <<>> /\ e + 1 \in 1..Len(tokens)
           /\ \A k \in DOMAIN tokens :
                 /\ tokens'[k].start = tokens[k].start
                 /\ tokens'[k].type = tokens[k].type
                 /\ tokens'[k].end = IF k = e + 1 THEN pos + 1 ELSE tokens[k].end
<1> DEFINE t == [tokens[e + 1] EXCEPT !.end = pos + 1]
           closed == [tokens EXCEPT ![e + 1].end = pos + 1]
<1>1. Len(tokens) \in Nat /\ DOMAIN tokens = 1..Len(tokens)
  BY TokenFacts
<1>2. e + 1 \in 1..Len(tokens) /\ tokens[e + 1] \in Tokens
  BY <1>1, TokenFacts DEF OpenTokens
<1>3. t \in Tokens /\ t.end = pos + 1 /\ t.start = tokens[e + 1].start
      /\ t.type = tokens[e + 1].type
  BY <1>2, CharFacts DEF Tokens
<1>4. closed = [tokens EXCEPT ![e + 1] = t]
  OBVIOUS
<1>5. tokens' = closed
  BY DEF CloseToken
<1> DEFINE k == e + 1
<1>6. k \in 1..Len(tokens)
  BY <1>2
<1> HIDE DEF t, closed, k
<1>7. closed = [tokens EXCEPT ![k] = t]
  BY <1>4 DEF k
<1>8. /\ closed \in Seq(Tokens) /\ Len(closed) = Len(tokens)
      /\ \A j \in 1..Len(tokens) : closed[j] = IF j = k THEN t ELSE tokens[j]
  BY <1>3, <1>6, <1>7, ExceptSeq DEF JInv
<1>9. tokens # <<>>
  BY <1>1, <1>6, EmptySeq
<1> QED
  BY <1>1, <1>2, <1>3, <1>5, <1>8, <1>9 DEF k

\* A closing bracket.
LEMMA JClose == ASSUME JInv, ParseClose PROVE JInv'
<1> USE DEF args, locals, NoArray, Results
<1>1. mode = "loop" /\ pos < len /\ UNCHANGED <<args, count, locals, counted>>
  BY CharFacts DEF ParseClose, InLoop
<1>2. CASE UNCHANGED <<toksuper, tokens>> /\ pos' = pos + 1 /\ UNCHANGED <<mode, result>>
  <2>1. TokensBefore(Base)'
    BY <1>1, <1>2, CharFacts, BaseGrows DEF Base
  <2> QED
    BY <1>1, <1>2, <2>1, CharFacts DEF JInv, Chars
<1>3. CASE Return(INVAL) /\ UNCHANGED parser
  <2>1. TokensBefore(Base)'
    BY <1>1, <1>3, CharFacts, BaseGrows DEF Base, parser, Return
  <2> QED
    BY <1>1, <1>3, <2>1, CharFacts DEF JInv, Chars, parser, Return, INVAL, NotYet
<1>4. ASSUME NEW e \in OpenTokens, CloseToken(e) PROVE JInv'
  <2>1. /\ tokens' \in Seq(Tokens) /\ Len(tokens') = Len(tokens) /\ tokens # <<>>
        /\ e + 1 \in 1..Len(tokens)
        /\ \A k \in DOMAIN tokens :
              /\ tokens'[k].start = tokens[k].start
              /\ tokens'[k].type = tokens[k].type
              /\ tokens'[k].end = IF k = e + 1 THEN pos + 1 ELSE tokens[k].end
    BY <1>4, CloseProperties
  <2>2. Len(tokens) \in Nat /\ DOMAIN tokens = 1..Len(tokens) /\ DOMAIN tokens' = 1..Len(tokens)
    BY <2>1, TokenFacts, LenProperties
  <2>3. pos' = pos + 1 /\ UNCHANGED <<mode, result>>
    BY <1>4 DEF CloseToken
  <2>4. toksuper' \in -1..(Len(tokens) - 1)
    <3>1. OpenTokens \subseteq 0..(Len(tokens) - 1)
      BY DEF OpenTokens
    <3>2. CASE toksuper' = -1
      BY <2>2, <3>2
    <3>3. CASE Innermost(OpenTokens \ {e}, toksuper')
      BY <2>2, <3>1, <3>3 DEF Innermost
    <3> QED
      BY <1>4, <3>2, <3>3 DEF CloseToken
  <2>5. Base = pos /\ Base' = pos + 1
    BY <1>1, <2>3 DEF Base
  <2>6. TokensBefore(Base)'
    <3>1. ASSUME NEW k \in DOMAIN tokens
          PROVE  /\ tokens'[k].start <= pos + 1 /\ tokens'[k].end <= pos + 1
                 /\ tokens'[k].end = -1 => tokens'[k].type \in {"OBJECT", "ARRAY"}
                 /\ tokens'[k].end # -1 => tokens'[k].start <= tokens'[k].end
      <4>1. /\ tokens[k].start <= pos /\ tokens[k].end <= pos
            /\ tokens[k].end = -1 => tokens[k].type \in {"OBJECT", "ARRAY"}
            /\ tokens[k].end # -1 => tokens[k].start <= tokens[k].end
        BY <2>5 DEF JInv, TokensBefore
      <4>2. tokens[k].start \in Nat /\ tokens[k].end \in Nat \cup {-1} /\ pos \in Nat
        BY TokenFacts, CharFacts
      <4> QED
        BY <2>1, <4>1, <4>2
    <3> QED
      BY <2>2, <2>5, <3>1 DEF TokensBefore
  <2> QED
    BY <1>1, <2>1, <2>3, <2>4, <2>6, CharFacts DEF JInv, Chars
<1> QED
  BY <1>2, <1>3, <1>4 DEF ParseClose

\* The characters of the loop that add no token.
LEMMA JLoop ==
    ASSUME JInv,
           ParseColon \/ ParseComma \/ ParseBlank \/ ParseQuote \/ ParseOther \/ ParseEnd
    PROVE  JInv'
<1> USE DEF args, parser, locals, NoArray, Results, Goto
<1>1. mode = "loop" /\ tokens' = tokens /\ UNCHANGED <<args, counted, digits, count>>
  BY DEF ParseColon, ParseComma, ParseBlank, ParseQuote, ParseOther, ParseEnd, InLoop
<1>2. pos' \in pos..len
  <2>1. CASE ParseOther \/ ParseEnd
    <3>1. pos' = pos
      BY <2>1 DEF ParseOther, ParseEnd
    <3> QED
      BY <3>1, CharFacts
  <2>2. CASE ParseColon \/ ParseComma \/ ParseBlank \/ ParseQuote
    <3>1. ~AtEnd /\ pos' = pos + 1
      BY <2>2 DEF ParseColon, ParseComma, ParseBlank, ParseQuote, InLoop
    <3> QED
      BY <3>1, CharFacts
  <2> QED
    BY <2>1, <2>2
<1>3. /\ mode' \in {"idle", "loop", "primitive", "string"}
      /\ mode' \in {"primitive", "string"} => start' = pos
      /\ mode' = "string" => pos' = pos + 1
      /\ mode' \in {"idle", "loop"} => start' = start
  <2>1. CASE ParseQuote \/ ParseOther
    BY <2>1 DEF ParseQuote, ParseOther
  <2>2. CASE ParseColon \/ ParseComma \/ ParseBlank \/ ParseEnd
    BY <1>1, <2>2 DEF ParseColon, ParseComma, ParseBlank, ParseEnd, Return
  <2> QED
    BY <2>1, <2>2
<1>4. TokensBefore(Base)'
  <2>1. Base = pos /\ Base' \in Nat /\ Base' >= pos
    BY <1>1, <1>2, <1>3, CharFacts DEF Base
  <2> QED
    BY <1>1, <2>1, BaseGrows
<1>5. toksuper' \in -1..(Len(tokens) - 1)
  <2>1. CASE ParseColon
    BY <2>1, TokenFacts DEF ParseColon
  <2>2. CASE ParseComma
    <3>1. toksuper' \in OpenTokens \/ toksuper' = toksuper
      BY <2>2 DEF ParseComma
    <3>2. OpenTokens \subseteq -1..(Len(tokens) - 1)
      BY TokenFacts DEF OpenTokens
    <3> QED
      BY <3>1, <3>2 DEF JInv
  <2>3. CASE ParseBlank \/ ParseQuote \/ ParseOther \/ ParseEnd
    <3>1. toksuper' = toksuper
      BY <2>3 DEF ParseBlank, ParseQuote, ParseOther, ParseEnd
    <3> QED
      BY <3>1 DEF JInv
  <2> QED
    BY <2>1, <2>2, <2>3
<1>6. result' \in Results \ {NotYet} \/ (result' = result /\ mode' # "idle")
  <2>1. CASE ParseEnd
    BY <2>1 DEF ParseEnd, Return, JInv, PART, NotYet
  <2>2. CASE ParseColon \/ ParseComma \/ ParseBlank \/ ParseQuote \/ ParseOther
    BY <1>1, <2>2 DEF ParseColon, ParseComma, ParseBlank, ParseQuote, ParseOther
  <2> QED
    BY <2>1, <2>2
<1>7. start' \in Nat /\ (mode' = "string" => start' < pos')
      /\ (mode' \in {"primitive", "string"} => start' <= pos')
  BY <1>2, <1>3, CharFacts DEF JInv
<1> QED
  BY <1>1, <1>2, <1>3, <1>4, <1>5, <1>6, <1>7, CharFacts DEF JInv, Chars

\* A step within a primitive.
LEMMA JPrimitive == ASSUME JInv, Primitive PROVE JInv'
<1>1. mode = "primitive" /\ UNCHANGED <<args, locals, counted>> /\ start \in Nat /\ start <= pos
  BY DEF Primitive, JInv
<1>2. CASE Found(Token("PRIMITIVE", start, pos), pos)
  BY <1>1, <1>2, JFound, CharFacts
<1>3. CASE GiveUp(INVAL)
  BY <1>1, <1>3, JGiveUp DEF JInv, locals
<1>4. CASE /\ ~AtEnd /\ pos' = pos + 1
           /\ UNCHANGED <<toksuper, tokens, count, mode, result>>
  <2>1. TokensBefore(Base)'
    BY <1>1, <1>4, BaseGrows, CharFacts DEF Base, locals
  <2> QED
    BY <1>1, <1>4, <2>1, CharFacts DEF JInv, Chars, args, locals
<1> QED
  BY <1>2, <1>3, <1>4 DEF Primitive

\* A step within a string.
LEMMA JString == ASSUME JInv, StringEnd \/ StringEscape \/ StringChar PROVE JInv'
<1>1. mode = "string" /\ start' = start /\ UNCHANGED <<args, counted>> /\ start \in Nat /\ start < pos
  BY DEF StringEnd, StringEscape, StringChar, JInv, locals
<1>2. CASE StringEnd
  <2>1. CASE GiveUp(PART)
    BY <1>1, <1>2, <2>1, JGiveUp DEF StringEnd, JInv, locals
  <2>2. CASE ~AtEnd /\ Found(Token("STRING", start + 1, pos), pos + 1)
    <3> DEFINE from == start + 1
               next == pos + 1
    <3>1. from \in Nat /\ from >= start /\ from <= pos /\ next \in 0..len /\ pos <= next
      BY <1>1, <2>2, CharFacts
    <3>2. Found(Token("STRING", from, pos), next) /\ UNCHANGED <<args, counted, locals>>
      BY <1>2, <2>2 DEF StringEnd
    <3> HIDE DEF from, next
    <3> QED
      BY <1>1, <3>1, <3>2, JFound
  <2> QED
    BY <1>2, <2>1, <2>2 DEF StringEnd
<1>3. ASSUME UNCHANGED <<toksuper, tokens, count, result>>, pos' \in pos..len,
             mode' \in {"string", "unicode"}, digits' \in 0..4
      PROVE  JInv'
  <2>1. TokensBefore(Base)'
    BY <1>1, <1>3, BaseGrows, CharFacts DEF Base
  <2> QED
    BY <1>1, <1>3, <2>1, CharFacts DEF JInv, Chars, args
<1>4. CASE StringEscape
  <2>1. CASE GiveUp(INVAL)
    BY <1>1, <1>4, <2>1, JGiveUp DEF StringEscape
  <2>2. CASE pos' = pos + 2 /\ mode' \in {"string", "unicode"}
             /\ UNCHANGED <<toksuper, tokens, count, result>>
    <3>1. pos' \in pos..len /\ digits' \in 0..4
      BY <1>4, <2>2, CharFacts DEF StringEscape
    <3> QED
      BY <1>3, <2>2, <3>1
  <2> QED
    BY <1>4, <2>1, <2>2 DEF StringEscape, Goto
<1>5. CASE StringChar
  <2>1. pos' = pos + 1 /\ pos < len /\ digits' = digits
    BY <1>5, CharFacts DEF StringChar, locals
  <2>2. pos' \in pos..len /\ digits' \in 0..4
    BY <2>1, CharFacts DEF JInv
  <2> QED
    BY <1>1, <1>3, <1>5, <2>2 DEF StringChar
<1> QED
  BY <1>2, <1>4, <1>5

\* A step within an escaped character code.
LEMMA JUnicode == ASSUME JInv, Unicode PROVE JInv'
<1>1. mode = "unicode" /\ start' = start /\ UNCHANGED <<args, counted>> /\ start \in Nat /\ start < pos
      /\ digits \in 0..4
  BY DEF Unicode, JInv
<1>2. CASE GiveUp(INVAL) /\ UNCHANGED digits
  BY <1>1, <1>2, JGiveUp
<1>3. ASSUME UNCHANGED <<toksuper, tokens, count, result>>, pos' \in pos..len,
             mode' \in {"string", "unicode"}, digits' \in 0..4
      PROVE  JInv'
  <2>1. TokensBefore(Base)'
    BY <1>1, <1>3, BaseGrows, CharFacts DEF Base
  <2> QED
    BY <1>1, <1>3, <2>1, CharFacts DEF JInv, Chars, args
<1>4. CASE mode' = "string" /\ UNCHANGED <<parser, count, digits, result>>
  BY <1>1, <1>3, <1>4, CharFacts DEF parser
<1>5. CASE /\ digits # 4 /\ ~AtEnd
           /\ digits' = digits + 1 /\ pos' = pos + 1
           /\ UNCHANGED <<toksuper, tokens, count, mode, result>>
  BY <1>1, <1>3, <1>5, CharFacts
<1> QED
  BY <1>2, <1>4, <1>5 DEF Unicode, Goto

\* Every step keeps the inductive invariant.
LEMMA JNext == JInv /\ [Next]_vars => JInv'
<1> SUFFICES ASSUME JInv, [Next]_vars PROVE JInv'
  OBVIOUS
<1>1. CASE UNCHANGED vars
  BY <1>1 DEF vars, args, parser, locals, JInv, TokensBefore, Base, Chars
<1> QED
  BY <1>1, JCaller, JOpen, JClose, JLoop, JPrimitive, JString, JUnicode DEF Next, Parse

\* The inductive invariant always holds.
LEMMA JCorrect == Spec => []JInv
<1>1. Init => JInv
  BY JInit
<1>2. JInv /\ [Next]_vars => JInv'
  BY JNext
<1> QED
  BY <1>1, <1>2, PTL DEF Spec

\* jsmn.cpp, jsmn_parse: whatever the text, the array and the calls, it looks at
\* no character from len on and at no token but those it has filled, and fills
\* no more than there is room for.
THEOREM JsmnTypeCorrect == Spec => []TypeOK
<1>1. JInv => TypeOK
  <2> SUFFICES ASSUME JInv PROVE TypeOK
    OBVIOUS
  <2>1. Base <= pos /\ Base \in Nat
    BY CharFacts DEF JInv, Base
  <2>2. ASSUME NEW e \in DOMAIN tokens PROVE IsToken(tokens[e])
    <3>1. tokens[e] \in Tokens
      BY TokenFacts
    <3>2. /\ tokens[e].start \in Nat /\ tokens[e].end \in Nat \cup {-1}
          /\ tokens[e].type \in TokenTypes /\ tokens[e].size \in Nat
      BY <3>1 DEF Tokens
    <3>3. /\ tokens[e].start <= Base /\ tokens[e].end <= Base
          /\ tokens[e].end = -1 => tokens[e].type \in {"OBJECT", "ARRAY"}
          /\ tokens[e].end # -1 => tokens[e].start <= tokens[e].end
      BY DEF JInv, TokensBefore
    <3> HIDE DEF Base
    <3>4. tokens[e].start <= pos /\ tokens[e].end <= pos
      BY <2>1, <3>2, <3>3, CharFacts
    <3>5. tokens[e].start \in 0..pos
      BY <3>2, <3>4, CharFacts
    <3>6. tokens[e].end \in {-1} \cup tokens[e].start..pos
      BY <3>2, <3>3, <3>4, CharFacts
    <3> QED
      BY <3>2, <3>3, <3>5, <3>6 DEF IsToken
  <2>3. mode \notin {"idle", "loop"} => start \in 0..pos
    BY CharFacts DEF JInv
  <2> QED
    BY <2>2, <2>3 DEF JInv, TypeOK, Results
<1> QED
  BY <1>1, JCorrect, PTL

----------------------------------------------------------------------------
(* The forest.                                                             *)

\* What a step may do to the tokens: it adds one that begins behind all that
\* end, or it closes the innermost that is open.
Adds ==
    \E token \in Tokens :
        /\ ~Full /\ num_tokens # NoArray
        /\ token.start >= Base
        /\ token.end = -1 \/ token.start <= token.end
        /\ token.end = -1 => token.type \in {"OBJECT", "ARRAY"}
        /\ tokens' = Append1(token)
Closed == mode = "loop" /\ \E e \in OpenTokens : Innermost(OpenTokens, e) /\ CloseToken(e)

\* What is found lies behind all tokens that have ended.
LEMMA FoundAdds ==
    ASSUME JInv, mode \notin {"idle", "loop"},
           NEW type \in {"STRING", "PRIMITIVE"}, NEW from \in Nat, NEW next \in 0..len,
           from >= start, from <= pos, Found(Token(type, from, pos), next)
    PROVE  tokens' = tokens \/ Adds
<1> DEFINE token == Token(type, from, pos)
<1>1. CASE Full
  BY <1>1 DEF Found, GiveUp
<1>2. CASE num_tokens = NoArray
  BY <1>2 DEF Found, GiveUp, Append1
<1>3. CASE ~Full /\ num_tokens # NoArray
  <2>1. /\ token \in Tokens /\ token.start = from /\ token.end = pos
        /\ token.start <= token.end /\ token.end # -1
    BY CharFacts DEF Token, Tokens, TokenTypes
  <2>2. tokens' = Append1(token) /\ Base = start
    BY <1>3 DEF Found, Base
  <2> HIDE DEF token
  <2> QED
    BY <1>3, <2>1, <2>2 DEF Adds
<1> QED
  BY <1>1, <1>2, <1>3

\* Every step does one of these to the tokens, or nothing, or starts anew.
LEMMA TokenSteps ==
    ASSUME JInv, [Next]_vars
    PROVE  tokens' = tokens \/ tokens' = <<>> \/ Adds \/ Closed
<1>1. CASE Caller
  BY <1>1 DEF Caller, CallCount, Counted, CallParse, parser
<1>2. CASE ParseOpen
  <2> DEFINE token == Token(TypeOfBracket(Char), pos, -1)
  <2>1. CASE Full \/ num_tokens = NoArray
    BY <1>2, <2>1 DEF ParseOpen, Append1, parser
  <2>2. CASE ~Full /\ num_tokens # NoArray
    <3>1. /\ token \in Tokens /\ token.start = pos /\ token.end = -1
          /\ token.type \in {"OBJECT", "ARRAY"}
      BY CharFacts DEF Token, Tokens, TokenTypes, TypeOfBracket
    <3>2. tokens' = Append1(token) /\ Base = pos
      BY <1>2, <2>2 DEF ParseOpen, InLoop, Base
    <3>3. pos \in Nat
      BY CharFacts
    <3> HIDE DEF token
    <3> QED
      BY <2>2, <3>1, <3>2, <3>3 DEF Adds
  <2> QED
    BY <2>1, <2>2
<1>3. CASE ParseClose
  BY <1>3 DEF ParseClose, InLoop, Closed, parser
<1>4. CASE ParseColon \/ ParseComma \/ ParseBlank \/ ParseQuote \/ ParseOther \/ ParseEnd
  BY <1>4 DEF ParseColon, ParseComma, ParseBlank, ParseQuote, ParseOther, ParseEnd, parser
<1>5. CASE Primitive
  <2>1. CASE Found(Token("PRIMITIVE", start, pos), pos)
    BY <1>5, <2>1, FoundAdds, CharFacts DEF Primitive, JInv
  <2>2. CASE ~Found(Token("PRIMITIVE", start, pos), pos)
    BY <1>5, <2>2 DEF Primitive, GiveUp
  <2> QED
    BY <2>1, <2>2
<1>6. CASE StringEnd
  <2> DEFINE from == start + 1
             next == pos + 1
  <2>1. CASE ~AtEnd /\ Found(Token("STRING", from, pos), next)
    <3>1. mode = "string" /\ start \in Nat /\ start < pos
      BY <1>6 DEF StringEnd, JInv
    <3>2. from \in Nat /\ from >= start /\ from <= pos /\ next \in 0..len
      BY <2>1, <3>1, CharFacts
    <3> HIDE DEF from, next
    <3> QED
      BY <2>1, <3>1, <3>2, FoundAdds
  <2>2. CASE AtEnd
    BY <1>6, <2>2 DEF StringEnd, GiveUp
  <2> QED
    BY <1>6, <2>1, <2>2 DEF StringEnd
<1>7. CASE StringEscape \/ StringChar \/ Unicode
  BY <1>7 DEF StringEscape, StringChar, Unicode, GiveUp, parser
<1>8. CASE UNCHANGED vars
  BY <1>8 DEF vars, parser
<1> QED
  BY <1>1, <1>2, <1>3, <1>4, <1>5, <1>6, <1>7, <1>8 DEF Next, Parse

\* How two tokens lie to each other, of which the first comes first.
Lie(s, t) ==
    /\ s.start <= t.start
    /\ \/ s.end = -1
       \/ s.end <= t.start
       \/ t.end # -1 /\ t.end <= s.end

\* A token that begins behind all that end overlaps none.
LEMMA LaminarAdds == ASSUME JInv, Laminar, Adds PROVE Laminar'
<1>1. PICK token \in Tokens :
          /\ ~Full /\ num_tokens # NoArray
          /\ token.start >= Base
          /\ token.end = -1 \/ token.start <= token.end
          /\ token.end = -1 => token.type \in {"OBJECT", "ARRAY"}
          /\ tokens' = Append1(token)
  BY DEF Adds
<1> DEFINE added == Append1(token)
           n == Len(tokens)
<1>2. /\ added \in Seq(Tokens) /\ Len(added) = n + 1
      /\ added[n + 1] = token
      /\ \A e \in DOMAIN tokens : /\ added[e].start = tokens[e].start
                                  /\ added[e].end = tokens[e].end
                                  /\ added[e].type = tokens[e].type
  BY <1>1, Append1Properties
<1>3. n \in Nat /\ DOMAIN tokens = 1..n /\ DOMAIN added = 1..(n + 1)
  BY <1>2, TokenFacts, LenProperties
<1>4. Base \in Nat /\ token.start \in Nat
  BY CharFacts DEF JInv, Base, Tokens
<1>5. tokens' = added
  BY <1>1
<1>6. \A e \in 1..n : /\ tokens[e].start <= Base /\ tokens[e].end <= Base
                      /\ tokens[e].start \in Nat /\ tokens[e].end \in Nat \cup {-1}
  BY <1>3, TokenFacts DEF JInv, TokensBefore
<1> HIDE DEF added, n, Base
<1>7. ASSUME NEW e \in 1..(n + 1), NEW j \in 1..(n + 1), e < j
      PROVE  Lie(added[e], added[j])
  <2>1. e \in 1..n
    BY <1>3, <1>7
  <2>2. CASE j = n + 1
    <3>1. tokens[e].start <= token.start /\ tokens[e].end <= token.start
      BY <1>1, <1>4, <1>6, <2>1
    <3> QED
      BY <1>2, <1>3, <2>1, <2>2, <3>1 DEF Lie
  <2>3. CASE j \in 1..n
    <3>1. Lie(tokens[e], tokens[j])
      BY <1>3, <1>7, <2>1, <2>3 DEF Laminar, Lie
    <3> QED
      BY <1>2, <1>3, <2>1, <2>3, <3>1 DEF Lie
  <2> QED
    BY <1>3, <2>2, <2>3
<1> QED
  BY <1>3, <1>5, <1>7 DEF Laminar, Lie

\* The innermost open token ends behind all that it contains.
LEMMA LaminarCloses == ASSUME JInv, Laminar, Closed PROVE Laminar'
<1>1. PICK c \in OpenTokens : Innermost(OpenTokens, c) /\ CloseToken(c)
  BY DEF Closed
<1> DEFINE n == Len(tokens)
           k == c + 1
<1>2. /\ tokens' \in Seq(Tokens) /\ Len(tokens') = n
      /\ k \in 1..n
      /\ \A e \in DOMAIN tokens :
            /\ tokens'[e].start = tokens[e].start
            /\ tokens'[e].end = IF e = k THEN pos + 1 ELSE tokens[e].end
  BY <1>1, CloseProperties
<1>3. n \in Nat /\ DOMAIN tokens = 1..n /\ DOMAIN tokens' = 1..n
  BY <1>2, TokenFacts, LenProperties
<1>4. pos \in Nat
  BY CharFacts
<1>5. \A e \in 1..n : /\ tokens[e].start <= pos /\ tokens[e].end <= pos
                      /\ tokens[e].start \in Nat /\ tokens[e].end \in Nat \cup {-1}
  BY <1>3, TokenFacts DEF JInv, TokensBefore, Base, Closed
<1>6. tokens[k].end = -1
  BY <1>1 DEF OpenTokens
<1>7. ASSUME NEW j \in 1..n, k < j PROVE tokens[j].end # -1
  <2> DEFINE o == j - 1
  <2>1. o \in 0..(n - 1) /\ o + 1 = j /\ o > c /\ c \in Nat /\ o \in Nat
    BY <1>1, <1>2, <1>3, <1>7 DEF OpenTokens
  <2>2. o \notin OpenTokens
    <3> HIDE DEF o
    <3>1. o \in OpenTokens => o <= c
      BY <1>1 DEF Innermost
    <3> QED
      BY <2>1, <3>1
  <2> HIDE DEF o
  <2> QED
    BY <2>1, <2>2 DEF OpenTokens
<1> HIDE DEF n, k
<1>8. ASSUME NEW e \in 1..n, NEW j \in 1..n, e < j
      PROVE  Lie(tokens'[e], tokens'[j])
  <2>1. Lie(tokens[e], tokens[j])
    BY <1>3, <1>8 DEF Laminar, Lie
  <2>2. CASE e = k
    <3>1. tokens'[e].end = pos + 1 /\ tokens'[j].end = tokens[j].end
      BY <1>2, <1>3, <1>8, <2>2
    <3>2. tokens[j].end # -1 /\ tokens[j].end <= pos + 1
      BY <1>4, <1>5, <1>7, <1>8, <2>2
    <3> QED
      BY <1>2, <1>3, <2>1, <3>1, <3>2 DEF Lie
  <2>3. CASE j = k
    <3>1. tokens'[e].end = tokens[e].end
      BY <1>2, <1>3, <1>8, <2>3
    <3>2. tokens[e].end = -1 \/ tokens[e].end <= tokens[j].start
      BY <1>6, <2>1, <2>3 DEF Lie
    <3> QED
      BY <1>2, <1>3, <2>1, <3>1, <3>2 DEF Lie
  <2>4. CASE e # k /\ j # k
    BY <1>2, <1>3, <2>1, <2>4 DEF Lie
  <2> QED
    BY <2>2, <2>3, <2>4
<1> QED
  BY <1>3, <1>8 DEF Laminar, Lie

\* Every step keeps the tokens nested or apart.
LEMMA LaminarNext == JInv /\ Laminar /\ [Next]_vars => Laminar'
<1> SUFFICES ASSUME JInv, Laminar, [Next]_vars PROVE Laminar'
  OBVIOUS
<1>1. CASE tokens' = tokens
  BY <1>1 DEF Laminar
<1>2. CASE tokens' = <<>>
  BY <1>2 DEF Laminar
<1>3. CASE Adds
  BY <1>3, LaminarAdds
<1>4. CASE Closed
  BY <1>4, LaminarCloses
<1> QED
  BY <1>1, <1>2, <1>3, <1>4, TokenSteps

\* jsmn.cpp, jsmn_parse: the tokens form a forest in preorder, which everything
\* that walks over them by their sizes relies on, for every text, well-formed or
\* not, and however often jsmn_parse is called with more of it or more tokens.
THEOREM LaminarCorrect == Spec => []Laminar
<1>1. Init => Laminar
  BY DEF Init, Laminar
<1>2. JInv /\ Laminar /\ [Next]_vars => Laminar'
  BY LaminarNext
<1> QED
  BY <1>1, <1>2, JCorrect, PTL DEF Spec

----------------------------------------------------------------------------
(* The tokens and the text.                                                *)

\* TokensOfText by the text and the tokens it is about: what OfText and Accounted
\* say, and that the tokens are those of the text up to a position.
Says(in, t) ==
    CASE t.type = "STRING" ->
            /\ in.chars[t.start] = "\"" /\ in.chars[t.end + 1] = "\""
            /\ \A k \in t.start..(t.end - 1) :
                  in.chars[k + 1] = "\"" => k > t.start /\ in.chars[k] = "\\"
      [] t.type = "PRIMITIVE" ->
            /\ t.start < t.end /\ in.chars[t.start + 1] \notin Opens \cup {"\""}
            /\ \A k \in t.start..(t.end - 1) :
                  in.chars[k + 1] \notin PrimitiveEnds \cup {"ctl", "nul"}
            /\ t.end \in in.stops \/ in.chars[t.end + 1] \in PrimitiveEnds \cup {"nul"}
      [] OTHER ->
            /\ in.chars[t.start + 1] \in Opens /\ TypeOfBracket(in.chars[t.start + 1]) = t.type
            /\ t.end # -1 => in.chars[t.end] \in Closes
                             /\ TypeOfBracket(in.chars[t.end]) = t.type
Takers(toks, k) == {e \in DOMAIN toks : k \in Place(toks[e])}
Once(in, toks, k) ==
    IF Takers(toks, k) = {} THEN in.chars[k + 1] \in Separators
                            ELSE \E e \in Takers(toks, k) : Takers(toks, k) = {e}
Whole(in, toks, end) ==
    /\ \A e \in DOMAIN toks : Says(in, toks[e]) /\ Place(toks[e]) \subseteq 0..(end - 1)
    /\ \A k \in 0..(end - 1) : Once(in, toks, k)

\* What was read of a primitive or string that has no token yet.
PrimitiveText ==
    /\ Chars[start + 1] \notin Opens \cup {"\""}
    /\ \A k \in start..(pos - 1) : Chars[k + 1] \notin PrimitiveEnds \cup {"ctl", "nul"}
    /\ pos = start => start < len /\ Chars[start + 1] \notin PrimitiveEnds \cup {"nul"}
QuotesEscaped(chars, begin, low, high) ==
    \A k \in low..(high - 1) : chars[k + 1] = "\"" => k > begin /\ chars[k] = "\\"
StringText ==
    Chars[start + 1] = "\"" /\ QuotesEscaped(Chars, start + 1, start + 1, pos)

\* The tokens are those of the text up to where the parser goes back to, what lies
\* behind that is the part of a primitive or string, and a number is the result of a
\* whole text.
TextRead == num_tokens # NoArray => Whole(input, tokens, Base)
PartRead == /\ mode = "primitive" => PrimitiveText
            /\ mode \in {"string", "unicode"} => StringText
Success  == mode = "idle" /\ result >= 0 => AtEnd /\ OpenTokens = {}
TextInv  ==
    /\ mode # "idle" => len \in input.stops
    /\ TextRead /\ PartRead /\ Success

\* OfText and Accounted are about the text and the tokens that there are.
LEMMA SaysIs == /\ \A t : OfText(t) <=> Says(input, t)
                /\ \A k : Accounted(k) <=> Once(input, tokens, k)
<1>1. \A t : OfText(t) <=> Says(input, t)
  BY DEF OfText, Says, Chars
<1>2. \A k : Accounted(k) <=> Once(input, tokens, k)
  BY DEF Accounted, Once, Takers, Chars
<1> QED
  BY <1>1, <1>2

\* It is the type and the offsets of a token that say where it is.
LEMMA SameText ==
    ASSUME NEW in, NEW s, NEW t, s.type = t.type, s.start = t.start, s.end = t.end
    PROVE  (Says(in, s) <=> Says(in, t)) /\ Place(s) = Place(t)
<1>1. Says(in, s) <=> Says(in, t)
  BY DEF Says
<1>2. Place(s) = Place(t)
  BY DEF Place
<1> QED
  BY <1>1, <1>2

\* A separator needs no token.
LEMMA WholeGrows ==
    ASSUME NEW in, NEW toks, NEW end \in Nat, Whole(in, toks, end),
           in.chars[end + 1] \in Separators
    PROVE  Whole(in, toks, end + 1)
<1>1. \A e \in DOMAIN toks : Says(in, toks[e]) /\ Place(toks[e]) \subseteq 0..(end - 1)
  BY DEF Whole
<1>2. \A e \in DOMAIN toks : end \notin Place(toks[e])
  BY <1>1
<1>3. Takers(toks, end) = {}
  BY <1>2 DEF Takers
<1>4. Once(in, toks, end)
  BY <1>3 DEF Once
<1>5. 0..end = (0..(end - 1)) \cup {end}
  OBVIOUS
<1>6. \A k \in 0..(end - 1) : Once(in, toks, k)
  BY DEF Whole
<1>7. \A k \in 0..end : Once(in, toks, k)
  BY <1>4, <1>5, <1>6
<1>8. (end + 1) - 1 = end
  OBVIOUS
<1> QED
  BY <1>1, <1>5, <1>7, <1>8 DEF Whole

\* A new token takes the characters behind the others.
LEMMA WholeAdded ==
    ASSUME NEW in, NEW toks, NEW n \in Nat, DOMAIN toks = 1..n,
           NEW end \in Nat, Whole(in, toks, end),
           NEW more, DOMAIN more = 1..(n + 1), NEW next \in Nat, end <= next,
           \A e \in 1..n : /\ more[e].type = toks[e].type
                           /\ more[e].start = toks[e].start
                           /\ more[e].end = toks[e].end,
           Says(in, more[n + 1]), Place(more[n + 1]) = end..(next - 1)
    PROVE  Whole(in, more, next)
<1>1. \A e \in 1..n : Says(in, toks[e]) /\ Place(toks[e]) \subseteq 0..(end - 1)
  BY DEF Whole
<1>2. \A e \in 1..n : Says(in, more[e]) /\ Place(more[e]) = Place(toks[e])
  BY <1>1, SameText
<1>3. 1..(n + 1) = (1..n) \cup {n + 1} /\ n + 1 \notin 1..n
  OBVIOUS
<1>4. 0..(end - 1) \subseteq 0..(next - 1) /\ end..(next - 1) \subseteq 0..(next - 1)
  OBVIOUS
<1>5. \A e \in 1..(n + 1) : Says(in, more[e]) /\ Place(more[e]) \subseteq 0..(next - 1)
  BY <1>1, <1>2, <1>3, <1>4, Zenon
<1>6. ASSUME NEW k \in 0..(end - 1) PROVE Once(in, more, k)
  <2>1. k \notin Place(more[n + 1])
    OBVIOUS
  <2>2. Takers(more, k) = Takers(toks, k)
    BY <1>2, <1>3, <2>1 DEF Takers
  <2>3. Once(in, toks, k)
    BY <1>6 DEF Whole
  <2> QED
    BY <2>2, <2>3 DEF Once
<1>7. ASSUME NEW k \in end..(next - 1) PROVE Once(in, more, k)
  <2>1. k \in Place(more[n + 1]) /\ k \notin 0..(end - 1)
    OBVIOUS
  <2>2. \A e \in 1..n : k \notin Place(more[e])
    BY <1>1, <1>2, <2>1, Zenon
  <2>3. Takers(more, k) = {n + 1}
    BY <1>3, <2>1, <2>2 DEF Takers
  <2> QED
    BY <2>3 DEF Once
<1>8. \A k \in 0..(next - 1) : k \in 0..(end - 1) \/ k \in end..(next - 1)
  OBVIOUS
<1>9. \A k \in 0..(next - 1) : Once(in, more, k)
  BY <1>6, <1>7, <1>8
<1> QED
  BY <1>5, <1>9 DEF Whole

\* A token that is closed takes its bracket as well.
LEMMA WholeClosed ==
    ASSUME NEW in, NEW toks, NEW n \in Nat, DOMAIN toks = 1..n, NEW c \in 1..n,
           NEW end \in Nat, Whole(in, toks, end),
           NEW closed, DOMAIN closed = 1..n,
           \A e \in 1..n : /\ closed[e].type = toks[e].type
                           /\ closed[e].start = toks[e].start
                           /\ closed[e].end = IF e = c THEN end + 1 ELSE toks[e].end,
           toks[c].type \in {"OBJECT", "ARRAY"}, toks[c].end = -1, toks[c].start \in Nat,
           in.chars[end + 1] \in Closes, TypeOfBracket(in.chars[end + 1]) = toks[c].type
    PROVE  Whole(in, closed, end + 1)
<1>1. \A e \in 1..n : Says(in, toks[e]) /\ Place(toks[e]) \subseteq 0..(end - 1)
  BY DEF Whole
<1>2. \A e \in 1..n : e # c => Says(in, closed[e]) /\ Place(closed[e]) = Place(toks[e])
  BY <1>1, SameText
<1>3. Place(toks[c]) = {toks[c].start} /\ Place(closed[c]) = {toks[c].start, end}
  BY DEF Place
<1>4. Says(in, closed[c])
  <2>1. /\ in.chars[toks[c].start + 1] \in Opens
        /\ TypeOfBracket(in.chars[toks[c].start + 1]) = toks[c].type
    BY <1>1 DEF Says
  <2>2. /\ closed[c].type = toks[c].type /\ closed[c].start = toks[c].start
        /\ closed[c].end = end + 1
    OBVIOUS
  <2> QED
    BY <2>1, <2>2 DEF Says
<1>5. (end + 1) - 1 = end /\ 0..end = (0..(end - 1)) \cup {end} /\ end \notin 0..(end - 1)
  OBVIOUS
<1>6. \A e \in 1..n : Says(in, closed[e]) /\ Place(closed[e]) \subseteq 0..end
  <2>1. Place(closed[c]) \subseteq 0..end
    BY <1>1, <1>3, <1>5
  <2> QED
    BY <1>1, <1>2, <1>4, <1>5, <2>1, Zenon
<1>7. ASSUME NEW k \in 0..(end - 1) PROVE Once(in, closed, k)
  <2>1. \A e \in 1..n : k \in Place(closed[e]) <=> k \in Place(toks[e])
    BY <1>2, <1>3, <1>5
  <2>2. Takers(closed, k) = Takers(toks, k)
    BY <2>1 DEF Takers
  <2>3. Once(in, toks, k)
    BY <1>7 DEF Whole
  <2> QED
    BY <2>2, <2>3 DEF Once
<1>8. Once(in, closed, end)
  <2>1. \A e \in 1..n : end \in Place(closed[e]) <=> e = c
    BY <1>1, <1>2, <1>3, <1>5
  <2>2. Takers(closed, end) = {c}
    BY <2>1 DEF Takers
  <2> QED
    BY <2>2 DEF Once
<1>9. \A k \in 0..end : Once(in, closed, k)
  BY <1>5, <1>7, <1>8
<1> QED
  BY <1>5, <1>6, <1>9 DEF Whole

\* Where the text and the tokens stay, what they say does.
LEMMA TextKept ==
    ASSUME TextInv, UNCHANGED <<input, num_tokens, tokens>>, Base' = Base
    PROVE  TextRead'
BY DEF TextInv, TextRead

\* What the caller does reads nothing.
LEMMA TextCaller == ASSUME JInv, TextInv, Caller PROVE TextInv'
<1> USE DEF args, parser, locals, Goto
<1>1. input' = input /\ mode = "idle" /\ mode' \in {"idle", "loop"}
  BY DEF Caller, CallCount, Counted, CallParse
<1>2. PartRead'
  BY <1>1 DEF PartRead
<1>3. mode' # "idle" => len' \in input.stops
  BY <1>1 DEF Caller, CallCount, Counted, CallParse
<1>4. Success'
  BY DEF Success, Caller, CallCount, Counted, CallParse, NotYet
<1>5. CASE tokens' = <<>> /\ pos' = 0
  <2>1. DOMAIN tokens' = {}
    BY <1>5
  <2>2. Base' = 0 /\ 0..(0 - 1) = {}
    BY <1>1, <1>5 DEF Base
  <2>3. Whole(input, tokens', 0)
    BY <2>1, <2>2 DEF Whole
  <2>4. TextRead'
    BY <1>1, <2>2, <2>3 DEF TextRead
  <2> QED
    BY <1>1, <1>2, <1>3, <1>4, <2>4 DEF TextInv
<1>6. CASE CallCount
  <2>1. num_tokens' = NoArray
    BY <1>6 DEF CallCount
  <2>2. TextRead'
    BY <2>1 DEF TextRead, NoArray
  <2> QED
    BY <1>1, <1>2, <1>3, <1>4, <2>2 DEF TextInv
<1>7. CASE CallParse /\ result # NotYet
  <2>1. num_tokens # NoArray /\ UNCHANGED <<pos, tokens>>
    BY <1>7 DEF CallParse
  <2>2. Base' = Base
    BY <1>1, <2>1 DEF Base
  <2>3. TextRead'
    BY <1>1, <2>1, <2>2 DEF TextInv, TextRead
  <2> QED
    BY <1>1, <1>2, <1>3, <1>4, <2>3 DEF TextInv
<1>8. CASE CallParse /\ result = NotYet
  BY <1>1, <1>5, <1>8 DEF CallParse, JInv
<1>9. CASE Counted
  BY <1>5, <1>9 DEF Counted
<1> QED
  BY <1>6, <1>7, <1>8, <1>9 DEF Caller

\* jsmn gives up: it goes back to where its tokens end.
LEMMA TextGiveUp ==
    ASSUME JInv, TextInv, mode \notin {"idle", "loop"}, NEW error \in {NOMEM, INVAL, PART},
           GiveUp(error), UNCHANGED <<args, counted>>
    PROVE  TextInv'
<1>1. pos' = start /\ mode' = "idle" /\ result' = error /\ UNCHANGED <<input, num_tokens, tokens>>
  BY DEF GiveUp, Return, args
<1>2. Base' = Base
  BY <1>1 DEF Base
<1>3. error < 0
  BY DEF NOMEM, INVAL, PART
<1>4. Success'
  BY <1>1, <1>3 DEF Success, NOMEM, INVAL, PART
<1> QED
  BY <1>1, <1>2, <1>4, TextKept DEF TextInv, PartRead

\* A primitive or string gets a token that says what was read.
LEMMA TextFound ==
    ASSUME JInv, TextInv, mode \notin {"idle", "loop"},
           NEW type \in {"STRING", "PRIMITIVE"}, NEW from \in Nat, NEW next \in 0..len,
           from >= start, from <= pos, pos <= next,
           Found(Token(type, from, pos), next),
           UNCHANGED <<args, counted, locals>>,
           Says(input, Token(type, from, pos)), Place(Token(type, from, pos)) = start..(next - 1)
    PROVE  TextInv'
<1> DEFINE token == Token(type, from, pos)
<1>1. CASE Full
  BY <1>1, TextGiveUp DEF Found
<1>2. CASE ~Full
  <2>1. /\ tokens' = Append1(token) /\ pos' = next /\ mode' = "loop"
        /\ UNCHANGED <<input, len, num_tokens>>
    BY <1>2 DEF Found, Goto, args
  <2>2. /\ token \in Tokens /\ token.start = from /\ token.end = pos
        /\ token.start <= token.end /\ token.end # -1
    BY CharFacts DEF Token, Tokens, TokenTypes
  <2>3. Base = start /\ Base' = next /\ start \in Nat /\ next \in Nat /\ start <= next
    BY <2>1, CharFacts DEF Base, JInv
  <2> HIDE DEF token
  <2>4. TextRead'
    <3>1. CASE num_tokens = NoArray
      BY <2>1, <3>1 DEF TextRead, NoArray
    <3>2. CASE num_tokens # NoArray
      <4> DEFINE n == Len(tokens)
      <4>1. /\ tokens' \in Seq(Tokens) /\ Len(tokens') = n + 1
            /\ tokens'[n + 1] = token
            /\ \A e \in DOMAIN tokens : /\ tokens'[e].start = tokens[e].start
                                        /\ tokens'[e].end = tokens[e].end
                                        /\ tokens'[e].type = tokens[e].type
        BY <1>2, <2>1, <2>2, <2>3, <3>2, Append1Properties
      <4>2. n \in Nat /\ DOMAIN tokens = 1..n /\ DOMAIN tokens' = 1..(n + 1)
        BY <4>1, TokenFacts, LenProperties
      <4>3. Whole(input, tokens, start)
        BY <2>3, <3>2 DEF TextInv, TextRead
      <4>4. Says(input, tokens'[n + 1]) /\ Place(tokens'[n + 1]) = start..(next - 1)
        BY <4>1 DEF token
      <4> HIDE DEF n
      <4>5. Whole(input, tokens', next)
        BY <2>3, <4>1, <4>2, <4>3, <4>4, WholeAdded
      <4> QED
        BY <2>1, <2>3, <4>5 DEF TextRead
    <3> QED
      BY <3>1, <3>2
  <2> QED
    BY <2>1, <2>4 DEF TextInv, PartRead, Success
<1> QED
  BY <1>1, <1>2

\* A character of the loop.
LEMMA CharIs ==
    ASSUME JInv, ~AtEnd
    PROVE  Char = Chars[pos + 1] /\ Char = input.chars[pos + 1] /\ pos < len /\ pos + 1 \in Nat
BY CharFacts DEF Char, Chars

\* A separator, the beginning of a primitive or string, the end of the text.
LEMMA TextLoop ==
    ASSUME JInv, TextInv,
           ParseColon \/ ParseComma \/ ParseBlank \/ ParseQuote \/ ParseOther \/ ParseEnd
    PROVE  TextInv'
<1> USE DEF args, parser, locals, Goto
<1> pos \in Nat
  BY CharFacts
<1>1. mode = "loop" /\ UNCHANGED <<input, len, num_tokens, tokens>> /\ Base = pos
  BY DEF ParseColon, ParseComma, ParseBlank, ParseQuote, ParseOther, ParseEnd, InLoop, Base
<1>2. len' \in input'.stops
  BY <1>1 DEF TextInv
<1>3. CASE ParseColon \/ ParseComma \/ ParseBlank
  <2>1. ~AtEnd /\ Char \in Separators /\ pos' = pos + 1 /\ mode' = "loop"
    BY <1>1, <1>3 DEF ParseColon, ParseComma, ParseBlank, InLoop, Separators
  <2>2. Base' = pos + 1 /\ pos \in Nat
    BY <2>1, CharFacts DEF Base
  <2>3. num_tokens # NoArray => Whole(input, tokens, pos + 1)
    BY <1>1, <2>1, <2>2, CharIs, WholeGrows DEF TextInv, TextRead
  <2>4. TextRead'
    BY <1>1, <2>2, <2>3 DEF TextRead, NoArray
  <2> QED
    BY <1>2, <2>1, <2>4 DEF TextInv, PartRead, Success
<1>4. CASE ParseQuote
  <2>1. start' = pos /\ pos' = pos + 1 /\ mode' = "string" /\ ~AtEnd /\ Char = "\""
    BY <1>4 DEF ParseQuote, InLoop
  <2>2. Base' = Base
    BY <1>1, <2>1 DEF Base
  <2>3. StringText'
    <3>1. Chars' = Chars /\ Chars[pos + 1] = "\""
      BY <1>1, <2>1, CharIs DEF Chars
    <3>2. start' = pos /\ pos' = pos + 1
      BY <2>1
    <3>3. \A k \in (start' + 1)..(pos' - 1) : FALSE
      BY <3>2
    <3> QED
      BY <2>1, <3>1, <3>3 DEF StringText, QuotesEscaped
  <2> QED
    BY <1>1, <1>2, <2>1, <2>2, <2>3, TextKept DEF TextInv, PartRead, Success
<1>5. CASE ParseOther
  <2>1. /\ start' = pos /\ pos' = pos /\ mode' = "primitive" /\ ~AtEnd
        /\ Char \notin Opens \cup Closes \cup {":", ",", " ", "\""}
    BY <1>5 DEF ParseOther
  <2>2. Base' = Base
    BY <1>1, <2>1 DEF Base
  <2>3. PrimitiveText'
    <3>1. Chars' = Chars /\ Char = Chars[pos + 1] /\ pos < len
      BY <1>1, <2>1, CharIs DEF Chars
    <3>2. start' = pos /\ pos' = pos
      BY <2>1
    <3>4. \A k \in start'..(pos' - 1) : FALSE
      BY <3>2
    <3>3. Char # "nul"
      BY <2>1, CharFacts DEF AtEnd
    <3> QED
      BY <1>1, <2>1, <3>1, <3>3, <3>4 DEF PrimitiveText, PrimitiveEnds, Closes
  <2> QED
    BY <1>1, <1>2, <2>1, <2>2, <2>3, TextKept DEF TextInv, PartRead, Success
<1>6. CASE ParseEnd
  <2>1. mode' = "idle" /\ AtEnd /\ pos' = pos
        /\ result' = IF OpenTokens # {} THEN PART ELSE count
    BY <1>6 DEF ParseEnd, Return
  <2>2. Base' = Base
    BY <1>1, <2>1 DEF Base
  <2>3. AtEnd' <=> AtEnd
    BY <1>1, <2>1 DEF AtEnd, Char, Chars
  <2>4. OpenTokens' = OpenTokens
    BY <1>1 DEF OpenTokens
  <2>5. Success'
    BY <2>1, <2>3, <2>4 DEF Success, PART
  <2> QED
    BY <1>1, <2>1, <2>2, <2>5, TextKept DEF TextInv, PartRead
<1> QED
  BY <1>3, <1>4, <1>5, <1>6

\* A bracket is opened.
LEMMA TextOpen == ASSUME JInv, TextInv, ParseOpen PROVE TextInv'
<1> USE DEF args, parser, locals
<1>1. /\ mode = "loop" /\ ~AtEnd /\ Char \in Opens /\ UNCHANGED <<input, len, num_tokens>>
      /\ Base = pos /\ pos \in Nat
  BY CharFacts DEF ParseOpen, InLoop, Base
<1>2. CASE Full
  <2>1. mode' = "idle" /\ result' = NOMEM /\ UNCHANGED parser
    BY <1>2 DEF ParseOpen, Return
  <2>2. Base' = Base
    BY <1>1, <2>1 DEF Base
  <2>3. Success'
    BY <2>1 DEF Success, NOMEM
  <2> QED
    BY <1>1, <2>1, <2>2, <2>3, TextKept DEF TextInv, PartRead
<1>3. CASE ~Full
  <2> DEFINE token == Token(TypeOfBracket(Char), pos, -1)
             n == Len(tokens)
  <2>1. tokens' = Append1(token) /\ pos' = pos + 1 /\ mode' = "loop"
    BY <1>1, <1>3 DEF ParseOpen
  <2>2. /\ token \in Tokens /\ token.start = pos /\ token.end = -1
        /\ token.type \in {"OBJECT", "ARRAY"} /\ token.type = TypeOfBracket(Char)
    BY CharFacts DEF Token, Tokens, TokenTypes, TypeOfBracket
  <2> HIDE DEF token
  <2>3. Says(input, token)
    BY <1>1, <2>2, CharIs DEF Says
  <2>4. Place(token) = pos..((pos + 1) - 1)
    <3>1. Place(token) = {pos, (-1) - 1} \cap Nat
      BY <2>2 DEF Place
    <3>2. pos \in Nat
      BY <1>1
    <3>3. {pos, (-1) - 1} \cap Nat = pos..((pos + 1) - 1)
      BY <3>2
    <3> QED
      BY <3>1, <3>3
  <2>5. Base' = pos + 1
    BY <2>1 DEF Base
  <2>6. ASSUME num_tokens # NoArray PROVE Whole(input, tokens', pos + 1)
    <3>1. /\ tokens' \in Seq(Tokens) /\ Len(tokens') = n + 1
          /\ tokens'[n + 1] = token
          /\ \A e \in DOMAIN tokens : /\ tokens'[e].start = tokens[e].start
                                      /\ tokens'[e].end = tokens[e].end
                                      /\ tokens'[e].type = tokens[e].type
      BY <1>1, <1>3, <2>1, <2>2, <2>6, Append1Properties
    <3>2. n \in Nat /\ DOMAIN tokens = 1..n /\ DOMAIN tokens' = 1..(n + 1)
      BY <3>1, TokenFacts, LenProperties
    <3>3. Whole(input, tokens, pos)
      BY <1>1, <2>6 DEF TextInv, TextRead
    <3>4. pos + 1 \in Nat /\ pos <= pos + 1
      BY <1>1
    <3> DEFINE next == pos + 1
    <3> HIDE DEF n, next
    <3>5. next \in Nat /\ pos <= next /\ Place(token) = pos..(next - 1)
      BY <2>4, <3>4 DEF next
    <3>6. Whole(input, tokens', next)
      BY <1>1, <2>3, <3>1, <3>2, <3>3, <3>5, WholeAdded
    <3> QED
      BY <3>6 DEF next
  <2>7. TextRead'
    BY <1>1, <2>5, <2>6 DEF TextRead, NoArray
  <2> QED
    BY <1>1, <2>1, <2>7 DEF TextInv, PartRead, Success
<1> QED
  BY <1>2, <1>3

\* A bracket is closed.
LEMMA TextClose == ASSUME JInv, TextInv, ParseClose PROVE TextInv'
<1> USE DEF args, parser, locals
<1>1. /\ mode = "loop" /\ ~AtEnd /\ Char \in Closes /\ UNCHANGED <<input, len, num_tokens>>
      /\ Base = pos /\ pos \in Nat
  BY CharFacts DEF ParseClose, InLoop, Base
<1>2. CASE num_tokens = NoArray
  <2>1. mode' = "loop"
    BY <1>1, <1>2 DEF ParseClose
  <2> QED
    BY <1>1, <1>2, <2>1 DEF TextInv, TextRead, PartRead, Success, NoArray
<1>3. CASE Return(INVAL) /\ UNCHANGED parser
  <2>1. mode' = "idle" /\ result' = INVAL
    BY <1>3 DEF Return
  <2>2. Base' = Base
    BY <1>1, <1>3, <2>1 DEF Base
  <2>3. Success'
    BY <2>1 DEF Success, INVAL
  <2> QED
    BY <1>1, <1>3, <2>1, <2>2, <2>3, TextKept DEF TextInv, PartRead
<1>4. ASSUME NEW e \in OpenTokens, num_tokens # NoArray, CloseToken(e),
             tokens[e + 1].type = TypeOfBracket(Char)
      PROVE  TextInv'
  <2> DEFINE n == Len(tokens)
             c == e + 1
  <2>1. /\ tokens' \in Seq(Tokens) /\ Len(tokens') = n /\ c \in 1..n
        /\ \A k \in DOMAIN tokens :
              /\ tokens'[k].start = tokens[k].start
              /\ tokens'[k].type = tokens[k].type
              /\ tokens'[k].end = IF k = c THEN pos + 1 ELSE tokens[k].end
    BY <1>4, CloseProperties
  <2>2. n \in Nat /\ DOMAIN tokens = 1..n /\ DOMAIN tokens' = 1..n
    BY <2>1, TokenFacts, LenProperties
  <2>3. tokens[c].end = -1 /\ tokens[c].start \in Nat /\ tokens[c].type = TypeOfBracket(Char)
    BY <1>4, <2>1, <2>2, TokenFacts DEF OpenTokens
  <2>4. tokens[c].type \in {"OBJECT", "ARRAY"}
    BY <2>3 DEF TypeOfBracket
  <2>5. pos' = pos + 1 /\ mode' = "loop" /\ Base' = pos + 1
    BY <1>1, <1>4 DEF CloseToken, Base
  <2>6. Whole(input, tokens, pos)
    BY <1>1, <1>4 DEF TextInv, TextRead
  <2>7. input.chars[pos + 1] \in Closes /\ TypeOfBracket(input.chars[pos + 1]) = tokens[c].type
    BY <1>1, <2>3, CharIs
  <2> HIDE DEF n, c
  <2>8. Whole(input, tokens', pos + 1)
    <3>1. \A k \in 1..n : /\ tokens'[k].type = tokens[k].type
                          /\ tokens'[k].start = tokens[k].start
                          /\ tokens'[k].end = IF k = c THEN pos + 1 ELSE tokens[k].end
      BY <2>1, <2>2
    <3>2. n \in Nat /\ c \in 1..n /\ pos \in Nat
      BY <1>1, <2>1, <2>2
    <3> QED
      BY <2>2, <2>3, <2>4, <2>6, <2>7, <3>1, <3>2, WholeClosed
  <2>9. TextRead'
    BY <1>1, <2>5, <2>8 DEF TextRead
  <2> QED
    BY <1>1, <2>5, <2>9 DEF TextInv, PartRead, Success
<1> QED
  BY <1>2, <1>3, <1>4 DEF ParseClose

\* A step within a primitive.
LEMMA TextPrimitive == ASSUME JInv, TextInv, Primitive PROVE TextInv'
<1>1. /\ mode = "primitive" /\ UNCHANGED <<args, locals, counted>>
      /\ start \in Nat /\ start <= pos /\ pos \in Nat /\ pos <= len
  BY CharFacts DEF Primitive, JInv
<1>2. PrimitiveText /\ len \in input.stops
  BY <1>1 DEF TextInv, PartRead
<1>3. CASE (AtEnd \/ Char \in PrimitiveEnds) /\ Found(Token("PRIMITIVE", start, pos), pos)
  <2> DEFINE token == Token("PRIMITIVE", start, pos)
  <2>1. token.type = "PRIMITIVE" /\ token.start = start /\ token.end = pos
    BY DEF Token
  <2> DEFINE c == Chars[pos + 1]
  <2>2. start < pos
    <3>1. ASSUME pos = start PROVE FALSE
      <4>1. pos < len /\ c \notin PrimitiveEnds /\ c # "nul"
        BY <1>2, <3>1 DEF PrimitiveText
      <4>2. ~AtEnd /\ Char = c
        BY <4>1 DEF AtEnd, Char
      <4> QED
        BY <1>3, <4>1, <4>2
    <3> QED
      BY <1>1, <3>1
  <2>3. pos \in input.stops \/ c \in PrimitiveEnds \cup {"nul"}
    <3>1. CASE pos < len
      BY <1>3, <3>1 DEF AtEnd, Char
    <3>2. CASE ~(pos < len)
      <4>1. pos = len
        BY <1>1, <3>2, CharFacts
      <4> QED
        BY <1>2, <4>1
    <3> QED
      BY <3>1, <3>2
  <2> HIDE DEF token
  <2>4. Says(input, token)
    BY <1>2, <2>1, <2>2, <2>3 DEF Says, PrimitiveText, Chars
  <2>5. Place(token) = start..(pos - 1)
    BY <2>1 DEF Place
  <2> QED
    BY <1>1, <1>3, <2>4, <2>5, TextFound, CharFacts DEF token, locals
<1>4. CASE GiveUp(INVAL)
  BY <1>1, <1>4, TextGiveUp
<1>5. CASE /\ ~AtEnd /\ Char \notin PrimitiveEnds \cup {"ctl"} /\ pos' = pos + 1
           /\ UNCHANGED <<toksuper, tokens, count, mode, result>>
  <2>1. UNCHANGED <<input, len, num_tokens, start>> /\ Chars' = Chars
    BY <1>1 DEF args, locals, Chars
  <2>2. Base' = Base
    BY <1>1, <1>5, <2>1 DEF Base
  <2>3. Chars[pos + 1] \notin PrimitiveEnds \cup {"ctl", "nul"}
    BY <1>1, <1>5, CharIs DEF AtEnd
  <2>4. \A k \in start..pos : Chars[k + 1] \notin PrimitiveEnds \cup {"ctl", "nul"}
    <3>1. \A k \in start..pos : k \in start..(pos - 1) \/ k = pos
      BY <1>1
    <3> QED
      BY <1>2, <2>3, <3>1 DEF PrimitiveText
  <2>5. pos' - 1 = pos /\ pos' # start
    BY <1>1, <1>5
  <2>6. PrimitiveText'
    BY <1>2, <2>1, <2>4, <2>5 DEF PrimitiveText
  <2> QED
    BY <1>1, <1>2, <1>5, <2>1, <2>2, <2>6, TextKept DEF TextInv, PartRead, Success
<1> QED
  BY <1>3, <1>4, <1>5 DEF Primitive

\* A range is that up to a number and that from it on.
LEMMA RangeParts ==
    ASSUME NEW low \in Nat, NEW middle \in Nat, NEW high \in Nat
    PROVE  \A k \in low..(high - 1) : k \in low..(middle - 1) \/ k \in middle..(high - 1)
OBVIOUS

\* What a string becomes by the characters from pos on, up to next, of which a quote
\* comes only behind a backslash.
LEMMA StringGrows ==
    ASSUME JInv, TextInv, mode \in {"string", "unicode"}, mode' \in {"string", "unicode"},
           UNCHANGED <<input, len, num_tokens, tokens, start>>, pos' \in Nat, pos <= pos',
           QuotesEscaped(Chars, start + 1, pos, pos')
    PROVE  TextInv'
<1>1. Base' = Base /\ Chars' = Chars
  BY DEF Base, Chars
<1>2. start \in Nat /\ start < pos /\ pos \in Nat
  BY CharFacts DEF JInv
<1>3. StringText
  BY DEF TextInv, PartRead
<1> DEFINE next == pos'
<1>4. start + 1 \in Nat /\ next \in Nat
  BY <1>2
<1> HIDE DEF next
<1>6. QuotesEscaped(Chars, start + 1, start + 1, pos) /\ QuotesEscaped(Chars, start + 1, pos, next)
  BY <1>3 DEF StringText, next
<1>7. QuotesEscaped(Chars, start + 1, start + 1, next)
  BY <1>2, <1>4, <1>6, RangeParts DEF QuotesEscaped
<1>5. StringText'
  BY <1>1, <1>3, <1>7 DEF StringText, next
<1> QED
  BY <1>1, <1>5, TextKept DEF TextInv, PartRead, Success

\* A step within a string.
LEMMA TextString ==
    ASSUME JInv, TextInv, StringEnd \/ StringEscape \/ StringChar PROVE TextInv'
<1>1. /\ mode = "string" /\ start' = start /\ UNCHANGED <<args, counted>>
      /\ UNCHANGED <<input, len, num_tokens>>
      /\ start \in Nat /\ start < pos /\ pos \in Nat
  BY CharFacts DEF StringEnd, StringEscape, StringChar, JInv, locals, args
<1>2. StringText
  BY <1>1 DEF TextInv, PartRead
<1>3. CASE StringEnd
  <2>1. CASE GiveUp(PART)
    BY <1>1, <2>1, TextGiveUp
  <2>2. CASE ~AtEnd /\ Char = "\"" /\ Found(Token("STRING", start + 1, pos), pos + 1)
    <3> DEFINE from == start + 1
               next == pos + 1
               token == Token("STRING", from, pos)
    <3>1. from \in Nat /\ from >= start /\ from <= pos /\ next \in 0..len /\ pos <= next
      <4>1. pos < len /\ len \in Nat /\ pos \in Nat /\ start \in Nat /\ start < pos
        BY <1>1, <2>2, CharFacts
      <4> QED
        BY <4>1
    <3>2. Found(token, next) /\ UNCHANGED <<args, counted, locals>>
      BY <1>3, <2>2 DEF StringEnd
    <3>3. token.type = "STRING" /\ token.start = start + 1 /\ token.end = pos
      BY DEF Token
    <3>4. Chars[pos + 1] = "\""
      BY <2>2, CharIs
    <3>5. (start + 1) - 1 = start /\ (pos + 1) - 1 = pos
      BY <1>1
    <3> HIDE DEF token
    <3>6. Says(input, token)
      BY <1>2, <3>3, <3>4 DEF Says, StringText, QuotesEscaped, Chars
    <3>7. Place(token) = start..(next - 1)
      BY <3>3, <3>5 DEF Place
    <3> HIDE DEF from, next
    <3> QED
      BY <1>1, <3>1, <3>2, <3>6, <3>7, TextFound DEF token
  <2> QED
    BY <1>3, <2>1, <2>2 DEF StringEnd
<1>4. CASE StringEscape
  <2>1. CASE GiveUp(INVAL)
    BY <1>1, <2>1, TextGiveUp
  <2>2. CASE pos' = pos + 2 /\ mode' \in {"string", "unicode"}
             /\ UNCHANGED <<toksuper, tokens, count, result>>
    <3>1. Chars[pos + 1] = "\\"
      BY <1>4, CharIs DEF StringEscape
    <3>2. \A k \in pos..(pos' - 1) : k = pos \/ (k = pos + 1 /\ k > start + 1)
      BY <1>1, <2>2
    <3>3. QuotesEscaped(Chars, start + 1, pos, pos')
      BY <3>1, <3>2 DEF QuotesEscaped
    <3>4. pos' \in Nat /\ pos <= pos'
      BY <1>1, <2>2
    <3> QED
      BY <1>1, <2>2, <3>3, <3>4, StringGrows
  <2> QED
    BY <1>4, <2>1, <2>2 DEF StringEscape, Goto
<1>5. CASE StringChar
  <2>1. /\ pos' = pos + 1 /\ Chars[pos + 1] # "\"" /\ mode' = mode
        /\ UNCHANGED <<toksuper, tokens, count, result>>
    BY <1>5, CharIs DEF StringChar
  <2>4. pos' = pos + 1 /\ pos \in Nat
    BY <1>1, <2>1
  <2>2. \A k \in pos..(pos' - 1) : k = pos
    BY <2>4
  <2>3. pos' \in Nat /\ pos <= pos'
    BY <2>4
  <2>5. QuotesEscaped(Chars, start + 1, pos, pos')
    BY <2>1, <2>2 DEF QuotesEscaped
  <2> QED
    BY <1>1, <2>1, <2>3, <2>5, StringGrows
<1> QED
  BY <1>3, <1>4, <1>5

\* A step within an escaped character code.
LEMMA TextUnicode == ASSUME JInv, TextInv, Unicode PROVE TextInv'
<1>1. /\ mode = "unicode" /\ start' = start /\ UNCHANGED <<args, counted>>
      /\ UNCHANGED <<input, len, num_tokens>> /\ start \in Nat /\ start < pos /\ pos \in Nat
  BY CharFacts DEF Unicode, JInv, args
<1>2. CASE GiveUp(INVAL)
  BY <1>1, <1>2, TextGiveUp
<1>3. CASE mode' = "string" /\ UNCHANGED <<pos, tokens>>
  <2>2. pos' = pos /\ pos \in Nat
    BY <1>1, <1>3
  <2>1. \A k \in pos..(pos' - 1) : FALSE
    BY <2>2
  <2>3. pos' \in Nat /\ pos <= pos'
    BY <2>2
  <2>4. QuotesEscaped(Chars, start + 1, pos, pos')
    BY <2>1 DEF QuotesEscaped
  <2> QED
    BY <1>1, <1>3, <2>3, <2>4, StringGrows
<1>4. CASE ~AtEnd /\ Char \in Hex /\ pos' = pos + 1 /\ UNCHANGED <<tokens, mode>>
  <2>1. Chars[pos + 1] # "\""
    BY <1>4, CharIs DEF Hex
  <2>2. \A k \in pos..(pos' - 1) : k = pos
    BY <1>1, <1>4
  <2>3. pos' \in Nat /\ pos <= pos'
    BY <1>1, <1>4
  <2>4. QuotesEscaped(Chars, start + 1, pos, pos')
    BY <2>1, <2>2 DEF QuotesEscaped
  <2> QED
    BY <1>1, <1>4, <2>3, <2>4, StringGrows
<1> QED
  BY <1>2, <1>3, <1>4 DEF Unicode, Goto, parser

\* Every step keeps the tokens those of the text.
LEMMA TextNext == JInv /\ TextInv /\ [Next]_vars => TextInv'
<1> SUFFICES ASSUME JInv, TextInv, [Next]_vars PROVE TextInv'
  OBVIOUS
<1>1. CASE UNCHANGED vars
  BY <1>1 DEF vars, args, parser, locals, TextInv, TextRead, PartRead, Success,
              PrimitiveText, StringText, QuotesEscaped, Base, Chars, AtEnd, Char, OpenTokens
<1> QED
  BY <1>1, TextCaller, TextOpen, TextClose, TextLoop, TextPrimitive, TextString, TextUnicode
     DEF Next, Parse

\* jsmn.cpp, jsmn_parse, jsmn_parse_primitive, jsmn_parse_string: whatever the text and
\* however often the parser is called with more of it or more tokens, gives up and goes
\* back, the tokens are those of the text it has parsed, in a forest, nothing of that
\* text is missing or in two of them, and a number is returned only for all of it.
THEOREM TokensOfTextCorrect == Spec => []TokensOfText
<1>1. Init => TextInv
  <2> SUFFICES ASSUME Init PROVE TextInv
    OBVIOUS
  <2>1. mode = "idle" /\ num_tokens = NoArray /\ result = NotYet
    BY DEF Init
  <2> QED
    BY <2>1 DEF TextInv, TextRead, PartRead, Success, NotYet
<1>2. JInv /\ TextInv /\ [Next]_vars => TextInv'
  BY TextNext
<1>3. TextInv /\ Laminar => TokensOfText
  <2> SUFFICES ASSUME TextInv, Laminar PROVE TokensOfText
    OBVIOUS
  <2>1. mode = "idle" /\ num_tokens # NoArray => Whole(input, tokens, pos)
    BY DEF TextInv, TextRead, Base
  <2> QED
    BY <2>1, SaysIs DEF TokensOfText, TextInv, Success, Whole
<1> QED
  BY <1>1, <1>2, <1>3, JCorrect, LaminarCorrect, PTL DEF Spec

----------------------------------------------------------------------------
(* Counting. What the loops of a call do with the length l of a text, but   *)
(* for tokens and brackets, is a function of where they are: Turn. A call   *)
(* that counts goes through the turns up to the end of the text; calls with *)
(* an array go through the same ones, in pieces.                            *)

\* Where a call is: the loop, the position, the digits of an escape and the count.
Spots == [mode : {"loop", "primitive", "string", "unicode"}, pos : Nat,
           digits : 0..4, count : Nat]
At(m, p, d, c) == [mode |-> m, pos |-> p, digits |-> d, count |-> c]
Stuck == At("idle", 0, 0, 0)

Done(chars, l, p) == IF p < l THEN chars[p + 1] = "nul" ELSE TRUE

TurnLoop(chars, l, p, c) ==
    IF Done(chars, l, p) THEN Stuck
    ELSE IF chars[p + 1] \in Opens THEN At("loop", p + 1, 0, c + 1)
    ELSE IF chars[p + 1] \in Closes \cup {":", ",", " "} THEN At("loop", p + 1, 0, c)
    ELSE IF chars[p + 1] = "\"" THEN At("string", p + 1, 0, c)
    ELSE At("primitive", p, 0, c)

TurnPrimitive(chars, l, p, c) ==
    IF Done(chars, l, p) \/ chars[p + 1] \in PrimitiveEnds THEN At("loop", p, 0, c + 1)
    ELSE IF chars[p + 1] = "ctl" THEN Stuck
    ELSE At("primitive", p + 1, 0, c)

TurnString(chars, l, p, c) ==
    IF Done(chars, l, p) THEN Stuck
    ELSE IF chars[p + 1] = "\"" THEN At("loop", p + 1, 0, c + 1)
    ELSE IF chars[p + 1] = "\\" /\ p + 1 < l
    THEN IF chars[p + 2] = "u" THEN At("unicode", p + 2, 0, c)
         ELSE IF chars[p + 2] \in Escapes THEN At("string", p + 2, 0, c)
         ELSE Stuck
    ELSE At("string", p + 1, 0, c)

TurnUnicode(chars, l, p, d, c) ==
    IF d = 4 \/ Done(chars, l, p) THEN At("string", p, 0, c)
    ELSE IF chars[p + 1] \in Hex THEN At("unicode", p + 1, d + 1, c)
    ELSE Stuck

Turn(chars, l, s) ==
    IF s.mode = "loop" THEN TurnLoop(chars, l, s.pos, s.count)
    ELSE IF s.mode = "primitive" THEN TurnPrimitive(chars, l, s.pos, s.count)
    ELSE IF s.mode = "string" THEN TurnString(chars, l, s.pos, s.count)
    ELSE TurnUnicode(chars, l, s.pos, s.digits, s.count)

Final(chars, l, s) == s.mode = "loop" /\ Done(chars, l, s.pos)

\* From s the turns lead to the end of the text with count n: s is in every set
\* that has these ends and with a place also the one before it.
Backwards(chars, l, n, S) ==
    /\ \A s \in Spots : Final(chars, l, s) /\ s.count = n => s \in S
    /\ \A s \in Spots : Turn(chars, l, s) \in S => s \in S
Leads(chars, l, s, n) == \A S \in SUBSET Spots : Backwards(chars, l, n, S) => s \in S

\* A turn leads to a place where no less is counted, unless the call is stuck, as
\* it is at the end.
LEMMA TurnFacts ==
    ASSUME NEW chars, NEW l \in Nat, NEW s \in Spots
    PROVE  /\ Turn(chars, l, s) \in Spots \/ Turn(chars, l, s) = Stuck
           /\ Stuck \notin Spots
           /\ Turn(chars, l, s) \in Spots => Turn(chars, l, s).count >= s.count
           /\ Final(chars, l, s) => Turn(chars, l, s) = Stuck
<1>1. /\ s.mode \in {"loop", "primitive", "string", "unicode"}
      /\ s.pos \in Nat /\ s.digits \in 0..4 /\ s.count \in Nat
  BY DEF Spots
<1>3. Stuck \notin Spots
  BY DEF Stuck, At, Spots
<1> DEFINE p == s.pos
           c == s.count
           Fine(t) == t \in Spots /\ t.count >= s.count
<1>4. /\ Fine(At("loop", p + 1, 0, c + 1)) /\ Fine(At("loop", p + 1, 0, c))
      /\ Fine(At("loop", p, 0, c + 1)) /\ Fine(At("string", p + 1, 0, c))
      /\ Fine(At("string", p + 2, 0, c)) /\ Fine(At("string", p, 0, c))
      /\ Fine(At("primitive", p, 0, c)) /\ Fine(At("primitive", p + 1, 0, c))
      /\ Fine(At("unicode", p + 2, 0, c))
      /\ s.digits # 4 => Fine(At("unicode", p + 1, s.digits + 1, c))
  BY <1>1 DEF At, Spots
<1> HIDE DEF Fine
<1>5. CASE s.mode = "loop"
  <2>1. Fine(Turn(chars, l, s)) \/ Turn(chars, l, s) = Stuck
    <3>1. \/ Turn(chars, l, s) = Stuck
          \/ Turn(chars, l, s) = At("loop", p + 1, 0, c + 1)
          \/ Turn(chars, l, s) = At("loop", p + 1, 0, c)
          \/ Turn(chars, l, s) = At("string", p + 1, 0, c)
          \/ Turn(chars, l, s) = At("primitive", p, 0, c)
      BY <1>5, Zenon DEF Turn, TurnLoop
    <3> QED
      BY <1>4, <3>1
  <2>2. Final(chars, l, s) => Turn(chars, l, s) = Stuck
    BY <1>5 DEF Turn, TurnLoop, Final
  <2> QED
    BY <1>3, <2>1, <2>2 DEF Fine
<1>6. CASE s.mode = "primitive"
  <2>1. Fine(Turn(chars, l, s)) \/ Turn(chars, l, s) = Stuck
    BY <1>4, <1>6 DEF Turn, TurnPrimitive
  <2> QED
    BY <1>3, <1>6, <2>1 DEF Fine, Final
<1>7. CASE s.mode = "string"
  <2>1. Fine(Turn(chars, l, s)) \/ Turn(chars, l, s) = Stuck
    <3>1. \/ Turn(chars, l, s) = Stuck
          \/ Turn(chars, l, s) = At("loop", p + 1, 0, c + 1)
          \/ Turn(chars, l, s) = At("unicode", p + 2, 0, c)
          \/ Turn(chars, l, s) = At("string", p + 2, 0, c)
          \/ Turn(chars, l, s) = At("string", p + 1, 0, c)
      BY <1>7, Zenon DEF Turn, TurnString
    <3> QED
      BY <1>4, <3>1
  <2> QED
    BY <1>3, <1>7, <2>1 DEF Fine, Final
<1>8. CASE s.mode = "unicode"
  <2>1. Fine(Turn(chars, l, s)) \/ Turn(chars, l, s) = Stuck
    BY <1>4, <1>8 DEF Turn, TurnUnicode
  <2> QED
    BY <1>3, <1>8, <2>1 DEF Fine, Final
<1> QED
  BY <1>1, <1>5, <1>6, <1>7, <1>8

\* A turn leads where the place before it leads.
LEMMA LeadsOn ==
    ASSUME NEW chars, NEW l \in Nat, NEW n, NEW s \in Spots,
           Turn(chars, l, s) \in Spots
    PROVE  Leads(chars, l, s, n) <=> Leads(chars, l, Turn(chars, l, s), n)
<1> DEFINE t == Turn(chars, l, s)
<1>1. ASSUME Leads(chars, l, t, n) PROVE Leads(chars, l, s, n)
  BY <1>1 DEF Leads, Backwards
<1>2. ASSUME Leads(chars, l, s, n), NEW S \in SUBSET Spots, Backwards(chars, l, n, S), t \notin S
      PROVE  FALSE
  <2> DEFINE R == S \ {s}
  <2>1. ~Final(chars, l, s)
    BY TurnFacts
  <2>2. Backwards(chars, l, n, R)
    BY <1>2, <2>1 DEF Backwards
  <2>3. s \in R
    BY <1>2, <2>2 DEF Leads
  <2> QED
    BY <2>3
<1>3. ASSUME Leads(chars, l, s, n) PROVE Leads(chars, l, t, n)
  BY <1>2, <1>3 DEF Leads
<1> QED
  BY <1>1, <1>3

\* The end of the text leads to its own count.
LEMMA LeadsFinal ==
    ASSUME NEW chars, NEW l \in Nat, NEW n, NEW s \in Spots, Final(chars, l, s)
    PROVE  Leads(chars, l, s, n) <=> s.count = n
<1>1. ASSUME s.count = n PROVE Leads(chars, l, s, n)
  BY <1>1 DEF Leads, Backwards
<1>2. ASSUME s.count # n, Leads(chars, l, s, n) PROVE FALSE
  <2> DEFINE S == Spots \ {s}
  <2>1. Turn(chars, l, s) \notin S
    BY TurnFacts
  <2>2. Backwards(chars, l, n, S)
    BY <1>2, <2>1 DEF Backwards
  <2> QED
    BY <1>2, <2>2 DEF Leads
<1> QED
  BY <1>1, <1>2

\* No place leads to less than what was counted there.
LEMMA LeadsUp ==
    ASSUME NEW chars, NEW l \in Nat, NEW n \in Nat, NEW s \in Spots, Leads(chars, l, s, n)
    PROVE  s.count <= n
<1> DEFINE S == {x \in Spots : x.count <= n}
<1>1. ASSUME NEW x \in Spots, Turn(chars, l, x) \in S PROVE x \in S
  <2>1. x.count \in Nat /\ Turn(chars, l, x) \in Spots /\ Turn(chars, l, x).count \in Nat
        /\ Turn(chars, l, x).count <= n
    BY <1>1 DEF Spots
  <2>2. Turn(chars, l, x).count >= x.count
    BY <1>1, <2>1, TurnFacts
  <2> QED
    BY <2>1, <2>2
<1>2. \A x \in Spots : x.count = n => x \in S
  BY DEF Spots
<1>3. Backwards(chars, l, n, S)
  BY <1>1, <1>2 DEF Backwards
<1> QED
  BY <1>3 DEF Leads

\* Where the call is.
Now == At(mode, pos, IF mode = "unicode" THEN digits ELSE 0, count)

\* A call with a shorter text sees an end only where there is one, or at its own.
LEMMA DoneFacts ==
    ASSUME JInv, NEW l \in Nat, len <= l
    PROVE  /\ ~AtEnd => ~Done(Chars, l, pos)
           /\ AtEnd => Done(Chars, l, pos) \/ (pos = len /\ len < l)
           /\ pos < len => (AtEnd <=> Done(Chars, l, pos))
           /\ pos = len => AtEnd
<1>1. len \in Nat /\ pos \in Nat /\ pos <= len
  BY CharFacts
<1>2. CASE pos < len
  <2>1. pos < l /\ pos # len
    BY <1>1, <1>2
  <2>2. AtEnd <=> Chars[pos + 1] = "nul"
    BY <1>2 DEF AtEnd, Char
  <2>3. Done(Chars, l, pos) <=> Chars[pos + 1] = "nul"
    BY <2>1 DEF Done
  <2> QED
    BY <2>1, <2>2, <2>3
<1>3. CASE ~(pos < len)
  <2>1. pos = len /\ AtEnd
    BY <1>1, <1>3 DEF AtEnd
  <2>2. Done(Chars, l, pos) \/ len < l
    BY <1>1, <2>1 DEF Done
  <2> QED
    BY <1>3, <2>1, <2>2
<1> QED
  BY <1>2, <1>3

\* The types of where the call is.
LEMMA NowPlaces == ASSUME JInv, mode # "idle" PROVE Now \in Spots
<1>1. /\ mode \in {"loop", "primitive", "string", "unicode"} /\ pos \in Nat
      /\ digits \in 0..4 /\ count \in Nat
  BY CharFacts DEF JInv
<1>2. (IF mode = "unicode" THEN digits ELSE 0) \in 0..4
  BY <1>1
<1> QED
  BY <1>1, <1>2 DEF Now, At, Spots

\* The same as an implication.
LEMMA NowTypes == JInv => (mode # "idle" => Now \in Spots)
  BY NowPlaces

\* And what it says of the next state.
LEMMA NowTypesNext == (JInv => (mode # "idle" => Now \in Spots))'
  BY NowTypes, PTL

\* So that a step leads to a place if the call goes on.
LEMMA NowPlacesNext == ASSUME JInv, Next, mode' # "idle" PROVE Now' \in Spots
  BY JNext, NowTypesNext

\* The turn that a step of the loop of jsmn_parse is, for any text that goes on.
LEMMA LoopTurns ==
    ASSUME JInv, NEW l \in Nat, len <= l, mode' # "idle",
           \/ ParseOpen \/ ParseClose \/ ParseColon \/ ParseComma \/ ParseBlank
           \/ ParseQuote \/ ParseOther \/ ParseEnd
    PROVE  Turn(Chars, l, Now) = Now'
<1> DEFINE c == Chars[pos + 1]
<1>1. mode = "loop" /\ ~AtEnd /\ ~Done(Chars, l, pos)
  <2>1. mode = "loop" /\ ~AtEnd
    BY DEF ParseOpen, ParseClose, ParseColon, ParseComma, ParseBlank, ParseQuote, ParseOther,
           ParseEnd, InLoop, Return
  <2> QED
    BY <2>1, DoneFacts
<1>2. Turn(Chars, l, Now) = TurnLoop(Chars, l, pos, count)
  BY <1>1 DEF Turn, Now, At
<1> USE DEF locals
<1>3. CASE ParseOpen
  <2>1. c \in Opens /\ mode' = mode /\ pos' = pos + 1 /\ count' = count + 1
    BY <1>3 DEF ParseOpen, InLoop, Char, Return
  <2> QED
    BY <1>1, <1>2, <2>1 DEF TurnLoop, Now
<1>4. CASE ParseClose
  <2>1. c \in Closes /\ mode' = mode /\ pos' = pos + 1 /\ count' = count
    BY <1>4 DEF ParseClose, CloseToken, InLoop, Char, Return
  <2>2. c \notin Opens
    BY <2>1 DEF Opens, Closes
  <2> QED
    BY <1>1, <1>2, <2>1, <2>2 DEF TurnLoop, Now
<1>5. CASE ParseColon \/ ParseComma \/ ParseBlank
  <2>1. c \in {":", ",", " "} /\ mode' = mode /\ pos' = pos + 1 /\ count' = count
    BY <1>5 DEF ParseColon, ParseComma, ParseBlank, InLoop, Char
  <2>2. c \notin Opens
    BY <2>1 DEF Opens
  <2> QED
    BY <1>1, <1>2, <2>1, <2>2 DEF TurnLoop, Now
<1>6. CASE ParseQuote
  <2>1. c = "\"" /\ mode' = "string" /\ pos' = pos + 1 /\ count' = count
    BY <1>6 DEF ParseQuote, InLoop, Char, Goto
  <2>2. c \notin Opens /\ c \notin Closes \cup {":", ",", " "}
    BY <2>1 DEF Opens, Closes
  <2> QED
    BY <1>1, <1>2, <2>1, <2>2 DEF TurnLoop, Now
<1>7. CASE ParseOther
  <2>1. /\ c \notin Opens /\ c \notin Closes \cup {":", ",", " "} /\ c # "\""
        /\ mode' = "primitive" /\ pos' = pos /\ count' = count
    BY <1>7 DEF ParseOther, Char, Goto, parser
  <2> QED
    BY <1>1, <1>2, <2>1 DEF TurnLoop, Now
<1>8. CASE ParseEnd
  BY <1>8 DEF ParseEnd, Return
<1> QED
  BY <1>3, <1>4, <1>5, <1>6, <1>7, <1>8

\* A primitive, where a call does not stop within one.
LEMMA PrimitiveTurns ==
    ASSUME JInv, NEW l \in Nat, len <= l, mode' # "idle", Primitive,
           pos = len /\ len < l => Chars[pos + 1] \in PrimitiveEnds \cup {"nul"}
    PROVE  Turn(Chars, l, Now) = Now'
<1> DEFINE c == Chars[pos + 1]
<1>1. mode = "primitive" /\ UNCHANGED digits
  BY DEF Primitive, locals
<1>2. Turn(Chars, l, Now) = TurnPrimitive(Chars, l, pos, count)
  BY <1>1 DEF Turn, Now, At
<1>3. CASE AtEnd \/ Char \in PrimitiveEnds
  <2>1. mode' = "loop" /\ pos' = pos /\ count' = count + 1
    BY <1>3 DEF Primitive, Found, GiveUp, Return, Goto
  <2>2. AtEnd => Done(Chars, l, pos) \/ c \in PrimitiveEnds
    BY DoneFacts DEF Done
  <2>3. Done(Chars, l, pos) \/ c \in PrimitiveEnds
    BY <1>3, <2>2 DEF Char
  <2> QED
    BY <1>2, <2>1, <2>3 DEF TurnPrimitive, Now
<1>4. CASE ~(AtEnd \/ Char \in PrimitiveEnds)
  <2>1. mode' = mode /\ pos' = pos + 1 /\ count' = count /\ Char # "ctl"
    BY <1>4 DEF Primitive, GiveUp, Return
  <2>2. ~Done(Chars, l, pos)
    BY <1>4, DoneFacts
  <2> QED
    BY <1>1, <1>2, <1>4, <2>1, <2>2 DEF TurnPrimitive, Now, Char
<1> QED
  BY <1>3, <1>4

\* A string, but at the end of a call with a shorter text.
LEMMA StringTurns ==
    ASSUME JInv, NEW l \in Nat, len <= l, mode' # "idle",
           StringEnd \/ StringEscape \/ StringChar \/ Unicode,
           pos < len \/ len = l,
           mode = "string" /\ pos + 1 = len /\ Chars[pos + 1] = "\\" => len = l
    PROVE  Turn(Chars, l, Now) = Now'
<1> DEFINE c == Chars[pos + 1]
<1>1. /\ len \in Nat /\ pos \in Nat /\ pos <= len
      /\ AtEnd <=> Done(Chars, l, pos)
  BY CharFacts, DoneFacts
<1>2. ASSUME mode = "string" PROVE Turn(Chars, l, Now) = TurnString(Chars, l, pos, count)
  BY <1>2 DEF Turn, Now, At
<1>3. CASE StringEnd
  <2>1. /\ mode = "string" /\ ~AtEnd /\ c = "\""
        /\ mode' = "loop" /\ pos' = pos + 1 /\ count' = count + 1
    BY <1>3 DEF StringEnd, Found, GiveUp, Return, Goto, Char
  <2> QED
    BY <1>1, <1>2, <2>1 DEF TurnString, Now
<1>4. CASE StringEscape
  <2>1. /\ mode = "string" /\ ~AtEnd /\ c = "\\" /\ pos + 1 < len /\ pos + 1 < l
        /\ pos' = pos + 2 /\ count' = count /\ digits' = 0
        /\ Chars[pos + 2] \in Escapes \cup {"u"}
        /\ mode' = IF Chars[pos + 2] = "u" THEN "unicode" ELSE "string"
    BY <1>1, <1>4 DEF StringEscape, GiveUp, Return, Goto, Char
  <2>2. c # "\"" /\ "u" \notin Escapes
    BY <2>1 DEF Escapes
  <2> QED
    BY <1>1, <1>2, <2>1, <2>2 DEF TurnString, Now
<1>5. CASE StringChar
  <2>1. /\ mode = "string" /\ ~AtEnd /\ c # "\"" /\ (c = "\\" => pos + 1 >= len)
        /\ mode' = mode /\ pos' = pos + 1 /\ count' = count
    BY <1>5 DEF StringChar, Char
  <2>2. ~(c = "\\" /\ pos + 1 < l)
    <3>1. SUFFICES ASSUME c = "\\" PROVE ~(pos + 1 < l)
      OBVIOUS
    <3>2. pos + 1 = len
      BY <1>1, <2>1, <3>1, CharFacts
    <3> QED
      BY <1>1, <2>1, <3>1, <3>2
  <2> QED
    BY <1>1, <1>2, <2>1, <2>2 DEF TurnString, Now
<1>6. CASE Unicode
  <2>1. mode = "unicode"
    BY <1>6 DEF Unicode
  <2>2. Turn(Chars, l, Now) = TurnUnicode(Chars, l, pos, digits, count)
    BY <2>1 DEF Turn, Now, At
  <2>3. CASE digits = 4 \/ AtEnd
    <3>1. mode' = "string" /\ pos' = pos /\ count' = count
      BY <1>6, <2>3 DEF Unicode, Goto, parser
    <3> QED
      BY <1>1, <2>2, <2>3, <3>1 DEF TurnUnicode, Now
  <2>4. CASE ~(digits = 4 \/ AtEnd)
    <3>1. /\ c \in Hex /\ mode' = mode /\ digits' = digits + 1 /\ pos' = pos + 1
          /\ count' = count
      BY <1>6, <2>4 DEF Unicode, GiveUp, Return, Char
    <3> QED
      BY <1>1, <2>1, <2>2, <2>4, <3>1 DEF TurnUnicode, Now
  <2> QED
    BY <2>3, <2>4
<1> QED
  BY <1>3, <1>4, <1>5, <1>6

\* Within brackets no call with an array stops in a primitive that the counted text
\* goes on with: without JSMN_STRICT its first part is taken for all of it. Outside
\* of brackets jsmn_parse has then finished.
PrimitivesWhole ==
    mode = "primitive" /\ num_tokens # NoArray /\ OpenTokens # {}
        /\ pos = len /\ len < counted.len
    => Chars[pos + 1] \in PrimitiveEnds \cup {"nul"}

\* All there is was read and nothing is open: the call returns a number.
Over == pos = len /\ len < counted.len /\ OpenTokens = {}

Zero == At("loop", 0, 0, 0)
Led(s) == Leads(Chars, counted.len, s, counted.result)

\* The call that counts gets to its count from the beginning.
Counting ==
    num_tokens = NoArray =>
        /\ counted.result = NotYet
        /\ mode # "idle" =>
              \A n \in Nat : Leads(Chars, len, Now, n) => Leads(Chars, len, Zero, n)
        /\ mode = "idle" /\ result >= 0 => Leads(Chars, len, Zero, result)

CountKept == counted.result >= 0 => Led(Zero)

\* As long as no more than the counted text was given, every call is on the way to
\* its end with that count; where a string is being read at the end of a shorter text, at
\* least the place where it began is, to which the call goes back.
Pieces ==
    num_tokens # NoArray /\ counted.result >= 0 /\ len <= counted.len =>
        /\ mode # "idle" => count = Len(tokens)
        /\ mode = "idle" /\ result \in {PART, NOMEM} => Led(At("loop", pos, 0, Len(tokens)))
        /\ mode = "loop" => Led(Now) \/ Over
        /\ mode = "primitive" => Led(Now)
        /\ mode \in {"string", "unicode"} => Led(Now) \/ (pos = len /\ len < counted.len)
        /\ mode \in {"primitive", "string", "unicode"} => Led(At("loop", start, 0, count))

CountInv == Counting /\ CountKept /\ Pieces /\ CountSuffices

\* How a call returns.
LEMMA Returns ==
    ASSUME JInv, Parse, mode' = "idle"
    PROVE  /\ UNCHANGED <<args, counted, tokens>>
           /\ \/ /\ mode = "loop" /\ ParseEnd /\ AtEnd /\ pos' = pos
                 /\ \/ result' = PART /\ num_tokens # NoArray /\ OpenTokens # {}
                    \/ result' = count
              \/ mode = "loop" /\ ~AtEnd /\ ParseOpen /\ Full /\ result' = NOMEM /\ pos' = pos
              \/ result' = INVAL
              \/ /\ mode \in {"primitive", "string"} /\ pos' = start
                 /\ \/ result' = PART
                    \/ result' = NOMEM /\ Full /\ (Primitive \/ StringEnd)
<1> USE DEF args, parser, locals
<1>1. CASE ParseOpen
  <2>1. mode = "loop" /\ ~AtEnd /\ Full
    BY <1>1 DEF ParseOpen, InLoop
  <2> QED
    BY <1>1, <2>1 DEF ParseOpen, Return
<1>2. CASE ParseClose
  <2>1. mode = "loop"
    BY <1>2 DEF ParseClose, InLoop
  <2> QED
    BY <1>2, <2>1 DEF ParseClose, CloseToken, Return
<1>3. CASE ParseColon \/ ParseComma \/ ParseBlank \/ ParseQuote \/ ParseOther
  <2>1. mode' # "idle"
    BY <1>3 DEF ParseColon, ParseComma, ParseBlank, ParseQuote, ParseOther, InLoop, Goto
  <2> QED
    BY <2>1
<1>4. CASE ParseEnd
  <2>1. OpenTokens # {} => num_tokens # NoArray
    <3>1. num_tokens = NoArray => tokens = <<>>
      BY LenProperties DEF JInv, NoArray
    <3>2. tokens = <<>> => OpenTokens = {}
      BY DEF OpenTokens
    <3> QED
      BY <3>1, <3>2
  <2> QED
    BY <1>4, <2>1 DEF ParseEnd, Return
<1>5. CASE Primitive
  <2>1. /\ mode = "primitive" /\ pos' = start /\ UNCHANGED <<args, counted, tokens>>
        /\ \/ result' = INVAL
           \/ result' = NOMEM /\ Full
    BY <1>5 DEF Primitive, Found, GiveUp, Return, Goto
  <2> QED
    BY <1>5, <2>1
<1>6. CASE StringEnd
  <2>1. /\ mode = "string" /\ pos' = start /\ UNCHANGED <<args, counted, tokens>>
        /\ \/ result' = PART
           \/ result' = NOMEM /\ Full
    BY <1>6 DEF StringEnd, Found, GiveUp, Return, Goto
  <2> QED
    BY <1>6, <2>1
<1>7. CASE StringEscape \/ StringChar \/ Unicode
  <2>1. /\ UNCHANGED <<args, counted, tokens>> /\ result' = INVAL
    BY <1>7 DEF StringEscape, StringChar, Unicode, GiveUp, Return, Goto
  <2> QED
    BY <2>1
<1> QED
  BY <1>1, <1>2, <1>3, <1>4, <1>5, <1>6, <1>7 DEF Parse

\* What a step within a call leaves alone, and that tokens are counted.
LEMMA GoesOn ==
    ASSUME JInv, Parse, mode' # "idle"
    PROVE  /\ UNCHANGED <<args, counted>>
           /\ num_tokens # NoArray /\ count = Len(tokens) => count' = Len(tokens')
           /\ mode = "loop" /\ mode' \in {"primitive", "string"} => start' = pos /\ count' = count
           /\ mode = "loop" => mode' \in {"loop", "primitive", "string"}
           /\ mode # "loop" /\ mode' # "loop" => start' = start /\ count' = count
           /\ mode = "primitive" => mode' \in {"loop", "primitive"}
           /\ mode \in {"string", "unicode"} => mode' \in {"loop", "string", "unicode"}
<1> USE DEF args, parser, locals
<1>1. ASSUME NEW token, num_tokens # NoArray, tokens' = Append1(token)
      PROVE  Len(tokens') = Len(tokens) + 1
  <2>1. tokens \in Seq(Tokens) /\ Len(tokens) \in Nat
    BY LenProperties DEF JInv
  <2>2. toksuper # -1 => toksuper + 1 \in 1..Len(tokens)
    BY <2>1 DEF JInv
  <2> DEFINE q == IF toksuper = -1 THEN tokens
                  ELSE [tokens EXCEPT ![toksuper + 1].size = @ + 1]
  <2>3. q \in Seq(Tokens) /\ Len(q) = Len(tokens)
    <3>1. CASE toksuper = -1
      BY <2>1, <3>1
    <3>2. CASE toksuper # -1
      <4>1. tokens[toksuper + 1] \in Tokens /\ tokens[toksuper + 1].size + 1 \in Nat
        BY <2>1, <2>2, <3>2, TokenFacts DEF Tokens
      <4>2. [tokens[toksuper + 1] EXCEPT !.size = @ + 1] \in Tokens
        BY <4>1 DEF Tokens
      <4>3. q = [tokens EXCEPT ![toksuper + 1] = [tokens[toksuper + 1] EXCEPT !.size = @ + 1]]
        BY <3>2
      <4> QED
        BY <2>1, <2>2, <3>2, <4>2, <4>3, ExceptSeq
    <3> QED
      BY <3>1, <3>2
  <2>4. tokens' = Append(q, token)
    BY <1>1 DEF Append1
  <2> HIDE DEF q
  <2> QED
    BY <2>3, <2>4, AppendProperties
<1>2. CASE ParseOpen
  <2>1. /\ mode = "loop" /\ UNCHANGED <<args, counted, mode>> /\ count' = count + 1
        /\ \E token : tokens' = Append1(token)
    BY <1>2 DEF ParseOpen, InLoop, Return
  <2> QED
    BY <1>1, <2>1
<1>3. CASE ParseClose
  <2>1. mode = "loop" /\ UNCHANGED <<args, counted, mode, count>>
    BY <1>3 DEF ParseClose, InLoop, Return, CloseToken
  <2>2. Len(tokens') = Len(tokens)
    <3>1. CASE tokens' = tokens
      BY <3>1
    <3>2. ASSUME NEW e \in OpenTokens, CloseToken(e) PROVE Len(tokens') = Len(tokens)
      BY <3>2, CloseProperties
    <3> QED
      BY <1>3, <3>1, <3>2 DEF ParseClose, Return
  <2> QED
    BY <2>1, <2>2
<1>4. CASE ParseColon \/ ParseComma \/ ParseBlank \/ ParseQuote \/ ParseOther \/ ParseEnd
  BY <1>4 DEF ParseColon, ParseComma, ParseBlank, ParseQuote, ParseOther, ParseEnd, InLoop, Goto, Return
<1>5. CASE Primitive \/ StringEnd
  <2>1. CASE /\ mode' = "loop" /\ count' = count + 1 /\ ~Full
             /\ \E token : tokens' = Append1(token)
    BY <1>1, <1>5, <2>1 DEF Primitive, StringEnd
  <2>2. CASE ~(/\ mode' = "loop" /\ count' = count + 1 /\ ~Full
               /\ \E token : tokens' = Append1(token))
    BY <1>5, <2>2 DEF Primitive, StringEnd, Found, GiveUp, Return, Goto
  <2> QED
    BY <2>1, <2>2
<1>6. CASE StringEscape \/ StringChar \/ Unicode
  BY <1>6 DEF StringEscape, StringChar, Unicode, GiveUp, Return, Goto
<1> QED
  BY <1>2, <1>3, <1>4, <1>5, <1>6 DEF Parse

\* The caller starts a call where the last one has left the parser.
LEMMA CountCaller == ASSUME JInv, CountInv, Caller PROVE CountInv'
<1> USE DEF args, parser, locals, Goto, NOMEM, INVAL, PART, NotYet, NoArray
<1>1. /\ Chars' = Chars /\ len \in Nat /\ Len(tokens) \in Nat /\ count \in Nat
      /\ num_tokens = -1 => tokens = <<>>
      /\ counted.result \in Int /\ counted.len \in Nat /\ result \in Int
  <2>1. Chars' = Chars
    BY DEF Caller, CallCount, Counted, CallParse, Chars
  <2>2. num_tokens = -1 => tokens = <<>>
    BY LenProperties DEF JInv
  <2> QED
    BY <2>1, <2>2, CharFacts, TokenFacts DEF JInv, Results
<1>2. CASE CallCount
  <2>1. /\ mode' = "loop" /\ pos' = 0 /\ count' = 0 /\ num_tokens' = -1 /\ num_tokens = -1
        /\ counted' = counted
    BY <1>2 DEF CallCount, JInv
  <2>2. Now' = Zero
    BY <2>1 DEF Now, Zero
  <2>3. Counting'
    BY <1>1, <2>1, <2>2 DEF Counting, CountInv
  <2>4. CountKept' /\ Pieces' /\ CountSuffices'
    BY <1>1, <2>1 DEF CountInv, CountKept, Led, Pieces, CountSuffices
  <2> QED
    BY <2>3, <2>4 DEF CountInv
<1>3. CASE Counted
  <2>1. /\ mode = "idle" /\ mode' = "idle" /\ pos' = 0 /\ tokens' = <<>> /\ num_tokens' = 0
        /\ num_tokens = -1 /\ counted'.result = result /\ counted'.len = len
        /\ result' = -4 /\ len' = len
    BY <1>3 DEF Counted
  <2>2. CountKept'
    BY <1>1, <2>1 DEF CountInv, Counting, CountKept, Led
  <2>3. Counting' /\ Pieces' /\ CountSuffices'
    BY <2>1 DEF Counting, Pieces, CountSuffices
  <2> QED
    BY <2>2, <2>3 DEF CountInv
<1>4. CASE CallParse
  <2>1. /\ mode = "idle" /\ mode' = "loop" /\ num_tokens' # -1 /\ count' = Len(tokens)
        /\ pos' = pos /\ tokens' = tokens /\ counted' = counted
        /\ len' \in Nat
    <3>1. input.stops \subseteq 0..Len(Chars) /\ TokenCounts \subseteq Nat /\ Len(Chars) \in Nat
      BY InputsAssumption, CharFacts DEF JInv, Chars
    <3> QED
      BY <1>4, <3>1 DEF CallParse
  <2>2. Now' = At("loop", pos, 0, Len(tokens))
    BY <2>1 DEF Now
  <2>3. ASSUME counted.result >= 0, len' <= counted.len PROVE Led(Now)'
    <3>1. CASE result = -4
      <4>1. Now' = Zero
        BY <2>1, <2>2, <3>1 DEF Zero, JInv
      <4> QED
        BY <1>1, <2>1, <2>3, <4>1 DEF CountInv, CountKept, Led
    <3>2. CASE result # -4
      <4>1. result \in {-3, -1} /\ num_tokens # -1 /\ len <= len'
        BY <1>1, <1>4, <2>1, <3>2 DEF CallParse
      <4>2. Led(At("loop", pos, 0, Len(tokens)))
        BY <1>1, <2>1, <2>3, <4>1 DEF CountInv, Pieces
      <4> QED
        BY <1>1, <2>1, <2>2, <4>2 DEF Led
    <3> QED
      BY <3>1, <3>2
  <2>4. Pieces'
    BY <2>1, <2>3 DEF Pieces
  <2>5. Counting' /\ CountKept' /\ CountSuffices'
    BY <1>1, <2>1 DEF CountInv, Counting, CountKept, Led, CountSuffices
  <2> QED
    BY <2>4, <2>5 DEF CountInv
<1> QED
  BY <1>2, <1>3, <1>4 DEF Caller

\* A step of the call that counts.
LEMMA CountWhole ==
    ASSUME JInv, CountInv, Parse, num_tokens = NoArray
    PROVE  Counting'
<1> USE DEF NOMEM, INVAL, PART, NotYet, NoArray
<1>1. /\ mode # "idle" /\ len \in Nat /\ pos \in Nat /\ count \in Nat /\ counted.result = -4
      /\ \A n \in Nat : Leads(Chars, len, Now, n) => Leads(Chars, len, Zero, n)
  <2>1. mode # "idle"
    BY DEF Parse, ParseOpen, ParseClose, ParseColon, ParseComma, ParseBlank, ParseQuote, ParseOther,
           ParseEnd, InLoop, Primitive, StringEnd, StringEscape, StringChar, Unicode
  <2> QED
    BY <2>1, CharFacts DEF CountInv, Counting, JInv
<1>2. CASE mode' # "idle"
  <2>1. len' = len /\ Chars' = Chars /\ counted' = counted
    BY <1>2, GoesOn DEF args, Chars
  <2>2. Turn(Chars, len, Now) = Now'
    BY <1>1, <1>2, LoopTurns, PrimitiveTurns, StringTurns DEF Parse
  <2>3. Now \in Spots /\ Now' \in Spots
    BY <1>1, <1>2, NowPlacesNext, NowPlaces DEF Next
  <2>4. \A n \in Nat : Leads(Chars, len, Now', n) => Leads(Chars, len, Zero, n)
    BY <1>1, <2>2, <2>3, LeadsOn
  <2> QED
    BY <1>1, <1>2, <2>1, <2>4 DEF Counting, Zero
<1>3. CASE mode' = "idle"
  <2>1. UNCHANGED <<args, counted, tokens>>
    BY <1>3, Returns
  <2>2. CASE mode = "loop" /\ AtEnd /\ result' = count
    <3>1. Final(Chars, len, Now) /\ Now.count = count
      BY <2>2, DoneFacts, <1>1 DEF Final, Now, At
    <3>2. Leads(Chars, len, Zero, count)
      BY <1>1, <3>1, LeadsFinal, NowPlaces
    <3> QED
      BY <1>1, <1>3, <2>1, <2>2, <3>2 DEF Counting, args, Chars, Zero
  <2>3. CASE result' \in {PART, INVAL}
    <3>1. ~(result' >= 0)
      BY <2>3
    <3> QED
      BY <1>1, <1>3, <2>1, <3>1 DEF Counting, args
  <2>4. ~Full
    BY DEF Full
  <2> QED
    BY <1>3, <2>2, <2>3, <2>4, Returns
<1> QED
  BY <1>2, <1>3


\* A call that finds no room is at a token that is one more than those counted.
LEMMA FullTurns ==
    ASSUME JInv, Parse, mode' = "idle", result' = NOMEM
    PROVE  /\ Full /\ mode \in {"loop", "primitive", "string"}
           /\ \E p \in Nat : Turn(Chars, len, Now) = At("loop", p, 0, count + 1)
<1> USE DEF NOMEM, INVAL, PART
<1>1. /\ len \in Nat /\ pos \in Nat /\ pos + 1 \in Nat /\ count \in Nat
      /\ AtEnd <=> Done(Chars, len, pos)
  BY CharFacts, DoneFacts DEF JInv
<1>2. CASE mode = "loop" /\ ParseOpen /\ Full
  <2>1. ~AtEnd /\ Chars[pos + 1] \in Opens
    BY <1>2 DEF ParseOpen, InLoop, Char
  <2>2. Turn(Chars, len, Now) = At("loop", pos + 1, 0, count + 1)
    BY <1>1, <1>2, <2>1 DEF Turn, TurnLoop, Now, At
  <2> QED
    BY <1>1, <1>2, <2>2
<1>3. CASE Full /\ Primitive
  <2>1. mode = "primitive" /\ (AtEnd \/ Char \in PrimitiveEnds)
    BY <1>3 DEF Primitive, GiveUp, Return
  <2>2. Turn(Chars, len, Now) = At("loop", pos, 0, count + 1)
    BY <1>1, <2>1 DEF Turn, TurnPrimitive, Now, At, Char
  <2> QED
    BY <1>1, <1>3, <2>1, <2>2
<1>4. CASE Full /\ StringEnd
  <2>1. mode = "string" /\ ~AtEnd /\ Char = "\""
    <3>1. ASSUME AtEnd PROVE FALSE
      <4>1. result' = PART
        BY <1>4, <3>1, Zenon DEF StringEnd, GiveUp, Return
      <4> QED
        BY <4>1
    <3> QED
      BY <1>4, <3>1, Zenon DEF StringEnd
  <2>2. Turn(Chars, len, Now) = At("loop", pos + 1, 0, count + 1)
    BY <1>1, <2>1 DEF Turn, TurnString, Now, At, Char
  <2> QED
    BY <1>1, <1>4, <2>1, <2>2
<1> QED
  BY <1>1, <1>2, <1>3, <1>4, Returns

\* How a call with an array returns, if the text counted is not shorter.
LEMMA CountReturns ==
    ASSUME JInv, CountInv, Parse, mode' = "idle", num_tokens # NoArray
    PROVE  Pieces' /\ CountSuffices'
<1> USE DEF NOMEM, INVAL, PART, NotYet, NoArray
<1> DEFINE n == counted.result
           L == counted.len
<1>1. /\ len \in Nat /\ pos \in Nat /\ count \in Nat /\ L \in Nat /\ n \in Int
      /\ len' = len /\ num_tokens' = num_tokens /\ counted' = counted /\ tokens' = tokens
      /\ Chars' = Chars /\ num_tokens \in Nat
  <2>1. UNCHANGED <<args, counted, tokens>>
    BY Returns
  <2>2. n \in Int /\ L \in Nat
    BY DEF JInv, Results
  <2> QED
    BY <2>1, <2>2, CharFacts DEF JInv, args, Chars
<1>2. mode \in {"loop", "primitive", "string", "unicode"}
  BY DEF JInv, Parse, ParseOpen, ParseClose, ParseColon, ParseComma, ParseBlank, ParseQuote,
         ParseOther, ParseEnd, InLoop, Primitive, StringEnd, StringEscape, StringChar, Unicode
<1>3. ASSUME n >= 0, len <= L, result' \in {PART, NOMEM}
      PROVE  Led(At("loop", pos, 0, Len(tokens)))'
  <2>1. /\ count = Len(tokens)
        /\ mode = "loop" => Led(Now) \/ Over
        /\ mode \in {"primitive", "string"} => Led(At("loop", start, 0, count))
    <3>1. Pieces /\ mode # "idle" /\ n >= 0
      BY <1>2, <1>3 DEF CountInv
    <3> QED
      BY <1>1, <1>3, <3>1, Zenon DEF Pieces
  <2>2. CASE mode = "loop" /\ pos' = pos /\ ~Over
    <3>1. Now = At("loop", pos, 0, count)
      BY <2>2 DEF Now
    <3> QED
      BY <1>1, <2>1, <2>2, <3>1 DEF Led
  <2>3. CASE mode \in {"primitive", "string"} /\ pos' = start
    BY <1>1, <2>1, <2>3 DEF Led
  <2>4. CASE mode = "loop" /\ AtEnd /\ result' = count
    BY <1>1, <1>3, <2>4
  <2>5. CASE mode = "loop" /\ ~AtEnd
    <3>1. ~Over
      BY <1>1, <2>5, CharFacts DEF Over
    <3> QED
      BY <1>3, <2>2, <2>5, <3>1, Returns
  <2>6. CASE mode = "loop" /\ pos' = pos /\ OpenTokens # {}
    BY <2>2, <2>6 DEF Over
  <2> QED
    BY <1>3, <2>3, <2>4, <2>5, <2>6, Returns
<1>4. Pieces'
  BY <1>1, <1>3 DEF Pieces
<1>5. ASSUME n >= 0, L = len, num_tokens >= n, result' = NOMEM PROVE FALSE
  <2>1. /\ Full /\ mode \in {"loop", "primitive", "string"}
        /\ \E p \in Nat : Turn(Chars, len, Now) = At("loop", p, 0, count + 1)
    BY <1>5, FullTurns
  <2>2. PICK p \in Nat : Turn(Chars, len, Now) = At("loop", p, 0, count + 1)
    BY <2>1
  <2>3. count = Len(tokens) /\ (Led(Now) \/ (pos = len /\ len < L))
    <3>1. Pieces /\ n >= 0 /\ len <= L
      BY <1>1, <1>5 DEF CountInv
    <3> QED
      BY <1>1, <2>1, <3>1, Zenon DEF Pieces, Over
  <2>4. Leads(Chars, len, Now, n) /\ n \in Nat
    BY <1>1, <1>5, <2>3 DEF Led
  <2>5. Now \in Spots
    BY <1>2, NowPlaces
  <2>6. At("loop", p, 0, count + 1) \in Spots /\ At("loop", p, 0, count + 1).count = count + 1
    BY <1>1 DEF At, Spots
  <2>7. Leads(Chars, len, At("loop", p, 0, count + 1), n)
    BY <1>1, <2>2, <2>4, <2>5, <2>6, LeadsOn
  <2>8. count + 1 <= n
    BY <1>1, <2>4, <2>6, <2>7, LeadsUp
  <2>9. count >= num_tokens
    BY <2>1, <2>3 DEF Full
  <2> QED
    BY <1>1, <1>5, <2>8, <2>9
<1>6. ASSUME n >= 0, L = len, result' >= 0 PROVE result' = n
  <2>1. mode = "loop" /\ AtEnd /\ result' = count
    BY <1>6, Returns
  <2>2. Leads(Chars, len, Now, n)
    BY <1>1, <1>6, <2>1 DEF CountInv, Pieces, Led, Over
  <2>3. Final(Chars, len, Now) /\ Now.count = count
    BY <1>1, <2>1, DoneFacts DEF Final, Now, At
  <2>4. Now \in Spots
    BY <1>2, NowPlaces
  <2> QED
    BY <1>1, <2>1, <2>2, <2>3, <2>4, LeadsFinal
<1>7. CountSuffices'
  BY <1>1, <1>5, <1>6 DEF CountSuffices
<1> QED
  BY <1>4, <1>7

\* The loop does not go on once everything was read.
LEMMA LoopAwake == ASSUME JInv, Parse, mode = "loop", mode' # "idle" PROVE ~Over
<1>1. ~AtEnd
  BY DEF Parse, ParseOpen, ParseClose, ParseColon, ParseComma, ParseBlank, ParseQuote, ParseOther,
         ParseEnd, InLoop, Return, Primitive, StringEnd, StringEscape, StringChar, Unicode
<1> QED
  BY <1>1, CharFacts DEF Over

\* A primitive that ends where the text does opens nothing.
LEMMA FoundCloses ==
    ASSUME JInv, Primitive, mode' # "idle", pos = len, num_tokens # NoArray, OpenTokens = {}
    PROVE  mode' = "loop" /\ pos' = pos /\ OpenTokens' = {}
<1> DEFINE token == Token("PRIMITIVE", start, pos)
<1>1. AtEnd /\ start \in Nat /\ pos \in Nat /\ start <= pos /\ mode = "primitive"
  BY CharFacts DEF JInv, AtEnd, Primitive
<1>2. ~Full /\ mode' = "loop" /\ pos' = pos /\ tokens' = Append1(token)
  BY <1>1 DEF Primitive, Found, GiveUp, Return, Goto
<1>3. /\ token \in Tokens /\ token.start = start /\ token.end = pos
      /\ token.start <= token.end /\ token.end # -1 /\ Base = start
  BY <1>1 DEF Token, Tokens, TokenTypes, Base
<1> HIDE DEF token
<1>4. /\ Len(tokens') = Len(tokens) + 1
      /\ tokens'[Len(tokens) + 1] = token
      /\ \A e \in DOMAIN tokens : tokens'[e].end = tokens[e].end
  BY <1>1, <1>2, <1>3, Append1Properties
<1>5. Len(tokens) \in Nat /\ DOMAIN tokens = 1..Len(tokens)
  BY TokenFacts
<1>6. ASSUME NEW e \in 1..Len(tokens) PROVE tokens[e].end # -1
  <2>1. e - 1 \in 0..(Len(tokens) - 1) /\ (e - 1) + 1 = e
    BY <1>5
  <2>2. e - 1 \notin OpenTokens
    OBVIOUS
  <2> QED
    BY <2>1, <2>2 DEF OpenTokens
<1>7. \A e \in 1..(Len(tokens) + 1) : tokens'[e].end # -1
  BY <1>3, <1>4, <1>5, <1>6
<1>8. OpenTokens' = {}
  BY <1>4, <1>5, <1>7 DEF OpenTokens
<1> QED
  BY <1>2, <1>8

\* Within a call with an array the way goes on.
LEMMA CountGoesOn ==
    ASSUME JInv, CountInv, PrimitivesWhole, Parse, mode' # "idle", num_tokens # NoArray
    PROVE  Pieces' /\ CountSuffices'
<1> USE DEF NOMEM, INVAL, PART, NotYet, NoArray
<1> DEFINE n == counted.result
           L == counted.len
<1>1. /\ len \in Nat /\ pos \in Nat /\ pos <= len /\ count \in Nat /\ L \in Nat /\ n \in Int
      /\ len' = len /\ num_tokens' = num_tokens /\ counted' = counted
      /\ Chars' = Chars
  <2>1. UNCHANGED <<args, counted>>
    BY GoesOn
  <2>2. n \in Int /\ L \in Nat
    BY DEF JInv, Results
  <2> QED
    BY <2>1, <2>2, CharFacts DEF JInv, args, Chars
<1>2. mode \in {"loop", "primitive", "string", "unicode"}
  BY DEF JInv, Parse, ParseOpen, ParseClose, ParseColon, ParseComma, ParseBlank, ParseQuote,
         ParseOther, ParseEnd, InLoop, Primitive, StringEnd, StringEscape, StringChar, Unicode
<1>3. Now \in Spots /\ Now' \in Spots
  BY <1>2, NowPlacesNext, NowPlaces DEF Next
<1>4. ASSUME Led(Now), len <= L, Turn(Chars, L, Now) = Now' PROVE Led(Now)'
  BY <1>1, <1>3, <1>4, LeadsOn DEF Led
<1>5. ASSUME n >= 0, len <= L
      PROVE  /\ count' = Len(tokens')
             /\ mode' = "loop" => Led(Now)' \/ Over'
             /\ mode' = "primitive" => Led(Now)'
             /\ mode' \in {"string", "unicode"} => Led(Now)' \/ (pos' = len /\ len < L)
             /\ mode' \in {"primitive", "string", "unicode"} => Led(At("loop", start, 0, count))'
  <2>1. /\ count = Len(tokens)
        /\ mode = "loop" => Led(Now) \/ Over
        /\ mode = "primitive" => Led(Now)
        /\ mode \in {"string", "unicode"} => Led(Now) \/ (pos = len /\ len < L)
        /\ mode \in {"primitive", "string", "unicode"} => Led(At("loop", start, 0, count))
    BY <1>1, <1>2, <1>5 DEF CountInv, Pieces
  <2>2. count' = Len(tokens')
    BY <2>1, GoesOn
  <2>3. mode' \in {"primitive", "string", "unicode"} => Led(At("loop", start, 0, count))'
    <3>1. CASE mode = "loop" /\ mode' \in {"primitive", "string"}
      <4>1. start' = pos /\ count' = count
        BY <3>1, GoesOn
      <4>2. Now = At("loop", pos, 0, count)
        BY <3>1 DEF Now
      <4>3. Led(Now)
        BY <2>1, <3>1, LoopAwake
      <4> QED
        BY <1>1, <3>1, <4>1, <4>2, <4>3 DEF Led
    <3>2. CASE mode # "loop" /\ mode' # "loop"
      <4>1. start' = start /\ count' = count
        BY <3>2, GoesOn
      <4> QED
        BY <1>1, <1>2, <2>1, <3>2, <4>1 DEF Led
    <3> QED
      BY <3>1, <3>2, GoesOn
  <2>4. CASE mode = "loop"
    <3>1. Turn(Chars, L, Now) = Now'
      BY <1>1, <1>5, <2>4, LoopTurns
        DEF Parse, Primitive, StringEnd, StringEscape, StringChar, Unicode
    <3>2. Led(Now)
      BY <2>1, <2>4, LoopAwake
    <3> QED
      BY <1>4, <1>5, <2>2, <2>3, <2>4, <3>1, <3>2
  <2>5. CASE mode = "primitive"
    <3>1. Primitive
      BY <2>5 DEF Parse, ParseOpen, ParseClose, ParseColon, ParseComma, ParseBlank, ParseQuote,
                  ParseOther, ParseEnd, InLoop, StringEnd, StringEscape, StringChar, Unicode
    <3>2. CASE pos = len /\ len < L /\ OpenTokens = {}
      <4>1. mode' = "loop" /\ pos' = pos /\ OpenTokens' = {}
        BY <3>1, <3>2, FoundCloses
      <4> QED
        BY <1>1, <2>2, <2>3, <3>2, <4>1 DEF Over
    <3>3. CASE ~(pos = len /\ len < L /\ OpenTokens = {})
      <4>1. pos = len /\ len < L => Chars[pos + 1] \in PrimitiveEnds \cup {"nul"}
        BY <2>5, <3>3 DEF PrimitivesWhole
      <4>2. Turn(Chars, L, Now) = Now'
        BY <1>1, <1>5, <3>1, <4>1, PrimitiveTurns
      <4> QED
        BY <1>4, <1>5, <2>1, <2>2, <2>3, <2>5, <4>2
    <3> QED
      BY <3>2, <3>3
  <2>6. CASE mode \in {"string", "unicode"}
    <3>1. StringEnd \/ StringEscape \/ StringChar \/ Unicode
      BY <2>6 DEF Parse, ParseOpen, ParseClose, ParseColon, ParseComma, ParseBlank, ParseQuote,
                  ParseOther, ParseEnd, InLoop, Primitive
    <3>2. CASE pos = len /\ len < L
      <4>1. AtEnd
        BY <1>1, <3>2, DoneFacts
      <4>2. mode' = "string" /\ pos' = pos
        BY <3>1, <4>1 DEF StringEnd, StringEscape, StringChar, Unicode, GiveUp, Return, Goto, parser
      <4> QED
        BY <2>2, <2>3, <3>2, <4>2
    <3>3. CASE mode = "string" /\ pos + 1 = len /\ Chars[pos + 1] = "\\" /\ len < L
      <4>1. ~AtEnd \/ mode' = "idle"
        BY <3>1, <3>3 DEF StringEnd, StringEscape, StringChar, Unicode, GiveUp, Return
      <4>2. Char # "\""
        BY <3>3 DEF Char
      <4>3. StringChar
        BY <1>1, <3>1, <3>3, <4>1, <4>2 DEF StringEnd, StringEscape, Unicode, Char
      <4>4. mode' = "string" /\ pos' = len
        BY <3>3, <4>3 DEF StringChar
      <4> QED
        BY <2>2, <2>3, <3>3, <4>4
    <3>4. CASE /\ ~(pos = len /\ len < L)
               /\ ~(mode = "string" /\ pos + 1 = len /\ Chars[pos + 1] = "\\" /\ len < L)
      <4>1. pos < len \/ len = L
        BY <1>1, <1>5, <3>4
      <4>2. mode = "string" /\ pos + 1 = len /\ Chars[pos + 1] = "\\" => len = L
        BY <1>1, <1>5, <3>4
      <4>3. Turn(Chars, L, Now) = Now'
        BY <1>1, <1>5, <3>1, <4>1, <4>2, StringTurns
      <4> QED
        BY <1>4, <1>5, <2>1, <2>2, <2>3, <2>6, <3>4, <4>3
    <3> QED
      BY <3>2, <3>3, <3>4
  <2> QED
    BY <1>2, <2>4, <2>5, <2>6
<1>6. Pieces'
  BY <1>1, <1>5 DEF Pieces
<1> QED
  BY <1>6 DEF CountSuffices

\* At first nothing was counted.
LEMMA CountInit == Init => CountInv
<1> SUFFICES ASSUME Init PROVE CountInv
  OBVIOUS
<1> QED
  BY DEF Init, CountInv, Counting, CountKept, Pieces, CountSuffices, NotYet, NoArray

\* The way to the count is kept by every step.
LEMMA CountNext == JInv /\ CountInv /\ PrimitivesWhole /\ [Next]_vars => CountInv'
<1> SUFFICES ASSUME JInv, CountInv, PrimitivesWhole, [Next]_vars PROVE CountInv'
  OBVIOUS
<1>1. CASE Caller
  BY <1>1, CountCaller
<1>2. CASE Parse
  <2>1. num_tokens' = num_tokens /\ counted' = counted /\ Chars' = Chars
    <3>1. UNCHANGED <<args, counted>>
      BY <1>2, Returns, GoesOn
    <3> QED
      BY <3>1 DEF args, Chars
  <2>2. CountKept'
    BY <2>1 DEF CountInv, CountKept, Led, Zero
  <2>3. CASE num_tokens = NoArray
    <3>1. Counting'
      BY <1>2, <2>3, CountWhole
    <3> QED
      BY <2>1, <2>2, <2>3, <3>1 DEF CountInv, Pieces, CountSuffices, NoArray
  <2>4. CASE num_tokens # NoArray
    <3>1. Counting'
      BY <2>1, <2>4 DEF Counting, NoArray
    <3>2. Pieces' /\ CountSuffices'
      BY <1>2, <2>4, CountReturns, CountGoesOn
    <3> QED
      BY <2>2, <3>1, <3>2 DEF CountInv
  <2> QED
    BY <2>3, <2>4
<1>3. CASE UNCHANGED vars
  BY <1>3 DEF vars, args, parser, locals, CountInv, Counting, CountKept, Pieces, CountSuffices,
              Led, Now, Zero, Chars, At, Over, OpenTokens
<1> QED
  BY <1>1, <1>2, <1>3 DEF Next

\* What a call without an array counts is enough for the calls with one, in as many
\* pieces as the caller likes that do not split a primitive within brackets, and if
\* they get to the end they find as many tokens.
THEOREM CountSufficesCorrect == Spec /\ []PrimitivesWhole => []CountSuffices
<1>1. Init => CountInv
  BY CountInit
<1>2. JInv /\ CountInv /\ PrimitivesWhole /\ [Next]_vars => CountInv'
  BY CountNext
<1>3. CountInv => CountSuffices
  BY DEF CountInv
<1> QED
  BY <1>1, <1>2, <1>3, JCorrect, PTL DEF Spec

----------------------------------------------------------------------------
(* jsmn_split_string: trimming takes no delimiter away, and each word      *)
(* takes one with it.                                                      *)

\* The delimiter is one character, and none that is trimmed.
SingleDelimiter ==
    \A text \in Inputs : text.delim # <<>> => \E d : text.delim = <<d>> /\ d # " "

----------------------------------------------------------------------------
(* Least and greatest numbers.                                             *)

\* Positions have a first one,
LEMMA LeastOf ==
    ASSUME NEW S \in SUBSET Nat, S # {}
    PROVE  /\ Min(S) \in S
           /\ \A x \in S : Min(S) <= x
<1> DEFINE Less == {ss \in Nat \X Nat : ss[1] < ss[2]}
<1>1. IsWellFoundedOn(Less, Nat)
  BY NatLessThanWellFounded DEF OpToRel
<1>2. \A x, y \in Nat : x < y => <<x, y>> \in Less
  OBVIOUS
<1> HIDE DEF Less
<1>3. PICK m \in S : \A x \in S : ~(<<x, m>> \in Less)
  BY <1>1, WFMin
<1>4. ASSUME NEW x \in S PROVE m <= x
  <2>1. m \in Nat /\ x \in Nat
    OBVIOUS
  <2>2. ~(x < m)
    BY <1>2, <1>3, <2>1
  <2> QED
    BY <2>1, <2>2
<1>5. \E m0 \in S : \A x \in S : m0 <= x
  BY <1>4
<1> QED
  BY <1>5 DEF Min

\* and if they are bounded a last one.
LEMMA GreatestOf ==
    ASSUME NEW n \in Nat, NEW S \in SUBSET (1..n), S # {}
    PROVE  /\ Max(S) \in S
           /\ \A x \in S : x <= Max(S)
<1> DEFINE T == {n - x : x \in S}
<1>1. T \in SUBSET Nat /\ T # {}
  <2>1. \A x \in S : n - x \in Nat
    OBVIOUS
  <2> QED
    BY <2>1
<1>2. Min(T) \in T /\ \A y \in T : Min(T) <= y
  BY <1>1, LeastOf
<1>3. PICK m \in S : Min(T) = n - m
  BY <1>2
<1>4. ASSUME NEW x \in S PROVE x <= m
  <2>1. Min(T) <= n - x
    BY <1>2
  <2> HIDE DEF T
  <2>2. x \in Int /\ m \in Int
    OBVIOUS
  <2> QED
    BY <1>3, <2>1, <2>2
<1>5. \E m0 \in S : \A x \in S : m0 >= x
  BY <1>4
<1> QED
  BY <1>5 DEF Max

\* Positions that are counted from another place are as many.
LEMMA Shifted ==
    ASSUME NEW S \in SUBSET Int, IsFiniteSet(S), NEW c \in Int, NEW T \in SUBSET Int,
           \A k \in Int : k \in T <=> k + c \in S
    PROVE  IsFiniteSet(T) /\ Cardinality(T) = Cardinality(S)
<1> DEFINE f == [k \in S |-> k - c]
<1>1. f \in [S -> T]
  <2>1. ASSUME NEW k \in S PROVE k - c \in T
    <3>1. (k - c) + c = k /\ k - c \in Int
      OBVIOUS
    <3> QED
      BY <3>1
  <2> QED
    BY <2>1
<1>2. \A k, l \in S : f[k] = f[l] => k = l
  OBVIOUS
<1>3. \A t \in T : \E k \in S : f[k] = t
  <2>1. ASSUME NEW t \in T PROVE t + c \in S /\ (t + c) - c = t
    OBVIOUS
  <2> QED
    BY <2>1
<1>4. f \in Bijection(S, T)
  BY <1>1, <1>2, <1>3 DEF Bijection, Injection, Surjection, IsInjective
<1>5. ExistsBijection(S, T)
  BY <1>4 DEF ExistsBijection
<1> QED
  BY <1>5, FS_Bijection


----------------------------------------------------------------------------
(* Parts of a text.                                                         *)

Texts == Seq(STRING)

\* The characters of a part.
LEMMA PartFacts ==
    ASSUME NEW s \in Texts, NEW a \in Int, NEW b \in Int, 1 <= a, b <= Len(s)
    PROVE  /\ SubSeq(s, a, b) \in Texts
           /\ Len(SubSeq(s, a, b)) = IF a <= b THEN b - a + 1 ELSE 0
           /\ \A k \in 1..(b - a + 1) : SubSeq(s, a, b)[k] = s[a + k - 1]
           /\ b < a => SubSeq(s, a, b) = <<>>
<1>1. \A k \in a..b : s[k] \in STRING
  BY ElementOfSeq, LenProperties DEF Texts
<1>2. /\ SubSeq(s, a, b) \in Seq(STRING)
      /\ Len(SubSeq(s, a, b)) = IF a <= b THEN b - a + 1 ELSE 0
      /\ \A k \in 1..(b - a + 1) : SubSeq(s, a, b)[k] = s[a + k - 1]
  BY <1>1, SubSeqProperties
<1>3. b < a => SubSeq(s, a, b) = <<>>
  BY SubSeqEmpty
<1> QED
  BY <1>2, <1>3 DEF Texts

\* What Places(s) is for a delimiter of one character.
PlacesOf(s, d) == {k \in 1..Len(s) : s[k] = d}

\* They are positions, and finitely many.
LEMMA PlacesFacts ==
    ASSUME NEW s \in Texts, NEW d, input.delim = <<d>>
    PROVE  /\ Places(s) = PlacesOf(s, d)
           /\ Places(s) \in SUBSET (1..Len(s))
           /\ IsFiniteSet(Places(s)) /\ Cardinality(Places(s)) \in Nat
<1>1. Len(s) \in Nat /\ DOMAIN s = 1..Len(s) /\ Len(<<d>>) = 1
  BY LenProperties DEF Texts
<1>2. ASSUME NEW k \in 1..Len(s)
      PROVE  SubSeq(s, k, k + Len(input.delim) - 1) = <<d>> <=> s[k] = d
  <2>1. k + Len(input.delim) - 1 = k
    BY <1>1
  <2> DEFINE w == SubSeq(s, k, k)
  <2>2. w \in Texts /\ Len(w) = 1 /\ w[1] = s[k]
    <3>1. /\ w \in Texts
          /\ Len(w) = IF k <= k THEN k - k + 1 ELSE 0
          /\ \A l \in 1..(k - k + 1) : w[l] = s[k + l - 1]
      BY <1>1, PartFacts
    <3>2. k - k + 1 = 1 /\ k + 1 - 1 = k /\ 1 \in 1..1
      OBVIOUS
    <3> HIDE DEF w
    <3> QED
      BY <3>1, <3>2
  <2> HIDE DEF w
  <2>3. w = <<w[1]>>
    <3>1. w \in Seq(STRING)
      BY <2>2 DEF Texts
    <3> QED
      BY <2>2, <3>1
  <2>4. w = <<d>> <=> w[1] = d
    BY <2>3
  <2> QED
    BY <2>1, <2>2, <2>4 DEF w
<1>3. Places(s) = PlacesOf(s, d)
  <2>1. Len(s) + 1 - Len(input.delim) = Len(s)
    BY <1>1
  <2> QED
    BY <1>1, <1>2, <2>1 DEF Places, PlacesOf
<1>4. Places(s) \in SUBSET (1..Len(s))
  BY <1>3 DEF PlacesOf
<1>5. IsFiniteSet(Places(s)) /\ Cardinality(Places(s)) \in Nat
  <2>1. IsFiniteSet(1..Len(s))
    BY <1>1, FS_Interval
  <2>2. IsFiniteSet(Places(s))
    BY <1>4, <2>1, FS_Subset
  <2> QED
    BY <2>2, FS_CardinalityType
<1> QED
  BY <1>3, <1>4, <1>5

\* The places in a part that all of them from another place on are in.
LEMMA PlacesOfPart ==
    ASSUME NEW s \in Texts, NEW d, input.delim = <<d>>,
           NEW a \in Int, NEW b \in Int, 1 <= a, b <= Len(s), a <= b + 1
    PROVE  /\ \A k \in Int : k \in Places(SubSeq(s, a, b)) <=>
                  k + (a - 1) \in Places(s) \cap (a..b)
           /\ Cardinality(Places(SubSeq(s, a, b))) = Cardinality(Places(s) \cap (a..b))
<1> DEFINE w == SubSeq(s, a, b)
           S == Places(s) \cap (a..b)
<1>1. /\ w \in Texts /\ Len(w) = b - a + 1 /\ Len(s) \in Nat
      /\ \A k \in 1..(b - a + 1) : w[k] = s[a + k - 1]
  <2>1. /\ w \in Texts /\ Len(w) = IF a <= b THEN b - a + 1 ELSE 0
        /\ \A k \in 1..(b - a + 1) : w[k] = s[a + k - 1]
    BY PartFacts
  <2>2. Len(s) \in Nat
    BY LenProperties DEF Texts
  <2> HIDE DEF w
  <2> QED
    BY <2>1, <2>2
<1> HIDE DEF w
<1>2. Places(w) = PlacesOf(w, d) /\ Places(s) = PlacesOf(s, d)
      /\ Places(w) \in SUBSET (1..Len(w)) /\ Places(s) \in SUBSET (1..Len(s))
      /\ IsFiniteSet(Places(s))
  BY <1>1, PlacesFacts
<1>3. ASSUME NEW k \in Int PROVE k \in Places(w) <=> k + (a - 1) \in S
  <2>1. CASE k \in 1..(b - a + 1)
    <3>1. w[k] = s[k + (a - 1)]
      <4>1. a + k - 1 = k + (a - 1)
        OBVIOUS
      <4> QED
        BY <1>1, <2>1, <4>1
    <3>2. k + (a - 1) \in a..b /\ k + (a - 1) \in 1..Len(s)
      BY <1>1, <2>1
    <3> QED
      BY <1>1, <1>2, <2>1, <3>1, <3>2 DEF PlacesOf
  <2>2. CASE k \notin 1..(b - a + 1)
    <3>1. k + (a - 1) \notin a..b
      BY <2>2
    <3> QED
      BY <1>1, <1>2, <2>2, <3>1
  <2> QED
    BY <2>1, <2>2
<1>4. IsFiniteSet(S) /\ S \in SUBSET Int /\ Places(w) \in SUBSET Int /\ a - 1 \in Int
  <2>1. S \in SUBSET Places(s)
    OBVIOUS
  <2> QED
    BY <1>2, <2>1, FS_Subset
<1> HIDE DEF S
<1>5. Cardinality(Places(w)) = Cardinality(S)
  BY <1>3, <1>4, Shifted
<1> QED
  BY <1>3, <1>5 DEF S, w


----------------------------------------------------------------------------
(* Trimming.                                                                *)

\* What is left has no blank at its ends.
Trimmed(s) ==
    input.trim_spaces /\ s # <<>> => s[1] # " " /\ s[Len(s)] # " "

\* From the right,
LEMMA TrimRightFacts ==
    ASSUME NEW s \in Texts
    PROVE  \E b \in 0..Len(s) :
              /\ TrimRight(s) = SubSeq(s, 1, b)
              /\ b # 0 => s[b] # " "
              /\ \A k \in (b + 1)..Len(s) : s[k] = " "
<1> DEFINE n == Len(s)
           NonBlank == {k \in 1..n : s[k] # " "}
<1>1. n \in Nat
  BY LenProperties DEF Texts
<1>0. PICK last : last = IF NonBlank # {} THEN Max(NonBlank) ELSE 0
  OBVIOUS
<1>2. TrimRight(s) = SubSeq(s, 1, last)
  BY <1>0 DEF TrimRight, SelectLastInSeq, NotBlank
<1>3. CASE NonBlank = {}
  <2>1. last = 0
    BY <1>0, <1>3
  <2>2. \A k \in 1..n : s[k] = " "
    BY <1>3
  <2>3. 0 \in 0..n /\ (0 + 1)..n = 1..n
    BY <1>1
  <2>4. TrimRight(s) = SubSeq(s, 1, 0)
    BY <1>2, <2>1
  <2>5. \A k \in (0 + 1)..n : s[k] = " "
    BY <2>2, <2>3
  <2> USE <2>3
  <2> WITNESS 0 \in 0..n
  <2> QED
    BY <2>4, <2>5
<1>4. CASE NonBlank # {}
  <2>1. last \in NonBlank /\ \A k \in NonBlank : k <= last
    <3>1. NonBlank \in SUBSET (1..n)
      OBVIOUS
    <3> HIDE DEF NonBlank
    <3> QED
      BY <1>0, <1>1, <1>4, <3>1, GreatestOf
  <2>2. last \in 1..n
    BY <2>1
  <2>5. s[last] # " "
    BY <2>1
  <2>3. ASSUME NEW k \in (last + 1)..n PROVE s[k] = " "
    <3>1. k \in 1..n /\ ~(k <= last)
      BY <1>1, <2>2
    <3> QED
      BY <2>1, <3>1
  <2>4. last \in 0..n
    BY <1>1, <2>2
  <2> QED
    BY <1>2, <2>2, <2>3, <2>4, <2>5
<1> QED
  BY <1>3, <1>4

\* and from the left.
LEMMA TrimLeftFacts ==
    ASSUME NEW s \in Texts
    PROVE  \E a \in 1..(Len(s) + 1) :
              /\ TrimLeft(s) = SubSeq(s, a, Len(s))
              /\ a # Len(s) + 1 => s[a] # " "
              /\ \A k \in 1..(a - 1) : s[k] = " "
<1> DEFINE n == Len(s)
           NonBlank == {k \in 1..n : s[k] # " "}
<1>1. n \in Nat
  BY LenProperties DEF Texts
<1>0. PICK first : first = IF NonBlank # {} THEN Min(NonBlank) ELSE 0
  OBVIOUS
<1>2. TrimLeft(s) = IF first = 0 THEN <<>> ELSE SubSeq(s, first, n)
  BY <1>0 DEF TrimLeft, SelectInSeq, NotBlank
<1>3. CASE NonBlank = {}
  <2>1. TrimLeft(s) = <<>>
    BY <1>0, <1>2, <1>3
  <2>2. \A k \in 1..n : s[k] = " "
    BY <1>3
  <2>3. n + 1 \in 1..(n + 1) /\ (n + 1) - 1 = n /\ n < n + 1 /\ n + 1 \in Int /\ n \in Int
    BY <1>1
  <2>4. SubSeq(s, n + 1, n) = <<>>
    BY <2>3, SubSeqEmpty
  <2>5. \A k \in 1..((n + 1) - 1) : s[k] = " "
    BY <2>2, <2>3
  <2> USE <2>3
  <2> WITNESS n + 1 \in 1..(n + 1)
  <2> QED
    BY <2>1, <2>4, <2>5
<1>4. CASE NonBlank # {}
  <2>1. first \in NonBlank /\ \A k \in NonBlank : first <= k
    <3>1. NonBlank \in SUBSET Nat
      <4>1. 1..n \in SUBSET Nat
        BY <1>1
      <4> QED
        BY <4>1
    <3> HIDE DEF NonBlank
    <3> QED
      BY <1>0, <1>4, <3>1, LeastOf
  <2>2. first \in 1..n
    BY <2>1
  <2>5. s[first] # " "
    BY <2>1
  <2>3. ASSUME NEW k \in 1..(first - 1) PROVE s[k] = " "
    <3>1. k \in 1..n /\ ~(first <= k)
      BY <1>1, <2>2
    <3> QED
      BY <2>1, <3>1
  <2>4. first \in 1..(n + 1) /\ first # 0
    BY <1>1, <2>2
  <2> QED
    BY <1>2, <2>2, <2>3, <2>4, <2>5
<1> QED
  BY <1>3, <1>4

\* A part of a part is one.
LEMMA PartOfPart ==
    ASSUME NEW s \in Texts, NEW b \in 0..Len(s), NEW a \in 1..(b + 1)
    PROVE  SubSeq(SubSeq(s, 1, b), a, b) = SubSeq(s, a, b)
<1> DEFINE u == SubSeq(s, 1, b)
           v == SubSeq(u, a, b)
           w == SubSeq(s, a, b)
<1>1. Len(s) \in Nat
  BY LenProperties DEF Texts
<1>2. u \in Texts /\ Len(u) = b /\ \A k \in 1..b : u[k] = s[k]
  <2>1. /\ u \in Texts /\ Len(u) = IF 1 <= b THEN b - 1 + 1 ELSE 0
        /\ \A k \in 1..(b - 1 + 1) : u[k] = s[1 + k - 1]
    BY <1>1, PartFacts
  <2>2. b - 1 + 1 = b /\ \A k \in Int : 1 + k - 1 = k
    BY <1>1
  <2> HIDE DEF u
  <2> QED
    BY <1>1, <2>1, <2>2
<1>3. /\ w \in Texts /\ Len(w) = IF a <= b THEN b - a + 1 ELSE 0
      /\ \A k \in 1..(b - a + 1) : w[k] = s[a + k - 1]
  BY <1>1, PartFacts
<1> HIDE DEF u, w
<1>4. /\ v \in Texts /\ Len(v) = IF a <= b THEN b - a + 1 ELSE 0
      /\ \A k \in 1..(b - a + 1) : v[k] = u[a + k - 1]
  BY <1>1, <1>2, PartFacts
<1> HIDE DEF v
<1>5. ASSUME NEW k \in 1..(b - a + 1) PROVE v[k] = w[k]
  <2>1. a + k - 1 \in 1..b
    BY <1>1
  <2> QED
    BY <1>2, <1>3, <1>4, <2>1
<1>6. Len(v) = Len(w) /\ 1..Len(v) = 1..(b - a + 1)
  BY <1>1, <1>3, <1>4
<1>7. v = w
  BY <1>3, <1>4, <1>5, <1>6, SeqEqual DEF Texts
<1> QED
  BY <1>7 DEF u, v, w

\* Trim takes a part, and only blanks away.
LEMMA TrimFacts ==
    ASSUME NEW s \in Texts
    PROVE  /\ \E a, b \in Int :
                 /\ 1 <= a /\ b <= Len(s) /\ a <= b + 1
                 /\ Trim(s) = SubSeq(s, a, b)
                 /\ \A k \in 1..Len(s) : k \notin a..b => s[k] = " "
           /\ Trim(s) \in Texts
           /\ Trimmed(Trim(s))
           /\ Trimmed(s) => Trim(s) = s
<1> DEFINE n == Len(s)
<1>1. n \in Nat /\ s \in Seq(STRING)
  BY LenProperties DEF Texts
<1>2. SubSeq(s, 1, n) = s
  BY <1>1, SubSeqFull
<1>3. CASE ~input.trim_spaces
  <2>1. Trim(s) = s
    BY <1>3 DEF Trim
  <2>2. 1 \in Int /\ n \in Int /\ 1 <= 1 /\ n <= n /\ 1 <= n + 1
    BY <1>1
  <2> QED
    BY <1>2, <1>3, <2>1, <2>2 DEF Trimmed
<1>4. CASE input.trim_spaces
  <2>1. PICK b \in 0..n : /\ TrimRight(s) = SubSeq(s, 1, b)
                          /\ b # 0 => s[b] # " "
                          /\ \A k \in (b + 1)..n : s[k] = " "
    BY TrimRightFacts
  <2> DEFINE u == SubSeq(s, 1, b)
  <2>2. u \in Texts /\ Len(u) = b /\ \A k \in 1..b : u[k] = s[k]
    <3>1. /\ u \in Texts /\ Len(u) = IF 1 <= b THEN b - 1 + 1 ELSE 0
          /\ \A k \in 1..(b - 1 + 1) : u[k] = s[1 + k - 1]
      BY <1>1, PartFacts
    <3>2. b - 1 + 1 = b /\ \A k \in Int : 1 + k - 1 = k
      BY <1>1
    <3> HIDE DEF u
    <3> QED
      BY <1>1, <3>1, <3>2
  <2>3. PICK a \in 1..(b + 1) : /\ TrimLeft(u) = SubSeq(u, a, b)
                                /\ a # b + 1 => u[a] # " "
                                /\ \A k \in 1..(a - 1) : u[k] = " "
    BY <2>2, TrimLeftFacts
  <2> DEFINE w == SubSeq(s, a, b)
  <2>4. Trim(s) = w
    BY <1>4, <2>1, <2>3, PartOfPart DEF Trim
  <2>5. a \in Int /\ b \in Int /\ 1 <= a /\ b <= n /\ a <= b + 1
    BY <1>1
  <2>6. ASSUME NEW k \in 1..n, k \notin a..b PROVE s[k] = " "
    <3>1. k \in (b + 1)..n \/ (k \in 1..(a - 1) /\ k \in 1..b)
      BY <1>1, <2>5, <2>6
    <3> QED
      BY <2>1, <2>2, <2>3, <3>1
  <2>7. /\ w \in Texts /\ Len(w) = IF a <= b THEN b - a + 1 ELSE 0
        /\ \A k \in 1..(b - a + 1) : w[k] = s[a + k - 1]
        /\ b < a => w = <<>>
    BY <2>5, PartFacts
  <2> HIDE DEF w
  <2>8. Trimmed(w)
    <3>1. SUFFICES ASSUME w # <<>> PROVE w[1] # " " /\ w[Len(w)] # " "
      BY DEF Trimmed
    <3>2. a <= b /\ Len(w) = b - a + 1 /\ 1 \in 1..(b - a + 1) /\ Len(w) \in 1..(b - a + 1)
          /\ a + 1 - 1 = a /\ a + (b - a + 1) - 1 = b /\ a # b + 1 /\ a \in 1..b /\ b # 0
      BY <2>5, <2>7, <3>1
    <3>3. w[1] = s[a] /\ w[Len(w)] = s[b]
      BY <2>7, <3>2
    <3> QED
      BY <2>1, <2>2, <2>3, <3>2, <3>3
  <2>9. ASSUME Trimmed(s) PROVE w = s
    <3>1. CASE s = <<>>
      <4>1. n = 0
        BY <3>1
      <4>2. b < a
        BY <2>5, <4>1
      <4> QED
        BY <2>7, <3>1, <4>2
    <3>2. CASE s # <<>>
      <4>1. n # 0
        BY <1>1, <3>2, EmptySeq
      <4>2. s[1] # " " /\ s[n] # " "
        BY <1>4, <2>9, <3>2 DEF Trimmed
      <4>3. 1 \in 1..n /\ n \in 1..n
        BY <1>1, <4>1
      <4>4. 1 \in a..b /\ n \in a..b
        BY <2>6, <4>2, <4>3
      <4>5. a = 1 /\ b = n
        BY <1>1, <2>5, <4>4
      <4> QED
        BY <1>2, <4>5 DEF w
    <3> QED
      BY <3>1, <3>2
  <2>10. \E aa, bb \in Int :
            /\ 1 <= aa /\ bb <= n /\ aa <= bb + 1
            /\ Trim(s) = SubSeq(s, aa, bb)
            /\ \A k \in 1..n : k \notin aa..bb => s[k] = " "
    BY <2>4, <2>5, <2>6 DEF w
  <2> QED
    BY <2>4, <2>7, <2>8, <2>9, <2>10
<1> QED
  BY <1>3, <1>4


\* So it takes no delimiter away.
LEMMA TrimPlaces ==
    ASSUME NEW s \in Texts, NEW d, input.delim = <<d>>, d # " "
    PROVE  Cardinality(Places(Trim(s))) = Cardinality(Places(s))
<1>1. PICK a, b \in Int :
          /\ 1 <= a /\ b <= Len(s) /\ a <= b + 1
          /\ Trim(s) = SubSeq(s, a, b)
          /\ \A k \in 1..Len(s) : k \notin a..b => s[k] = " "
  BY TrimFacts
<1>2. Places(s) = PlacesOf(s, d) /\ Places(s) \in SUBSET (1..Len(s))
  BY PlacesFacts
<1>3. ASSUME NEW k \in Places(s) PROVE k \in a..b
  <2>1. k \in 1..Len(s) /\ s[k] # " "
    BY <1>2 DEF PlacesOf
  <2> QED
    BY <1>1, <2>1
<1>4. Places(s) \cap (a..b) = Places(s)
  BY <1>3
<1>5. Cardinality(Places(SubSeq(s, a, b))) = Cardinality(Places(s) \cap (a..b))
  BY <1>1, PlacesOfPart
<1>6. Trim(s) = SubSeq(s, a, b)
  BY <1>1
<1> HIDE <1>1
<1> QED
  BY <1>4, <1>5, <1>6, Zenon

\* A word has no delimiter in it, and behind it there is one less.
LEMMA WordPlaces ==
    ASSUME NEW s \in Texts, NEW d, input.delim = <<d>>, Places(s) # {}
    PROVE  /\ SubSeq(s, 1, Find(s) - 1) \in Texts
           /\ Places(SubSeq(s, 1, Find(s) - 1)) = {}
           /\ Behind(s) \in Texts
           /\ Cardinality(Places(s)) \in Nat
           /\ Cardinality(Places(Behind(s))) = Cardinality(Places(s)) - 1
<1> DEFINE n == Len(s)
<1>1. n \in Nat /\ Len(<<d>>) = 1
  BY LenProperties DEF Texts
<1>2. /\ Places(s) \in SUBSET (1..n) /\ IsFiniteSet(Places(s))
      /\ Cardinality(Places(s)) \in Nat
  BY PlacesFacts
<1>3. Find(s) \in Places(s) /\ \A k \in Places(s) : Find(s) <= k
  <2>1. Places(s) \in SUBSET Nat
    <3>1. 1..n \in SUBSET Nat
      BY <1>1
    <3> QED
      BY <1>2, <3>1
  <2>2. \E f \in Places(s) : \A k \in Places(s) : f <= k
    BY <2>1, LeastOf
  <2> QED
    BY <2>2 DEF Find
<1>4. PICK f : f = Find(s)
  OBVIOUS
<1>5. f \in 1..n /\ f \in Places(s)
  BY <1>2, <1>3, <1>4
<1>6. /\ 1 \in Int /\ f - 1 \in Int /\ 1 <= 1 /\ f - 1 <= n /\ 1 <= (f - 1) + 1
      /\ f + 1 \in Int /\ n \in Int /\ 1 <= f + 1 /\ n <= n /\ f + 1 <= n + 1
  BY <1>1, <1>5
<1>7. Behind(s) = SubSeq(s, f + 1, n)
  BY <1>1, <1>4 DEF Behind
<1>8. SubSeq(s, 1, f - 1) \in Texts /\ SubSeq(s, f + 1, n) \in Texts
  BY <1>6, PartFacts
<1>9. Places(SubSeq(s, 1, f - 1)) = {}
  <2> DEFINE w == SubSeq(s, 1, f - 1)
  <2>1. \A k \in Int : k \in Places(w) <=> k + (1 - 1) \in Places(s) \cap (1..(f - 1))
    BY <1>6, PlacesOfPart
  <2>2. Places(w) \in SUBSET (1..Len(w)) /\ Len(w) \in Nat
    BY <1>8, PlacesFacts, LenProperties DEF Texts
  <2> HIDE DEF w
  <2>3. ASSUME NEW k \in Places(w) PROVE FALSE
    <3>1. k \in Int
      BY <2>2
    <3>2. k + (1 - 1) = k
      BY <3>1
    <3>3. k \in Places(s) /\ k \in 1..(f - 1)
      BY <2>1, <3>1, <3>2
    <3>4. f <= k
      BY <1>3, <1>4, <3>3
    <3> QED
      BY <1>5, <3>3, <3>4
  <2> QED
    BY <2>3 DEF w
<1>10. Places(s) \cap ((f + 1)..n) = Places(s) \ {f}
  <2>1. ASSUME NEW k \in Places(s), k # f PROVE k \in (f + 1)..n
    <3>1. k \in 1..n /\ f <= k
      BY <1>2, <1>3, <1>4
    <3> QED
      BY <1>1, <1>5, <2>1, <3>1
  <2>2. f \notin (f + 1)..n
    BY <1>5
  <2> QED
    BY <2>1, <2>2
<1>11. Cardinality(Places(s) \ {f}) = Cardinality(Places(s)) - 1
  BY <1>2, <1>5, FS_RemoveElement
<1>12. Cardinality(Places(SubSeq(s, f + 1, n))) = Cardinality(Places(s)) - 1
  BY <1>6, <1>10, <1>11, PlacesOfPart
<1> QED
  BY <1>2, <1>4, <1>7, <1>8, <1>9, <1>12

\* What is trimmed off a word leaves it without a delimiter.
LEMMA TrimEmpty ==
    ASSUME NEW s \in Texts, NEW d, input.delim = <<d>>, d # " ", Places(s) = {}
    PROVE  Places(Trim(s)) = {}
<1>1. Cardinality(Places(Trim(s))) = 0
  <2>1. Cardinality(Places(Trim(s))) = Cardinality(Places(s))
    BY TrimPlaces
  <2>2. Cardinality({}) = 0
    BY FS_EmptySet
  <2> QED
    BY <2>1, <2>2, Zenon
<1>2. IsFiniteSet(Places(Trim(s)))
  BY TrimFacts, PlacesFacts
<1> QED
  BY <1>1, <1>2, FS_EmptySet


----------------------------------------------------------------------------
(* The words.                                                               *)

\* Places and Trim for whatever delimiter and whatever way to trim.
PlacesBy(s, delim) == {k \in 1..(Len(s) + 1 - Len(delim)) :
                          SubSeq(s, k, k + Len(delim) - 1) = delim}
TrimBy(s, trim)    == IF trim THEN TrimLeft(TrimRight(s)) ELSE s

\* What was found has no delimiter, and is trimmed.
ItemsWhole ==
    \A k \in DOMAIN items : /\ PlacesBy(items[k], input.delim) = {}
                            /\ TrimBy(items[k], input.trim_spaces) = items[k]

\* While there is a rest, each delimiter of the text is in it or was before an item.
Remaining ==
    /\ rest \in Texts /\ Trimmed(rest)
    /\ TrimBy(Chars, input.trim_spaces) # <<>>
    /\ Len(items) + Cardinality(PlacesBy(rest, input.delim))
          = Cardinality(PlacesBy(Chars, input.delim))

\* And when there is none, it is as ItemPerDelimiter says.
AllItems ==
    Len(items) = IF TrimBy(Chars, input.trim_spaces) = <<>> THEN 0
                 ELSE Cardinality(PlacesBy(Chars, input.delim)) + 1

SplitInv ==
    /\ input \in Inputs
    /\ items \in Seq(Texts)
    /\ ItemsWhole
    /\ util = "none" => items = <<>>
    /\ util \in {"split", "split_done"} => input.delim # <<>>
    /\ util = "split" => Remaining
    /\ util = "split_done" => AllItems

\* The names for the delimiter and the way to trim of the input.
LEMMA ByFacts == \A s : /\ Places(s) = PlacesBy(s, input.delim)
                        /\ Trim(s) = TrimBy(s, input.trim_spaces)
  BY DEF Places, Trim, PlacesBy, TrimBy

\* The text is one.
LEMMA CharsText == ASSUME input \in Inputs PROVE Chars \in Texts
  BY InputsAssumption DEF Chars, Texts

\* It begins without items.
LEMMA SplitInit == UtilInit => SplitInv
<1> SUFFICES ASSUME UtilInit PROVE SplitInv
  OBVIOUS
<1>1. /\ input \in Inputs /\ util = "none" /\ items = <<>> /\ <<>> \in Seq(Texts)
      /\ DOMAIN <<>> = {}
  BY EmptySeq DEF UtilInit, Init
<1> QED
  BY <1>1 DEF SplitInv, ItemsWhole

\* No other function changes the text or the items.
LEMMA SplitAside ==
    ASSUME SplitInv, \/ Next /\ util = "none" /\ UNCHANGED utilVars
                     \/ ToMap \/ Entry \/ ToMapEnd
                     \/ UNCHANGED <<vars, utilVars>>
    PROVE  SplitInv'
<1>1. input' = input
  BY DEF Next, Caller, Parse, CallCount, Counted, CallParse, ParseOpen, ParseClose, ParseColon,
         ParseComma, ParseBlank, ParseQuote, ParseOther, ParseEnd, Primitive, StringEnd,
         StringEscape, StringChar, Unicode, args, vars, ToMap, Entry, ToMapEnd
<1>2. UNCHANGED splitVars /\ (util' = util \/ util' \in {"map", "map_done"})
  BY DEF utilVars, ToMap, Entry, ToMapEnd
<1> QED
  BY <1>1, <1>2 DEF splitVars, SplitInv, ItemsWhole, Remaining, AllItems, Trimmed, Chars

\* jsmn_split_string begins.
LEMMA SplitBegins == ASSUME SingleDelimiter, SplitInv, Split PROVE SplitInv'
<1>1. /\ input' = input /\ items' = items /\ items = <<>> /\ input.delim # <<>>
      /\ rest' = Trim(Chars) /\ Chars' = Chars
      /\ util' = IF rest' = <<>> THEN "split_done" ELSE "split"
  BY DEF Split, SplitInv, vars, args, Chars
<1>2. PICK d : input.delim = <<d>> /\ d # " "
  BY <1>1 DEF SingleDelimiter, SplitInv
<1>3. Chars \in Texts
  BY CharsText DEF SplitInv
<1>4. /\ Trim(Chars) \in Texts /\ Trimmed(Trim(Chars))
      /\ Cardinality(Places(Trim(Chars))) = Cardinality(Places(Chars))
      /\ Cardinality(Places(Chars)) \in Nat
  BY <1>2, <1>3, TrimFacts, TrimPlaces, PlacesFacts
<1>5. /\ PlacesBy(rest', input.delim) = Places(Trim(Chars))
      /\ PlacesBy(Chars, input.delim) = Places(Chars)
      /\ TrimBy(Chars, input.trim_spaces) = Trim(Chars)
  BY <1>1, ByFacts
<1>6. Len(items') = 0
  BY <1>1
<1>7. util' = "split" => Remaining'
  <2>1. Trimmed(rest)'
    BY <1>1, <1>4 DEF Trimmed
  <2>2. 0 + Cardinality(PlacesBy(rest', input.delim)) = Cardinality(PlacesBy(Chars, input.delim))
    BY <1>4, <1>5
  <2> QED
    BY <1>1, <1>4, <1>5, <1>6, <2>1, <2>2 DEF Remaining
<1>8. util' = "split_done" => AllItems'
  BY <1>1, <1>5, <1>6 DEF AllItems
<1> QED
  BY <1>1, <1>7, <1>8 DEF SplitInv, ItemsWhole

\* An item goes behind the others.
LEMMA ItemAdded ==
    ASSUME SplitInv, input' = input, NEW w \in Texts, Places(w) = {}, Trim(w) = w,
           items' = Append(items, w)
    PROVE  items' \in Seq(Texts) /\ Len(items') = Len(items) + 1 /\ ItemsWhole'
<1>1. items \in Seq(Texts) /\ Len(items) \in Nat
  BY LenProperties DEF SplitInv
<1>2. /\ items' \in Seq(Texts) /\ Len(items') = Len(items) + 1
      /\ \A k \in 1..Len(items) : items'[k] = items[k]
      /\ items'[Len(items) + 1] = w
  BY <1>1, AppendProperties
<1>3. DOMAIN items = 1..Len(items) /\ DOMAIN items' = 1..(Len(items) + 1)
  BY <1>1, <1>2, LenProperties
<1>4. PlacesBy(w, input.delim) = {} /\ TrimBy(w, input.trim_spaces) = w
  BY ByFacts
<1>5. ASSUME NEW k \in DOMAIN items'
      PROVE  PlacesBy(items'[k], input'.delim) = {} /\ TrimBy(items'[k], input'.trim_spaces) = items'[k]
  <2>1. CASE k \in 1..Len(items)
    BY <1>2, <1>3, <2>1 DEF SplitInv, ItemsWhole
  <2>2. CASE k = Len(items) + 1
    BY <1>2, <1>4, <2>2
  <2>3. k \in 1..Len(items) \/ k = Len(items) + 1
    BY <1>1, <1>3
  <2> QED
    BY <2>1, <2>2, <2>3
<1> QED
  BY <1>2, <1>5 DEF ItemsWhole

\* A word takes its delimiter with it.
LEMMA SplitWord == ASSUME SingleDelimiter, SplitInv, Word PROVE SplitInv'
<1> DEFINE part == SubSeq(rest, 1, Find(rest) - 1)
<1>1. /\ util = "split" /\ util' = "split" /\ input' = input /\ Chars' = Chars
      /\ Places(rest) # {} /\ items' = Append(items, Trim(part)) /\ rest' = Trim(Behind(rest))
  BY DEF Word, vars, args, Chars
<1>2. Remaining /\ input \in Inputs /\ items \in Seq(Texts) /\ input.delim # <<>>
  BY <1>1 DEF SplitInv
<1>3. PICK d : input.delim = <<d>> /\ d # " "
  BY <1>2 DEF SingleDelimiter
<1>4. rest \in Texts
  BY <1>2 DEF Remaining
<1>5. /\ part \in Texts /\ Places(part) = {}
      /\ Behind(rest) \in Texts /\ Cardinality(Places(rest)) \in Nat
      /\ Cardinality(Places(Behind(rest))) = Cardinality(Places(rest)) - 1
  BY <1>1, <1>3, <1>4, WordPlaces
<1> HIDE DEF part
<1>6. Trim(part) \in Texts /\ Places(Trim(part)) = {} /\ Trim(Trim(part)) = Trim(part)
  BY <1>3, <1>5, TrimFacts, TrimEmpty
<1>7. items' \in Seq(Texts) /\ Len(items') = Len(items) + 1 /\ ItemsWhole'
  BY <1>1, <1>6, ItemAdded
<1>8. rest' \in Texts /\ Trimmed(rest)'
      /\ Cardinality(Places(Trim(Behind(rest)))) = Cardinality(Places(Behind(rest)))
  <2>1. Trim(Behind(rest)) \in Texts /\ Trimmed(Trim(Behind(rest)))
    BY <1>5, TrimFacts
  <2>2. Cardinality(Places(Trim(Behind(rest)))) = Cardinality(Places(Behind(rest)))
    BY <1>3, <1>5, TrimPlaces
  <2> QED
    BY <1>1, <2>1, <2>2 DEF Trimmed
<1>9. /\ PlacesBy(rest', input.delim) = Places(Trim(Behind(rest)))
      /\ PlacesBy(rest, input.delim) = Places(rest)
  BY <1>1, ByFacts
<1>10. Len(items) \in Nat
  BY <1>2, LenProperties
<1>11. Len(items') + Cardinality(PlacesBy(rest', input.delim))
          = Len(items) + Cardinality(PlacesBy(rest, input.delim))
  BY <1>5, <1>7, <1>8, <1>9, <1>10
<1>12. Remaining'
  BY <1>1, <1>2, <1>8, <1>11 DEF Remaining
<1> QED
  BY <1>1, <1>2, <1>7, <1>12 DEF SplitInv

\* What is left is the last word.
LEMMA SplitLast == ASSUME SingleDelimiter, SplitInv, LastWord PROVE SplitInv'
<1>1. /\ util = "split" /\ util' = "split_done" /\ input' = input /\ Chars' = Chars
      /\ Places(rest) = {} /\ items' = Append(items, rest)
  BY DEF LastWord, vars, args, Chars
<1>2. Remaining /\ input \in Inputs /\ items \in Seq(Texts) /\ input.delim # <<>>
  BY <1>1 DEF SplitInv
<1>3. rest \in Texts /\ Trim(rest) = rest
  BY <1>2, TrimFacts DEF Remaining
<1>4. items' \in Seq(Texts) /\ Len(items') = Len(items) + 1 /\ ItemsWhole'
  BY <1>1, <1>3, ItemAdded
<1>5. Cardinality(PlacesBy(rest, input.delim)) = 0
  <2>1. PlacesBy(rest, input.delim) = {}
    BY <1>1, ByFacts
  <2> QED
    BY <2>1, FS_EmptySet
<1>6. Len(items) \in Nat
  BY <1>2, LenProperties
<1>7. /\ Len(items) = Cardinality(PlacesBy(Chars, input.delim))
      /\ TrimBy(Chars, input.trim_spaces) # <<>>
  BY <1>2, <1>5, <1>6 DEF Remaining
<1>8. AllItems'
  BY <1>1, <1>4, <1>7 DEF AllItems
<1> QED
  BY <1>1, <1>2, <1>4, <1>8 DEF SplitInv

\* As jsmn_util.cpp says: an item per delimiter, plus one, and each of them whole.
THEOREM ItemPerDelimiterCorrect == SingleDelimiter /\ UtilSpec => []ItemPerDelimiter
<1> SUFFICES ASSUME SingleDelimiter PROVE UtilSpec => []ItemPerDelimiter
  OBVIOUS
<1>1. UtilInit => SplitInv
  BY SplitInit
<1>2. SplitInv /\ [UtilNext]_<<vars, utilVars>> => SplitInv'
  <2> SUFFICES ASSUME SplitInv, [UtilNext]_<<vars, utilVars>> PROVE SplitInv'
    OBVIOUS
  <2>1. CASE \/ Next /\ util = "none" /\ UNCHANGED utilVars
             \/ ToMap \/ Entry \/ ToMapEnd
             \/ UNCHANGED <<vars, utilVars>>
    BY <2>1, SplitAside
  <2>2. CASE Split
    BY <2>2, SplitBegins
  <2>3. CASE Word
    BY <2>3, SplitWord
  <2>4. CASE LastWord
    BY <2>4, SplitLast
  <2> QED
    BY <2>1, <2>2, <2>3, <2>4 DEF UtilNext
<1>3. SplitInv => ItemPerDelimiter
  <2> SUFFICES ASSUME SplitInv PROVE ItemPerDelimiter
    OBVIOUS
  <2>1. /\ Trim(Chars) = TrimBy(Chars, input.trim_spaces)
        /\ Places(Chars) = PlacesBy(Chars, input.delim)
    BY ByFacts
  <2>2. \A k \in DOMAIN items : Places(items[k]) = {} /\ Trim(items[k]) = items[k]
    BY ByFacts DEF SplitInv, ItemsWhole
  <2> QED
    BY <2>1, <2>2 DEF SplitInv, AllItems, ItemPerDelimiter
<1> QED
  BY <1>1, <1>2, <1>3, PTL DEF UtilSpec
=============================================================================
