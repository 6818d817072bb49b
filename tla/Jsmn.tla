-------------------------------- MODULE Jsmn --------------------------------
(***************************************************************************)
(* The JSON tokenizer jsmn (compiled without JSMN_STRICT and without       *)
(* JSMN_PARENT_LINKS): jsmn_parse as one step per turn of its loops, and a *)
(* caller that offers it more of the text after JSMN_ERROR_PART and more   *)
(* tokens after JSMN_ERROR_NOMEM, as the parser's state allows. Before     *)
(* that the caller may count the tokens: a call without a token array on a *)
(* parser of its own.                                                      *)
(*                                                                         *)
(* Positions and token indexes are the program's and start at 0. The array *)
(* tokens holds those allocated, so toknext is its length. Characters that *)
(* jsmn does not tell apart are one: "h" is a hexadecimal digit, "f" one   *)
(* that can also be escaped (b, f), "n" can only be escaped (n, r, t, /),  *)
(* "x" is any other that is printable, "ctl" one that is not.              *)
(***************************************************************************)
EXTENDS Integers, Sequences

CONSTANTS Inputs,       \* what is parsed: records with the characters of a
                        \* text and the lengths at which the caller may stop
          TokenCounts   \* sizes of the token array

ASSUME InputsAssumption ==
    /\ \A text \in Inputs :
          /\ text.chars \in Seq(STRING)
          /\ text.stops \subseteq 0..Len(text.chars)
    /\ TokenCounts \subseteq Nat

VARIABLES
    input,      \* the text
    len,        \* how much of it jsmn_parse is given
    num_tokens, \* the size of the array, NoArray if tokens is a null pointer
    pos, toksuper, tokens,  \* parser->pos, parser->toksuper, the tokens
    count,      \* local of jsmn_parse
    start,      \* local of jsmn_parse_primitive and jsmn_parse_string
    digits,     \* how many digits of an escape \u were seen
    mode,       \* the loop jsmn_parse is in, or "idle" between calls
    result,     \* what the last call returned, NotYet before the first
    counted     \* what the call without an array returned and the length it
                \* was given

args   == <<input, len, num_tokens>>
parser == <<pos, toksuper, tokens>>
locals == <<start, digits>>
vars   == <<args, parser, count, locals, mode, result, counted>>

NoArray == -1
Chars   == input.chars
Escapes == {"\"", "\\", "f", "n"}    \* besides u
Hex     == {"h", "f"}
PrimitiveEnds == {":", " ", ",", "]", "}"}
Opens   == {"{", "["}
Closes  == {"}", "]"}

\* A definition marked "Mutant" is a plausible bug that no action uses: with it
\* in place of the one it precedes the property it is named for fails.

TypeOfBracket(c) == IF c \in {"{", "}"} THEN "OBJECT" ELSE "ARRAY"

NOMEM   == -1
INVAL   == -2
PART    == -3
NotYet  == -4

Init ==
    /\ input \in Inputs
    /\ len = 0
    /\ num_tokens = NoArray
    /\ pos = 0 /\ toksuper = -1 /\ tokens = <<>>
    /\ count = 0
    /\ start = 0 /\ digits = 0
    /\ mode = "idle"
    /\ result = NotYet
    /\ counted = [result |-> NotYet, len |-> 0]

Char == Chars[pos + 1]
AtEnd == IF pos < len THEN Char = "nul" ELSE TRUE
Goto(m) == mode' = m
Return(r) == mode' = "idle" /\ result' = r

OpenTokens == {i \in 0..(Len(tokens) - 1) : tokens[i + 1].end = -1}

Innermost(S, i) == i \in S /\ \A j \in S : j <= i

\* Mutant for TypeOK: one token too many.
FullTooLate == num_tokens # NoArray /\ Len(tokens) > num_tokens

Full == num_tokens # NoArray /\ Len(tokens) >= num_tokens

\* tokens[toksuper].size++, if there is one, and a new token after the others.
Append1(token) ==
    IF num_tokens = NoArray THEN tokens
    ELSE Append(IF toksuper = -1 THEN tokens
                ELSE [tokens EXCEPT ![toksuper + 1].size = @ + 1], token)
Token(type, from, to) == [type |-> type, start |-> from, end |-> to, size |-> 0]

----------------------------------------------------------------------------
(* The caller.                                                             *)

\* jsmn_init and jsmn_parse without an array.
CallCount ==
    /\ mode = "idle" /\ result = NotYet
    /\ num_tokens = NoArray
    /\ len' \in input.stops
    /\ count' = 0
    /\ Goto("loop")
    /\ UNCHANGED <<input, num_tokens, parser, locals, result, counted>>

\* The count is kept, and jsmn_init starts over.
Counted ==
    /\ mode = "idle" /\ result # NotYet
    /\ num_tokens = NoArray
    /\ counted' = [result |-> result, len |-> len]
    /\ num_tokens' = 0
    /\ pos' = 0 /\ toksuper' = -1 /\ tokens' = <<>>
    /\ result' = NotYet
    /\ UNCHANGED <<input, len, count, locals, mode>>

\* A first call, or another one with more text, more tokens or both.
CallParse ==
    /\ mode = "idle"
    /\ \/ result = NotYet
       \/ result \in {PART, NOMEM} /\ num_tokens # NoArray
    /\ len' \in input.stops
    /\ num_tokens' \in TokenCounts \cup ({counted.result} \cap Nat)
    /\ result = PART => len' > len /\ num_tokens' >= num_tokens
    /\ result = NOMEM => len' >= len /\ num_tokens' > num_tokens
    /\ count' = Len(tokens)
    /\ Goto("loop")
    /\ UNCHANGED <<input, parser, locals, result, counted>>

----------------------------------------------------------------------------
(* jsmn_parse: its loop, by the character it looks at.                     *)

InLoop(chars) == mode = "loop" /\ ~AtEnd /\ Char \in chars

\* Mutant for CountSuffices: a bracket is counted when it gets its token.
ParseOpenUncounted ==
    /\ InLoop(Opens)
    /\ count' = IF num_tokens = NoArray THEN count ELSE count + 1
    /\ IF Full
       THEN Return(NOMEM) /\ UNCHANGED parser
       ELSE /\ tokens' = Append1(Token(TypeOfBracket(Char), pos, -1))
            /\ toksuper' = IF num_tokens = NoArray THEN toksuper ELSE Len(tokens)
            /\ pos' = pos + 1
            /\ UNCHANGED <<mode, result>>
    /\ UNCHANGED <<args, locals, counted>>

ParseOpen ==
    /\ InLoop(Opens)
    /\ count' = count + 1
    /\ IF Full
       THEN Return(NOMEM) /\ UNCHANGED parser
       ELSE /\ tokens' = Append1(Token(TypeOfBracket(Char), pos, -1))
            /\ toksuper' = IF num_tokens = NoArray THEN toksuper ELSE Len(tokens)
            /\ pos' = pos + 1
            /\ UNCHANGED <<mode, result>>
    /\ UNCHANGED <<args, locals, counted>>

\* Without an array brackets are not matched. Otherwise the innermost open
\* token must be of this type; the next one becomes toksuper.
CloseToken(i) ==
    /\ tokens' = [tokens EXCEPT ![i + 1].end = pos + 1]
    /\ IF OpenTokens = {i} THEN toksuper' = -1
                           ELSE Innermost(OpenTokens \ {i}, toksuper')
    /\ pos' = pos + 1
    /\ UNCHANGED <<mode, result>>

ParseClose ==
    /\ InLoop(Closes)
    /\ IF num_tokens = NoArray
       THEN pos' = pos + 1 /\ UNCHANGED <<toksuper, tokens, mode, result>>
       ELSE IF OpenTokens = {}
       THEN Return(INVAL) /\ UNCHANGED parser
       ELSE \E i \in OpenTokens :
               /\ Innermost(OpenTokens, i)
               /\ IF tokens[i + 1].type # TypeOfBracket(Char)
                  THEN Return(INVAL) /\ UNCHANGED parser
                  ELSE CloseToken(i)
    /\ UNCHANGED <<args, count, locals, counted>>

\* What follows belongs to the token before the colon.
ParseColon ==
    /\ InLoop({":"})
    /\ toksuper' = Len(tokens) - 1
    /\ pos' = pos + 1
    /\ UNCHANGED <<args, tokens, count, locals, mode, result, counted>>

\* Mutant for Recognized: a comma leaves toksuper at the last key.
ParseCommaSkipped ==
    /\ InLoop({","})
    /\ pos' = pos + 1
    /\ UNCHANGED <<args, toksuper, tokens, count, locals, mode, result, counted>>

\* After a comma it belongs to the innermost open bracket again.
ParseComma ==
    /\ InLoop({","})
    /\ IF /\ toksuper # -1
          /\ tokens[toksuper + 1].type \notin {"OBJECT", "ARRAY"}
          /\ OpenTokens # {}
       THEN toksuper' \in OpenTokens /\ Innermost(OpenTokens, toksuper')
       ELSE UNCHANGED toksuper
    /\ pos' = pos + 1
    /\ UNCHANGED <<args, tokens, count, locals, mode, result, counted>>

ParseBlank ==
    /\ InLoop({" "})
    /\ pos' = pos + 1
    /\ UNCHANGED <<args, toksuper, tokens, count, locals, mode, result, counted>>

ParseQuote ==
    /\ InLoop({"\""})
    /\ start' = pos
    /\ pos' = pos + 1
    /\ Goto("string")
    /\ UNCHANGED <<args, toksuper, tokens, count, digits, result, counted>>

ParseOther ==
    /\ mode = "loop" /\ ~AtEnd
    /\ Char \notin Opens \cup Closes \cup {":", ",", " ", "\""}
    /\ start' = pos
    /\ Goto("primitive")
    /\ UNCHANGED <<args, parser, count, digits, result, counted>>

ParseEnd ==
    /\ mode = "loop" /\ AtEnd
    /\ Return(IF OpenTokens # {} THEN PART ELSE count)
    /\ UNCHANGED <<args, parser, count, locals, counted>>

----------------------------------------------------------------------------
(* jsmn_parse_primitive and jsmn_parse_string. Both give up with pos back  *)
(* at their start.                                                         *)

\* Mutant for TokensOfText: pos stays where it is.
GiveUpForGood(error) ==
    /\ Return(error)
    /\ UNCHANGED <<pos, toksuper, tokens, count>>

GiveUp(error) ==
    /\ Return(error)
    /\ pos' = start
    /\ UNCHANGED <<toksuper, tokens, count>>

\* The token is counted and added; the loop goes on at position next.
Found(token, next) ==
    IF Full THEN GiveUp(NOMEM)
    ELSE /\ tokens' = Append1(token)
         /\ count' = count + 1
         /\ pos' = next
         /\ Goto("loop")
         /\ UNCHANGED <<toksuper, result>>

\* Not strict: the end of the text ends a primitive as well.
Primitive ==
    /\ mode = "primitive"
    /\ IF AtEnd \/ Char \in PrimitiveEnds
       THEN Found(Token("PRIMITIVE", start, pos), pos)
       ELSE IF Char = "ctl" THEN GiveUp(INVAL)
       ELSE pos' = pos + 1 /\ UNCHANGED <<toksuper, tokens, count, mode, result>>
    /\ UNCHANGED <<args, locals, counted>>

StringEnd ==
    /\ mode = "string"
    /\ IF AtEnd THEN GiveUp(PART)
       ELSE Char = "\"" /\ Found(Token("STRING", start + 1, pos), pos + 1)
    /\ UNCHANGED <<args, locals, counted>>

\* A backslash that is the last character so far is taken as it is.
StringEscape ==
    /\ mode = "string" /\ ~AtEnd
    /\ Char = "\\" /\ pos + 1 < len
    /\ LET escaped == Chars[pos + 2] IN
       IF escaped \in Escapes \cup {"u"}
       THEN /\ pos' = pos + 2
            /\ Goto(IF escaped = "u" THEN "unicode" ELSE "string")
            /\ UNCHANGED <<toksuper, tokens, count, result>>
       ELSE GiveUp(INVAL)
    /\ digits' = 0
    /\ UNCHANGED <<args, start, counted>>

StringChar ==
    /\ mode = "string" /\ ~AtEnd
    /\ Char # "\""
    /\ Char = "\\" => pos + 1 >= len
    /\ pos' = pos + 1
    /\ UNCHANGED <<args, toksuper, tokens, count, locals, mode, result, counted>>

Unicode ==
    /\ mode = "unicode"
    /\ IF digits = 4 \/ AtEnd
       THEN /\ Goto("string")
            /\ UNCHANGED <<parser, count, digits, result>>
       ELSE IF Char \in Hex
       THEN /\ digits' = digits + 1
            /\ pos' = pos + 1
            /\ UNCHANGED <<toksuper, tokens, count, mode, result>>
       ELSE GiveUp(INVAL) /\ UNCHANGED digits
    /\ UNCHANGED <<args, start, counted>>

----------------------------------------------------------------------------
Caller == CallCount \/ Counted \/ CallParse

Parse ==
    \/ ParseOpen \/ ParseClose \/ ParseColon \/ ParseComma \/ ParseBlank
    \/ ParseQuote \/ ParseOther \/ ParseEnd
    \/ Primitive \/ StringEnd \/ StringEscape \/ StringChar \/ Unicode

Next == Caller \/ Parse

Spec == Init /\ [][Next]_vars
----------------------------------------------------------------------------
(* Properties.                                                             *)

TokenTypes == {"OBJECT", "ARRAY", "STRING", "PRIMITIVE"}
IsToken(t) ==
    /\ t.type \in TokenTypes
    /\ t.start \in 0..pos
    /\ t.end \in {-1} \cup t.start..pos
    /\ t.end = -1 => t.type \in {"OBJECT", "ARRAY"}
    /\ t.size \in Nat

\* Types, and that jsmn stays inside of what it was given: it looks at no
\* character from len on, at no token it has not filled, and fills no more than
\* the caller has room for. toksuper leads to a token or to none.
TypeOK ==
    /\ len \in 0..Len(Chars)
    /\ num_tokens \in Nat \cup {NoArray}
    /\ pos \in 0..len
    /\ \A i \in DOMAIN tokens : IsToken(tokens[i])
    /\ tokens # <<>> => Len(tokens) <= num_tokens
    /\ toksuper \in -1..(Len(tokens) - 1)
    /\ count \in Nat
    /\ mode \in {"idle", "loop", "primitive", "string", "unicode"}
    /\ mode \notin {"idle", "loop"} => start \in 0..pos
    /\ digits \in 0..4
    /\ result \in Nat \cup {NOMEM, INVAL, PART, NotYet}
    /\ counted \in [result : Nat \cup {NOMEM, INVAL, PART, NotYet}, len : Nat]

\* The ranges of two tokens are disjoint or one holds the other, and tokens
\* come in the order they start in: whatever the text, whatever the calls, the
\* tokens form a forest in preorder. An open token ends after everything.
Laminar ==
    \A i, j \in DOMAIN tokens : i < j =>
        /\ tokens[i].start <= tokens[j].start
        /\ \/ tokens[i].end = -1
           \/ tokens[i].end <= tokens[j].start
           \/ tokens[j].end # -1 /\ tokens[j].end <= tokens[i].end

\* The characters that a token takes of the text: a string its quotes as well, an
\* object or array only its brackets.
Place(t) ==
    CASE t.type = "STRING"    -> (t.start - 1)..t.end
      [] t.type = "PRIMITIVE" -> t.start..(t.end - 1)
      [] OTHER                -> {t.start, t.end - 1} \cap Nat

\* The text is at that place what the token says. A quote within a string is escaped;
\* a primitive ends where one may, or where the caller stopped.
OfText(t) ==
    CASE t.type = "STRING" ->
            /\ Chars[t.start] = "\"" /\ Chars[t.end + 1] = "\""
            /\ \A k \in t.start..(t.end - 1) :
                  Chars[k + 1] = "\"" => k > t.start /\ Chars[k] = "\\"
      [] t.type = "PRIMITIVE" ->
            /\ t.start < t.end /\ Chars[t.start + 1] \notin Opens \cup {"\""}
            /\ \A k \in t.start..(t.end - 1) :
                  Chars[k + 1] \notin PrimitiveEnds \cup {"ctl", "nul"}
            /\ t.end \in input.stops \/ Chars[t.end + 1] \in PrimitiveEnds \cup {"nul"}
      [] OTHER ->
            /\ Chars[t.start + 1] \in Opens /\ TypeOfBracket(Chars[t.start + 1]) = t.type
            /\ t.end # -1 => Chars[t.end] \in Closes /\ TypeOfBracket(Chars[t.end]) = t.type

\* A character is that of one token, or one that separates tokens.
Separators == {" ", ":", ","}
Accounted(k) ==
    LET takers == {e \in DOMAIN tokens : k \in Place(tokens[e])} IN
    IF takers = {} THEN Chars[k + 1] \in Separators ELSE \E e \in takers : takers = {e}

\* When a call returns, the tokens are those of the text that was parsed, and nothing
\* of it is missing, whatever the text and however often jsmn gave up and went back;
\* and only if all of it was parsed and every bracket has its partner, is a number
\* returned: as the tokens are a forest, brackets match.
TokensOfText ==
    /\ Laminar
    /\ mode = "idle" /\ num_tokens # NoArray =>
          /\ \A e \in DOMAIN tokens : OfText(tokens[e]) /\ Place(tokens[e]) \subseteq 0..(pos - 1)
          /\ \A k \in 0..(pos - 1) : Accounted(k)
    /\ mode = "idle" /\ result >= 0 => AtEnd /\ OpenTokens = {}

\* An array as large as the count of a call without one is large enough, and
\* if the text parses there are exactly as many tokens.
CountSuffices ==
    mode = "idle" /\ num_tokens # NoArray
        /\ counted.result >= 0 /\ counted.len = len /\ num_tokens >= counted.result
    => result # NOMEM /\ (result >= 0 => result = counted.result)
=============================================================================
