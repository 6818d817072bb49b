------------------------------- MODULE MCJson -------------------------------
(* Jsmn and JsmnUtil with texts: JSON documents, whose tokens JsonText      *)
(* gives; arbitrary short texts; and texts to split.                        *)
EXTENDS JsmnUtil, JsonText

CONSTANT MaxLength   \* of arbitrary texts

----------------------------------------------------------------------------
(* Documents. Every "x" in one belongs to a primitive.                      *)

Key1 == Str(<<"h">>)
Key2 == Str(<<"n">>)

\* Strings with escapes and with brackets in them, a primitive of two characters.
Scalars == {Prim(<<"x", "x">>),
            Str(<<>>),
            Str(<<"\\", "\"", "{", "\\", "u", "f", "h", "h", "f">>)}
Flat    == {Prim(<<"x">>), Str(<<"n">>), Arr(<<>>), Obj(<<>>)}
Nested  == {Obj(<<<<Key1, v>>>>) : v \in Flat}
           \cup {Obj(<<<<Key1, v>>, <<Key2, Prim(<<"x">>)>>>>) : v \in Flat}
           \cup {Arr(<<Str(<<"n">>), Obj(<<>>)>>)}

ArraysOf(S, T)  == {Arr(<<>>)} \cup {Arr(<<v>>) : v \in S} \cup {Arr(<<v, w>>) : v \in S, w \in T}
ObjectsOf(S, T, keys) ==
    {Obj(<<<<Key1, v>>>>) : v \in S}
    \cup {Obj(<<<<Key1, v>>, <<key, w>>>>) : key \in keys, v \in S, w \in T}

Trees == ObjectsOf(Scalars, {Prim(<<"x", "x">>)}, {Key1, Key2}) \cup ArraysOf(Nested, {Arr(<<>>)})
         \cup ObjectsOf(Nested, {Prim(<<"x">>)}, {Key2}) \cup ObjectsOf(Flat, Flat, {Key2})
         \cup ObjectsOf({Obj(<<>>)}, Nested, {Key2})

\* A text that comes whole, and that is neither JSON nor to be split.
Plain(text) == [chars |-> text, stops |-> {Len(text)}, json |-> FALSE,
                delim |-> <<>>, trim_spaces |-> FALSE]

\* A JSON text, with blanks in it or not, that may come in pieces.
DocumentOf(v, blank, stops) ==
    [Plain(TextOf(v, blank)) EXCEPT !.json = TRUE, !.stops = @ \cup stops]
    @@ [value |-> v, blank |-> blank]

\* Only within a primitive the caller must not stop: jsmn takes its first part for
\* all of it.
Stops(text) == {n \in 0..(Len(text) - 1) : n = 0 \/ text[n] # "x"}

\* In two pieces, and some of them in any number of pieces.
Documents ==
    UNION {{DocumentOf(v, <<>>, {n}) : n \in Stops(TextOf(v, <<>>))} : v \in Trees}
    \cup {DocumentOf(v, <<" ">>, Stops(TextOf(v, <<" ">>))) : v \in Nested}

\* However the text and the room for tokens came in pieces, a document is taken
\* for what it is: its tokens are those of its tree, and what is returned is
\* their number. What is not yet whole is JSMN_ERROR_PART, never an error, and
\* jsmn.h:31, "The string is not a full JSON packet, more bytes expected", means
\* that the bytes to come complete it.
ParsedAsTree ==
    input.json /\ mode = "idle" /\ result # NotYet /\ num_tokens # NoArray =>
        /\ result # INVAL
        /\ result # NOMEM /\ len = Len(Chars) =>
              /\ tokens = TokensOf(input.value, 0, input.blank, FALSE)
              /\ result = Len(tokens)

----------------------------------------------------------------------------
(* Arbitrary texts.                                                         *)

\* Without strings, all at once; and the start of a string, in pieces.
BracketTexts ==
    {Plain(text) : text \in BoundedSeq({"{", "}", "[", "]", ":", ",", "x"}, MaxLength)}
StringTexts  ==
    {[chars |-> <<"\"">> \o text, stops |-> 0..(Len(text) + 1)] @@ Plain(text) :
        text \in BoundedSeq({"\"", "\\", "u", "h", "n", "ctl", "nul", "}"}, 3)}

\* Brackets match: two neighbours that fit can be taken out until none is left.
RECURSIVE Reducible(_)
Reducible(brackets) ==
    \/ brackets = <<>>
    \/ \E k \in 1..(Len(brackets) - 1) :
          /\ <<brackets[k], brackets[k + 1]>> \in {<<"{", "}">>, <<"[", "]">>}
          /\ Reducible(SubSeq(brackets, 1, k - 1) \o SubSeq(brackets, k + 2, Len(brackets)))

\* The brackets of a text without strings. A primitive goes on to the next blank,
\* colon, comma or closing bracket: an opening one can be inside of it.
Brackets(text) ==
    LET Inside[k \in DOMAIN text] ==
            /\ k > 1 /\ text[k] \notin PrimitiveEnds
            /\ text[k - 1] = "x" \/ Inside[k - 1]
        positions == SelectSeq([k \in DOMAIN text |-> k],
                               LAMBDA k : text[k] \in Opens \cup Closes /\ ~Inside[k])
    IN [k \in DOMAIN positions |-> text[positions[k]]]

\* With room enough, jsmn returns a number of tokens for a text without strings
\* exactly if its brackets match.
Balanced ==
    mode = "idle" /\ result \notin {NotYet, NOMEM} /\ num_tokens # NoArray
        /\ len = Len(Chars) /\ (\A k \in DOMAIN Chars : Chars[k] # "\"")
    => (result >= 0 <=> Reducible(Brackets(Chars)))

\* What jsmn makes of a text is what the text is: of a document its tree, in
\* however many pieces it came, and of a text without strings, whether its brackets
\* match.
Recognized == ParsedAsTree /\ Balanced

----------------------------------------------------------------------------
SplitTexts ==
    {[delim |-> delim, trim_spaces |-> trim] @@ Plain(text) :
        delim \in {<<",">>, <<"x", ",">>},
        text \in BoundedSeq({"x", " ", ","}, 5), trim \in BOOLEAN}

Texts == Documents \cup BracketTexts \cup StringTexts \cup SplitTexts

\* The message of jsmn_util.h:12, and an object whose first value is an object.
Messages == {DocumentOf(Obj(<<<<Key1, Prim(<<"x">>)>>, <<Key2, v>>>>), <<>>, {}) :
                v \in {w \in Nested : w.kind = "OBJECT"}}
            \cup {DocumentOf(Obj(<<<<Key1, v>>, <<Key2, Prim(<<"x">>)>>>>), <<>>, {}) :
                v \in {w \in Nested : w.kind = "OBJECT"}}
=============================================================================
