------------------------------ MODULE JsmnUtil ------------------------------
(***************************************************************************)
(* What jsmn_util does with a text: jsmn_to_map, the members of an object  *)
(* as a map from key to the token of its value, found by walking over the  *)
(* tokens that jsmn has left behind the object's; and jsmn_split_string,   *)
(* which needs no tokens. Token indexes start at 0.                        *)
(***************************************************************************)
EXTENDS Jsmn, FiniteSets, SequencesExt

VARIABLES util,         \* the function that runs or has run, or "none"
          object,       \* jsmn_to_map: index of the token t
          map,          \* the map so far: from the characters of a key
          i, next_key,  \* its locals
          rest, items   \* jsmn_split_string: s1 and v

mapVars   == <<object, map, i, next_key>>
splitVars == <<rest, items>>
utilVars  == <<util, mapVars, splitVars>>

UtilInit ==
    /\ Init
    /\ util = "none"
    /\ object = 0
    /\ map = <<>>
    /\ i = 0
    /\ next_key = 0
    /\ rest = <<>>
    /\ items = <<>>

\* A definition marked "Mutant" is a plausible bug that no action uses: with it
\* in place of the one it precedes the property it is named for fails.

----------------------------------------------------------------------------
(* jsmn_to_map, on the tokens of a JSON text (input.json).                 *)

Tok(k) == tokens[k + 1]
Text(k) == SubSeq(Chars, Tok(k).start + 1, Tok(k).end)

\* How far it is from a key to the next one: over the value, which for an object
\* is a loop over its keys. The loop replaces next_key by what it gets instead of
\* adding it up, and the value of an array is not looked at.
NextKey[key \in Nat] ==
    LET value == key + 1
        Loop[n \in Nat] == IF n = 0 THEN 1 ELSE NextKey[value + Loop[n - 1]]
    IN CASE Tok(value).type \in {"PRIMITIVE", "STRING"} -> 2
         [] Tok(value).type = "OBJECT" -> Loop[Tok(value).size] + 1
         [] OTHER -> 0

\* Mutant for KeysWalked: an empty object is not counted as a value.
ToNextKeyOfEmpty(key) ==
    IF Tok(key + 1).type \in {"PRIMITIVE", "STRING"} THEN 2 ELSE 1

ToNextKey(key) == NextKey[key]

ToMap ==
    /\ input.json /\ mode = "idle" /\ util = "none"
    /\ result >= 0 /\ num_tokens # NoArray
    /\ object' \in {k \in 0..(Len(tokens) - 1) : Tok(k).type = "OBJECT"}
    /\ next_key' = 1
    /\ util' = "map"
    /\ UNCHANGED <<vars, map, i, splitVars>>

\* One turn of the loop. An entry with the same key is overwritten.
Entry ==
    /\ util = "map"
    /\ i < Tok(object).size
    /\ LET key == object + next_key IN
       /\ map' = (Text(key) :> key + 1) @@ map
       /\ next_key' = next_key + ToNextKey(key)
    /\ i' = i + 1
    /\ UNCHANGED <<vars, util, object, splitVars>>

ToMapEnd ==
    /\ util = "map"
    /\ i = Tok(object).size
    /\ util' = "map_done"
    /\ UNCHANGED <<vars, mapVars, splitVars>>

----------------------------------------------------------------------------
(* jsmn_split_string, for a text that comes with a delimiter (input.delim  *)
(* is not empty); input.trim_spaces.                                       *)

NotBlank(c) == c # " "

TrimRight(s) == SubSeq(s, 1, SelectLastInSeq(s, NotBlank))
TrimLeft(s) ==
    LET first == SelectInSeq(s, NotBlank) IN
    IF first = 0 THEN <<>> ELSE SubSeq(s, first, Len(s))
Trim(s) == IF input.trim_spaces THEN TrimLeft(TrimRight(s)) ELSE s

\* Where the delimiter is in s; find gives the first place.
Places(s) == {k \in 1..(Len(s) + 1 - Len(input.delim)) :
                 SubSeq(s, k, k + Len(input.delim) - 1) = input.delim}
Find(s) == CHOOSE k \in Places(s) : \A l \in Places(s) : k <= l

Split ==
    /\ input.delim # <<>> /\ mode = "idle" /\ util = "none"
    /\ rest' = Trim(Chars)
    /\ util' = IF rest' = <<>> THEN "split_done" ELSE "split"
    /\ UNCHANGED <<vars, mapVars, items>>

\* Mutant for ItemPerDelimiter: delimiters that follow each other are one.
BehindAll(s) == LET first == {k \in Find(s)..Len(s) : SubSeq(s, k, k) # input.delim}
                IN SubSeq(s, IF first = {} THEN Len(s) + 1
                             ELSE CHOOSE k \in first : \A l \in first : k <= l, Len(s))

Behind(s) == SubSeq(s, Find(s) + Len(input.delim), Len(s))

\* jsmn_get_word: the first word goes to the items.
Word ==
    /\ util = "split"
    /\ Places(rest) # {}
    /\ items' = Append(items, Trim(SubSeq(rest, 1, Find(rest) - 1)))
    /\ rest' = Trim(Behind(rest))
    /\ UNCHANGED <<vars, util, mapVars>>

LastWord ==
    /\ util = "split"
    /\ Places(rest) = {}
    /\ items' = Append(items, rest)
    /\ util' = "split_done"
    /\ UNCHANGED <<vars, mapVars, rest>>

----------------------------------------------------------------------------
UtilNext ==
    \/ Next /\ input.delim = <<>> /\ util = "none" /\ UNCHANGED utilVars
    \/ ToMap \/ Entry \/ ToMapEnd
    \/ Split \/ Word \/ LastWord

UtilSpec == UtilInit /\ [][UtilNext]_<<vars, utilVars>>

----------------------------------------------------------------------------
(* Properties.                                                             *)

\* A token is in the last bracket before it that ends behind it.
In(k, o) ==
    LET around == {b \in 0..(k - 1) : /\ Tok(b).type \in {"OBJECT", "ARRAY"}
                                      /\ Tok(b).end > Tok(k).end}
    IN Innermost(around, o)

\* The keys of the object: the strings in it that have a value.
Keys == {k \in 1..(Len(tokens) - 1) :
            In(k, object) /\ Tok(k).type = "STRING" /\ Tok(k).size = 1}

\* jsmn_util.h:49, "skips jumps to the next key token with an object": the walk
\* of jsmn_to_map comes to each key of the object and to nothing else, so that the
\* map leads from every key to the token of its value, the last one if the key is
\* there twice.
MapOfMembers ==
    util = "map_done" =>
        map = [text \in {Text(k) : k \in Keys} |->
                  1 + (CHOOSE k \in Keys :
                          Text(k) = text /\ \A l \in Keys : Text(l) = text => l <= k)]

\* The walk does what it should if no value that another key follows is an array,
\* or an object that is not empty, as in the message of jsmn_util.h:12; and wherever
\* it goes wrong, it stays on the tokens of the text.
LastKey(k) == \A l \in Keys : l <= k
KeysWalked ==
    /\ util = "map_done"
         /\ (\A k \in Keys : \/ LastKey(k)
                             \/ Tok(k + 1).type \in {"STRING", "PRIMITIVE"}
                             \/ Tok(k + 1).type = "OBJECT" /\ Tok(k + 1).size = 0)
       => MapOfMembers
    /\ util = "map" /\ i < Tok(object).size => object + next_key + 1 < Len(tokens)
    /\ \A text \in DOMAIN map : map[text] < Len(tokens)

\* jsmn_util.cpp:114, "you get an item per delimiter, plus 1", and none for an
\* empty text; the delimiter has no blank at its ends and cannot overlap another one.
\* No item holds it, and none begins or ends with a blank that was to be trimmed.
ItemPerDelimiter ==
    util = "split_done" =>
        /\ Len(items) = IF Trim(Chars) = <<>> THEN 0 ELSE Cardinality(Places(Chars)) + 1
        /\ \A k \in DOMAIN items : Places(items[k]) = {} /\ Trim(items[k]) = items[k]
=============================================================================
