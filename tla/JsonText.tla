------------------------------ MODULE JsonText ------------------------------
(***************************************************************************)
(* JSON values as trees, the texts that stand for them, and the tokens a   *)
(* tokenizer should find in such a text. A value is [kind, chars] for a    *)
(* primitive or a string, [kind, items] for an array, and [kind, members]  *)
(* for an object, its members being pairs of a string and a value.         *)
(***************************************************************************)
EXTENDS Integers, SequencesExt

Prim(chars) == [kind |-> "PRIMITIVE", chars |-> chars]
Str(chars)  == [kind |-> "STRING", chars |-> chars]
Arr(items)  == [kind |-> "ARRAY", items |-> items]
Obj(members) == [kind |-> "OBJECT", members |-> members]

Separated(texts, separator) ==
    FoldLeft(LAMBDA whole, t : IF whole = <<>> THEN t ELSE whole \o separator \o t,
             <<>>, texts)

\* The text of a value, with blank behind every comma and colon.
RECURSIVE TextOf(_, _)
TextOf(v, blank) ==
    CASE v.kind = "PRIMITIVE" -> v.chars
      [] v.kind = "STRING" -> <<"\"">> \o v.chars \o <<"\"">>
      [] v.kind = "ARRAY" ->
            <<"[">> \o Separated([i \in DOMAIN v.items |-> TextOf(v.items[i], blank)],
                                 <<",">> \o blank) \o <<"]">>
      [] v.kind = "OBJECT" ->
            <<"{">> \o Separated([i \in DOMAIN v.members |->
                                    TextOf(v.members[i][1], blank) \o <<":">> \o blank
                                        \o TextOf(v.members[i][2], blank)],
                                 <<",">> \o blank) \o <<"}">>

\* The values directly in a value, keys included, in the order of the text.
Parts(v) ==
    CASE v.kind \in {"PRIMITIVE", "STRING"} -> <<>>
      [] v.kind = "ARRAY" -> v.items
      [] v.kind = "OBJECT" -> FlattenSeq(v.members)

\* The tokens of a value whose text begins at a position: a string without its
\* quotes, an object counts its keys, a key its value (keyed). Behind each part
\* of an array or object comes one separator, and blank.
RECURSIVE TokensOf(_, _, _, _)
TokensOf(v, at, blank, keyed) ==
    LET length == Len(TextOf(v, blank))
        parts  == Parts(v)
        token  == CASE v.kind = "PRIMITIVE" ->
                         [type |-> v.kind, start |-> at, end |-> at + length, size |-> 0]
                    [] v.kind = "STRING" ->
                         [type |-> v.kind, start |-> at + 1, end |-> at + length - 1,
                          size |-> IF keyed THEN 1 ELSE 0]
                    [] OTHER ->
                         [type |-> v.kind, start |-> at, end |-> at + length,
                          size |-> IF v.kind = "ARRAY" THEN Len(v.items) ELSE Len(v.members)]
        PartAt[i \in 1..(Len(parts) + 1)] ==
            IF i = 1 THEN at + 1
            ELSE PartAt[i - 1] + Len(TextOf(parts[i - 1], blank)) + 1 + Len(blank)
        IsKey(i) == v.kind = "OBJECT" /\ i % 2 = 1
    IN <<token>> \o FlattenSeq([i \in DOMAIN parts |->
                                   TokensOf(parts[i], PartAt[i], blank, IsKey(i))])
=============================================================================
