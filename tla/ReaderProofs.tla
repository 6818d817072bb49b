---------------------------- MODULE ReaderProofs ----------------------------
(***************************************************************************)
(* Proofs about what a connection reads: the request of the opening        *)
(* handshake (HttpRequest) and the frames behind it (Hybi13, with the      *)
(* validator of Utf8). In however many pieces they come, they are taken    *)
(* for what they are. Where lines and frames end, what the validator has   *)
(* seen and what a stream means are recursive functions; that they exist,  *)
(* and what they have in common, is proved from the least number for which *)
(* it does not hold.                                                       *)
(***************************************************************************)
EXTENDS HttpRequest, Hybi13, SequenceTheorems, WellFoundedInduction, TLAPS

----------------------------------------------------------------------------
(* Numbers and recursion.                                                   *)

\* A set of numbers that is not empty has a least one.
LEMMA SmallestNat == ASSUME NEW T, T \subseteq Nat, T # {} PROVE \E i \in T : \A j \in T : i <= j
<1> DEFINE Less == {ss \in Nat \X Nat : ss[1] < ss[2]}
<1>1. IsWellFoundedOn(Less, Nat)
  BY NatLessThanWellFounded DEF OpToRel
<1>2. \A i, j \in Nat : j < i => <<j, i>> \in Less
  OBVIOUS
<1> HIDE DEF Less
<1>3. PICK i \in T : \A j \in T : ~(<<j, i>> \in Less)
  BY <1>1, WFMin
<1>4. ASSUME NEW j \in T PROVE i <= j
  <2>1. i \in Nat /\ j \in Nat
    OBVIOUS
  <2>2. ~(j < i)
    BY <1>2, <1>3, <2>1
  <2> QED
    BY <2>1, <2>2
<1> QED
  BY <1>4

\* What holds of 0, and of a number up to N when it does of the one before, holds of
\* all up to N.
LEMMA UpTo ==
    ASSUME NEW N \in Nat, NEW T, 0 \in T, \A k \in 1..N : k - 1 \in T => k \in T
    PROVE  \A k \in 0..N : k \in T
<1> DEFINE Without == {k \in 0..N : k \notin T}
<1>1. SUFFICES ASSUME Without # {} PROVE FALSE
  OBVIOUS
<1>2. PICK m \in Without : \A j \in Without : m <= j
  <2>1. Without \subseteq Nat
    OBVIOUS
  <2> QED
    BY <1>1, <2>1, SmallestNat
<1>3. m \in 1..N /\ m - 1 \in 0..N /\ ~(m <= m - 1) /\ m \notin T
  <2>1. m \in 0..N /\ m # 0
    OBVIOUS
  <2> QED
    BY <2>1
<1>4. m - 1 \in T
  <2>1. m - 1 \notin Without
    <3> HIDE DEF Without
    <3> QED
      BY <1>2, <1>3
  <2> QED
    BY <1>3, <2>1
<1> QED
  BY <1>3, <1>4

\* A recursive function on 0..N exists.
Steps(N, V) == [(1..N) \X V -> V]
Iterates(f, N, V, first, g) ==
    /\ f \in [0..N -> V]
    /\ f[0] = first
    /\ \A k \in 1..N : f[k] = g[<<k, f[k - 1]>>]

\* A function that is given by its first value and a step from each value to the next
\* exists.
LEMMA RecursionExists ==
    ASSUME NEW N \in Nat, NEW V, NEW first \in V, NEW g \in Steps(N, V)
    PROVE  \E f : Iterates(f, N, V, first, g)
<1> DEFINE Solves(f, n) == /\ f \in [0..n -> V]
                           /\ f[0] = first
                           /\ \A k \in 1..n : f[k] = g[<<k, f[k - 1]>>]
           T == {n \in 0..N : \E f : Solves(f, n)}
<1>1. 0 \in T
  <2>1. Solves([k \in 0..0 |-> first], 0)
    OBVIOUS
  <2>2. 0 \in 0..N
    OBVIOUS
  <2> HIDE DEF Solves
  <2> QED
    BY <2>1, <2>2
<1>2. ASSUME NEW m \in 1..N, m - 1 \in T PROVE m \in T
  <2>1. PICK f : Solves(f, m - 1)
    BY <1>2
  <2> DEFINE h == [k \in 0..m |-> IF k = m THEN g[<<m, f[m - 1]>>] ELSE f[k]]
  <2>2. f[m - 1] \in V /\ \A k \in 0..m : k # m => f[k] \in V
    BY <2>1
  <2>3. g[<<m, f[m - 1]>>] \in V
    BY <2>2 DEF Steps
  <2>4. h \in [0..m -> V]
    BY <2>2, <2>3
  <2>5. h[0] = first
    BY <2>1
  <2>6. ASSUME NEW k \in 1..m PROVE h[k] = g[<<k, h[k - 1]>>]
    <3>1. CASE k = m
      <4>1. m - 1 \in 0..m /\ m - 1 # m
        OBVIOUS
      <4> QED
        BY <3>1, <4>1
    <3>2. CASE k # m
      <4>1. k \in 1..(m - 1) /\ k - 1 \in 0..(m - 1) /\ k - 1 # m /\ k - 1 \in 0..m /\ k \in 0..m
        BY <3>2
      <4>2. h[k] = f[k] /\ h[k - 1] = f[k - 1]
        BY <3>2, <4>1
      <4> QED
        BY <2>1, <4>1, <4>2
    <3> QED
      BY <3>1, <3>2
  <2>7. Solves(h, m)
    BY <2>4, <2>5, <2>6
  <2>8. m \in 0..N
    OBVIOUS
  <2> HIDE DEF Solves
  <2> QED
    BY <2>7, <2>8
<1>3. \A k \in 0..N : k \in T
  <2> HIDE DEF T
  <2> QED
    BY <1>1, <1>2, UpTo
<1>4. N \in T
  BY <1>3
<1> QED
  BY <1>4 DEF Iterates

----------------------------------------------------------------------------
(* The request: what the variables are, and the invariant.                  *)

\* How many lines there are, and how many were processed.
Count == Len(Lines)
Read  == lines_processed

\* What the variables are. Nothing is processed that was not sent.
HttpTypes ==
    /\ request \in Requests
    /\ transferred \in Nat /\ begin \in Nat
    /\ transferred <= Sent /\ begin <= transferred
    /\ lines_processed \in Nat
    /\ m_method \in {"empty", "set"} /\ m_headers \in Seq(Range(Lines))
    /\ m_header_bytes \in Nat
    /\ m_body \in Nat /\ m_body_bytes_needed \in Nat
    /\ http \in {"read", "consume", "ready", "failed"}
    /\ m_buf_cursor \in Nat
    /\ reads \in Nat
    /\ http = "consume" => reads > 0

\* No line in front of this one has a method.
NoneBefore(k) == \A j \in 1..(k - 1) : Lines[j].as_request # "method"

\* Of the lines that were processed, m_headers has those behind the first one with a
\* method.
HeadersKept ==
    /\ Len(m_headers) <= Read
    /\ \A k \in 1..Read : NoneBefore(k) <=> k <= Read - Len(m_headers)
    /\ \A j \in 1..Len(m_headers) : m_headers[j] = Lines[(Read - Len(m_headers)) + j]

\* What was processed is the first lines, none of them malformed (and so none blank).
HeadersRead ==
    /\ Read <= Count
    /\ \A k \in 1..Read : Wellformed(Lines[k], NoneBefore(k))
    /\ m_method = "empty" <=> NoneBefore(Read + 1)
    /\ HeadersKept

\* While headers are read: begin is behind the last of them. Each line was counted
\* with one byte more than it takes, and each call of consume that ran out of bytes
\* with three. No call leaves a whole line behind.
InHead ==
    http \in {"read", "consume"} /\ m_body_bytes_needed = 0 =>
       /\ m_body = 0
       /\ begin = LineEnd[Read]
       /\ m_header_bytes = LineEnd[Read] + Read + 3 * (IF http = "read" THEN reads ELSE reads - 1)
       /\ http = "read" /\ Read < Count => transferred < LineEnd[Read + 1]

\* While the body is read: the header is one of a request, within its limit, and
\* begin is behind the part of the body that was read.
InBody ==
    http \in {"read", "consume"} /\ m_body_bytes_needed > 0 =>
       /\ Meaning = "request"
       /\ m_body + m_body_bytes_needed = BodySize
       /\ begin = LineEnd[Count] + m_body
       /\ LineEnd[Count] <= max_header_size
       /\ http = "read" => begin = transferred

\* RequestRead is not inductive alone: it says nothing of a request half read.
HttpInv == HttpTypes /\ HeadersRead /\ InHead /\ InBody /\ RequestRead

----------------------------------------------------------------------------
(* Where the lines end.                                                     *)

\* Sizes add up to ends: the function that LineEnd defines exists.
LEMMA EndsExist ==
    ASSUME NEW lines, NEW N \in Nat, \A k \in 1..N : lines[k].size \in Nat
    PROVE  \E f \in [0..N -> Nat] :
              f[0] = 0 /\ \A k \in 1..N : f[k] = f[k - 1] + lines[k].size + 2
<1> DEFINE LineEnds(f, n) ==
              /\ f \in [0..n -> Nat]
              /\ f[0] = 0
              /\ \A k \in 1..n : f[k] = f[k - 1] + lines[k].size + 2
           Without == {n \in 0..N : ~\E f : LineEnds(f, n)}
<1>1. SUFFICES Without = {}
  <2>1. N \in 0..N
    OBVIOUS
  <2>2. \E f : LineEnds(f, N)
    BY <1>1, <2>1
  <2> QED
    BY <2>2
<1>2. SUFFICES ASSUME Without # {} PROVE FALSE
  OBVIOUS
<1>3. PICK m \in Without : \A j \in Without : m <= j
  <2>1. Without \subseteq Nat
    OBVIOUS
  <2> QED
    BY <1>2, <2>1, SmallestNat
<1>4. m # 0
  <2>1. LineEnds([k \in 0..0 |-> 0], 0)
    OBVIOUS
  <2> QED
    BY <2>1
<1>5. m - 1 \in 0..N /\ m - 1 \notin Without /\ m \in 1..N
  <2>1. m \in 0..N
    BY <1>3
  <2>2. m \in 1..N /\ m - 1 \in 0..N /\ ~(m <= m - 1)
    BY <1>4, <2>1
  <2> HIDE DEF Without
  <2> QED
    BY <1>3, <2>2
<1>6. PICK f : LineEnds(f, m - 1)
  BY <1>5
<1> DEFINE g == [k \in 0..m |-> IF k = m THEN f[m - 1] + lines[m].size + 2 ELSE f[k]]
<1>7. g \in [0..m -> Nat]
  <2>1. f[m - 1] + lines[m].size + 2 \in Nat
    <3>1. f[m - 1] \in Nat
      BY <1>5, <1>6
    <3>2. lines[m].size \in Nat
      BY <1>5
    <3> QED
      BY <3>1, <3>2
  <2>2. \A k \in 0..m : k # m => f[k] \in Nat
    BY <1>5, <1>6
  <2> QED
    BY <2>1, <2>2
<1>8. g[0] = 0
  BY <1>5, <1>6
<1>9. ASSUME NEW k \in 1..m PROVE g[k] = g[k - 1] + lines[k].size + 2
  <2>1. CASE k = m
    BY <1>5, <2>1
  <2>2. CASE k # m
    <3>1. k \in 1..(m - 1) /\ k - 1 \in 0..(m - 1) /\ k - 1 # m
      BY <1>5, <2>2
    <3>2. g[k] = f[k] /\ g[k - 1] = f[k - 1]
      BY <1>5, <3>1
    <3> QED
      BY <1>6, <3>1, <3>2
  <2> QED
    BY <2>1, <2>2
<1>10. LineEnds(g, m)
  BY <1>7, <1>8, <1>9
<1> QED
  BY <1>3, <1>10

\* What the requests are, of the one that is read.
LEMMA LinesFacts ==
    ASSUME request \in Requests
    PROVE  /\ Lines \in Seq(Range(Lines))
           /\ Count \in Nat /\ DOMAIN Lines = 1..Count
           /\ request.more \in Nat
           /\ \A k \in 1..Count :
                 /\ Lines[k].size \in Nat
                 /\ Lines[k].size = 0 =>
                       k = Count /\ Lines[k].as_request = "bad" /\ Lines[k].as_header = "bad"
                 /\ Lines[k].as_header = "length" => Lines[k].n \in Nat
<1>1. /\ Lines \in Seq(Range(Lines)) /\ request.more \in Nat
      /\ \A k \in DOMAIN Lines :
            /\ Lines[k].size \in Nat
            /\ Lines[k].size = 0 =>
                  k = Count /\ Lines[k].as_request = "bad" /\ Lines[k].as_header = "bad"
            /\ Lines[k].as_header = "length" => Lines[k].n \in Nat
  BY RequestsAssumption DEF Lines, Count
<1>2. Count \in Nat /\ DOMAIN Lines = 1..Count
  BY <1>1, LenProperties DEF Count
<1> QED
  BY <1>1, <1>2

\* LineEnd is what its definition says: the end of a line is behind the end of
\* the one before it.
LEMMA LineEndFacts ==
    ASSUME request \in Requests
    PROVE  /\ LineEnd \in [0..Count -> Nat]
           /\ LineEnd[0] = 0
           /\ \A k \in 1..Count : LineEnd[k] = LineEnd[k - 1] + Lines[k].size + 2
<1>1. Count \in Nat /\ \A k \in 1..Count : Lines[k].size \in Nat
  BY LinesFacts
<1>2. PICK f \in [0..Count -> Nat] :
         f[0] = 0 /\ \A k \in 1..Count : f[k] = f[k - 1] + Lines[k].size + 2
  BY <1>1, EndsExist
<1>3. f = [k \in 0..Count |-> IF k = 0 THEN 0 ELSE f[k - 1] + Lines[k].size + 2]
  <2>1. \A k \in 0..Count : f[k] = IF k = 0 THEN 0 ELSE f[k - 1] + Lines[k].size + 2
    BY <1>1, <1>2
  <2> QED
    BY <1>2, <2>1
<1>4. LineEnd = [k \in 0..Count |-> IF k = 0 THEN 0 ELSE LineEnd[k - 1] + Lines[k].size + 2]
  <2> DEFINE F(g) == [k \in 0..Count |-> IF k = 0 THEN 0 ELSE g[k - 1] + Lines[k].size + 2]
  <2>1. \E g : g = F(g)
    BY <1>3
  <2>2. LineEnd = CHOOSE g : g = F(g)
    BY DEF LineEnd, Lines, Count, DelimiterSize
  <2> HIDE DEF F
  <2>3. LineEnd = F(LineEnd)
    BY <2>1, <2>2
  <2> QED
    BY <2>3 DEF F
<1> DEFINE Differ == {k \in 0..Count : LineEnd[k] # f[k]}
<1>5. Differ = {}
  <2>1. SUFFICES ASSUME Differ # {} PROVE FALSE
    OBVIOUS
  <2>2. PICK m \in Differ : \A j \in Differ : m <= j
    <3>1. Differ \subseteq Nat
      BY <1>1
    <3> QED
      BY <2>1, <3>1, SmallestNat
  <2>3. m \in 0..Count /\ LineEnd[m] # f[m]
    BY <2>2
  <2>4. m # 0
    BY <1>1, <1>2, <1>4, <2>3
  <2>5. m - 1 \in 0..Count /\ ~(m <= m - 1) /\ m \in 1..Count
    BY <1>1, <2>3, <2>4
  <2>6. LineEnd[m - 1] = f[m - 1]
    BY <2>2, <2>5
  <2>7. LineEnd[m] = LineEnd[m - 1] + Lines[m].size + 2
    BY <1>4, <2>3, <2>4
  <2> QED
    BY <1>2, <2>3, <2>5, <2>6, <2>7
<1>6. LineEnd = f
  <2>1. DOMAIN LineEnd = 0..Count
    BY <1>4
  <2>2. LineEnd = [k \in 0..Count |-> LineEnd[k]]
    BY <1>4
  <2>3. \A k \in 0..Count : LineEnd[k] = f[k]
    BY <1>5
  <2>4. f = [k \in 0..Count |-> f[k]]
    BY <1>2
  <2> QED
    BY <2>2, <2>3, <2>4
<1> QED
  BY <1>2, <1>6

\* Later lines end later, by two bytes at least.
LEMMA LineEndGrows ==
    ASSUME request \in Requests, NEW j \in 0..Count, NEW k \in 0..Count, j < k
    PROVE  LineEnd[j] + 2 <= LineEnd[k]
<1>1. /\ Count \in Nat /\ LineEnd \in [0..Count -> Nat]
      /\ \A n \in 1..Count : Lines[n].size \in Nat
      /\ \A n \in 1..Count : LineEnd[n] = LineEnd[n - 1] + Lines[n].size + 2
  BY LinesFacts, LineEndFacts
<1> DEFINE Short == {n \in 0..Count : j < n /\ ~(LineEnd[j] + 2 <= LineEnd[n])}
<1>2. SUFFICES ASSUME Short # {} PROVE FALSE
  OBVIOUS
<1>3. PICK m \in Short : \A n \in Short : m <= n
  <2>1. Short \subseteq Nat
    BY <1>1
  <2> QED
    BY <1>2, <2>1, SmallestNat
<1>4. m \in 1..Count /\ m - 1 \in 0..Count /\ j <= m - 1 /\ ~(m <= m - 1)
  <2>1. m \in 0..Count /\ j < m
    BY <1>3
  <2> QED
    BY <1>1, <2>1
<1>5. m - 1 \notin Short
  <2> HIDE DEF Short
  <2> QED
    BY <1>3, <1>4
<1>6. LineEnd[j] \in Nat /\ LineEnd[m - 1] \in Nat /\ LineEnd[j] <= LineEnd[m - 1]
  <2>1. LineEnd[j] \in Nat /\ LineEnd[m - 1] \in Nat
    BY <1>1, <1>4
  <2>2. CASE j = m - 1
    BY <2>1, <2>2
  <2>3. CASE j # m - 1
    <3>1. j < m - 1
      BY <1>1, <1>4, <2>3
    <3>2. LineEnd[j] + 2 <= LineEnd[m - 1]
      BY <1>4, <1>5, <3>1
    <3> QED
      BY <2>1, <3>2
  <2> QED
    BY <2>2, <2>3
<1>7. LineEnd[m] >= LineEnd[m - 1] + 2
  <2>1. LineEnd[m] = LineEnd[m - 1] + Lines[m].size + 2
    BY <1>1, <1>4
  <2>2. Lines[m].size \in Nat
    BY <1>1, <1>4
  <2> QED
    BY <1>6, <2>1, <2>2
<1>8. ~(LineEnd[j] + 2 <= LineEnd[m]) /\ LineEnd[m] \in Nat
  BY <1>1
<1> QED
  BY <1>6, <1>7, <1>8

\* The same for all lines at once.
LEMMA LineEndOrder ==
    ASSUME request \in Requests
    PROVE  \A j, k \in 0..Count : /\ j < k => LineEnd[j] + 2 <= LineEnd[k]
                                  /\ j <= k => LineEnd[j] <= LineEnd[k]
<1>1. Count \in Nat /\ LineEnd \in [0..Count -> Nat]
  BY LinesFacts, LineEndFacts
<1> SUFFICES ASSUME NEW j \in 0..Count, NEW k \in 0..Count
    PROVE  /\ j < k => LineEnd[j] + 2 <= LineEnd[k]
           /\ j <= k => LineEnd[j] <= LineEnd[k]
  OBVIOUS
<1>2. LineEnd[j] \in Nat /\ LineEnd[k] \in Nat
  BY <1>1
<1>3. CASE j < k
  BY <1>2, <1>3, LineEndGrows
<1>4. CASE ~(j < k)
  <2>1. j <= k => j = k
    BY <1>1, <1>4
  <2> QED
    BY <1>2, <1>4, <2>1
<1> QED
  BY <1>3, <1>4

----------------------------------------------------------------------------
(* What a turn of the loop finds.                                           *)

\* The types, in the form the arithmetic below uses.
LEMMA Places ==
    ASSUME HttpTypes, HeadersRead
    PROVE  /\ Count \in Nat /\ Read \in 0..Count
           /\ LineEnd \in [0..Count -> Nat] /\ LineEnd[Read] \in Nat /\ LineEnd[Count] \in Nat
           /\ LineEnd[Read] <= LineEnd[Count]
           /\ Sent = LineEnd[Count] + request.more /\ request.more \in Nat
           /\ Read < Count =>
                 /\ Read + 1 \in 1..Count /\ LineEnd[Read + 1] \in Nat
                 /\ LineEnd[Read + 1] = LineEnd[Read] + Lines[Read + 1].size + 2
                 /\ LineEnd[Read + 1] <= LineEnd[Count]
<1>1. /\ Count \in Nat /\ request.more \in Nat
      /\ LineEnd \in [0..Count -> Nat]
      /\ \A k \in 1..Count : LineEnd[k] = LineEnd[k - 1] + Lines[k].size + 2
  BY LinesFacts, LineEndFacts DEF HttpTypes
<1>2. Read \in 0..Count
  BY <1>1 DEF HttpTypes, HeadersRead, Read
<1>3. Sent = LineEnd[Count] + request.more
  BY DEF Sent, Count, Lines
<1>4. LineEnd[Read] \in Nat /\ LineEnd[Count] \in Nat /\ LineEnd[Read] <= LineEnd[Count]
  BY <1>1, <1>2, LineEndOrder DEF HttpTypes
<1>5. ASSUME Read < Count
      PROVE  /\ Read + 1 \in 1..Count /\ LineEnd[Read + 1] \in Nat
             /\ LineEnd[Read + 1] = LineEnd[Read] + Lines[Read + 1].size + 2
             /\ LineEnd[Read + 1] <= LineEnd[Count]
  <2>1. Read + 1 \in 1..Count /\ (Read + 1) - 1 = Read /\ Read + 1 \in 0..Count
    BY <1>1, <1>2, <1>5
  <2>2. LineEnd[Read + 1] \in Nat
    BY <1>1, <2>1
  <2>3. LineEnd[Read + 1] <= LineEnd[Count]
    BY <1>1, <2>1, LineEndOrder DEF HttpTypes
  <2>4. LineEnd[Read + 1] = LineEnd[Read] + Lines[Read + 1].size + 2
    BY <1>1, <2>1
  <2> QED
    BY <2>1, <2>2, <2>3, <2>4
<1> QED
  BY <1>1, <1>2, <1>3, <1>4, <1>5

\* The delimiters in the buffer are those of lines that were not processed, and
\* if there is one at all then that of the next line is there.
LEMMA InBufferFacts ==
    ASSUME HttpTypes, HeadersRead, begin = LineEnd[Read]
    PROVE  /\ \A d \in InBuffer : Read < Count /\ LineEnd[Read + 1] - 2 <= d
           /\ InBuffer # {} => LineEnd[Read + 1] <= transferred
           /\ Read < Count /\ LineEnd[Read + 1] <= transferred =>
                 LineEnd[Read + 1] - 2 \in InBuffer
<1>1. /\ Count \in Nat /\ Read \in 0..Count /\ DOMAIN Lines = 1..Count
      /\ LineEnd \in [0..Count -> Nat] /\ LineEnd[Read] \in Nat
      /\ transferred \in Nat /\ request \in Requests
  BY Places, LinesFacts DEF HttpTypes
<1>2. ASSUME NEW d \in InBuffer
      PROVE  /\ Read < Count /\ LineEnd[Read + 1] - 2 <= d
             /\ LineEnd[Read + 1] <= transferred
  <2>1. PICK k \in 1..Count : d = LineEnd[k] - 2
    BY <1>1 DEF InBuffer, Delimiters, DelimiterSize, Lines
  <2>2. begin <= d /\ d + 2 <= transferred
    BY DEF InBuffer, DelimiterSize
  <2>3. k \in 0..Count /\ LineEnd[k] \in Nat
    BY <1>1
  <2>4. ~(k <= Read)
    <3>1. SUFFICES ASSUME k <= Read PROVE FALSE
      OBVIOUS
    <3>2. LineEnd[k] <= LineEnd[Read]
      BY <1>1, <2>3, <3>1, LineEndOrder
    <3> QED
      BY <1>1, <2>1, <2>2, <2>3, <3>2
  <2>5. Read < Count /\ Read + 1 \in 0..Count /\ Read + 1 <= k
    BY <1>1, <2>3, <2>4
  <2>6. LineEnd[Read + 1] <= LineEnd[k] /\ LineEnd[Read + 1] \in Nat
    BY <1>1, <2>3, <2>5, LineEndOrder
  <2> QED
    BY <1>1, <2>1, <2>2, <2>3, <2>5, <2>6
<1>3. ASSUME Read < Count, LineEnd[Read + 1] <= transferred
      PROVE  LineEnd[Read + 1] - 2 \in InBuffer
  <2>1. /\ Read + 1 \in 1..Count /\ LineEnd[Read + 1] \in Nat
        /\ LineEnd[Read + 1] = LineEnd[Read] + Lines[Read + 1].size + 2
        /\ Lines[Read + 1].size \in Nat
    BY <1>1, <1>3, Places, LinesFacts
  <2>2. LineEnd[Read + 1] - 2 \in Delimiters
    BY <1>1, <2>1 DEF Delimiters, DelimiterSize, Lines
  <2>3. begin <= LineEnd[Read + 1] - 2 /\ (LineEnd[Read + 1] - 2) + 2 <= transferred
    BY <1>1, <1>3, <2>1
  <2> QED
    BY <2>2, <2>3 DEF InBuffer, DelimiterSize
<1> QED
  BY <1>2, <1>3

\* What is found in the buffer is the next line.
LEMMA NextLine ==
    ASSUME HttpTypes, HeadersRead, begin = LineEnd[Read], InBuffer # {}
    PROVE  /\ Read < Count /\ Line = Lines[Read + 1]
           /\ End = LineEnd[Read + 1] - 2 /\ End - begin = Lines[Read + 1].size
           /\ LineEnd[Read + 1] <= transferred
<1>1. /\ Read < Count /\ LineEnd[Read + 1] <= transferred
      /\ LineEnd[Read + 1] - 2 \in InBuffer
      /\ \A d \in InBuffer : LineEnd[Read + 1] - 2 <= d
  BY InBufferFacts
<1>2. /\ Count \in Nat /\ Read \in 0..Count /\ DOMAIN Lines = 1..Count
      /\ LineEnd \in [0..Count -> Nat] /\ LineEnd[Read] \in Nat
      /\ Read + 1 \in 1..Count /\ LineEnd[Read + 1] \in Nat
      /\ LineEnd[Read + 1] = LineEnd[Read] + Lines[Read + 1].size + 2
      /\ Lines[Read + 1].size \in Nat /\ request \in Requests
  BY <1>1, Places, LinesFacts DEF HttpTypes
<1>3. End = LineEnd[Read + 1] - 2
  <2>1. InBuffer \subseteq Int
    <3>1. ASSUME NEW d \in InBuffer PROVE d \in Int
      <4>1. PICK k \in 1..Count : d = LineEnd[k] - 2
        BY <1>2 DEF InBuffer, Delimiters, DelimiterSize, Lines
      <4>2. LineEnd[k] \in Nat
        BY <1>2
      <4> QED
        BY <4>1, <4>2
    <3> QED
      BY <3>1
  <2>2. End \in InBuffer /\ \A e \in InBuffer : End <= e
    <3>1. \E d \in InBuffer : \A e \in InBuffer : d <= e
      BY <1>1
    <3> QED
      BY <3>1 DEF End
  <2>3. End <= LineEnd[Read + 1] - 2 /\ LineEnd[Read + 1] - 2 <= End
    BY <1>1, <2>2
  <2>4. End \in Int /\ LineEnd[Read + 1] - 2 \in Int
    BY <1>1, <2>1, <2>2
  <2> QED
    BY <2>3, <2>4
<1>4. LinesAt = {Read + 1}
  <2> DEFINE n == Read + 1
  <2>1. n \in LinesAt
    <3>1. n \in DOMAIN Lines /\ n - 1 = Read
      BY <1>2
    <3>2. LineEnd[n - 1] = begin
      BY <3>1
    <3>3. LineEnd[n] = End + 2
      BY <1>2, <1>3
    <3> QED
      BY <3>1, <3>2, <3>3 DEF LinesAt, DelimiterSize, Lines
  <2>2. ASSUME NEW k \in LinesAt PROVE k = Read + 1
    <3>1. k \in 1..Count /\ LineEnd[k] = End + 2
      BY <1>2 DEF LinesAt, DelimiterSize, Lines
    <3>3. LineEnd[k] = LineEnd[Read + 1] /\ LineEnd[k] \in Nat
      BY <1>2, <1>3, <3>1
    <3>2. ~(k < Read + 1) /\ ~(Read + 1 < k)
      BY <1>2, <3>1, <3>3, LineEndOrder
    <3> QED
      BY <1>2, <3>1, <3>2
  <2> QED
    BY <2>1, <2>2
<1>5. Line = Lines[Read + 1]
  BY <1>4 DEF Line, Lines
<1>6. End - begin = Lines[Read + 1].size
  BY <1>2, <1>3
<1> QED
  BY <1>1, <1>3, <1>5, <1>6

\* Whether there was a method before, from one line to the next.
LEMMA NoneBeforeFacts ==
    ASSUME NEW n \in Nat
    PROVE  /\ NoneBefore(n + 1) => \A k \in 1..(n + 1) : NoneBefore(k)
           /\ n > 0 => (NoneBefore(n + 1) <=> NoneBefore(n) /\ Lines[n].as_request # "method")
<1>1. ASSUME NoneBefore(n + 1), NEW k \in 1..(n + 1) PROVE NoneBefore(k)
  <2>1. \A j \in 1..(k - 1) : j \in 1..((n + 1) - 1)
    OBVIOUS
  <2> QED
    BY <1>1, <2>1 DEF NoneBefore
<1>2. ASSUME n > 0
      PROVE  NoneBefore(n + 1) <=> NoneBefore(n) /\ Lines[n].as_request # "method"
  <2>1. \A j : j \in 1..((n + 1) - 1) <=> j \in 1..(n - 1) \/ j = n
    BY <1>2
  <2> QED
    BY <2>1 DEF NoneBefore
<1> QED
  BY <1>1, <1>2

\* The header lines are those in front of the blank one.
LEMMA HeaderShape ==
    ASSUME request \in Requests
    PROVE  /\ Complete <=> Count > 0 /\ Lines[Count].size = 0
           /\ Len(HeaderLines) = IF Complete THEN Count - 1 ELSE Count
           /\ DOMAIN HeaderLines = 1..Len(HeaderLines)
           /\ \A k \in DOMAIN HeaderLines : /\ k \in 1..Count /\ HeaderLines[k] = Lines[k]
                                            /\ NoMethodBefore(k) <=> NoneBefore(k)
           /\ \A k \in 1..Count : Lines[k].size # 0 => k \in DOMAIN HeaderLines
<1>1. /\ Lines \in Seq(Range(Lines)) /\ Count \in Nat /\ DOMAIN Lines = 1..Count
      /\ Lines # <<>> <=> Count > 0
  <2>1. Lines \in Seq(Range(Lines)) /\ Count \in Nat /\ DOMAIN Lines = 1..Count
    BY LinesFacts
  <2>2. Lines # <<>> <=> Count # 0
    BY <2>1, EmptySeq DEF Count
  <2> QED
    BY <2>1, <2>2
<1>2. Complete <=> Count > 0 /\ Lines[Count].size = 0
  BY <1>1 DEF Complete, Last, Count
<1>3. /\ Len(HeaderLines) = IF Complete THEN Count - 1 ELSE Count
      /\ DOMAIN HeaderLines = 1..Len(HeaderLines)
      /\ \A k \in DOMAIN HeaderLines : k \in 1..Count /\ HeaderLines[k] = Lines[k]
      /\ \A k \in 1..Count : Lines[k].size # 0 => k \in DOMAIN HeaderLines
  <2>1. CASE Complete
    <3>1. Count > 0 /\ Lines[Count].size = 0 /\ HeaderLines = SubSeq(Lines, 1, Count - 1)
      BY <1>2, <2>1 DEF HeaderLines, Front, Count
    <3>2. /\ Len(HeaderLines) = Count - 1 /\ DOMAIN HeaderLines = 1..(Count - 1)
          /\ \A k \in 1..(Count - 1) : HeaderLines[k] = Lines[k]
      BY <1>1, <3>1 DEF Count
    <3>3. \A k \in 1..Count : Lines[k].size # 0 => k \in 1..(Count - 1)
      BY <1>1, <3>1
    <3> QED
      BY <1>1, <2>1, <3>2, <3>3
  <2>2. CASE ~Complete
    BY <1>1, <1>2, <2>2 DEF HeaderLines, Count
  <2> QED
    BY <2>1, <2>2
<1>4. ASSUME NEW k \in DOMAIN HeaderLines PROVE NoMethodBefore(k) <=> NoneBefore(k)
  <2>1. k \in 1..Len(HeaderLines) /\ Len(HeaderLines) \in Nat
    BY <1>1, <1>3
  <2>2. \A j \in 1..(k - 1) : j \in 1..Len(HeaderLines)
    BY <2>1
  <2>3. \A j \in 1..(k - 1) : HeaderLines[j] = Lines[j]
    BY <1>3, <2>2
  <2> QED
    BY <2>3 DEF NoMethodBefore, NoneBefore
<1> QED
  BY <1>2, <1>3, <1>4

\* Of some Content-Length headers one is the first.
LEMMA FirstLengthFacts ==
    ASSUME HttpTypes, Has("length")
    PROVE  /\ FirstLength \in 1..Len(m_headers)
           /\ m_headers[FirstLength].as_header = "length"
           /\ \A j \in 1..(FirstLength - 1) : m_headers[j].as_header # "length"
<1> DEFINE L == {k \in 1..Len(m_headers) : m_headers[k].as_header = "length"}
<1>1. Len(m_headers) \in Nat /\ DOMAIN m_headers = 1..Len(m_headers)
  BY LenProperties DEF HttpTypes
<1>2. L # {}
  BY <1>1 DEF Has
<1>3. PICK i \in L : \A j \in L : i <= j
  <2>1. L \subseteq Nat
    OBVIOUS
  <2> HIDE DEF L
  <2> QED
    BY <1>2, <2>1, SmallestNat
<1>4. i \in DOMAIN m_headers /\ m_headers[i].as_header = "length"
  BY <1>1
<1>5. ASSUME NEW j \in 1..(i - 1) PROVE m_headers[j].as_header # "length"
  <2>1. j \in 1..Len(m_headers) /\ ~(i <= j)
    BY <1>1, <1>4
  <2> QED
    BY <1>3, <2>1
<1> QED
  BY <1>1, <1>4, <1>5 DEF FirstLength

\* At the blank line the header is complete, and what was kept is what it says.
LEMMA HeaderDone ==
    ASSUME HttpTypes, HeadersRead, Read < Count, Lines[Read + 1].size = 0
    PROVE  /\ Complete /\ Read + 1 = Count
           /\ \A kind : Has(kind) <=> Headers(kind) # {}
           /\ BodySize = IF Has("length") THEN ContentLength ELSE 0
           /\ BodySize \in Nat
           /\ m_method = "empty" => Headers("host") = {}
           /\ \A k \in DOMAIN HeaderLines : Wellformed(HeaderLines[k], NoMethodBefore(k))
<1> DEFINE start == Read - Len(m_headers)
<1>1. /\ Count \in Nat /\ Read \in Nat
      /\ Read + 1 \in 1..Count /\ request \in Requests
  BY Places DEF HttpTypes
<1>2. Read + 1 = Count /\ Complete
  <2>1. Read + 1 = Count
    BY <1>1, LinesFacts
  <2>2. Count > 0 /\ Lines[Count].size = 0
    BY <1>1, <2>1
  <2> QED
    BY <1>1, <2>1, <2>2, HeaderShape
<1>3. /\ DOMAIN HeaderLines = 1..Read
      /\ \A k \in 1..Read : HeaderLines[k] = Lines[k] /\ (NoMethodBefore(k) <=> NoneBefore(k))
  <2>1. DOMAIN HeaderLines = 1..(Count - 1)
    BY <1>1, <1>2, HeaderShape
  <2>2. Count - 1 = Read
    BY <1>1, <1>2
  <2> QED
    BY <1>1, <2>1, <2>2, HeaderShape
<1>4. /\ Len(m_headers) \in Nat /\ DOMAIN m_headers = 1..Len(m_headers)
      /\ start \in Nat /\ start + Len(m_headers) = Read
  BY <1>1, LenProperties DEF HttpTypes, HeadersRead, HeadersKept
<1>5. /\ \A k \in 1..Read : NoneBefore(k) <=> k <= start
      /\ \A j \in 1..Len(m_headers) : m_headers[j] = Lines[start + j]
  BY DEF HeadersRead, HeadersKept
<1> HIDE DEF start
<1>6. \A kind : \A j \in 1..Len(m_headers) :
          m_headers[j].as_header = kind => start + j \in Headers(kind)
  <2> SUFFICES ASSUME NEW kind, NEW j \in 1..Len(m_headers), m_headers[j].as_header = kind
               PROVE  start + j \in Headers(kind)
    OBVIOUS
  <2>1. start + j \in 1..Read /\ ~(start + j <= start)
    BY <1>4
  <2> QED
    BY <1>3, <1>5, <2>1 DEF Headers
<1>7. \A kind : \A k \in Headers(kind) :
          /\ k \in 1..Read /\ k - start \in 1..Len(m_headers) /\ start + (k - start) = k
          /\ m_headers[k - start].as_header = kind
  <2> SUFFICES ASSUME NEW kind, NEW k \in Headers(kind)
               PROVE  /\ k \in 1..Read /\ k - start \in 1..Len(m_headers)
                      /\ start + (k - start) = k
                      /\ m_headers[k - start].as_header = kind
    OBVIOUS
  <2>1. k \in 1..Read /\ ~NoneBefore(k) /\ Lines[k].as_header = kind
    BY <1>3 DEF Headers
  <2>2. ~(k <= start)
    BY <1>5, <2>1
  <2>3. k - start \in 1..Len(m_headers) /\ start + (k - start) = k
    BY <1>1, <1>4, <2>1, <2>2
  <2> QED
    BY <1>5, <2>1, <2>3
<1>8. \A kind : Has(kind) <=> Headers(kind) # {}
  BY <1>4, <1>6, <1>7 DEF Has
<1>9. ASSUME ~Has("length") PROVE BodySize = 0
  BY <1>8, <1>9 DEF BodySize
<1>10. ASSUME Has("length") PROVE BodySize = ContentLength /\ BodySize \in Nat
  <2>1. /\ FirstLength \in 1..Len(m_headers)
        /\ m_headers[FirstLength].as_header = "length"
        /\ \A j \in 1..(FirstLength - 1) : m_headers[j].as_header # "length"
    BY <1>10, FirstLengthFacts
  <2> DEFINE first == start + FirstLength
  <2>2. first \in Headers("length") /\ first \in 1..Read
    BY <1>6, <1>7, <2>1
  <2>3. ASSUME NEW k \in Headers("length") PROVE first <= k
    <3>1. k - start \in 1..Len(m_headers) /\ m_headers[k - start].as_header = "length" /\ k \in 1..Read
      BY <1>7
    <3>2. ~(k - start \in 1..(FirstLength - 1))
      BY <2>1, <3>1
    <3> QED
      BY <1>4, <2>1, <3>1, <3>2
  <2>4. (CHOOSE k \in Headers("length") : \A j \in Headers("length") : k <= j) = first
    <3> DEFINE chosen == CHOOSE k \in Headers("length") : \A j \in Headers("length") : k <= j
    <3>1. chosen \in Headers("length") /\ \A j \in Headers("length") : chosen <= j
      BY <2>2, <2>3
    <3>2. chosen <= first /\ first <= chosen
      BY <2>2, <2>3, <3>1
    <3>3. chosen \in 1..Read
      BY <1>7, <3>1
    <3> HIDE DEF chosen, first
    <3>4. chosen = first
      BY <1>1, <2>2, <3>2, <3>3
    <3> QED
      BY <3>4 DEF chosen
  <2>5. HeaderLines[first] = m_headers[FirstLength]
    BY <1>3, <1>5, <2>1, <2>2
  <2>6. BodySize = HeaderLines[first].n
    <3> HIDE DEF first
    <3> QED
      BY <2>2, <2>4 DEF BodySize
  <2>7. BodySize = ContentLength
    BY <2>5, <2>6 DEF ContentLength
  <2>8. first \in 1..Count /\ m_headers[FirstLength] = Lines[first]
    BY <1>1, <1>5, <2>1, <2>2
  <2>9. ContentLength \in Nat
    BY <1>1, <2>1, <2>8, LinesFacts DEF ContentLength
  <2> QED
    BY <2>7, <2>9
<1>11. ASSUME m_method = "empty" PROVE Headers("host") = {}
  <2>1. \A k \in 1..(Read + 1) : NoneBefore(k)
    BY <1>1, <1>11, NoneBeforeFacts DEF HeadersRead
  <2>2. \A k \in 1..Read : k \in 1..(Read + 1)
    BY <1>1
  <2> QED
    BY <1>3, <2>1, <2>2 DEF Headers
<1>12. \A k \in DOMAIN HeaderLines : Wellformed(HeaderLines[k], NoMethodBefore(k))
  <2>1. ASSUME NEW k \in 1..Read PROVE Wellformed(HeaderLines[k], NoMethodBefore(k))
    <3>1. Wellformed(Lines[k], NoneBefore(k))
      BY DEF HeadersRead
    <3> QED
      BY <1>3, <3>1 DEF Wellformed
  <2> QED
    BY <1>3, <2>1
<1> QED
  BY <1>2, <1>8, <1>9, <1>10, <1>11, <1>12

\* process_body takes what is needed or all there is.
LEMMA ProcessBodyFacts ==
    ASSUME NEW start \in Nat, NEW needed \in Nat, transferred \in Nat, start <= transferred,
           ProcessBody(start, needed)
    PROVE  \E p \in 0..needed :
              /\ start + p <= transferred
              /\ m_body' = m_body + p /\ m_body_bytes_needed' = needed - p
              /\ begin' = start + p
              /\ \/ p = needed /\ http' = "ready" /\ m_buf_cursor' = transferred - (start + p)
                 \/ /\ p < needed /\ http' = "read" /\ m_buf_cursor' = m_buf_cursor
                    /\ start + p = transferred
<1> DEFINE room == {n \in 0..needed : start + n <= transferred}
           most == IF needed <= transferred - start THEN needed ELSE transferred - start
           processed == CHOOSE n \in room : \A k \in room : k <= n
<1>1. most \in room /\ \A k \in room : k <= most
  OBVIOUS
<1>2. processed \in room /\ \A k \in room : k <= processed
  <2> HIDE DEF room, most
  <2> QED
    BY <1>1
<1>3. processed = most
  BY <1>1, <1>2
<1>4. /\ m_body' = m_body + processed
      /\ m_body_bytes_needed' = needed - processed
      /\ begin' = start + processed
      /\ IF processed = needed THEN Ready(start + processed)
         ELSE http' = "read" /\ UNCHANGED m_buf_cursor
  BY DEF ProcessBody
<1> HIDE DEF processed
<1>5. processed \in 0..needed /\ start + processed <= transferred
  BY <1>2
<1>6. CASE processed = needed
  BY <1>4, <1>5, <1>6 DEF Ready
<1>7. CASE processed # needed
  <2>1. processed < needed /\ start + processed = transferred
    BY <1>3, <1>5, <1>7
  <2> QED
    BY <1>4, <1>5, <1>7, <2>1
<1> QED
  BY <1>6, <1>7

----------------------------------------------------------------------------
(* The invariant.                                                           *)

\* What is said of the request depends on nothing that is read.
LEMMA SameRequest ==
    ASSUME request' = request
    PROVE  /\ LineEnd' = LineEnd /\ Lines' = Lines /\ Count' = Count /\ Sent' = Sent
           /\ Complete' = Complete /\ HeaderLines' = HeaderLines
           /\ BodySize' = BodySize /\ HeadSize' = HeadSize /\ Meaning' = Meaning
<1>1. LineEnd' = LineEnd
  BY DEF LineEnd
<1>2. Lines' = Lines /\ Count' = Count
  BY DEF Lines, Count
<1>3. Sent' = Sent
  BY <1>1 DEF Sent
<1>4. Complete' = Complete
  BY <1>2 DEF Complete
<1>5. HeaderLines' = HeaderLines
  BY <1>2, <1>4 DEF HeaderLines
<1>6. /\ \A k : NoMethodBefore(k)' <=> NoMethodBefore(k)
      /\ \A kind : Headers(kind)' = Headers(kind)
      /\ BodySize' = BodySize
  BY <1>5 DEF BodySize, Headers, NoMethodBefore
<1>7. HeadSize' = HeadSize
  BY <1>1, <1>2, <1>4 DEF HeadSize
<1>8. Meaning' = Meaning
  BY <1>4, <1>5, <1>6 DEF Meaning, Headers, NoMethodBefore
<1> QED
  BY <1>1, <1>2, <1>3, <1>4, <1>5, <1>6, <1>7, <1>8

\* What was kept of the header lines is still what it was.
LEMMA SameHeaders ==
    ASSUME HeadersRead, UNCHANGED <<request, parsed>>
    PROVE  HeadersRead' /\ Read' = Read /\ m_method' = m_method /\ m_headers' = m_headers
<1>1. /\ Lines' = Lines /\ Count' = Count /\ Read' = Read
      /\ m_method' = m_method /\ m_headers' = m_headers
  BY SameRequest DEF parsed, Read
<1>2. HeadersRead'
  BY <1>1 DEF HeadersRead, HeadersKept, NoneBefore
<1> QED
  BY <1>1, <1>2

\* Nothing has been read.
LEMMA InitInv == HttpInit => HttpInv
<1> SUFFICES ASSUME HttpInit PROVE HttpInv
  OBVIOUS
<1> USE DEF HttpInit
<1>1. /\ request \in Requests /\ Count \in Nat /\ request.more \in Nat
      /\ LineEnd \in [0..Count -> Nat] /\ LineEnd[0] = 0
      /\ Sent = LineEnd[Count] + request.more
  BY LinesFacts, LineEndFacts DEF Sent, Count, Lines
<1>2. Read = 0 /\ m_headers \in Seq(Range(Lines)) /\ Len(m_headers) = 0
  BY EmptySeq DEF Read
<1>3. LineEnd[Count] \in Nat /\ Sent \in Nat
  BY <1>1
<1>4. HttpTypes
  BY <1>1, <1>2, <1>3 DEF HttpTypes, Read
<1>5. HeadersRead
  BY <1>1, <1>2 DEF HeadersRead, HeadersKept, NoneBefore
<1>6. InHead
  <2>1. Read < Count => transferred < LineEnd[Read + 1]
    BY <1>2, <1>4, <1>5, LinesFacts, Places
  <2> QED
    BY <1>1, <1>2, <2>1 DEF InHead
<1>7. InBody
  BY DEF InBody
<1>8. RequestRead
  <2>1. ASSUME transferred = Sent PROVE Meaning = "unfinished"
    <3>1. Count = 0
      <4>1. SUFFICES ASSUME Count > 0 PROVE FALSE
        BY <1>1
      <4>2. LineEnd[0] + 2 <= LineEnd[Count]
        BY <1>1, <4>1, LineEndOrder
      <4> QED
        BY <1>1, <1>3, <2>1, <4>2
    <3>2. ~Complete /\ Len(HeaderLines) = 0 /\ DOMAIN HeaderLines = {}
      BY <1>1, <3>1, HeaderShape
    <3> QED
      BY <3>2 DEF Meaning
  <2> QED
    BY <2>1 DEF RequestRead
<1> QED
  BY <1>4, <1>5, <1>6, <1>7, <1>8 DEF HttpInv

\* The transport gives consume more bytes.
LEMMA ReadHandshakeInv == ASSUME HttpInv, ReadHandshake PROVE HttpInv'
<1> USE DEF ReadHandshake, HttpInv
<1>1. /\ request' = request /\ Sent' = Sent /\ Lines' = Lines /\ Count' = Count
      /\ LineEnd' = LineEnd /\ Meaning' = Meaning /\ BodySize' = BodySize /\ Read' = Read
  BY SameRequest DEF Read, parsed
<1>2. HttpTypes'
  <2>1. Sent \in Int
    BY Places
  <2> QED
    BY <1>1, <2>1 DEF HttpTypes, body, parsed
<1>3. HeadersRead'
  BY SameHeaders
<1>4. InHead'
  BY <1>1 DEF InHead, body, HttpTypes
<1>5. InBody'
  BY <1>1 DEF InBody, body
<1>6. RequestRead'
  BY DEF RequestRead
<1> QED
  BY <1>2, <1>3, <1>4, <1>5, <1>6

\* An exception, if it is the error in the request, or the limit was passed.
LEMMA ThrowInv ==
    ASSUME HttpInv, NEW e, Throw(e), UNCHANGED reads,
           e # "too_large" => e = Meaning,
           e = "too_large" => HeadSize + Count + 3 * reads > max_header_size
    PROVE  HttpInv'
<1> USE DEF Throw, buffered, parsed, body, HttpInv
<1>1. /\ request' = request /\ Sent' = Sent /\ Lines' = Lines /\ Count' = Count
      /\ LineEnd' = LineEnd /\ Meaning' = Meaning /\ HeadSize' = HeadSize /\ Read' = Read
  BY SameRequest DEF Read, parsed
<1>2. HttpTypes'
  BY <1>1 DEF HttpTypes
<1>3. HeadersRead'
  BY SameHeaders
<1>4. InHead' /\ InBody'
  BY DEF InHead, InBody
<1>5. RequestRead'
  BY <1>1 DEF RequestRead, Count
<1> QED
  BY <1>2, <1>3, <1>4, <1>5

\* How much of the header the bytes that were counted stand for.
LEMMA HeadSizeFacts ==
    ASSUME HttpTypes, HeadersRead
    PROVE  /\ HeadSize \in Nat
           /\ LineEnd[Count] <= HeadSize
           /\ Read = Count => Sent = HeadSize
<1>1. /\ Count \in Nat /\ Read \in 0..Count /\ LineEnd[Count] \in Nat /\ request.more \in Nat
      /\ Sent = LineEnd[Count] + request.more /\ DOMAIN Lines = 1..Count
  BY Places, LinesFacts DEF HttpTypes
<1>2. HeadSize = LineEnd[Count] + IF Complete THEN 0 ELSE request.more
  BY DEF HeadSize, Count
<1>3. Read = Count => ~Complete
  <2>1. SUFFICES ASSUME Read = Count, Complete PROVE FALSE
    OBVIOUS
  <2>2. Count \in 1..Read /\ Lines[Count].size = 0
    BY <1>1, <2>1, HeaderShape DEF HttpTypes
  <2>3. Wellformed(Lines[Count], NoneBefore(Count))
    BY <2>2 DEF HeadersRead
  <2>4. Lines[Count].as_request = "bad" /\ Lines[Count].as_header = "bad"
    BY <1>1, <2>1, <2>2, LinesFacts DEF HttpTypes
  <2> QED
    BY <2>3, <2>4 DEF Wellformed
<1> QED
  BY <1>1, <1>2, <1>3

\* A line is processed, and kept if it is a header.
LEMMA KeepLine ==
    ASSUME HttpTypes, HeadersRead, ProcessLine, Wellformed(Line, m_method = "empty"),
           Read + 1 \in 1..Count, Line = Lines[Read + 1],
           Lines' = Lines, lines_processed' = lines_processed + 1
    PROVE  /\ Read' = Read + 1 /\ m_method' \in {"empty", "set"}
           /\ m_headers' \in Seq(Range(Lines)) /\ (m_method' = "empty" <=> NoneBefore(Read + 2))
           /\ HeadersKept'
<1>1. /\ Read' = Read + 1 /\ Read \in Nat /\ Count \in Nat /\ DOMAIN Lines = 1..Count
      /\ m_headers \in Seq(Range(Lines)) /\ Len(m_headers) \in Nat /\ Len(m_headers) <= Read
  BY LinesFacts, LenProperties DEF HttpTypes, HeadersRead, HeadersKept, Read
<1>2. /\ \A k \in 1..Read : NoneBefore(k) <=> k <= Read - Len(m_headers)
      /\ \A j \in 1..Len(m_headers) : m_headers[j] = Lines[(Read - Len(m_headers)) + j]
      /\ m_method = "empty" <=> NoneBefore(Read + 1)
  BY DEF HeadersRead, HeadersKept
<1>3. /\ NoneBefore(Read + 2) <=> NoneBefore(Read + 1) /\ Line.as_request # "method"
      /\ NoneBefore(Read + 1) => \A k \in 1..(Read + 1) : NoneBefore(k)
  <2>1. Read + 1 \in Nat /\ Read + 1 > 0 /\ (Read + 1) + 1 = Read + 2
    BY <1>1
  <2> QED
    BY <1>1, <2>1, NoneBeforeFacts
<1>4. \A k : NoneBefore(k)' <=> NoneBefore(k)
  BY DEF NoneBefore
<1>5. /\ \/ Throw("too_large")
         \/ IF m_method = "empty"
            THEN /\ m_method' = IF Line.as_request = "method" THEN "set" ELSE "empty"
                 /\ m_headers' = m_headers
            ELSE /\ m_headers' = Append(m_headers, Line)
                 /\ m_method' = m_method
      /\ ~Throw("too_large")
  <2>1. ~Throw("too_large")
    <3>1. lines_processed' # lines_processed
      BY DEF HttpTypes
    <3> QED
      BY <3>1 DEF Throw, parsed
  <2> QED
    BY <2>1 DEF ProcessLine
<1>6. CASE m_method = "empty"
  <2>1. m_headers' = m_headers /\ Len(m_headers) = 0
    <3>1. \A k \in 1..Read : NoneBefore(k)
      BY <1>1, <1>2, <1>3, <1>6
    <3>2. Read > 0 => Read <= Read - Len(m_headers)
      <4>1. Read > 0 => Read \in 1..Read
        BY <1>1
      <4> QED
        BY <1>2, <3>1, <4>1
    <3>3. Len(m_headers) = 0
      BY <1>1, <3>2
    <3> QED
      BY <1>5, <1>6, <3>3
  <2>2. HeadersKept'
    <3>1. \A k \in 1..Read' : k \in 1..(Read + 1) /\ k <= Read' - Len(m_headers')
      BY <1>1, <2>1
    <3>2. \A k \in 1..Read' : NoneBefore(k)'
      BY <1>2, <1>3, <1>4, <1>6, <3>1
    <3>3. Len(m_headers') <= Read' /\ \A j \in 1..Len(m_headers') : FALSE
      BY <1>1, <2>1
    <3> QED
      BY <3>1, <3>2, <3>3 DEF HeadersKept
  <2>3. m_method' \in {"empty", "set"} /\ (m_method' = "empty" <=> NoneBefore(Read + 2))
    BY <1>2, <1>3, <1>5, <1>6
  <2> QED
    BY <1>1, <2>1, <2>2, <2>3
<1>7. CASE m_method # "empty"
  <2>1. m_headers' = Append(m_headers, Line) /\ m_method' = m_method
    BY <1>5, <1>7
  <2>2. /\ m_headers' \in Seq(Range(Lines)) /\ Len(m_headers') = Len(m_headers) + 1
        /\ \A j \in 1..Len(m_headers) : m_headers'[j] = m_headers[j]
        /\ m_headers'[Len(m_headers) + 1] = Line
    <3>1. Line \in Range(Lines)
      BY <1>1 DEF Range
    <3> QED
      BY <1>1, <2>1, <3>1, AppendProperties
  <2>3. Read' - Len(m_headers') = Read - Len(m_headers) /\ Len(m_headers') <= Read'
    BY <1>1, <2>2
  <2>4. ASSUME NEW k \in 1..Read'
        PROVE  NoneBefore(k)' <=> k <= Read' - Len(m_headers')
    <3>1. CASE k = Read + 1
      <4>1. ~(k <= Read - Len(m_headers))
        BY <1>1, <3>1
      <4> QED
        BY <1>2, <1>4, <1>7, <2>3, <3>1, <4>1
    <3>2. CASE k # Read + 1
      <4>1. k \in 1..Read
        BY <1>1, <3>2
      <4> QED
        BY <1>2, <1>4, <2>3, <4>1
    <3> QED
      BY <3>1, <3>2
  <2>5. ASSUME NEW j \in 1..Len(m_headers')
        PROVE  m_headers'[j] = Lines[(Read' - Len(m_headers')) + j]
    <3>1. CASE j = Len(m_headers) + 1
      <4>1. (Read - Len(m_headers)) + j = Read + 1
        BY <1>1, <3>1
      <4> QED
        BY <2>2, <2>3, <3>1, <4>1
    <3>2. CASE j # Len(m_headers) + 1
      <4>1. j \in 1..Len(m_headers)
        BY <1>1, <2>2, <3>2
      <4> QED
        BY <1>2, <2>2, <2>3, <4>1
    <3> QED
      BY <3>1, <3>2
  <2>6. HeadersKept'
    BY <2>3, <2>4, <2>5 DEF HeadersKept
  <2> QED
    BY <1>1, <1>2, <1>3, <1>7, <2>1, <2>2, <2>6 DEF HttpTypes
<1> QED
  BY <1>6, <1>7

\* A line is processed.
LEMMA ProcessLineInv == ASSUME HttpInv, ProcessLine PROVE HttpInv'
<1> USE DEF HttpInv
<1> DEFINE size == Lines[Read + 1].size
<1>1. /\ http = "consume" /\ m_body_bytes_needed = 0 /\ InBuffer # {} /\ End > begin
      /\ begin = LineEnd[Read] /\ m_body = 0
      /\ m_header_bytes = LineEnd[Read] + Read + 3 * (reads - 1)
  BY DEF ProcessLine, InHeaders, InHead
<1>2. /\ Read < Count /\ Line = Lines[Read + 1]
      /\ End = LineEnd[Read + 1] - 2 /\ End - begin = size
      /\ LineEnd[Read + 1] <= transferred
  BY <1>1, NextLine
<1>3. /\ Count \in Nat /\ Read \in 0..Count /\ Read + 1 \in 1..Count
      /\ LineEnd[Read] \in Nat /\ LineEnd[Count] \in Nat /\ LineEnd[Read + 1] \in Nat
      /\ LineEnd[Read + 1] = LineEnd[Read] + size + 2
      /\ LineEnd[Read + 1] <= LineEnd[Count]
      /\ DOMAIN Lines = 1..Count /\ size \in Nat
  BY <1>2, Places, LinesFacts DEF HttpTypes
<1>4. HeaderBytes(End - begin) = LineEnd[Read + 1] + (Read + 1) + 3 * (reads - 1)
  <2>1. HeaderBytes(End - begin) = m_header_bytes + size + 3
    BY <1>2 DEF HeaderBytes, DelimiterSizeof
  <2>2. reads \in Nat
    BY DEF HttpTypes
  <2>3. m_header_bytes \in Nat /\ Read \in Nat /\ size \in Nat /\ LineEnd[Read] \in Nat
    BY <1>3 DEF HttpTypes
  <2>4. m_header_bytes = LineEnd[Read] + Read + 3 * (reads - 1)
    BY <1>1
  <2>5. LineEnd[Read + 1] = LineEnd[Read] + size + 2
    BY <1>3
  <2> HIDE DEF size
  <2>6. m_header_bytes + size + 3 = (LineEnd[Read] + size + 2) + (Read + 1) + 3 * (reads - 1)
    BY <2>2, <2>3, <2>4
  <2> QED
    BY <2>1, <2>5, <2>6
<1>5. /\ Read + 1 \in DOMAIN HeaderLines /\ HeaderLines[Read + 1] = Line
      /\ NoMethodBefore(Read + 1) <=> m_method = "empty"
  <2>1. size # 0
    BY <1>1, <1>2, <1>3
  <2> QED
    BY <1>2, <1>3, <2>1, HeaderShape DEF HttpTypes, HeadersRead
<1>6. Wellformed(Line, m_method = "empty") <=> Wellformed(Line, NoneBefore(Read + 1))
  BY DEF HeadersRead, Wellformed
<1>7. CASE HeaderBytes(End - begin) > max_header_size
  <2>1. Throw("too_large") /\ UNCHANGED reads
    BY <1>7 DEF ProcessLine
  <2>2. HeadSize + Count + 3 * reads > max_header_size
    <3>1. HeadSize \in Nat /\ LineEnd[Count] <= HeadSize
      BY HeadSizeFacts
    <3> QED
      BY <1>3, <1>4, <1>7, <3>1, LimitsAssumption DEF HttpTypes
  <2> QED
    BY <2>1, <2>2, ThrowInv
<1>8. CASE ~(HeaderBytes(End - begin) > max_header_size) /\ ~Wellformed(Line, m_method = "empty")
  <2>1. Throw("bad_request") /\ UNCHANGED reads
    BY <1>8 DEF ProcessLine
  <2>2. ~Wellformed(HeaderLines[Read + 1], NoMethodBefore(Read + 1))
    BY <1>5, <1>8 DEF Wellformed
  <2>3. Meaning = "bad_request"
    BY <1>5, <2>2 DEF Meaning
  <2> QED
    BY <2>1, <2>3, ThrowInv
<1>9. CASE ~(HeaderBytes(End - begin) > max_header_size) /\ Wellformed(Line, m_method = "empty")
  <2>1. /\ m_header_bytes' = HeaderBytes(End - begin)
        /\ lines_processed' = lines_processed + 1
        /\ begin' = End + DelimiterSize
        /\ UNCHANGED <<request, transferred, body, http, http_error, m_buf_cursor, reads>>
    BY <1>9 DEF ProcessLine
  <2>2. /\ request' = request /\ Sent' = Sent /\ Lines' = Lines /\ Count' = Count
        /\ LineEnd' = LineEnd
    BY <2>1, SameRequest
  <2>3. /\ Read' = Read + 1 /\ m_method' \in {"empty", "set"}
        /\ m_headers' \in Seq(Range(Lines)) /\ (m_method' = "empty" <=> NoneBefore(Read + 2))
        /\ HeadersKept'
    BY <1>2, <1>3, <1>9, <2>1, <2>2, KeepLine
  <2>4. begin' = LineEnd[Read + 1]
    BY <1>2, <1>3, <2>1 DEF DelimiterSize
  <2>5. HttpTypes'
    <3>1. m_header_bytes' \in Nat
      <4>1. m_header_bytes \in Nat
        BY DEF HttpTypes
      <4>2. m_header_bytes' = m_header_bytes + size + 3
        BY <1>2, <2>1 DEF HeaderBytes, DelimiterSizeof
      <4> QED
        BY <1>3, <4>1, <4>2
    <3> QED
      BY <1>1, <1>2, <1>3, <2>1, <2>2, <2>3, <2>4, <3>1 DEF HttpTypes, body, Read
  <2>6. HeadersRead'
    <3>1. ASSUME NEW k \in 1..(Read + 1)
          PROVE  Wellformed(Lines[k], NoneBefore(k))
      <4>1. CASE k = Read + 1
        BY <1>2, <1>6, <1>9, <4>1
      <4>2. CASE k # Read + 1
        <5>1. k \in 1..Read
          BY <1>3, <4>2
        <5> QED
          BY <5>1 DEF HeadersRead
      <4> QED
        BY <4>1, <4>2
    <3>2. Read + 1 <= Count /\ Read' + 1 = Read + 2
      BY <1>3, <2>3
    <3>3. \A k : NoneBefore(k)' <=> NoneBefore(k)
      BY <2>2 DEF NoneBefore
    <3>4. \A k \in 1..Read' : Wellformed(Lines[k], NoneBefore(k))'
      BY <2>2, <2>3, <3>1, <3>3 DEF Wellformed
    <3> QED
      BY <2>2, <2>3, <3>2, <3>3, <3>4 DEF HeadersRead
  <2>7. InHead'
    BY <1>1, <1>4, <2>1, <2>2, <2>3, <2>4 DEF InHead, body, parsed
  <2>8. InBody' /\ RequestRead'
    BY <1>1, <2>1 DEF InBody, RequestRead, body
  <2> QED
    BY <2>5, <2>6, <2>7, <2>8
<1> QED
  BY <1>7, <1>8, <1>9

\* There is no whole line left.
LEMMA OutOfBytesInv == ASSUME HttpInv, OutOfBytes PROVE HttpInv'
<1> USE DEF HttpInv
<1>1. /\ http = "consume" /\ m_body_bytes_needed = 0 /\ InBuffer = {}
      /\ begin = LineEnd[Read] /\ m_body = 0
      /\ m_header_bytes = LineEnd[Read] + Read + 3 * (reads - 1)
      /\ transferred \in Nat /\ begin \in Nat /\ reads \in Nat /\ begin <= transferred
      /\ transferred <= Sent
  BY DEF OutOfBytes, InHeaders, InHead, HttpTypes
<1>2. /\ Count \in Nat /\ Read \in 0..Count
      /\ LineEnd[Read] \in Nat /\ LineEnd[Count] \in Nat
      /\ Read < Count => LineEnd[Read + 1] \in Nat /\ LineEnd[Read + 1] <= LineEnd[Count]
      /\ Sent = LineEnd[Count] + request.more /\ request.more \in Nat
  BY Places
<1>3. Read < Count => transferred < LineEnd[Read + 1]
  <2>1. Read < Count => ~(LineEnd[Read + 1] <= transferred)
    BY <1>1, InBufferFacts
  <2> QED
    BY <1>1, <1>2, <2>1
<1>4. /\ HeaderBytes(transferred - begin) = transferred + Read + 3 * reads
      /\ HeaderBytes(transferred - begin) - (transferred - begin) = LineEnd[Read] + Read + 3 * reads
  BY <1>1, <1>2 DEF HeaderBytes, DelimiterSizeof
<1>5. CASE HeaderBytes(transferred - begin) > max_header_size
  <2>1. Throw("too_large") /\ UNCHANGED reads
    BY <1>5 DEF OutOfBytes
  <2>2. transferred <= HeadSize /\ HeadSize \in Nat
    <3>1. HeadSize \in Nat /\ LineEnd[Count] <= HeadSize /\ (Read = Count => Sent = HeadSize)
      BY HeadSizeFacts
    <3>2. CASE Read = Count
      BY <1>1, <3>1, <3>2
    <3>3. CASE Read < Count
      BY <1>1, <1>2, <1>3, <3>1, <3>3
    <3> QED
      BY <1>2, <3>1, <3>2, <3>3
  <2>3. HeadSize + Count + 3 * reads > max_header_size
    BY <1>1, <1>2, <1>4, <1>5, <2>2, LimitsAssumption
  <2> QED
    BY <2>1, <2>3, ThrowInv
<1>6. CASE ~(HeaderBytes(transferred - begin) > max_header_size)
  <2>1. /\ m_header_bytes' = HeaderBytes(transferred - begin) - (transferred - begin)
        /\ http' = "read"
        /\ UNCHANGED <<buffered, parsed, body, http_error, m_buf_cursor, reads>>
    BY <1>6 DEF OutOfBytes
  <2>2. /\ request' = request /\ Sent' = Sent /\ Lines' = Lines /\ Count' = Count
        /\ LineEnd' = LineEnd /\ Meaning' = Meaning /\ Read' = Read
        /\ transferred' = transferred /\ begin' = begin
    BY <2>1, SameRequest DEF buffered, Read, parsed
  <2>3. HttpTypes'
    <3>1. m_header_bytes' \in Nat
      BY <1>1, <1>2, <1>4, <2>1
    <3> QED
      BY <2>1, <2>2, <3>1 DEF HttpTypes, body, parsed
  <2>4. HeadersRead'
    BY <2>1, SameHeaders DEF buffered
  <2>5. InHead'
    BY <1>1, <1>3, <1>4, <2>1, <2>2 DEF InHead, body, parsed
  <2>6. InBody'
    BY <1>1, <2>1 DEF InBody, body
  <2>7. ASSUME transferred = Sent PROVE Meaning = "unfinished"
    <3>1. Read = Count
      BY <1>1, <1>2, <1>3, <2>7
    <3>2. \A k \in 1..Count : Wellformed(Lines[k], NoneBefore(k)) /\ Lines[k].size # 0
      BY <3>1, LinesFacts DEF HeadersRead, HttpTypes, Wellformed
    <3>3. ~Complete
      <4>1. Count > 0 => Count \in 1..Count
        BY <1>2
      <4> QED
        BY <3>2, <4>1, HeaderShape DEF HttpTypes
    <3>4. \A k \in DOMAIN HeaderLines : Wellformed(HeaderLines[k], NoMethodBefore(k))
      BY <3>2, HeaderShape DEF HttpTypes, Wellformed
    <3> QED
      BY <3>3, <3>4 DEF Meaning
  <2>8. RequestRead'
    BY <2>1, <2>2, <2>7 DEF RequestRead
  <2> QED
    BY <2>3, <2>4, <2>5, <2>6, <2>8
<1> QED
  BY <1>5, <1>6

\* Bytes of the body are taken, once the header is known to be that of a request
\* within its limit.
LEMMA BodyInv ==
    ASSUME HttpInv, NEW needed \in Nat,
           http = "consume", ProcessBody(LineEnd[Count] + m_body, needed),
           LineEnd[Count] + m_body <= transferred, m_body + needed = BodySize,
           Meaning = "request", LineEnd[Count] <= max_header_size,
           m_header_bytes' \in Nat,
           UNCHANGED <<request, transferred, parsed, reads>>
    PROVE  HttpInv'
<1> USE DEF HttpInv
<1> DEFINE start == LineEnd[Count] + m_body
<1>1. /\ LineEnd[Count] \in Nat /\ m_body \in Nat /\ transferred \in Nat /\ start \in Nat
      /\ m_buf_cursor \in Nat
  BY Places DEF HttpTypes
<1>2. PICK p \in 0..needed :
              /\ start + p <= transferred
              /\ m_body' = m_body + p /\ m_body_bytes_needed' = needed - p
              /\ begin' = start + p
              /\ \/ p = needed /\ http' = "ready" /\ m_buf_cursor' = transferred - (start + p)
                 \/ /\ p < needed /\ http' = "read" /\ m_buf_cursor' = m_buf_cursor
                    /\ start + p = transferred
  BY <1>1, ProcessBodyFacts
<1>3. /\ request' = request /\ Sent' = Sent /\ Lines' = Lines /\ Count' = Count
      /\ LineEnd' = LineEnd /\ Meaning' = Meaning /\ BodySize' = BodySize /\ Read' = Read
  BY SameRequest DEF Read, parsed
<1>4. HttpTypes'
  <2>1. m_body' \in Nat /\ m_body_bytes_needed' \in Nat /\ begin' \in Nat /\ begin' <= transferred
    BY <1>1, <1>2
  <2>2. m_buf_cursor' \in Nat /\ http' \in {"ready", "read"}
    BY <1>1, <1>2
  <2> HIDE DEF start
  <2> QED
    BY <1>3, <2>1, <2>2 DEF HttpTypes, parsed
<1>5. HeadersRead'
  BY SameHeaders
<1>6. CASE p = needed /\ http' = "ready" /\ m_buf_cursor' = transferred - (start + p)
  <2>1. m_body' = BodySize
    BY <1>2, <1>6
  <2>2. transferred - m_buf_cursor' = LineEnd[Count] + BodySize
    BY <1>1, <1>2, <1>6
  <2>3. RequestRead'
    BY <1>3, <1>6, <2>1, <2>2 DEF RequestRead, Count
  <2>4. InHead' /\ InBody'
    BY <1>6 DEF InHead, InBody
  <2> QED
    BY <1>4, <1>5, <2>3, <2>4
<1>7. CASE /\ p < needed /\ http' = "read" /\ m_buf_cursor' = m_buf_cursor
           /\ start + p = transferred
  <2>1. m_body_bytes_needed' > 0 /\ m_body' + m_body_bytes_needed' = BodySize
        /\ begin' = LineEnd[Count] + m_body' /\ begin' = transferred
    BY <1>1, <1>2, <1>7
  <2>2. InHead'
    BY <1>1, <1>2, <2>1 DEF InHead
  <2>3. InBody'
    BY <1>3, <1>7, <2>1 DEF InBody
  <2>4. transferred = Sent => request.more < BodySize
    <3>1. Sent = LineEnd[Count] + request.more /\ request.more \in Nat
      BY Places
    <3> QED
      BY <1>1, <1>2, <1>7, <3>1
  <2>5. RequestRead'
    BY <1>3, <1>7, <2>4 DEF RequestRead
  <2> QED
    BY <1>4, <1>5, <2>2, <2>3, <2>5
<1> QED
  BY <1>2, <1>6, <1>7

\* The blank line ends the header.
LEMMA EndOfHeadersInv == ASSUME HttpInv, EndOfHeaders PROVE HttpInv'
<1> USE DEF HttpInv
<1>1. /\ http = "consume" /\ m_body_bytes_needed = 0 /\ InBuffer # {} /\ End = begin
      /\ begin = LineEnd[Read] /\ m_body = 0
      /\ m_header_bytes = LineEnd[Read] + Read + 3 * (reads - 1)
      /\ reads \in Nat /\ reads > 0
  BY DEF EndOfHeaders, InHeaders, InHead, HttpTypes
<1>2. /\ Read < Count /\ End = LineEnd[Read + 1] - 2 /\ Lines[Read + 1].size = 0
      /\ LineEnd[Read + 1] <= transferred
  <2>1. /\ Read < Count /\ End = LineEnd[Read + 1] - 2 /\ End - begin = Lines[Read + 1].size
        /\ LineEnd[Read + 1] <= transferred
    BY <1>1, NextLine
  <2> QED
    BY <1>1, <2>1 DEF HttpTypes
<1>3. /\ Complete /\ Read + 1 = Count /\ (Has("host") <=> Headers("host") # {})
      /\ BodySize = (IF Has("length") THEN ContentLength ELSE 0) /\ BodySize \in Nat
      /\ m_method = "empty" => Headers("host") = {}
      /\ \A k \in DOMAIN HeaderLines : Wellformed(HeaderLines[k], NoMethodBefore(k))
  BY <1>2, HeaderDone
<1>4. /\ Count \in Nat /\ Read \in Nat /\ LineEnd[Read] \in Nat /\ LineEnd[Count] \in Nat
      /\ LineEnd[Count] = LineEnd[Read] + 2 /\ End + 2 = LineEnd[Count]
      /\ LineEnd[Count] <= transferred
  BY <1>2, <1>3, Places
<1>5. HeaderBytes(0) = LineEnd[Read] + Read + 3 * reads
  BY <1>1, <1>4 DEF HeaderBytes, DelimiterSizeof
<1>6. CASE HeaderBytes(0) > max_header_size
  <2>1. Throw("too_large") /\ UNCHANGED reads
    BY <1>6 DEF EndOfHeaders
  <2>2. HeadSize \in Nat /\ LineEnd[Count] <= HeadSize
    BY HeadSizeFacts
  <2>3. HeadSize + Count + 3 * reads > max_header_size
    BY <1>1, <1>3, <1>4, <1>5, <1>6, <2>2, LimitsAssumption
  <2> QED
    BY <2>1, <2>3, ThrowInv
<1>7. CASE ~(HeaderBytes(0) > max_header_size) /\ (m_method = "empty" \/ ~Has("host"))
  <2>1. Throw("incomplete") /\ UNCHANGED reads
    BY <1>7 DEF EndOfHeaders
  <2>2. Headers("host") = {}
    BY <1>3, <1>7
  <2>3. Meaning = "incomplete"
    BY <1>3, <2>2 DEF Meaning
  <2> QED
    BY <2>1, <2>3, ThrowInv
<1>8. ASSUME ~(HeaderBytes(0) > max_header_size), ~(m_method = "empty" \/ ~Has("host"))
      PROVE  /\ Meaning = IF BodySize > max_body_size THEN "body_too_large" ELSE "request"
             /\ LineEnd[Count] <= max_header_size
  <2>1. Headers("host") # {}
    BY <1>3, <1>8
  <2>2. Meaning = IF BodySize > max_body_size THEN "body_too_large" ELSE "request"
    BY <1>3, <2>1 DEF Meaning
  <2>3. LineEnd[Count] <= max_header_size
    BY <1>1, <1>4, <1>5, <1>8, LimitsAssumption
  <2> QED
    BY <2>2, <2>3
<1>9. CASE /\ ~(HeaderBytes(0) > max_header_size) /\ ~(m_method = "empty" \/ ~Has("host"))
           /\ Has("length") /\ ContentLength > max_body_size
  <2>1. Throw("body_too_large") /\ UNCHANGED reads
    BY <1>9 DEF EndOfHeaders
  <2>2. Meaning = "body_too_large"
    BY <1>3, <1>8, <1>9
  <2> QED
    BY <2>1, <2>2, ThrowInv
<1>10. CASE /\ ~(HeaderBytes(0) > max_header_size) /\ ~(m_method = "empty" \/ ~Has("host"))
            /\ ~(Has("length") /\ ContentLength > max_body_size)
  <2>1. /\ m_header_bytes' = HeaderBytes(0)
        /\ IF Has("length") THEN ProcessBody(End + DelimiterSize, ContentLength)
           ELSE /\ begin' = End + DelimiterSize
                /\ Ready(begin')
                /\ UNCHANGED body
        /\ UNCHANGED <<request, transferred, parsed, http_error, reads>>
    BY <1>10 DEF EndOfHeaders
  <2>2. Meaning = "request" /\ LineEnd[Count] <= max_header_size
    <3>1. ~(BodySize > max_body_size)
      BY <1>3, <1>10, LimitsAssumption
    <3> QED
      BY <1>8, <1>10, <3>1
  <2>3. m_header_bytes' \in Nat
    BY <1>1, <1>4, <1>5, <2>1
  <2>4. CASE Has("length")
    <3>1. ContentLength = BodySize
      BY <1>3, <2>4
    <3>2. End + DelimiterSize = LineEnd[Count] + m_body
      BY <1>1, <1>4 DEF DelimiterSize
    <3>3. ProcessBody(LineEnd[Count] + m_body, BodySize)
      BY <2>1, <2>4, <3>1, <3>2
    <3>4. LineEnd[Count] + m_body <= transferred /\ m_body + BodySize = BodySize
      BY <1>1, <1>3, <1>4
    <3> QED
      BY <1>1, <1>3, <2>1, <2>2, <2>3, <3>3, <3>4, BodyInv
  <2>5. CASE ~Has("length")
    <3>1. /\ begin' = LineEnd[Count] /\ http' = "ready"
          /\ m_buf_cursor' = transferred - LineEnd[Count]
          /\ m_body' = m_body /\ m_body_bytes_needed' = m_body_bytes_needed
      BY <1>4, <2>1, <2>5 DEF Ready, body, DelimiterSize
    <3>2. /\ request' = request /\ Sent' = Sent /\ Lines' = Lines /\ Count' = Count
          /\ LineEnd' = LineEnd /\ Meaning' = Meaning /\ BodySize' = BodySize /\ Read' = Read
      BY <2>1, SameRequest DEF Read, parsed
    <3>3. BodySize = 0
      BY <1>3, <2>5
    <3>4. m_buf_cursor' \in Nat /\ transferred - m_buf_cursor' = LineEnd[Count] + BodySize
      BY <1>4, <3>1, <3>3 DEF HttpTypes
    <3>5. HttpTypes'
      BY <1>4, <2>1, <2>3, <3>1, <3>2, <3>4 DEF HttpTypes, parsed
    <3>6. HeadersRead'
      BY <2>1, SameHeaders
    <3>7. InHead' /\ InBody'
      BY <3>1 DEF InHead, InBody
    <3>8. RequestRead'
      BY <1>1, <2>1, <2>2, <3>1, <3>2, <3>3, <3>4 DEF RequestRead, Count
    <3> QED
      BY <3>5, <3>6, <3>7, <3>8
  <2> QED
    BY <2>4, <2>5
<1> QED
  BY <1>6, <1>7, <1>9, <1>10

\* consume is called with a body under way.
LEMMA MoreBodyInv == ASSUME HttpInv, MoreBody PROVE HttpInv'
<1> USE DEF HttpInv
<1>1. /\ http = "consume" /\ m_body_bytes_needed > 0
      /\ ProcessBody(begin, m_body_bytes_needed)
      /\ UNCHANGED <<request, transferred, parsed, m_header_bytes, http_error, reads>>
  BY DEF MoreBody
<1>2. /\ Meaning = "request" /\ m_body + m_body_bytes_needed = BodySize
      /\ begin = LineEnd[Count] + m_body /\ LineEnd[Count] <= max_header_size
  BY <1>1 DEF InBody
<1>3. m_body_bytes_needed \in Nat /\ begin <= transferred /\ m_header_bytes' \in Nat
  BY <1>1 DEF HttpTypes
<1> QED
  BY <1>1, <1>2, <1>3, BodyInv

\* Every step keeps the invariant.
LEMMA NextInv == HttpInv /\ [HttpNext]_httpVars => HttpInv'
<1> SUFFICES ASSUME HttpInv, [HttpNext]_httpVars PROVE HttpInv'
  OBVIOUS
<1>1. CASE ReadHandshake
  BY <1>1, ReadHandshakeInv
<1>2. CASE ProcessLine
  BY <1>2, ProcessLineInv
<1>3. CASE OutOfBytes
  BY <1>3, OutOfBytesInv
<1>4. CASE EndOfHeaders
  BY <1>4, EndOfHeadersInv
<1>5. CASE MoreBody
  BY <1>5, MoreBodyInv
<1>6. CASE UNCHANGED httpVars
  <2> USE <1>6 DEF httpVars, buffered, parsed, body, HttpInv
  <2>1. /\ request' = request /\ Sent' = Sent /\ Lines' = Lines /\ Count' = Count
        /\ LineEnd' = LineEnd /\ Meaning' = Meaning /\ BodySize' = BodySize /\ Read' = Read
        /\ HeadSize' = HeadSize
    BY SameRequest DEF Read, parsed
  <2>2. HttpTypes'
    BY <2>1 DEF HttpTypes
  <2>3. HeadersRead'
    BY SameHeaders
  <2>4. InHead' /\ InBody'
    BY <2>1 DEF InHead, InBody
  <2>5. RequestRead'
    BY <2>1 DEF RequestRead
  <2> QED
    BY <2>2, <2>3, <2>4, <2>5
<1> QED
  BY <1>1, <1>2, <1>3, <1>4, <1>5, <1>6 DEF HttpNext

\* In however many pieces a request comes (handle_read_handshake, request::consume),
\* and whatever its lines, its body and the limits are: it is ready as the request
\* it is, with its body, and what is behind it is left for the frame reader; an
\* error is the error in it, and one of size at least in what the code counts; and
\* nobody waits for bytes that are there. Request lines that the code accepts
\* although they have no method are passed over, as it does.
THEOREM RequestReadCorrect == HttpSpec => []RequestRead
<1>1. HttpInv => RequestRead
  BY DEF HttpInv
<1> QED
  BY <1>1, InitInv, NextInv, PTL DEF HttpSpec

----------------------------------------------------------------------------
(* The validator accepts what is UTF-8, and rejects what cannot begin it.   *)

States == 0..8

\* The table, a state and a byte at a time.
LEMMA FirstByteDecoded ==
    ASSUME NEW b \in Byte
    PROVE  DecodeByte(0, b) = IF b \in 0..127 THEN 0
                              ELSE IF b \in 194..223 THEN 2
                              ELSE IF b = 224 THEN 4
                              ELSE IF b = 237 THEN 5
                              ELSE IF b \in 225..239 THEN 3
                              ELSE IF b = 240 THEN 6
                              ELSE IF b \in 241..243 THEN 7
                              ELSE IF b = 244 THEN 8 ELSE 1
<1>1. DecodeByte(0, b) = FirstByte[Class(b) + 1]
  BY DEF DecodeByte, utf8_accept, utf8_reject
<1>2. b \in 0..255
  BY DEF Byte
<1>3. CASE b \in 0..127
  BY <1>1, <1>2, <1>3 DEF Class, FirstByte
<1>4. CASE b \in 128..193
  <2>1. Class(b) \in {1, 9, 7, 8}
    BY <1>2, <1>4 DEF Class
  <2> QED
    BY <1>1, <1>4, <2>1 DEF FirstByte
<1>5. CASE b \in 194..223
  BY <1>1, <1>2, <1>5 DEF Class, FirstByte
<1>6. CASE b \in 224..239
  BY <1>1, <1>2, <1>6 DEF Class, FirstByte
<1>7. CASE b \in 240..255
  BY <1>1, <1>2, <1>7 DEF Class, FirstByte
<1> QED
  BY <1>2, <1>3, <1>4, <1>5, <1>6, <1>7

\* The classes of the bytes that continue a code point.
LEMMA ContinuingClass ==
    ASSUME NEW b \in Byte
    PROVE  /\ Class(b) = 1 <=> b \in 128..143
           /\ Class(b) = 9 <=> b \in 144..159
           /\ Class(b) = 7 <=> b \in 160..191
<1>1. b \in 0..255
  BY DEF Byte
<1> QED
  BY <1>1 DEF Class

\* What the table makes of a byte behind each state that is not utf8_accept.
LEMMA NextByteDecoded ==
    ASSUME NEW b \in Byte
    PROVE  /\ DecodeByte(1, b) = 1
           /\ DecodeByte(2, b) = IF b \in 128..191 THEN 0 ELSE 1
           /\ DecodeByte(3, b) = IF b \in 128..191 THEN 2 ELSE 1
           /\ DecodeByte(4, b) = IF b \in 160..191 THEN 2 ELSE 1
           /\ DecodeByte(5, b) = IF b \in 128..159 THEN 2 ELSE 1
           /\ DecodeByte(6, b) = IF b \in 144..191 THEN 3 ELSE 1
           /\ DecodeByte(7, b) = IF b \in 128..191 THEN 3 ELSE 1
           /\ DecodeByte(8, b) = IF b \in 128..143 THEN 3 ELSE 1
<1>1. DecodeByte(1, b) = 1
  BY DEF DecodeByte, utf8_accept, utf8_reject
<1>2. \A s \in 2..8 : DecodeByte(s, b) = IF Class(b) \in NextByte[s].classes THEN NextByte[s].to ELSE 1
  BY DEF DecodeByte, utf8_accept, utf8_reject
<1>3. /\ NextByte[2] = [classes |-> {1, 7, 9}, to |-> 0]
      /\ NextByte[3] = [classes |-> {1, 7, 9}, to |-> 2]
      /\ NextByte[4] = [classes |-> {7}, to |-> 2]
      /\ NextByte[5] = [classes |-> {1, 9}, to |-> 2]
      /\ NextByte[6] = [classes |-> {7, 9}, to |-> 3]
      /\ NextByte[7] = [classes |-> {1, 7, 9}, to |-> 3]
      /\ NextByte[8] = [classes |-> {1}, to |-> 3]
  BY DEF NextByte, utf8_accept
<1>4. b \in 0..255
  BY DEF Byte
<1>5. /\ Class(b) \in {1, 7, 9} <=> b \in 128..191
      /\ Class(b) \in {7} <=> b \in 160..191
      /\ Class(b) \in {1, 9} <=> b \in 128..159
      /\ Class(b) \in {7, 9} <=> b \in 144..191
      /\ Class(b) \in {1} <=> b \in 128..143
  BY <1>4, ContinuingClass
<1>6. DecodeByte(2, b) = IF b \in 128..191 THEN 0 ELSE 1
  BY <1>2, <1>3, <1>5
<1>7. DecodeByte(3, b) = IF b \in 128..191 THEN 2 ELSE 1
  BY <1>2, <1>3, <1>5
<1>8. DecodeByte(4, b) = IF b \in 160..191 THEN 2 ELSE 1
  BY <1>2, <1>3, <1>5
<1>9. DecodeByte(5, b) = IF b \in 128..159 THEN 2 ELSE 1
  BY <1>2, <1>3, <1>5
<1>10. DecodeByte(6, b) = IF b \in 144..191 THEN 3 ELSE 1
  BY <1>2, <1>3, <1>5
<1>11. DecodeByte(7, b) = IF b \in 128..191 THEN 3 ELSE 1
  BY <1>2, <1>3, <1>5
<1>12. DecodeByte(8, b) = IF b \in 128..143 THEN 3 ELSE 1
  BY <1>2, <1>3, <1>5
<1> QED
  BY <1>1, <1>6, <1>7, <1>8, <1>9, <1>10, <1>11, <1>12

\* The decoder stays in its states.
LEMMA DecodeByteType == ASSUME NEW s \in States, NEW b \in Byte PROVE DecodeByte(s, b) \in States
<1>1. s \in {0, 1, 2, 3, 4, 5, 6, 7, 8}
  BY DEF States
<1>2. DecodeByte(s, b) \in {0, 1, 2, 3, 4, 5, 6, 7, 8}
  BY <1>1, FirstByteDecoded, NextByteDecoded
<1> QED
  BY <1>2 DEF States

\* The states behind each byte: what the loop of decode goes through.
Decodes(run, state, bytes) ==
    /\ run[0] = state
    /\ \A n \in 1..Len(bytes) : run[n] = DecodeByte(run[n - 1], bytes[n])
Decoding(run, state, bytes) ==
    run \in [0..Len(bytes) -> States] /\ Decodes(run, state, bytes)

\* The run of the decoder over some bytes exists.
LEMMA DecodingExists ==
    ASSUME NEW state \in States, NEW bytes \in Seq(Byte)
    PROVE  \E run : Decoding(run, state, bytes)
<1> DEFINE g == [p \in (1..Len(bytes)) \X States |-> DecodeByte(p[2], bytes[p[1]])]
<1>1. Len(bytes) \in Nat /\ \A n \in 1..Len(bytes) : bytes[n] \in Byte
  BY LenProperties, ElementOfSeq
<1>2. g \in [(1..Len(bytes)) \X States -> States]
  BY <1>1, DecodeByteType
<1>3. \A n \in 1..Len(bytes), s \in States : g[<<n, s>>] = DecodeByte(s, bytes[n])
  OBVIOUS
<1> HIDE DEF g
<1>4. PICK run : Iterates(run, Len(bytes), States, state, g)
  <2>1. g \in Steps(Len(bytes), States)
    BY <1>2 DEF Steps
  <2> QED
    BY <1>1, <2>1, RecursionExists
<1>5. \A n \in 1..Len(bytes) : n - 1 \in 0..Len(bytes)
  BY <1>1
<1>6. \A n \in 1..Len(bytes) : run[n - 1] \in States
  BY <1>4, <1>5 DEF Iterates
<1> QED
  BY <1>3, <1>4, <1>6 DEF Decoding, Decodes, Iterates

\* Of bytes that begin alike, the states are the same as far as they do.
Alike(b, c, m) == m \in 0..Len(b) /\ m \in 0..Len(c) /\ \A k \in 1..m : b[k] = c[k]

\* Where two sequences of bytes are alike, so are the runs over them.
LEMMA DecodingSame ==
    ASSUME NEW s, NEW b \in Seq(Byte), NEW c \in Seq(Byte), NEW m, Alike(b, c, m),
           NEW D, Decodes(D, s, b), NEW E, Decodes(E, s, c)
    PROVE  \A k \in 0..m : D[k] = E[k]
<1> DEFINE T == {k \in 0..m : D[k] = E[k]}
<1>0. m \in Nat
  BY DEF Alike
<1>1. 0 \in T
  BY <1>0 DEF Decodes
<1>2. ASSUME NEW k \in 1..m, k - 1 \in T PROVE k \in T
  <2>1. k \in 1..Len(b) /\ k \in 1..Len(c) /\ b[k] = c[k] /\ k \in 0..m
    BY LenProperties DEF Alike
  <2>2. D[k] = DecodeByte(D[k - 1], b[k]) /\ E[k] = DecodeByte(E[k - 1], c[k])
    BY <2>1 DEF Decodes
  <2> QED
    BY <1>2, <2>1, <2>2
<1>3. \A k \in 0..m : k \in T
  <2> HIDE DEF T
  <2> QED
    BY <1>0, <1>1, <1>2, UpTo
<1> QED
  BY <1>3

\* Decode gives the last state of the run, and there is only one.
LEMMA DecodeIs ==
    ASSUME NEW state \in States, NEW bytes \in Seq(Byte), NEW run, Decoding(run, state, bytes)
    PROVE  Decode(state, bytes) = run[Len(bytes)]
<1> DEFINE F(h) == [n \in 0..Len(bytes) |-> IF n = 0 THEN state ELSE DecodeByte(h[n - 1], bytes[n])]
           Behind == CHOOSE h : h = F(h)
<1>1. Len(bytes) \in Nat
  BY LenProperties
<1>2. run = F(run)
  BY <1>1 DEF Decoding, Decodes
<1>3. Behind = F(Behind)
  <2> HIDE DEF F
  <2> QED
    BY <1>2
<1>4. Decode(state, bytes) = Behind[Len(bytes)]
  BY DEF Decode
<1> HIDE DEF Behind
<1>5. Decodes(Behind, state, bytes)
  BY <1>1, <1>3 DEF Decodes
<1> HIDE DEF F
<1>6. \A k \in 0..Len(bytes) : run[k] = Behind[k]
  <2>1. Decodes(run, state, bytes) /\ Alike(bytes, bytes, Len(bytes))
    BY <1>1 DEF Decoding, Alike
  <2> QED
    BY <1>5, <2>1, DecodingSame
<1> QED
  BY <1>1, <1>4, <1>6

\* Behind a byte that is rejected all are.
LEMMA RejectStays ==
    ASSUME NEW s, NEW bytes \in Seq(Byte), NEW run, Decoding(run, s, bytes)
    PROVE  \A j, k \in 0..Len(bytes) : j <= k /\ run[j] = 1 => run[k] = 1
<1>1. SUFFICES ASSUME NEW j \in 0..Len(bytes), run[j] = 1
               PROVE  \A k \in 0..Len(bytes) : j <= k => run[k] = 1
  OBVIOUS
<1> DEFINE T == {k \in 0..Len(bytes) : j <= k => run[k] = 1}
<1>2. Len(bytes) \in Nat /\ \A n \in 1..Len(bytes) : bytes[n] \in Byte
  BY LenProperties, ElementOfSeq
<1>3. 0 \in T
  BY <1>1, <1>2
<1>4. ASSUME NEW k \in 1..Len(bytes), k - 1 \in T PROVE k \in T
  <2>1. k \in 0..Len(bytes)
    OBVIOUS
  <2>2. CASE j <= k - 1
    <3>1. run[k - 1] = 1
      BY <1>4, <2>2
    <3>2. run[k] = DecodeByte(run[k - 1], bytes[k])
      BY DEF Decoding, Decodes
    <3>3. DecodeByte(1, bytes[k]) = 1
      BY <1>2, NextByteDecoded
    <3> QED
      BY <2>1, <3>1, <3>2, <3>3
  <2>3. CASE ~(j <= k - 1)
    BY <1>1, <1>2, <2>1, <2>3
  <2> QED
    BY <2>2, <2>3
<1>5. \A k \in 0..Len(bytes) : k \in T
  <2> HIDE DEF T
  <2> QED
    BY <1>2, <1>3, <1>4, UpTo
<1> QED
  BY <1>5

\* Where in their ranges bytes are that are a code point in its shortest form.
LEMMA Shortest2 ==
    ASSUME NEW b \in Int, NEW c \in Int, b \in 192..223, c \in 128..191
    PROVE  (b - 192) * 64 + (c - 128) >= 128 <=> b \in 194..223
OBVIOUS

\* Three bytes are the shortest form, and no surrogate, exactly if the second is in a
\* range that only the first two lead bytes which differ, 224 and 237, make smaller.
LEMMA Shortest3 ==
    ASSUME NEW b \in Int, NEW c \in Int, NEW d \in Int,
           b \in 224..239, c \in 128..191, d \in 128..191
    PROVE  /\ ((b - 224) * 64 + (c - 128)) * 64 + (d - 128) >= 2048
           /\ \/ ((b - 224) * 64 + (c - 128)) * 64 + (d - 128) < 55296
              \/ ((b - 224) * 64 + (c - 128)) * 64 + (d - 128) > 57343
           <=> (b = 224 => c \in 160..191) /\ (b = 237 => c \in 128..159)
OBVIOUS

\* The same of four bytes, with the lead bytes 240 and 244.
LEMMA Shortest4 ==
    ASSUME NEW b \in Int, NEW c \in Int, NEW d \in Int, NEW e \in Int,
           b \in 240..247, c \in 128..191, d \in 128..191, e \in 128..191
    PROVE  /\ (((b - 240) * 64 + (c - 128)) * 64 + (d - 128)) * 64 + (e - 128) >= 65536
           /\ (((b - 240) * 64 + (c - 128)) * 64 + (d - 128)) * 64 + (e - 128) <= 1114111
           <=> b \in 240..244 /\ (b = 240 => c \in 144..191) /\ (b = 244 => c \in 128..143)
OBVIOUS

\* The code points by their bytes, as the table has them.
Octets(t, n) == n \in 1..4 /\ Len(t) = n /\ \A i \in 1..n : t[i] \in 0..255
Wellformed8(t, n) ==
    \/ n = 1 /\ t[1] \in 0..127
    \/ n = 2 /\ t[1] \in 194..223 /\ t[2] \in 128..191
    \/ /\ n = 3 /\ t[1] \in 224..239 /\ t[2] \in 128..191 /\ t[3] \in 128..191
       /\ (t[1] = 224 => t[2] \in 160..191) /\ (t[1] = 237 => t[2] \in 128..159)
    \/ /\ n = 4 /\ t[1] \in 240..244
       /\ t[2] \in 128..191 /\ t[3] \in 128..191 /\ t[4] \in 128..191
       /\ (t[1] = 240 => t[2] \in 144..191) /\ (t[1] = 244 => t[2] \in 128..143)

\* The ranges of the bytes of a code point, as the table has them.
LEMMA CodePointBytes ==
    ASSUME NEW t, NEW n, Octets(t, n)
    PROVE  CodePoint(t) <=> Wellformed8(t, n)
<1>0. n \in 1..4 /\ Len(t) = n /\ \A i \in 1..n : t[i] \in 0..255
  BY DEF Octets
<1>1. CASE n = 1
  BY <1>0, <1>1 DEF CodePoint, Wellformed8
<1>2. CASE n = 2
  <2>1. t[1] \in Int /\ t[2] \in Int
    BY <1>0, <1>2
  <2>2. CodePoint(t) <=> /\ t[1] \in 192..223 /\ t[2] \in 128..191
                         /\ (t[1] - 192) * 64 + (t[2] - 128) >= 128
    BY <1>0, <1>2 DEF CodePoint, Continues
  <2>3. t[1] \in 194..223 => t[1] \in 192..223
    OBVIOUS
  <2> QED
    BY <1>2, <2>1, <2>2, <2>3, Shortest2 DEF Wellformed8
<1>3. CASE n = 3
  <2>1. PICK b \in Int, c \in Int, d \in Int : b = t[1] /\ c = t[2] /\ d = t[3]
    <3>1. t[1] \in Int /\ t[2] \in Int /\ t[3] \in Int
      BY <1>0, <1>3
    <3> QED
      BY <3>1, Zenon
  <2>2. CodePoint(t) <=>
           /\ b \in 224..239 /\ c \in 128..191 /\ d \in 128..191
           /\ ((b - 224) * 64 + (c - 128)) * 64 + (d - 128) >= 2048
           /\ \/ ((b - 224) * 64 + (c - 128)) * 64 + (d - 128) < 55296
              \/ ((b - 224) * 64 + (c - 128)) * 64 + (d - 128) > 57343
    BY <1>0, <1>3, <2>1 DEF CodePoint, Continues
  <2>3. Wellformed8(t, n) <=>
           /\ b \in 224..239 /\ c \in 128..191 /\ d \in 128..191
           /\ (b = 224 => c \in 160..191) /\ (b = 237 => c \in 128..159)
    BY <1>3, <2>1 DEF Wellformed8
  <2>4. CASE b \in 224..239 /\ c \in 128..191 /\ d \in 128..191
    BY <2>2, <2>3, <2>4, Shortest3
  <2>5. CASE ~(b \in 224..239 /\ c \in 128..191 /\ d \in 128..191)
    BY <2>2, <2>3, <2>5
  <2> QED
    BY <2>4, <2>5
<1>4. CASE n = 4
  <2>1. PICK b \in Int, c \in Int, d \in Int, e \in Int :
               b = t[1] /\ c = t[2] /\ d = t[3] /\ e = t[4]
    <3>1. t[1] \in Int /\ t[2] \in Int /\ t[3] \in Int /\ t[4] \in Int
      BY <1>0, <1>4
    <3> QED
      BY <3>1, Zenon
  <2>2. CodePoint(t) <=>
           /\ b \in 240..247 /\ c \in 128..191 /\ d \in 128..191 /\ e \in 128..191
           /\ (((b - 240) * 64 + (c - 128)) * 64 + (d - 128)) * 64 + (e - 128) >= 65536
           /\ (((b - 240) * 64 + (c - 128)) * 64 + (d - 128)) * 64 + (e - 128) <= 1114111
    BY <1>0, <1>4, <2>1 DEF CodePoint, Continues
  <2>3. Wellformed8(t, n) <=>
           /\ b \in 240..244 /\ c \in 128..191 /\ d \in 128..191 /\ e \in 128..191
           /\ (b = 240 => c \in 144..191) /\ (b = 244 => c \in 128..143)
    BY <1>4, <2>1 DEF Wellformed8
  <2>4. b \in 240..244 => b \in 240..247
    OBVIOUS
  <2>5. CASE b \in 240..247 /\ c \in 128..191 /\ d \in 128..191 /\ e \in 128..191
    BY <2>2, <2>3, <2>5, Shortest4
  <2>6. CASE ~(b \in 240..247 /\ c \in 128..191 /\ d \in 128..191 /\ e \in 128..191)
    BY <2>2, <2>3, <2>4, <2>6
  <2> QED
    BY <2>5, <2>6
<1> QED
  BY <1>0, <1>1, <1>2, <1>3, <1>4

\* The table for the bytes of a code point: where it leads from accept.
LEMMA Led ==
    ASSUME NEW b \in Byte, NEW c \in Byte, NEW d \in Byte, NEW e \in Byte
    PROVE  /\ b \in 0..127 => DecodeByte(0, b) = 0
           /\ b \in 194..223 => DecodeByte(0, b) = 2
           /\ b \in 224..239 => DecodeByte(0, b) = IF b = 224 THEN 4 ELSE IF b = 237 THEN 5 ELSE 3
           /\ b \in 240..244 => DecodeByte(0, b) = IF b = 240 THEN 6 ELSE IF b = 244 THEN 8 ELSE 7
           /\ b \in 128..193 => DecodeByte(0, b) = 1
           /\ b \notin 0..244 => DecodeByte(0, b) = 1
<1>1. b \in 0..255
  BY DEF Byte
<1>2. DecodeByte(0, b) = IF b \in 0..127 THEN 0
                         ELSE IF b \in 194..223 THEN 2
                         ELSE IF b = 224 THEN 4
                         ELSE IF b = 237 THEN 5
                         ELSE IF b \in 225..239 THEN 3
                         ELSE IF b = 240 THEN 6
                         ELSE IF b \in 241..243 THEN 7
                         ELSE IF b = 244 THEN 8 ELSE 1
  BY FirstByteDecoded
<1>3. b \in 0..127 => DecodeByte(0, b) = 0
  BY <1>2
<1>4. b \in 194..223 => DecodeByte(0, b) = 2
  BY <1>1, <1>2
<1>5. b \in 224..239 => DecodeByte(0, b) = IF b = 224 THEN 4 ELSE IF b = 237 THEN 5 ELSE 3
  BY <1>1, <1>2
<1>6. b \in 240..244 => DecodeByte(0, b) = IF b = 240 THEN 6 ELSE IF b = 244 THEN 8 ELSE 7
  BY <1>1, <1>2
<1>7. b \in 128..193 => DecodeByte(0, b) = 1
  BY <1>1, <1>2
<1>8. b \notin 0..244 => DecodeByte(0, b) = 1
  BY <1>1, <1>2
<1> QED
  BY <1>3, <1>4, <1>5, <1>6, <1>7, <1>8

\* The steps of a run through the bytes of a slice.
SliceRun(run, t, k, n) ==
    /\ Octets(t, n) /\ \A i \in 1..n : t[i] \in Byte
    /\ run[k + 1] = DecodeByte(run[k], t[1])
    /\ n >= 2 => run[k + 2] = DecodeByte(run[k + 1], t[2])
    /\ n >= 3 => run[k + 3] = DecodeByte(run[k + 2], t[3])
    /\ n >= 4 => run[k + 4] = DecodeByte(run[k + 3], t[4])

\* The run over a slice of the bytes is a slice of the run.
LEMMA SliceRunIs ==
    ASSUME NEW s, NEW bytes \in Seq(Byte), NEW run, Decoding(run, s, bytes),
           NEW k \in Nat, NEW n \in 1..4, k + n <= Len(bytes)
    PROVE  SliceRun(run, SubSeq(bytes, k + 1, k + n), k, n)
<1> DEFINE t == SubSeq(bytes, k + 1, k + n)
<1>0. Len(bytes) \in Nat /\ \A i \in 1..Len(bytes) : bytes[i] \in Byte
  BY LenProperties, ElementOfSeq
<1>1. Octets(t, n) /\ \A i \in 1..n : t[i] \in Byte /\ run[k + i] = DecodeByte(run[k + i - 1], t[i])
  <2>1. Len(t) = n /\ \A i \in 1..n : t[i] = bytes[k + i]
    <3>1. /\ k + 1 \in Int /\ k + n \in Int /\ k + 1 <= k + n
          /\ (k + n) - (k + 1) + 1 = n
          /\ \A i \in (k + 1)..(k + n) : i \in 1..Len(bytes)
          /\ \A i \in 1..n : (k + 1) + i - 1 = k + i
      BY <1>0
    <3>2. \A i \in (k + 1)..(k + n) : bytes[i] \in Byte
      BY <1>0, <3>1
    <3>3. /\ Len(t) = IF k + 1 <= k + n THEN (k + n) - (k + 1) + 1 ELSE 0
          /\ \A i \in 1..((k + n) - (k + 1) + 1) : t[i] = bytes[(k + 1) + i - 1]
      BY <3>1, <3>2, SubSeqProperties
    <3> QED
      BY <3>1, <3>3
  <2>2. \A i \in 1..n : k + i \in 1..Len(bytes)
    BY <1>0
  <2> HIDE DEF t
  <2>3. \A i \in 1..n : t[i] \in Byte /\ run[k + i] = DecodeByte(run[k + i - 1], t[i])
    <3>1. TAKE i \in 1..n
    <3>2. bytes[k + i] \in Byte /\ run[k + i] = DecodeByte(run[(k + i) - 1], bytes[k + i])
      BY <1>0, <2>2 DEF Decoding, Decodes
    <3> QED
      BY <2>1, <3>2
  <2> QED
    BY <2>1, <2>3 DEF Octets, Byte
<1> HIDE DEF t
<1>2. run[k + 1] = DecodeByte(run[k], t[1])
  <2>1. 1 \in 1..n /\ k + 1 - 1 = k
    OBVIOUS
  <2> QED
    BY <1>1, <2>1
<1>3. n >= 2 => run[k + 2] = DecodeByte(run[k + 1], t[2])
  <2>1. n >= 2 => 2 \in 1..n /\ k + 2 - 1 = k + 1
    OBVIOUS
  <2> QED
    BY <1>1, <2>1
<1>4. n >= 3 => run[k + 3] = DecodeByte(run[k + 2], t[3])
  <2>1. n >= 3 => 3 \in 1..n /\ k + 3 - 1 = k + 2
    OBVIOUS
  <2> QED
    BY <1>1, <2>1
<1>5. n >= 4 => run[k + 4] = DecodeByte(run[k + 3], t[4])
  <2>1. n >= 4 => 4 \in 1..n /\ k + 4 - 1 = k + 3
    OBVIOUS
  <2> QED
    BY <1>1, <2>1
<1>6. SliceRun(run, t, k, n)
  BY <1>1, <1>2, <1>3, <1>4, <1>5 DEF SliceRun
<1> QED
  BY <1>6 DEF t

\* From accept, a code point leads to accept.
LEMMA CodePointAccepted ==
    ASSUME NEW run, NEW t, NEW k, NEW n, SliceRun(run, t, k, n),
           run[k] = 0, CodePoint(t)
    PROVE  run[k + n] = 0
<1>1. n \in 1..4 /\ \A i \in 1..n : t[i] \in Byte
  BY DEF SliceRun, Octets
<1>2. \/ n = 1 /\ t[1] \in 0..127
      \/ n = 2 /\ t[1] \in 194..223 /\ t[2] \in 128..191
      \/ /\ n = 3 /\ t[1] \in 224..239 /\ t[2] \in 128..191 /\ t[3] \in 128..191
         /\ (t[1] = 224 => t[2] \in 160..191) /\ (t[1] = 237 => t[2] \in 128..159)
      \/ /\ n = 4 /\ t[1] \in 240..244
         /\ t[2] \in 128..191 /\ t[3] \in 128..191 /\ t[4] \in 128..191
         /\ (t[1] = 240 => t[2] \in 144..191) /\ (t[1] = 244 => t[2] \in 128..143)
  <2>1. Wellformed8(t, n)
    BY CodePointBytes DEF SliceRun
  <2> QED
    BY <2>1 DEF Wellformed8
<1>3. t[1] \in Byte /\ run[k + 1] = DecodeByte(0, t[1])
  BY <1>1 DEF SliceRun
<1>4. CASE n = 1
  BY <1>2, <1>3, <1>4, Led
<1>5. CASE n = 2
  <2>1. run[k + 1] = 2
    BY <1>2, <1>3, <1>5, Led
  <2>2. t[2] \in Byte /\ run[k + 2] = DecodeByte(2, t[2]) /\ t[2] \in 128..191
    BY <1>1, <1>2, <1>5, <2>1 DEF SliceRun
  <2> QED
    BY <1>5, <2>2, NextByteDecoded
<1>6. CASE n = 3
  <2>1. run[k + 1] = IF t[1] = 224 THEN 4 ELSE IF t[1] = 237 THEN 5 ELSE 3
    BY <1>2, <1>3, <1>6, Led
  <2>2. t[2] \in Byte /\ run[k + 2] = DecodeByte(run[k + 1], t[2])
    BY <1>1, <1>6 DEF SliceRun
  <2>3. run[k + 2] = 2
    BY <1>2, <1>6, <2>1, <2>2, NextByteDecoded
  <2>4. t[3] \in Byte /\ run[k + 3] = DecodeByte(2, t[3]) /\ t[3] \in 128..191
    BY <1>1, <1>2, <1>6, <2>3 DEF SliceRun
  <2> QED
    BY <1>6, <2>4, NextByteDecoded
<1>7. CASE n = 4
  <2>1. run[k + 1] = IF t[1] = 240 THEN 6 ELSE IF t[1] = 244 THEN 8 ELSE 7
    BY <1>2, <1>3, <1>7, Led
  <2>2. t[2] \in Byte /\ run[k + 2] = DecodeByte(run[k + 1], t[2])
    BY <1>1, <1>7 DEF SliceRun
  <2>3. run[k + 2] = 3
    BY <1>2, <1>7, <2>1, <2>2, NextByteDecoded
  <2>4. t[3] \in Byte /\ run[k + 3] = DecodeByte(3, t[3]) /\ t[3] \in 128..191
    BY <1>1, <1>2, <1>7, <2>3 DEF SliceRun
  <2>5. run[k + 3] = 2
    BY <2>4, NextByteDecoded
  <2>6. t[4] \in Byte /\ run[k + 4] = DecodeByte(2, t[4]) /\ t[4] \in 128..191
    BY <1>1, <1>2, <1>7, <2>5 DEF SliceRun
  <2> QED
    BY <1>7, <2>6, NextByteDecoded
<1> QED
  BY <1>1, <1>4, <1>5, <1>6, <1>7

\* What a state says of the bytes that led to it from accept.
LEMMA LedBack ==
    ASSUME NEW b \in Byte, DecodeByte(0, b) # 1
    PROVE  /\ DecodeByte(0, b) \in {0, 2, 3, 4, 5, 6, 7, 8}
           /\ DecodeByte(0, b) = 0 => b \in 0..127
           /\ DecodeByte(0, b) = 2 => b \in 194..223
           /\ DecodeByte(0, b) = 3 => b \in 224..239 /\ b # 224 /\ b # 237
           /\ DecodeByte(0, b) = 4 => b = 224
           /\ DecodeByte(0, b) = 5 => b = 237
           /\ DecodeByte(0, b) = 6 => b = 240
           /\ DecodeByte(0, b) = 7 => b \in 240..244 /\ b # 240 /\ b # 244
           /\ DecodeByte(0, b) = 8 => b = 244
<1>1. b \in 0..255
  BY DEF Byte
<1> QED
  BY <1>1, FirstByteDecoded

\* The second byte of a code point of three or four.
LEMMA SecondOf3 ==
    ASSUME NEW b \in Byte, NEW s \in {3, 4, 5}, DecodeByte(s, b) # 1
    PROVE  /\ DecodeByte(s, b) = 2 /\ b \in 128..191
           /\ (s = 4 => b \in 160..191) /\ (s = 5 => b \in 128..159)
<1>1. b \in 0..255
  BY DEF Byte
<1>2. CASE s = 3
  <2>1. DecodeByte(s, b) = 2 /\ b \in 128..191
    BY <1>2, NextByteDecoded
  <2> QED
    BY <1>1, <1>2, <2>1
<1>3. CASE s = 4
  <2>1. DecodeByte(s, b) = 2 /\ b \in 160..191
    BY <1>3, NextByteDecoded
  <2> QED
    BY <1>1, <1>3, <2>1
<1>4. CASE s = 5
  <2>1. DecodeByte(s, b) = 2 /\ b \in 128..159
    BY <1>4, NextByteDecoded
  <2> QED
    BY <1>1, <1>4, <2>1
<1> QED
  BY <1>2, <1>3, <1>4

\* The bytes that are accepted behind the first of four, by the state that it left.
LEMMA SecondOf4 ==
    ASSUME NEW b \in Byte, NEW s \in {6, 7, 8}, DecodeByte(s, b) # 1
    PROVE  /\ DecodeByte(s, b) = 3 /\ b \in 128..191
           /\ (s = 6 => b \in 144..191) /\ (s = 8 => b \in 128..143)
<1>1. b \in 0..255
  BY DEF Byte
<1>2. CASE s = 6
  <2>1. DecodeByte(s, b) = 3 /\ b \in 144..191
    BY <1>2, NextByteDecoded
  <2> QED
    BY <1>1, <1>2, <2>1
<1>3. CASE s = 7
  <2>1. DecodeByte(s, b) = 3 /\ b \in 128..191
    BY <1>3, NextByteDecoded
  <2> QED
    BY <1>1, <1>3, <2>1
<1>4. CASE s = 8
  <2>1. DecodeByte(s, b) = 3 /\ b \in 128..143
    BY <1>4, NextByteDecoded
  <2> QED
    BY <1>1, <1>4, <2>1
<1> QED
  BY <1>2, <1>3, <1>4

\* From accept, what is not rejected leads to accept by a code point.
LEMMA CodePointFound ==
    ASSUME NEW bytes \in Seq(Byte), NEW run, NEW s, Decoding(run, s, bytes),
           NEW k \in Nat, k < Len(bytes), run[k] = 0, run[Len(bytes)] = 0
    PROVE  \E n \in 1..4 : /\ k + n <= Len(bytes) /\ run[k + n] = 0
                           /\ CodePoint(SubSeq(bytes, k + 1, k + n))
<1> DEFINE t(n) == SubSeq(bytes, k + 1, k + n)
<1>1. Len(bytes) \in Nat
  BY LenProperties
<1>2. \A n \in 1..4 : k + n <= Len(bytes) => SliceRun(run, t(n), k, n)
  BY SliceRunIs
<1>3. \A j \in 0..Len(bytes) : run[j] # 1
  <2>1. \A j \in 0..Len(bytes) : j <= Len(bytes) /\ Len(bytes) \in 0..Len(bytes)
    BY <1>1
  <2> QED
    <3>1. \A i, j \in 0..Len(bytes) : i <= j /\ run[i] = 1 => run[j] = 1
      BY RejectStays
    <3> QED
      BY <2>1, <3>1
<1>4. \A n \in 1..4 : k + n <= Len(bytes) => run[k + n] # 1
  <2>1. \A n \in 1..4 : k + n <= Len(bytes) => k + n \in 0..Len(bytes)
    BY <1>1
  <2> QED
    BY <1>3, <2>1
<1>5. \A n \in 1..4 : k + n < Len(bytes) \/ run[k + n] = 0 \/ k + n > Len(bytes)
  BY <1>1
<1>6. SUFFICES \E n \in 1..4 : k + n <= Len(bytes) /\ run[k + n] = 0 /\ Wellformed8(t(n), n)
  <2>1. PICK n \in 1..4 : k + n <= Len(bytes) /\ run[k + n] = 0 /\ Wellformed8(t(n), n)
    BY <1>6
  <2>2. Octets(t(n), n)
    BY <1>2, <2>1 DEF SliceRun
  <2>3. CodePoint(t(n))
    BY <2>1, <2>2, CodePointBytes
  <2> QED
    BY <2>1, <2>3
<1> HIDE DEF t
<1>7. /\ k + 1 <= Len(bytes) /\ 1 \in 1..4 /\ 2 \in 1..4 /\ 3 \in 1..4 /\ 4 \in 1..4
      /\ k + 1 < Len(bytes) => k + 2 <= Len(bytes)
      /\ k + 2 < Len(bytes) => k + 3 <= Len(bytes)
      /\ k + 3 < Len(bytes) => k + 4 <= Len(bytes)
      /\ \A n \in 1..4 : ~(k + n <= Len(bytes) /\ k + n > Len(bytes))
  BY <1>1
<1>8. \A n \in 1..4 : k + n <= Len(bytes) =>
         /\ \A i \in 1..n : t(n)[i] \in Byte
         /\ run[k + 1] = DecodeByte(0, t(n)[1])
         /\ n >= 2 => run[k + 2] = DecodeByte(run[k + 1], t(n)[2])
         /\ n >= 3 => run[k + 3] = DecodeByte(run[k + 2], t(n)[3])
         /\ n >= 4 => run[k + 4] = DecodeByte(run[k + 3], t(n)[4])
  BY <1>2 DEF SliceRun
<1>9. t(1)[1] \in Byte /\ run[k + 1] = DecodeByte(0, t(1)[1]) /\ run[k + 1] # 1
  BY <1>4, <1>7, <1>8
<1>10. run[k + 1] \in {0, 2, 3, 4, 5, 6, 7, 8}
  BY <1>9, LedBack
<1>11. CASE run[k + 1] = 0
  <2>1. t(1)[1] \in 0..127
    <3>1. DecodeByte(0, t(1)[1]) # 1 /\ DecodeByte(0, t(1)[1]) = 0
      BY <1>9, <1>11
    <3> QED
      BY <1>9, <3>1, LedBack
  <2>2. Wellformed8(t(1), 1)
    BY <2>1 DEF Wellformed8
  <2> QED
    BY <1>7, <1>11, <2>2
<1>12. ASSUME run[k + 1] # 0
       PROVE  /\ k + 2 <= Len(bytes)
              /\ run[k + 2] # 1
              /\ t(2)[1] \in Byte /\ t(2)[2] \in Byte
              /\ run[k + 1] = DecodeByte(0, t(2)[1])
              /\ run[k + 2] = DecodeByte(run[k + 1], t(2)[2])
  <2>1. k + 2 <= Len(bytes)
    BY <1>5, <1>7, <1>12
  <2> QED
    BY <1>4, <1>7, <1>8, <2>1
<1>13. ASSUME run[k + 1] # 0, run[k + 2] # 0
       PROVE  /\ k + 3 <= Len(bytes)
              /\ run[k + 3] # 1
              /\ t(3)[1] \in Byte /\ t(3)[2] \in Byte /\ t(3)[3] \in Byte
              /\ run[k + 1] = DecodeByte(0, t(3)[1])
              /\ run[k + 2] = DecodeByte(run[k + 1], t(3)[2])
              /\ run[k + 3] = DecodeByte(run[k + 2], t(3)[3])
  <2>1. k + 3 <= Len(bytes)
    BY <1>5, <1>7, <1>12, <1>13
  <2> QED
    BY <1>4, <1>7, <1>8, <2>1
<1>14. ASSUME run[k + 1] # 0, run[k + 2] # 0, run[k + 3] # 0
       PROVE  /\ k + 4 <= Len(bytes)
              /\ run[k + 4] # 1
              /\ t(4)[1] \in Byte /\ t(4)[2] \in Byte /\ t(4)[3] \in Byte /\ t(4)[4] \in Byte
              /\ run[k + 1] = DecodeByte(0, t(4)[1])
              /\ run[k + 2] = DecodeByte(run[k + 1], t(4)[2])
              /\ run[k + 3] = DecodeByte(run[k + 2], t(4)[3])
              /\ run[k + 4] = DecodeByte(run[k + 3], t(4)[4])
  <2>1. k + 4 <= Len(bytes)
    BY <1>5, <1>7, <1>13, <1>14
  <2> QED
    BY <1>4, <1>7, <1>8, <2>1
<1>15. CASE run[k + 1] = 2
  <2>1. t(2)[2] \in 128..191 /\ run[k + 2] = 0
    <3>1. t(2)[2] \in Byte /\ run[k + 2] = DecodeByte(2, t(2)[2]) /\ run[k + 2] # 1
      BY <1>12, <1>15
    <3> QED
      BY <3>1, NextByteDecoded
  <2>2. t(2)[1] \in 194..223
    BY <1>12, <1>15, LedBack
  <2>3. Wellformed8(t(2), 2)
    BY <2>1, <2>2 DEF Wellformed8
  <2> QED
    BY <1>7, <1>12, <1>15, <2>1, <2>3
<1>16. CASE run[k + 1] \in {3, 4, 5}
  <2>1. run[k + 1] # 0 /\ run[k + 2] = 2
    <3>1. /\ run[k + 1] # 0 /\ run[k + 1] \in {3, 4, 5} /\ t(2)[2] \in Byte
          /\ run[k + 2] = DecodeByte(run[k + 1], t(2)[2]) /\ run[k + 2] # 1
      BY <1>12, <1>16
    <3> QED
      BY <3>1, SecondOf3
  <2>2. t(3)[3] \in 128..191 /\ run[k + 3] = 0
    <3>1. t(3)[3] \in Byte /\ run[k + 3] = DecodeByte(2, t(3)[3]) /\ run[k + 3] # 1
      BY <1>13, <2>1
    <3> QED
      BY <3>1, NextByteDecoded
  <2>3. /\ t(3)[2] \in 128..191
        /\ run[k + 1] = 4 => t(3)[2] \in 160..191
        /\ run[k + 1] = 5 => t(3)[2] \in 128..159
    <3>1. t(3)[2] \in Byte /\ DecodeByte(run[k + 1], t(3)[2]) # 1
      BY <1>13, <2>1
    <3>2. PICK s1 \in {3, 4, 5} : s1 = run[k + 1]
      BY <1>16
    <3> DEFINE c == t(3)[2]
    <3>3. c \in Byte /\ DecodeByte(s1, c) # 1
      BY <3>1, <3>2
    <3> HIDE DEF c
    <3>4. c \in 128..191 /\ (s1 = 4 => c \in 160..191) /\ (s1 = 5 => c \in 128..159)
      <4>0. c \in Byte
        BY <3>3
      <4>1. CASE s1 = 3
        <5>1. DecodeByte(3, c) # 1
          BY <3>3, <4>1
        <5> QED
          BY <4>0, <4>1, <5>1, SecondOf3
      <4>2. CASE s1 = 4
        <5>1. DecodeByte(4, c) # 1
          BY <3>3, <4>2
        <5> QED
          BY <4>0, <4>2, <5>1, SecondOf3
      <4>3. CASE s1 = 5
        <5>1. DecodeByte(5, c) # 1
          BY <3>3, <4>3
        <5> QED
          BY <4>0, <4>3, <5>1, SecondOf3
      <4> QED
        BY <3>2, <4>1, <4>2, <4>3
    <3> QED
      BY <3>2, <3>4, Zenon DEF c
  <2>4. /\ t(3)[1] \in 224..239
        /\ t(3)[1] = 224 => run[k + 1] = 4
        /\ t(3)[1] = 237 => run[k + 1] = 5
    <3>1. t(3)[1] \in Byte /\ run[k + 1] = DecodeByte(0, t(3)[1]) /\ run[k + 1] # 1
      BY <1>9, <1>13, <2>1
    <3> QED
      BY <1>16, <3>1, LedBack
  <2>5. Wellformed8(t(3), 3)
    BY <2>2, <2>3, <2>4 DEF Wellformed8
  <2>6. k + 3 <= Len(bytes)
    BY <1>13, <2>1
  <2> QED
    BY <1>7, <2>2, <2>5, <2>6
<1>17. CASE run[k + 1] \in {6, 7, 8}
  <2>1. run[k + 1] # 0 /\ run[k + 2] = 3
    <3>1. /\ run[k + 1] # 0 /\ run[k + 1] \in {6, 7, 8} /\ t(2)[2] \in Byte
          /\ run[k + 2] = DecodeByte(run[k + 1], t(2)[2]) /\ run[k + 2] # 1
      BY <1>12, <1>17
    <3> QED
      BY <3>1, SecondOf4
  <2>2. run[k + 3] = 2
    <3>1. t(3)[3] \in Byte /\ run[k + 3] = DecodeByte(3, t(3)[3]) /\ run[k + 3] # 1
      BY <1>13, <2>1
    <3> QED
      BY <3>1, NextByteDecoded
  <2>3. t(4)[3] \in 128..191 /\ t(4)[4] \in 128..191 /\ run[k + 4] = 0
    <3>1. /\ t(4)[3] \in Byte /\ DecodeByte(3, t(4)[3]) = 2
          /\ t(4)[4] \in Byte /\ run[k + 4] = DecodeByte(2, t(4)[4]) /\ run[k + 4] # 1
      BY <1>14, <2>1, <2>2
    <3>2. t(4)[3] \in 128..191
      BY <3>1, NextByteDecoded
    <3>3. t(4)[4] \in 128..191 /\ run[k + 4] = 0
      BY <3>1, NextByteDecoded
    <3> QED
      BY <3>2, <3>3
  <2>4. /\ t(4)[2] \in 128..191
        /\ run[k + 1] = 6 => t(4)[2] \in 144..191
        /\ run[k + 1] = 8 => t(4)[2] \in 128..143
    <3>1. t(4)[2] \in Byte /\ DecodeByte(run[k + 1], t(4)[2]) # 1
      BY <1>14, <2>1, <2>2
    <3>2. PICK s1 \in {6, 7, 8} : s1 = run[k + 1]
      BY <1>17
    <3> DEFINE c == t(4)[2]
    <3>3. c \in Byte /\ DecodeByte(s1, c) # 1
      BY <3>1, <3>2
    <3> HIDE DEF c
    <3>4. c \in 128..191 /\ (s1 = 6 => c \in 144..191) /\ (s1 = 8 => c \in 128..143)
      <4>0. c \in Byte
        BY <3>3
      <4>1. CASE s1 = 6
        <5>1. DecodeByte(6, c) # 1
          BY <3>3, <4>1
        <5> QED
          BY <4>0, <4>1, <5>1, SecondOf4
      <4>2. CASE s1 = 7
        <5>1. DecodeByte(7, c) # 1
          BY <3>3, <4>2
        <5> QED
          BY <4>0, <4>2, <5>1, SecondOf4
      <4>3. CASE s1 = 8
        <5>1. DecodeByte(8, c) # 1
          BY <3>3, <4>3
        <5> QED
          BY <4>0, <4>3, <5>1, SecondOf4
      <4> QED
        BY <3>2, <4>1, <4>2, <4>3
    <3> QED
      BY <3>2, <3>4, Zenon DEF c
  <2>5. /\ t(4)[1] \in 240..244
        /\ t(4)[1] = 240 => run[k + 1] = 6
        /\ t(4)[1] = 244 => run[k + 1] = 8
    <3>1. t(4)[1] \in Byte /\ run[k + 1] = DecodeByte(0, t(4)[1]) /\ run[k + 1] # 1
      BY <1>9, <1>14, <2>1, <2>2
    <3> QED
      BY <1>17, <3>1, LedBack
  <2>6. Wellformed8(t(4), 4)
    BY <2>3, <2>4, <2>5 DEF Wellformed8
  <2>7. k + 4 <= Len(bytes)
    BY <1>14, <2>1, <2>2
  <2> QED
    BY <1>7, <2>3, <2>6, <2>7
<1> QED
  BY <1>10, <1>11, <1>15, <1>16, <1>17

\* Unless it is rejected, a byte continues a code point just when one has begun.
LEMMA ContinuesIffWithin ==
    ASSUME NEW b \in Byte, NEW s \in States, DecodeByte(s, b) # 1
    PROVE  s = 0 <=> ~Continues(b)
<1>1. s \in {0, 1, 2, 3, 4, 5, 6, 7, 8}
  BY DEF States
<1>2. b \in 0..255 /\ (Continues(b) <=> b \in 128..191)
  BY DEF Byte, Continues
<1>3. CASE s = 0
  <2>1. DecodeByte(0, b) # 1
    BY <1>3
  <2>2. ~(b \in 128..193)
    BY <2>1, Led
  <2> QED
    BY <1>2, <1>3, <2>2
<1>4. CASE s = 1
  BY <1>4, NextByteDecoded
<1>5. CASE s \in {2, 3, 7}
  BY <1>2, <1>5, NextByteDecoded
<1>6. CASE s \in {4, 5}
  BY <1>2, <1>6, NextByteDecoded
<1>7. CASE s \in {6, 8}
  BY <1>2, <1>7, NextByteDecoded
<1> QED
  BY <1>1, <1>3, <1>4, <1>5, <1>6, <1>7

\* What the validator accepts is UTF-8, and what is UTF-8 it accepts.
LEMMA AcceptsUtf8 ==
    ASSUME NEW bytes \in Seq(Byte), NEW run, Decoding(run, 0, bytes)
    PROVE  IsUtf8(bytes) <=> run[Len(bytes)] = 0
<1>1. Len(bytes) \in Nat /\ \A i \in 1..Len(bytes) : bytes[i] \in Byte
  BY LenProperties, ElementOfSeq
<1>2. run \in [0..Len(bytes) -> States] /\ run[0] = 0
  BY DEF Decoding, Decodes
<1>3. ASSUME IsUtf8(bytes) PROVE run[Len(bytes)] = 0
  <2> DEFINE T == {d \in 0..Len(bytes) : Len(bytes) - d \in Cuts(bytes) /\ run[Len(bytes) - d] = 0}
  <2>1. Len(bytes) \in T
    BY <1>1, <1>2, <1>3 DEF IsUtf8
  <2>2. PICK d \in T : \A e \in T : d <= e
    <3>1. T \subseteq Nat
      BY <1>1
    <3> HIDE DEF T
    <3> QED
      BY <2>1, <3>1, SmallestNat
  <2> DEFINE k == Len(bytes) - d
  <2>3. k \in Nat /\ k <= Len(bytes) /\ k \in Cuts(bytes) /\ run[k] = 0
    BY <1>1, <2>2
  <2>4. CASE k = Len(bytes)
    BY <2>3, <2>4
  <2>5. CASE k # Len(bytes)
    <3>1. PICK n \in 1..4 : k + n \in Cuts(bytes) /\ CodePoint(SubSeq(bytes, k + 1, k + n))
      BY <1>3, <2>3, <2>5 DEF IsUtf8
    <3>2. k + n <= Len(bytes)
      BY <3>1 DEF Cuts
    <3>3. SliceRun(run, SubSeq(bytes, k + 1, k + n), k, n)
      <4> HIDE DEF k
      <4> QED
        BY <2>3, <3>2, SliceRunIs
    <3>4. run[k + n] = 0
      <4> HIDE DEF k
      <4> QED
        BY <2>3, <3>1, <3>3, CodePointAccepted
    <3>5. d - n \in 0..Len(bytes) /\ Len(bytes) - (d - n) = k + n /\ ~(d <= d - n)
      BY <1>1, <2>2, <2>3, <3>2
    <3>6. d - n \in T
      BY <3>1, <3>4, <3>5
    <3> HIDE DEF T, k
    <3> QED
      BY <2>2, <3>5, <3>6
  <2> QED
    BY <2>4, <2>5
<1>4. ASSUME run[Len(bytes)] = 0 PROVE IsUtf8(bytes)
  <2>1. \A j \in 0..Len(bytes) : run[j] # 1
    <3>1. \A i, j \in 0..Len(bytes) : i <= j /\ run[i] = 1 => run[j] = 1
      BY RejectStays
    <3>2. \A j \in 0..Len(bytes) : j <= Len(bytes) /\ Len(bytes) \in 0..Len(bytes)
      BY <1>1
    <3> QED
      BY <1>4, <3>1, <3>2
  <2>2. ASSUME NEW k \in 0..Len(bytes), k # Len(bytes) PROVE run[k] = 0 <=> ~Continues(bytes[k + 1])
    <3>1. k + 1 \in 1..Len(bytes) /\ k + 1 \in 0..Len(bytes) /\ (k + 1) - 1 = k
      BY <1>1, <2>2
    <3>2. run[k + 1] = DecodeByte(run[k], bytes[k + 1])
      BY <3>1 DEF Decoding, Decodes
    <3>3. DecodeByte(run[k], bytes[k + 1]) # 1 /\ run[k] \in States /\ bytes[k + 1] \in Byte
      BY <1>1, <1>2, <2>1, <3>1, <3>2
    <3> QED
      BY <3>3, ContinuesIffWithin
  <2>3. \A k \in 0..Len(bytes) : k \in Cuts(bytes) <=> run[k] = 0
    BY <1>1, <1>4, <2>2 DEF Cuts
  <2>4. 0 \in Cuts(bytes)
    BY <1>1, <1>2, <2>3
  <2>5. ASSUME NEW k \in Cuts(bytes), k # Len(bytes)
        PROVE  \E n \in 1..4 : k + n \in Cuts(bytes) /\ CodePoint(SubSeq(bytes, k + 1, k + n))
    <3>1. k \in 0..Len(bytes)
      BY DEF Cuts
    <3>2. k \in Nat /\ k < Len(bytes) /\ run[k] = 0
      BY <1>1, <2>3, <2>5, <3>1
    <3>3. PICK n \in 1..4 : /\ k + n <= Len(bytes) /\ run[k + n] = 0
                            /\ CodePoint(SubSeq(bytes, k + 1, k + n))
      BY <1>4, <3>2, CodePointFound
    <3>4. k + n \in 0..Len(bytes)
      BY <1>1, <3>2, <3>3
    <3> QED
      BY <2>3, <3>3, <3>4
  <2> QED
    BY <2>4, <2>5 DEF IsUtf8
<1> QED
  BY <1>3, <1>4

\* To decode bytes in pieces is to decode them at once.
LEMMA DecodeConcat ==
    ASSUME NEW s \in States, NEW b \in Seq(Byte), NEW c \in Seq(Byte)
    PROVE  /\ Decode(s, b) \in States
           /\ Decode(s, b \o c) = Decode(Decode(s, b), c)
<1>1. /\ b \o c \in Seq(Byte)
      /\ Len(b) \in Nat /\ Len(c) \in Nat /\ Len(b \o c) = Len(b) + Len(c)
      /\ \A i \in 1..Len(b) : (b \o c)[i] = b[i]
      /\ \A i \in 1..Len(c) : (b \o c)[Len(b) + i] = c[i]
  BY ConcatProperties, LenProperties
<1> DEFINE all == b \o c
<1>2. PICK run : Decoding(run, s, all)
  BY <1>1, DecodingExists
<1>3. /\ run \in [0..(Len(b) + Len(c)) -> States] /\ run[0] = s
      /\ \A n \in 1..(Len(b) + Len(c)) : run[n] = DecodeByte(run[n - 1], all[n])
  BY <1>1, <1>2 DEF Decoding, Decodes
<1>4. Decode(s, all) = run[Len(b) + Len(c)]
  BY <1>1, <1>2, DecodeIs
<1> HIDE DEF all
<1> DEFINE D == [n \in 0..Len(b) |-> run[n]]
           E == [n \in 0..Len(c) |-> run[Len(b) + n]]
<1>5. Decoding(D, s, b)
  <2>1. D \in [0..Len(b) -> States] /\ D[0] = s
    BY <1>1, <1>3
  <2>2. ASSUME NEW n \in 1..Len(b) PROVE D[n] = DecodeByte(D[n - 1], b[n])
    <3>1. n \in 0..Len(b) /\ n - 1 \in 0..Len(b) /\ n \in 1..(Len(b) + Len(c)) /\ all[n] = b[n]
      BY <1>1 DEF all
    <3> QED
      BY <1>3, <3>1
  <2> QED
    BY <2>1, <2>2 DEF Decoding, Decodes
<1>6. Decode(s, b) = run[Len(b)] /\ run[Len(b)] \in States
  <2>1. Len(b) \in 0..Len(b) /\ Len(b) \in 0..(Len(b) + Len(c))
    BY <1>1
  <2>2. Decode(s, b) = D[Len(b)]
    <3> HIDE DEF D
    <3> QED
      BY <1>5, DecodeIs
  <2> QED
    BY <1>3, <2>1, <2>2
<1>7. Decoding(E, run[Len(b)], c)
  <2>1. E \in [0..Len(c) -> States] /\ E[0] = run[Len(b)]
    <3>1. \A n \in 0..Len(c) : Len(b) + n \in 0..(Len(b) + Len(c))
      BY <1>1
    <3>2. 0 \in 0..Len(c) /\ Len(b) + 0 = Len(b)
      BY <1>1
    <3> QED
      BY <1>3, <3>1, <3>2
  <2>2. ASSUME NEW n \in 1..Len(c) PROVE E[n] = DecodeByte(E[n - 1], c[n])
    <3>1. /\ n \in 0..Len(c) /\ n - 1 \in 0..Len(c) /\ Len(b) + n \in 1..(Len(b) + Len(c))
          /\ all[Len(b) + n] = c[n] /\ Len(b) + (n - 1) = (Len(b) + n) - 1
      BY <1>1 DEF all
    <3>2. run[Len(b) + n] = DecodeByte(run[(Len(b) + n) - 1], all[Len(b) + n])
      BY <1>3, <3>1
    <3> QED
      BY <3>1, <3>2
  <2> QED
    BY <2>1, <2>2 DEF Decoding, Decodes
<1>8. Decode(run[Len(b)], c) = run[Len(b) + Len(c)]
  <2>1. Len(c) \in 0..Len(c)
    BY <1>1
  <2>2. Decode(run[Len(b)], c) = E[Len(c)]
    <3> HIDE DEF E
    <3> QED
      BY <1>6, <1>7, DecodeIs
  <2> QED
    BY <2>1, <2>2
<1> QED
  BY <1>4, <1>6, <1>8 DEF all

\* The decoder never leaves utf8_reject.
LEMMA DecodeRejected == ASSUME NEW b \in Seq(Byte) PROVE Decode(1, b) = 1
<1>1. 1 \in States
  BY DEF States
<1>2. PICK run : Decoding(run, 1, b)
  BY <1>1, DecodingExists
<1>3. Decode(1, b) = run[Len(b)]
  BY <1>1, <1>2, DecodeIs
<1>4. run[0] = 1
  BY <1>2 DEF Decoding, Decodes
<1>5. \A j, k \in 0..Len(b) : j <= k /\ run[j] = 1 => run[k] = 1
  BY <1>2, RejectStays
<1>6. 0 \in 0..Len(b) /\ Len(b) \in 0..Len(b) /\ 0 <= Len(b)
  BY LenProperties
<1> QED
  BY <1>3, <1>4, <1>5, <1>6

\* A state from which n bytes lead to accept, the first of them x.
LEMMA TailAccepted ==
    ASSUME NEW s \in States, NEW n \in 0..3, NEW x \in TailBytes,
           n = 0 => s = 0,
           n = 1 => DecodeByte(s, x) = 0,
           n = 2 => DecodeByte(s, x) = 2,
           n = 3 => DecodeByte(s, x) = 3
    PROVE  \E tail \in Tails : tail \in Seq(Byte) /\ Decode(s, tail) = 0
<1> DEFINE tail == [k \in 1..n |-> IF k = 1 THEN x ELSE 128]
<1>1. tail \in [1..n -> TailBytes] /\ tail \in Tails /\ \A y \in TailBytes : y \in Byte
  <2>1. tail \in [1..n -> TailBytes] /\ \A y \in TailBytes : y \in Byte
    BY DEF TailBytes, Byte
  <2> HIDE DEF tail
  <2> QED
    BY <2>1 DEF Tails
<1>2. tail \in Seq(Byte) /\ Len(tail) = n
  BY <1>1
<1>3. n >= 1 => tail[1] = x
  OBVIOUS
<1>4. n >= 2 => tail[2] = 128
  OBVIOUS
<1>5. n >= 3 => tail[3] = 128
  OBVIOUS
<1> HIDE DEF tail
<1>6. PICK run : Decoding(run, s, tail)
  BY <1>2, DecodingExists
<1>7. run[0] = s /\ \A k \in 1..n : run[k] = DecodeByte(run[k - 1], tail[k])
  BY <1>2, <1>6 DEF Decoding, Decodes
<1>8. n >= 1 => run[1] = DecodeByte(s, x)
  <2>1. n >= 1 => 1 \in 1..n /\ 1 - 1 = 0
    OBVIOUS
  <2> QED
    BY <1>3, <1>7, <2>1
<1>9. n >= 2 => run[2] = DecodeByte(run[1], 128)
  <2>1. n >= 2 => 2 \in 1..n /\ 2 - 1 = 1
    OBVIOUS
  <2> QED
    BY <1>4, <1>7, <2>1
<1>10. n >= 3 => run[3] = DecodeByte(run[2], 128)
  <2>1. n >= 3 => 3 \in 1..n /\ 3 - 1 = 2
    OBVIOUS
  <2> QED
    BY <1>5, <1>7, <2>1
<1>11. 128 \in Byte
  BY DEF Byte
<1>12. DecodeByte(2, 128) = 0 /\ DecodeByte(3, 128) = 2
  BY <1>11, NextByteDecoded
<1>13. run[n] = 0
  <2>1. CASE n = 0
    BY <1>7, <2>1
  <2>2. CASE n = 1
    BY <1>8, <2>2
  <2>3. CASE n = 2
    BY <1>8, <1>9, <1>12, <2>3
  <2>4. CASE n = 3
    BY <1>8, <1>9, <1>10, <1>12, <2>4
  <2> QED
    BY <2>1, <2>2, <2>3, <2>4
<1>14. Decode(s, tail) = run[Len(tail)]
  BY <1>2, <1>6, DecodeIs
<1> QED
  BY <1>1, <1>2, <1>13, <1>14

\* From every state but reject, some bytes lead to accept.
LEMMA Completed ==
    ASSUME NEW s \in States, s # 1
    PROVE  \E tail \in Tails : tail \in Seq(Byte) /\ Decode(s, tail) = 0
<1>1. 128 \in Byte /\ 144 \in Byte /\ 191 \in Byte
  BY DEF Byte
<1>2. /\ DecodeByte(2, 128) = 0 /\ DecodeByte(3, 128) = 2 /\ DecodeByte(4, 191) = 2
      /\ DecodeByte(5, 128) = 2 /\ DecodeByte(6, 144) = 3 /\ DecodeByte(7, 128) = 3
      /\ DecodeByte(8, 128) = 3
  BY <1>1, NextByteDecoded
<1>3. \E n \in 0..3, x \in TailBytes :
         /\ n = 0 => s = 0
         /\ n = 1 => DecodeByte(s, x) = 0
         /\ n = 2 => DecodeByte(s, x) = 2
         /\ n = 3 => DecodeByte(s, x) = 3
  <2>1. s \in {0, 2, 3, 4, 5, 6, 7, 8}
    BY DEF States
  <2>2. 128 \in TailBytes /\ 144 \in TailBytes /\ 191 \in TailBytes
    BY DEF TailBytes
  <2>3. 0 \in 0..3 /\ 1 \in 0..3 /\ 2 \in 0..3 /\ 3 \in 0..3
    OBVIOUS
  <2>4. CASE s = 0
    BY <2>2, <2>3, <2>4
  <2>5. CASE s = 2
    BY <1>2, <2>2, <2>3, <2>5
  <2>6. CASE s = 3 \/ s = 5
    BY <1>2, <2>2, <2>3, <2>6
  <2>7. CASE s = 4
    BY <1>2, <2>2, <2>3, <2>7
  <2>8. CASE s = 6
    BY <1>2, <2>2, <2>3, <2>8
  <2>9. CASE s = 7 \/ s = 8
    BY <1>2, <2>2, <2>3, <2>9
  <2> QED
    BY <2>1, <2>4, <2>5, <2>6, <2>7, <2>8, <2>9
<1>4. PICK n \in 0..3, x \in TailBytes :
         /\ n = 0 => s = 0
         /\ n = 1 => DecodeByte(s, x) = 0
         /\ n = 2 => DecodeByte(s, x) = 2
         /\ n = 3 => DecodeByte(s, x) = 3
  BY <1>3
<1> QED
  BY <1>4, TailAccepted

\* The validator decides what UTF-8 is, and what can become it.
THEOREM DecodeDecides ==
    ASSUME NEW bytes \in Seq(Byte)
    PROVE  /\ Decode(0, bytes) \in States
           /\ IsUtf8(bytes) <=> Decode(0, bytes) = 0
           /\ BeginsUtf8(bytes) <=> Decode(0, bytes) # 1
<1>1. 0 \in States /\ 1 \in States
  BY DEF States
<1>2. ASSUME NEW b \in Seq(Byte) PROVE Decode(0, b) \in States /\ (IsUtf8(b) <=> Decode(0, b) = 0)
  <2>1. PICK run : Decoding(run, 0, b)
    BY <1>1, DecodingExists
  <2>2. Decode(0, b) = run[Len(b)]
    BY <1>1, <2>1, DecodeIs
  <2>3. run[Len(b)] \in States
    <3>1. Len(b) \in 0..Len(b)
      BY LenProperties
    <3> QED
      BY <2>1, <3>1 DEF Decoding
  <2>4. IsUtf8(b) <=> run[Len(b)] = 0
    BY <2>1, AcceptsUtf8
  <2> QED
    BY <2>2, <2>3, <2>4
<1>3. ASSUME Decode(0, bytes) # 1 PROVE BeginsUtf8(bytes)
  <2>1. Decode(0, bytes) \in States
    BY <1>2
  <2>2. PICK tail \in Tails : tail \in Seq(Byte) /\ Decode(Decode(0, bytes), tail) = 0
    BY <1>3, <2>1, Completed
  <2>3. bytes \o tail \in Seq(Byte) /\ Decode(0, bytes \o tail) = 0
    BY <1>1, <2>2, ConcatProperties, DecodeConcat
  <2>4. IsUtf8(bytes \o tail)
    BY <1>2, <2>3
  <2> QED
    BY <2>4 DEF BeginsUtf8
<1>4. ASSUME BeginsUtf8(bytes) PROVE Decode(0, bytes) # 1
  <2>1. PICK tail \in Tails : IsUtf8(bytes \o tail)
    BY <1>4 DEF BeginsUtf8
  <2>2. tail \in Seq(Byte)
    <3>1. \A y \in TailBytes : y \in Byte
      BY DEF TailBytes, Byte
    <3>2. PICK n \in 0..3 : tail \in [1..n -> TailBytes]
      BY DEF Tails
    <3> QED
      BY <3>1, <3>2
  <2>3. bytes \o tail \in Seq(Byte)
    BY <2>2, ConcatProperties
  <2>4. Decode(0, bytes \o tail) = 0
    BY <1>2, <2>1, <2>3
  <2>5. Decode(0, bytes \o tail) = Decode(Decode(0, bytes), tail)
    BY <1>1, <2>2, DecodeConcat
  <2>6. Decode(1, tail) = 1
    BY <2>2, DecodeRejected
  <2> QED
    BY <2>4, <2>5, <2>6
<1> QED
  BY <1>2, <1>3, <1>4

----------------------------------------------------------------------------
(* Where the frames are in the stream.                                      *)

N == Len(stream)

\* What the streams are, of the one that is read.
LEMMA FrameFacts ==
    ASSUME stream \in Streams
    PROVE  /\ N \in Nat /\ DOMAIN stream = 1..N /\ stream \in Seq(Frames)
           /\ \A k \in 1..N :
                 /\ stream[k] \in Frames
                 /\ stream[k].payload \in Seq(Byte)
                 /\ stream[k].size \in Nat /\ Len(stream[k].payload) \in Nat
                 /\ Len(stream[k].payload) <= stream[k].size
                 /\ k < N => Len(stream[k].payload) = stream[k].size
                 /\ stream[k].code = "7bit" => stream[k].size <= payload_size_basic
                 /\ HeaderLength(stream[k]) \in Nat /\ HeaderLength(stream[k]) >= 2
                 /\ stream[k].masked => HeaderLength(stream[k]) >= 6
<1>1. /\ stream \in Seq(Frames)
      /\ \A k \in DOMAIN stream :
            /\ stream[k].code = "7bit" => stream[k].size <= payload_size_basic
            /\ IF k < Len(stream) THEN Len(stream[k].payload) = stream[k].size
                                  ELSE Len(stream[k].payload) <= stream[k].size
  BY StreamsAssumption
<1>2. N \in Nat /\ DOMAIN stream = 1..N
  BY <1>1, LenProperties DEF N
<1>3. ASSUME NEW k \in 1..N
      PROVE /\ stream[k] \in Frames
            /\ stream[k].payload \in Seq(Byte)
            /\ stream[k].size \in Nat /\ Len(stream[k].payload) \in Nat
            /\ Len(stream[k].payload) <= stream[k].size
            /\ k < N => Len(stream[k].payload) = stream[k].size
            /\ stream[k].code = "7bit" => stream[k].size <= payload_size_basic
            /\ HeaderLength(stream[k]) \in Nat /\ HeaderLength(stream[k]) >= 2
            /\ stream[k].masked => HeaderLength(stream[k]) >= 6
  <2>1. stream[k] \in Frames
    BY <1>1, <1>2, ElementOfSeq DEF N
  <2>2. /\ stream[k].payload \in Seq(Byte) /\ stream[k].size \in Nat
        /\ stream[k].code \in {"7bit", "16bit", "64bit"} /\ stream[k].masked \in BOOLEAN
    BY <2>1 DEF Frames
  <2>3. Len(stream[k].payload) \in Nat
    BY <2>2, LenProperties
  <2>4. /\ stream[k].code = "7bit" => stream[k].size <= payload_size_basic
        /\ IF k < N THEN Len(stream[k].payload) = stream[k].size
                    ELSE Len(stream[k].payload) <= stream[k].size
    BY <1>1, <1>2 DEF N
  <2>5. /\ HeaderLength(stream[k]) \in Nat /\ HeaderLength(stream[k]) >= 2
        /\ stream[k].masked => HeaderLength(stream[k]) >= 6
    <3> DEFINE more == IF stream[k].masked THEN 4 ELSE 0
    <3>1. more \in {0, 4} /\ (stream[k].masked => more = 4)
      OBVIOUS
    <3>2. CASE stream[k].code = "7bit"
      <4>1. HeaderLength(stream[k]) = 2 + 0 + more
        BY <3>2 DEF HeaderLength, BASIC_HEADER_LENGTH
      <4> HIDE DEF more
      <4> QED
        BY <3>1, <4>1
    <3>3. CASE stream[k].code = "16bit"
      <4>1. HeaderLength(stream[k]) = 2 + 2 + more
        BY <3>3 DEF HeaderLength, BASIC_HEADER_LENGTH
      <4> HIDE DEF more
      <4> QED
        BY <3>1, <4>1
    <3>4. CASE stream[k].code = "64bit"
      <4>1. HeaderLength(stream[k]) = 2 + 8 + more
        BY <3>4 DEF HeaderLength, BASIC_HEADER_LENGTH
      <4> HIDE DEF more
      <4> QED
        BY <3>1, <4>1
    <3> QED
      BY <2>2, <3>2, <3>3, <3>4
  <2> QED
    BY <2>1, <2>2, <2>3, <2>4, <2>5
<1> QED
  BY <1>1, <1>2, <1>3

Size(k) == HeaderLength(stream[k]) + Len(stream[k].payload)

\* The function that FrameEnd defines exists, and each frame has two bytes at least.
LEMMA FrameEndFacts ==
    ASSUME stream \in Streams
    PROVE  /\ FrameEnd \in [0..N -> Nat] /\ FrameEnd[0] = 0
           /\ \A k \in 1..N : FrameEnd[k] = FrameEnd[k - 1] + HeaderLength(stream[k])
                                               + Len(stream[k].payload)
<1> DEFINE g == [p \in (1..N) \X Nat |-> p[2] + Size(p[1])]
           F(h) == [k \in 0..N |-> IF k = 0 THEN 0
                                   ELSE h[k - 1] + HeaderLength(stream[k]) + Len(stream[k].payload)]
<1>1. /\ N \in Nat
      /\ \A k \in 1..N : HeaderLength(stream[k]) \in Nat /\ Len(stream[k].payload) \in Nat
  BY FrameFacts
<1>2. g \in Steps(N, Nat)
  <2>1. \A k \in 1..N, v \in Nat : v + Size(k) \in Nat
    BY <1>1 DEF Size
  <2> QED
    BY <2>1 DEF Steps
<1>3. \A k \in 1..N, v \in Nat : g[<<k, v>>] = v + HeaderLength(stream[k]) + Len(stream[k].payload)
  BY <1>1 DEF Size
<1> HIDE DEF g
<1>4. PICK f : Iterates(f, N, Nat, 0, g)
  BY <1>1, <1>2, RecursionExists
<1>5. f = F(f)
  <2>1. \A k \in 1..N : k - 1 \in 0..N
    BY <1>1
  <2>2. \A k \in 1..N : f[k] = f[k - 1] + HeaderLength(stream[k]) + Len(stream[k].payload)
    BY <1>3, <1>4, <2>1 DEF Iterates
  <2>3. f \in [0..N -> Nat] /\ f[0] = 0
    BY <1>4 DEF Iterates
  <2>4. \A k \in 0..N : k # 0 => k \in 1..N
    BY <1>1
  <2> QED
    BY <2>2, <2>3, <2>4
<1>6. FrameEnd = F(FrameEnd)
  <2>1. FrameEnd = CHOOSE h : h = F(h)
    BY DEF FrameEnd, N
  <2> HIDE DEF F
  <2> QED
    BY <1>5, <2>1
<1>7. /\ FrameEnd[0] = 0
      /\ \A k \in 1..N : FrameEnd[k] = FrameEnd[k - 1] + HeaderLength(stream[k])
                                          + Len(stream[k].payload)
  BY <1>1, <1>6
<1>8. FrameEnd = [k \in 0..N |-> FrameEnd[k]]
  BY <1>6
<1>9. \A k \in 0..N : k \in {j \in 0..N : FrameEnd[j] \in Nat}
  <2> DEFINE T == {j \in 0..N : FrameEnd[j] \in Nat}
  <2>1. 0 \in T
    BY <1>1, <1>7
  <2>2. ASSUME NEW k \in 1..N, k - 1 \in T PROVE k \in T
    <3>1. k \in 0..N
      OBVIOUS
    <3> QED
      <4>1. FrameEnd[k] = FrameEnd[k - 1] + HeaderLength(stream[k]) + Len(stream[k].payload)
        BY <1>7
      <4>2. FrameEnd[k - 1] \in Nat /\ HeaderLength(stream[k]) \in Nat /\ Len(stream[k].payload) \in Nat
        BY <1>1, <2>2
      <4>3. FrameEnd[k] \in Nat
        BY <4>1, <4>2
      <4> QED
        BY <3>1, <4>3
  <2> HIDE DEF T
  <2>3. \A k \in 0..N : k \in T
    BY <1>1, <2>1, <2>2, UpTo
  <2> QED
    BY <2>3 DEF T
<1> QED
  BY <1>7, <1>8, <1>9

\* Ends that grow by two at least are in the order of their numbers.
LEMMA Growing ==
    ASSUME NEW M \in Nat, NEW f \in [0..M -> Nat], \A k \in 1..M : f[k - 1] + 2 <= f[k]
    PROVE  \A j, k \in 0..M : j < k => f[j] + 2 <= f[k]
<1>1. SUFFICES ASSUME NEW j \in 0..M PROVE \A k \in 0..M : j < k => f[j] + 2 <= f[k]
  OBVIOUS
<1> DEFINE T == {k \in 0..M : j < k => f[j] + 2 <= f[k]}
<1>2. 0 \in T
  OBVIOUS
<1>3. ASSUME NEW k \in 1..M, k - 1 \in T PROVE k \in T
  <2>1. k \in 0..M /\ k - 1 \in 0..M
    OBVIOUS
  <2>2. f[j] \in Nat /\ f[k] \in Nat /\ f[k - 1] \in Nat /\ f[k - 1] + 2 <= f[k]
    BY <2>1
  <2>3. CASE j < k - 1
    BY <1>3, <2>1, <2>2, <2>3
  <2>4. CASE j = k - 1
    BY <2>1, <2>2, <2>4
  <2>5. CASE ~(j < k)
    BY <2>1, <2>5
  <2>6. j < k - 1 \/ j = k - 1 \/ ~(j < k)
    BY <2>1
  <2> QED
    BY <2>3, <2>4, <2>5, <2>6
<1>4. \A k \in 0..M : k \in T
  <2> HIDE DEF T
  <2> QED
    BY <1>2, <1>3, UpTo
<1> QED
  BY <1>4

\* Frames do not overlap: each takes at least the two bytes of its basic header.
LEMMA FrameEndOrder ==
    ASSUME stream \in Streams
    PROVE  \A j, k \in 0..N : /\ j < k => FrameEnd[j] + 2 <= FrameEnd[k]
                              /\ j <= k => FrameEnd[j] <= FrameEnd[k]
<1>1. /\ N \in Nat
      /\ \A k \in 1..N : /\ HeaderLength(stream[k]) \in Nat /\ Len(stream[k].payload) \in Nat
                         /\ HeaderLength(stream[k]) >= 2
  BY FrameFacts
<1>2. /\ FrameEnd \in [0..N -> Nat]
      /\ \A k \in 1..N : FrameEnd[k] = FrameEnd[k - 1] + HeaderLength(stream[k])
                                               + Len(stream[k].payload)
  BY FrameEndFacts
<1>3. ASSUME NEW k \in 1..N PROVE FrameEnd[k - 1] + 2 <= FrameEnd[k]
  <2>1. k - 1 \in 0..N /\ k \in 0..N
    BY <1>1
  <2>2. FrameEnd[k - 1] \in Nat /\ FrameEnd[k] \in Nat
    BY <1>2, <2>1
  <2>3. FrameEnd[k] = FrameEnd[k - 1] + HeaderLength(stream[k]) + Len(stream[k].payload)
    BY <1>2
  <2>4. HeaderLength(stream[k]) \in Nat /\ Len(stream[k].payload) \in Nat /\ HeaderLength(stream[k]) >= 2
    BY <1>1
  <2> QED
    BY <2>2, <2>3, <2>4
<1>4. \A j, k \in 0..N : j < k => FrameEnd[j] + 2 <= FrameEnd[k]
  BY <1>1, <1>2, <1>3, Growing
<1>5. ASSUME NEW j \in 0..N, NEW k \in 0..N, j <= k PROVE FrameEnd[j] <= FrameEnd[k]
  <2>1. FrameEnd[j] \in Nat /\ FrameEnd[k] \in Nat /\ (j < k \/ j = k)
    BY <1>1, <1>2, <1>5
  <2> QED
    BY <1>4, <2>1
<1> QED
  BY <1>4, <1>5

\* The frame of a byte, and where in it the byte is.
LEMMA Located ==
    ASSUME stream \in Streams, NEW k \in 1..N, NEW byte \in Nat,
           FrameEnd[k - 1] < byte, byte <= FrameEnd[k]
    PROVE  /\ FrameAt(byte) = k
           /\ OffsetOf(byte) = byte - FrameEnd[k - 1] - HeaderLength(stream[k]) - 1
<1>1. N \in Nat /\ DOMAIN stream = 1..N /\ FrameEnd \in [0..N -> Nat]
  BY FrameFacts, FrameEndFacts
<1> DEFINE In(j) == FrameEnd[j - 1] < byte /\ byte <= FrameEnd[j]
<1>2. ASSUME NEW j \in 1..N, In(j) PROVE j = k
  <2>1. j \in 0..N /\ j - 1 \in 0..N /\ k \in 0..N /\ k - 1 \in 0..N
    BY <1>1
  <2>2. FrameEnd[j] \in Nat /\ FrameEnd[j - 1] \in Nat /\ FrameEnd[k] \in Nat /\ FrameEnd[k - 1] \in Nat
    BY <1>1, <2>1
  <2>3. \A a, b \in 0..N : a <= b => FrameEnd[a] <= FrameEnd[b]
    BY FrameEndOrder
  <2>4. CASE j < k
    <3>1. j <= k - 1
      BY <2>1, <2>4
    <3>2. FrameEnd[j] <= FrameEnd[k - 1]
      BY <2>1, <2>3, <3>1
    <3> QED
      BY <1>2, <2>2, <3>2
  <2>5. CASE k < j
    <3>1. k <= j - 1
      BY <2>1, <2>5
    <3>2. FrameEnd[k] <= FrameEnd[j - 1]
      BY <2>1, <2>3, <3>1
    <3> QED
      BY <1>2, <2>2, <3>2
  <2> QED
    BY <2>1, <2>4, <2>5
<1>3. FrameAt(byte) = k
  <2>1. FrameAt(byte) = CHOOSE j \in 1..N : In(j)
    BY <1>1 DEF FrameAt
  <2>2. k \in 1..N /\ In(k)
    OBVIOUS
  <2> HIDE DEF In
  <2>3. FrameAt(byte) \in 1..N /\ In(FrameAt(byte))
    BY <2>1, <2>2
  <2> QED
    BY <1>2, <2>3
<1> QED
  BY <1>3 DEF OffsetOf

----------------------------------------------------------------------------
(* What RFC 6455 makes of the first frames.                                 *)

Contents == [opcode : Opcodes, payload : Seq(Byte)]
Partials == {<<>>} \cup {<<m>> : m \in Contents}
Readings == [messages : Seq(Contents), partial : Partials, wrong : BOOLEAN]

\* A frame joined with what came before it is a message.
LEMMA JoinedType ==
    ASSUME NEW f \in Frames, NEW partial \in Partials
    PROVE  Content(f) \in Contents /\ Joined(f, partial) \in Contents
<1>1. f.opcode \in Opcodes /\ f.payload \in Seq(Byte)
  BY DEF Frames
<1>2. Content(f) \in Contents
  BY <1>1 DEF Content, Contents
<1>3. CASE partial = <<>>
  BY <1>2, <1>3 DEF Joined
<1>4. CASE partial # <<>>
  <2>1. PICK m \in Contents : partial = <<m>>
    BY <1>4 DEF Partials
  <2>2. Joined(f, partial) = [opcode |-> m.opcode, payload |-> m.payload \o f.payload]
    BY <1>4, <2>1 DEF Joined
  <2>3. m.opcode \in Opcodes /\ m.payload \in Seq(Byte)
    BY DEF Contents
  <2>4. m.payload \o f.payload \in Seq(Byte)
    BY <1>1, <2>3, ConcatProperties
  <2> QED
    BY <1>2, <2>2, <2>3, <2>4 DEF Contents
<1> QED
  BY <1>3, <1>4

\* A frame adds a message, or none.
LEMMA WholeFacts ==
    ASSUME NEW read \in Readings, NEW f \in Frames
    PROVE  /\ Whole(read, f) \in Readings
           /\ \/ Whole(read, f).messages = read.messages
              \/ \E m \in Contents : Whole(read, f).messages = Append(read.messages, m)
<1>1. /\ read.messages \in Seq(Contents) /\ read.partial \in Partials /\ read.wrong \in BOOLEAN
      /\ read = [messages |-> read.messages, partial |-> read.partial, wrong |-> read.wrong]
  BY DEF Readings
<1>2. Content(f) \in Contents /\ Joined(f, read.partial) \in Contents
  BY <1>1, JoinedType
<1>3. <<Joined(f, read.partial)>> \in Partials /\ <<>> \in Partials
  BY <1>2 DEF Partials
<1>4. /\ Append(read.messages, Content(f)) \in Seq(Contents)
      /\ Append(read.messages, Joined(f, read.partial)) \in Seq(Contents)
  BY <1>1, <1>2
<1> DEFINE m == Joined(f, read.partial)
<1>5. \/ Whole(read, f) = read
      \/ Whole(read, f) = [read EXCEPT !.wrong = TRUE]
      \/ Whole(read, f) = [read EXCEPT !.messages = Append(@, Content(f))]
      \/ Whole(read, f) = [read EXCEPT !.messages = Append(@, m), !.partial = <<>>]
      \/ Whole(read, f) = [read EXCEPT !.partial = <<m>>]
  <2> HIDE DEF m
  <2>1. CASE read.wrong \/ Wrong(f, read.partial)
    BY <2>1 DEF Whole
  <2>2. CASE ~(read.wrong \/ Wrong(f, read.partial))
    <3>1. Whole(read, f) = Taken(read, f, m)
      BY <2>2 DEF Whole, m
    <3>2. CASE f.opcode \in Controls /\ HasAll(f)
      BY <3>1, <3>2 DEF Taken
    <3>3. CASE f.opcode \in Controls /\ ~HasAll(f)
      BY <3>1, <3>3 DEF Taken
    <3>4. CASE f.opcode \notin Controls /\ ~WellEncoded(m, Ends(f))
      BY <3>1, <3>4 DEF Taken
    <3>5. CASE f.opcode \notin Controls /\ WellEncoded(m, Ends(f))
      BY <3>1, <3>5 DEF Taken
    <3> QED
      BY <3>2, <3>3, <3>4, <3>5
  <2> QED
    BY <2>1, <2>2
<1> HIDE DEF m
<1>6. CASE Whole(read, f) = read
  BY <1>6
<1>7. CASE Whole(read, f) = [read EXCEPT !.wrong = TRUE]
  BY <1>1, <1>7 DEF Readings
<1>8. CASE Whole(read, f) = [read EXCEPT !.messages = Append(@, Content(f))]
  <2>1. Whole(read, f).messages = Append(read.messages, Content(f))
    BY <1>1, <1>8
  <2>2. Whole(read, f) \in Readings
    BY <1>1, <1>4, <1>8 DEF Readings
  <2> QED
    BY <1>2, <2>1, <2>2
<1>9. CASE Whole(read, f) = [read EXCEPT !.messages = Append(@, m), !.partial = <<>>]
  <2>1. Whole(read, f).messages = Append(read.messages, m)
    BY <1>1, <1>9
  <2>2. Whole(read, f) \in Readings
    BY <1>1, <1>3, <1>4, <1>9 DEF Readings, m
  <2> QED
    BY <1>2, <2>1, <2>2 DEF m
<1>10. CASE Whole(read, f) = [read EXCEPT !.partial = <<m>>]
  BY <1>1, <1>3, <1>10 DEF Readings, m
<1> QED
  BY <1>5, <1>6, <1>7, <1>8, <1>9, <1>10

\* ReadUpTo is what its definition says.
LEMMA ReadUpToFacts ==
    ASSUME stream \in Streams
    PROVE  /\ ReadUpTo \in [0..N -> Readings] /\ ReadUpTo[0] = NothingRead
           /\ \A k \in 1..N : ReadUpTo[k] = Whole(ReadUpTo[k - 1], stream[k])
<1> DEFINE g == [p \in (1..N) \X Readings |-> Whole(p[2], stream[p[1]])]
           F(h) == [k \in 0..N |-> IF k = 0 THEN NothingRead ELSE Whole(h[k - 1], stream[k])]
<1>1. N \in Nat /\ \A k \in 1..N : stream[k] \in Frames
  BY FrameFacts
<1>2. g \in Steps(N, Readings)
  BY <1>1, WholeFacts DEF Steps
<1>3. \A k \in 1..N, v \in Readings : g[<<k, v>>] = Whole(v, stream[k])
  OBVIOUS
<1> HIDE DEF g
<1>4. NothingRead \in Readings
  <2>1. <<>> \in Seq(Contents) /\ <<>> \in Partials
    BY DEF Partials
  <2> QED
    BY <2>1 DEF NothingRead, Readings
<1>5. PICK f : Iterates(f, N, Readings, NothingRead, g)
  BY <1>1, <1>2, <1>4, RecursionExists
<1>6. f = F(f)
  <2>1. \A k \in 1..N : k - 1 \in 0..N
    BY <1>1
  <2>2. \A k \in 1..N : f[k] = Whole(f[k - 1], stream[k])
    BY <1>3, <1>5, <2>1 DEF Iterates
  <2>3. f \in [0..N -> Readings] /\ f[0] = NothingRead
    BY <1>5 DEF Iterates
  <2>4. \A k \in 0..N : k # 0 => k \in 1..N
    BY <1>1
  <2> QED
    BY <2>2, <2>3, <2>4
<1>7. ReadUpTo = F(ReadUpTo)
  <2>1. ReadUpTo = CHOOSE h : h = F(h)
    BY DEF ReadUpTo, N
  <2> HIDE DEF F
  <2> QED
    BY <1>6, <2>1
<1>8. ReadUpTo[0] = NothingRead /\ \A k \in 1..N : ReadUpTo[k] = Whole(ReadUpTo[k - 1], stream[k])
  BY <1>1, <1>7
<1>9. ReadUpTo = [k \in 0..N |-> ReadUpTo[k]]
  BY <1>7
<1> DEFINE T == {k \in 0..N : ReadUpTo[k] \in Readings}
<1>10. \A k \in 0..N : k \in T
  <2>1. 0 \in T
    BY <1>1, <1>4, <1>8
  <2>2. ASSUME NEW k \in 1..N, k - 1 \in T PROVE k \in T
    <3>1. k \in 0..N /\ ReadUpTo[k - 1] \in Readings /\ stream[k] \in Frames
      BY <1>1, <2>2
    <3>2. ReadUpTo[k] \in Readings
      BY <1>8, <3>1, WholeFacts
    <3> QED
      BY <3>1, <3>2
  <2> HIDE DEF T
  <2> QED
    BY <1>1, <2>1, <2>2, UpTo
<1> QED
  BY <1>8, <1>9, <1>10

\* Behind a wrong frame nothing more is taken.
LEMMA WrongStays ==
    ASSUME stream \in Streams, NEW k \in 0..N, ReadUpTo[k].wrong
    PROVE  ReadWhole = ReadUpTo[k]
<1>1. N \in Nat /\ \A j \in 1..N : ReadUpTo[j] = Whole(ReadUpTo[j - 1], stream[j])
  BY FrameFacts, ReadUpToFacts
<1> DEFINE T == {j \in 0..N : k <= j => ReadUpTo[j] = ReadUpTo[k]}
<1>2. 0 \in T
  BY <1>1
<1>3. ASSUME NEW j \in 1..N, j - 1 \in T PROVE j \in T
  <2>1. j \in 0..N
    OBVIOUS
  <2>2. CASE k <= j - 1
    <3>1. ReadUpTo[j - 1] = ReadUpTo[k]
      BY <1>3, <2>2
    <3>2. ReadUpTo[j] = Whole(ReadUpTo[k], stream[j])
      BY <1>1, <3>1
    <3>3. ReadUpTo[j] = ReadUpTo[k]
      BY <3>2 DEF Whole
    <3> QED
      BY <2>1, <3>3
  <2>3. CASE ~(k <= j - 1)
    BY <1>1, <2>1, <2>3
  <2> QED
    BY <2>2, <2>3
<1>4. \A j \in 0..N : j \in T
  <2> HIDE DEF T
  <2> QED
    BY <1>1, <1>2, <1>3, UpTo
<1>5. N \in 0..N /\ k <= N
  BY <1>1
<1>6. ReadUpTo[N] = ReadUpTo[k]
  BY <1>4, <1>5
<1> QED
  BY <1>6 DEF ReadWhole, N

\* One sequence begins with another.
BeginsWith(t, s) == Len(s) <= Len(t) /\ \A i \in 1..Len(s) : t[i] = s[i]

\* Sequences that agree as long as the first goes are a prefix and its extension.
LEMMA PrefixIs ==
    ASSUME NEW S, NEW s \in Seq(S), NEW t \in Seq(S), BeginsWith(t, s)
    PROVE  IsPrefix(s, t)
<1>1. Len(s) \in Nat /\ Len(t) \in Nat /\ Len(s) <= Len(t)
  BY LenProperties DEF BeginsWith
<1>2. SubSeq(s, 1, Len(s)) = [i \in 1..Len(s) |-> s[i]] /\ SubSeq(t, 1, Len(s)) = [i \in 1..Len(s) |-> t[i]]
  BY <1>1
<1>3. SubSeq(s, 1, Len(s)) = SubSeq(t, 1, Len(s))
  BY <1>2 DEF BeginsWith
<1> QED
  BY <1>1, <1>3 DEF IsPrefix

\* The reference reader takes no message back: what k frames make is a beginning of
\* what all of them make.
LEMMA MessagesGrow ==
    ASSUME stream \in Streams, NEW k \in 0..N
    PROVE  IsPrefix(ReadUpTo[k].messages, ReadWhole.messages)
<1>1. /\ N \in Nat /\ ReadUpTo \in [0..N -> Readings]
      /\ \A j \in 1..N : stream[j] \in Frames /\ ReadUpTo[j] = Whole(ReadUpTo[j - 1], stream[j])
  BY FrameFacts, ReadUpToFacts
<1> DEFINE M(j) == ReadUpTo[j].messages
           T == {j \in 0..N : k <= j => BeginsWith(M(j), M(k))}
<1>2. \A j \in 0..N : M(j) \in Seq(Contents) /\ Len(M(j)) \in Nat
  BY <1>1, LenProperties DEF Readings
<1> HIDE DEF M
<1>3. BeginsWith(M(k), M(k))
  BY <1>2 DEF BeginsWith
<1>4. 0 \in T
  BY <1>1, <1>3
<1>5. ASSUME NEW j \in 1..N, j - 1 \in T PROVE j \in T
  <2>1. j \in 0..N /\ j - 1 \in 0..N
    BY <1>1
  <2>2. CASE k <= j - 1
    <3>1. BeginsWith(M(j - 1), M(k))
      BY <1>5, <2>2
    <3>2. M(j) = M(j - 1) \/ \E m \in Contents : M(j) = Append(M(j - 1), m)
      <4>1. ReadUpTo[j - 1] \in Readings /\ stream[j] \in Frames
        BY <1>1, <2>1
      <4>2. ReadUpTo[j] = Whole(ReadUpTo[j - 1], stream[j])
        BY <1>1
      <4> QED
        BY <4>1, <4>2, WholeFacts DEF M
    <3>3. CASE M(j) = M(j - 1)
      BY <2>1, <3>1, <3>3
    <3>4. ASSUME NEW m \in Contents, M(j) = Append(M(j - 1), m) PROVE BeginsWith(M(j), M(k))
      <4>1. /\ Len(M(j)) = Len(M(j - 1)) + 1
            /\ \A i \in 1..Len(M(j - 1)) : M(j)[i] = M(j - 1)[i]
        BY <1>2, <2>1, <3>4, AppendProperties
      <4>2. Len(M(k)) \in Nat /\ Len(M(j - 1)) \in Nat
        BY <1>2, <2>1
      <4> QED
        BY <3>1, <4>1, <4>2 DEF BeginsWith
    <3> QED
      BY <2>1, <3>2, <3>3, <3>4
  <2>3. CASE ~(k <= j - 1)
    <3>1. k <= j => k = j
      BY <1>1, <2>1, <2>3
    <3> QED
      BY <1>3, <2>1, <3>1
  <2> QED
    BY <2>2, <2>3
<1>6. \A j \in 0..N : j \in T
  <2> HIDE DEF T
  <2> QED
    BY <1>1, <1>4, <1>5, UpTo
<1>7. N \in 0..N /\ k <= N
  BY <1>1
<1>8. BeginsWith(M(N), M(k))
  BY <1>6, <1>7
<1>9. IsPrefix(M(k), M(N))
  BY <1>2, <1>7, <1>8, PrefixIs
<1> QED
  BY <1>9 DEF M, ReadWhole, N

----------------------------------------------------------------------------
(* The invariant. FramesRead is not inductive alone: it says nothing of a   *)
(* frame that is half read.                                                 *)

MsgTypes == [opcode : Opcodes \cup {"none"}, payload : Seq(Byte), validator : States, key : Nat \X Nat]

FrameTypes ==
    /\ stream \in Streams
    /\ arrived \in Nat /\ consumed \in Nat /\ consumed <= arrived /\ arrived <= Total
    /\ reader \in {"read", "consume", "closed"}
    /\ m_state \in {"HEADER_BASIC", "HEADER_EXTENDED", "APPLICATION", "READY"}
    /\ m_bytes_needed \in Nat
    /\ m_header \in Seq(Nat)
    /\ m_data_msg \in MsgTypes /\ m_control_msg \in MsgTypes
    /\ m_current_msg \in {"data", "control"}
    /\ dispatched \in Seq([opcode : Opcodes \cup {"none"}, payload : Seq(Byte)])

\* The transport is asked for more only when more is needed.
Idle == reader = "read" => m_state # "READY" /\ consumed = arrived /\ m_bytes_needed > 0

\* Room for what is needed of the payload was found when its header was read.
Room(msg, current) ==
    Len(msg.payload) + (IF reader # "closed" /\ m_state = "APPLICATION" /\ m_current_msg = current
                        THEN m_bytes_needed ELSE 0)
DataFits    == LegalSizes => Room(m_data_msg, "data") <= max_message_size
ControlFits == Room(m_control_msg, "control") <= payload_size_basic

\* k frames were processed, and m_header has the first byte of the next.
HeaderOf(k) == m_header # <<>> /\ m_header[1] = FrameEnd[k] + 1

\* The next frame is not refused for its first two bytes.
BasicAllows(f, new) ==
    /\ f.masked /\ ~f.rsv /\ f.opcode \notin Reserved
    /\ f.opcode \in Controls => f.code = "7bit" /\ f.fin
    /\ f.opcode \notin Controls => new # (f.opcode = "CONTINUATION")

\* How many bytes of the payload were read.
PayloadRead(k) == stream[k + 1].size - m_bytes_needed

InBasic(k) ==
    m_state = "HEADER_BASIC" =>
       /\ m_bytes_needed \in 1..2
       /\ consumed = FrameEnd[k] + 2 - m_bytes_needed
       /\ IF m_bytes_needed = 2 THEN m_header = <<>> ELSE HeaderOf(k)

InExtended(k) ==
    m_state = "HEADER_EXTENDED" =>
       /\ k < N /\ HeaderOf(k)
       /\ m_bytes_needed >= 1
       /\ m_bytes_needed <= HeaderLength(stream[k + 1]) - 2
       /\ consumed = FrameEnd[k] + HeaderLength(stream[k + 1]) - m_bytes_needed
       /\ BasicAllows(stream[k + 1], m_data_msg = NoMessage)

InPayload(k) ==
    m_state \in {"APPLICATION", "READY"} =>
       /\ k < N /\ HeaderOf(k)
       /\ m_bytes_needed <= stream[k + 1].size
       /\ PayloadRead(k) <= Len(stream[k + 1].payload)
       /\ consumed = FrameEnd[k] + HeaderLength(stream[k + 1]) + PayloadRead(k)
       /\ m_current_msg = IF stream[k + 1].opcode \in Controls THEN "control" ELSE "data"
       /\ stream[k + 1].opcode \in Controls => stream[k + 1].fin
       /\ Current.key = <<k + 1, PayloadRead(k) % 4>>
       /\ m_state = "READY" => m_bytes_needed = 0 /\ stream[k + 1].fin

Aligned(k) == InBasic(k) /\ InExtended(k) /\ InPayload(k)

\* A message has the opcode and the payload, and its validator has seen that.
Holds(msg, opcode, payload) ==
    /\ msg.opcode = opcode /\ msg.payload = payload
    /\ msg.validator = IF opcode = "TEXT" THEN Decode(utf8_accept, payload) ELSE utf8_accept
    /\ msg.validator # utf8_reject
HoldsPartial(msg, partial) ==
    IF partial = <<>> THEN msg = NoMessage ELSE Holds(msg, partial[1].opcode, partial[1].payload)

\* The part of the payload that was read, and what of the message it makes.
PartRead(k) == [stream[k + 1] EXCEPT !.payload = SubSeq(@, 1, PayloadRead(k))]

\* What was dispatched and what is held is what the first k frames make, and what
\* was read of the next.
Matches(k) ==
    /\ ~ReadUpTo[k].wrong
    /\ dispatched = ReadUpTo[k].messages
    /\ m_state \in {"HEADER_BASIC", "HEADER_EXTENDED"} => HoldsPartial(m_data_msg, ReadUpTo[k].partial)
    /\ m_state \in {"APPLICATION", "READY"} =>
          /\ ~Wrong(stream[k + 1], ReadUpTo[k].partial)
          /\ IF stream[k + 1].opcode \in Controls
             THEN /\ HoldsPartial(m_data_msg, ReadUpTo[k].partial)
                  /\ Holds(m_control_msg, stream[k + 1].opcode, PartRead(k).payload)
             ELSE LET m == Joined(PartRead(k), ReadUpTo[k].partial)
                  IN Holds(m_data_msg, m.opcode, m.payload)

Excepted == ~(LegalSizes /\ TextComplete)
AtFrame(k) == Aligned(k) /\ (Matches(k) \/ Excepted)
ClosedAt(k) == ReadUpTo[k].wrong /\ dispatched = ReadUpTo[k].messages

FrameInv ==
    /\ FrameTypes /\ Idle /\ DataFits /\ ControlFits
    /\ reader # "closed" => \E k \in 0..N : AtFrame(k)
    /\ reader = "closed" => Excepted \/ \E k \in 0..N : ClosedAt(k)

\* No step changes the stream, nor what is derived from it.
LEMMA SameStream ==
    ASSUME UNCHANGED stream
    PROVE  /\ FrameEnd' = FrameEnd /\ ReadUpTo' = ReadUpTo /\ N' = N /\ Total' = Total
           /\ LegalSizes' = LegalSizes
<1>1. stream' = stream
  OBVIOUS
<1>2. FrameEnd' = FrameEnd
  BY <1>1 DEF FrameEnd, HeaderLength
<1>3. ReadUpTo' = ReadUpTo
  BY <1>1 DEF ReadUpTo
<1>4. N' = N /\ Total' = Total
  BY <1>1, <1>2 DEF N, Total
<1>5. LegalSizes' = LegalSizes
  BY <1>1 DEF LegalSizes
<1> QED
  BY <1>2, <1>3, <1>4, <1>5

\* The ends of the frames are numbers, and the last of them is all there is.
LEMMA PlaceFacts ==
    ASSUME stream \in Streams
    PROVE  /\ N \in Nat /\ N \in 0..N /\ \A k \in 0..N : FrameEnd[k] \in Nat
           /\ Total = FrameEnd[N] /\ Total \in Nat
<1>1. N \in Nat /\ FrameEnd \in [0..N -> Nat]
  BY FrameFacts, FrameEndFacts
<1>2. N \in 0..N
  BY <1>1
<1>3. FrameEnd[N] \in Nat
  BY <1>1, <1>2
<1> QED
  BY <1>1, <1>2, <1>3 DEF Total, N

\* The next frame: its type, its place and what it adds to what was read.
LEMMA NextFrame ==
    ASSUME stream \in Streams, NEW k \in 0..N, k < N
    PROVE  /\ k + 1 \in 1..N /\ k + 1 \in 0..N
           /\ stream[k + 1] \in Frames /\ stream[k + 1].payload \in Seq(Byte)
           /\ stream[k + 1].size \in Nat /\ Len(stream[k + 1].payload) \in Nat
           /\ Len(stream[k + 1].payload) <= stream[k + 1].size
           /\ stream[k + 1].code = "7bit" => stream[k + 1].size <= payload_size_basic
           /\ HeaderLength(stream[k + 1]) \in Nat /\ HeaderLength(stream[k + 1]) >= 2
           /\ stream[k + 1].masked => HeaderLength(stream[k + 1]) >= 6
           /\ FrameEnd[k] \in Nat /\ FrameEnd[k + 1] \in Nat /\ Total \in Nat
           /\ FrameEnd[k + 1] = FrameEnd[k] + HeaderLength(stream[k + 1]) + Len(stream[k + 1].payload)
           /\ FrameEnd[k + 1] <= Total
           /\ Len(stream[k + 1].payload) = stream[k + 1].size \/ (k + 1 = N /\ FrameEnd[k + 1] = Total)
           /\ ReadUpTo[k] \in Readings /\ ReadUpTo[k + 1] = Whole(ReadUpTo[k], stream[k + 1])
<1>1. N \in Nat /\ k \in Nat
  BY FrameFacts
<1>2. k + 1 \in 1..N /\ k + 1 \in 0..N /\ N \in 0..N /\ (k + 1) - 1 = k
  BY <1>1
<1>3. /\ stream[k + 1] \in Frames /\ stream[k + 1].payload \in Seq(Byte)
      /\ stream[k + 1].size \in Nat /\ Len(stream[k + 1].payload) \in Nat
      /\ Len(stream[k + 1].payload) <= stream[k + 1].size
      /\ k + 1 < N => Len(stream[k + 1].payload) = stream[k + 1].size
      /\ stream[k + 1].code = "7bit" => stream[k + 1].size <= payload_size_basic
      /\ HeaderLength(stream[k + 1]) \in Nat /\ HeaderLength(stream[k + 1]) >= 2
      /\ stream[k + 1].masked => HeaderLength(stream[k + 1]) >= 6
  BY <1>2, FrameFacts
<1>4. FrameEnd[k] \in Nat /\ FrameEnd[k + 1] \in Nat /\ FrameEnd[N] \in Nat
  BY <1>2, FrameEndFacts
<1>5. FrameEnd[k + 1] = FrameEnd[k] + HeaderLength(stream[k + 1]) + Len(stream[k + 1].payload)
  BY <1>2, FrameEndFacts
<1>6. FrameEnd[k + 1] <= FrameEnd[N] /\ Total = FrameEnd[N]
  BY <1>1, <1>2, FrameEndOrder DEF Total, N
<1>7. k + 1 < N \/ k + 1 = N
  BY <1>1, <1>2
<1>8. ReadUpTo[k] \in Readings /\ ReadUpTo[k + 1] = Whole(ReadUpTo[k], stream[k + 1])
  BY <1>2, ReadUpToFacts
<1> QED
  BY <1>2, <1>3, <1>4, <1>5, <1>6, <1>7, <1>8

\* The frame a byte belongs to, and where in its payload it is.
LEMMA FrameOfByte ==
    ASSUME stream \in Streams, NEW k \in 0..N, k < N, NEW byte \in Nat,
           FrameEnd[k] < byte, byte <= FrameEnd[k + 1]
    PROVE  /\ FrameAt(byte) = k + 1
           /\ OffsetOf(byte) = byte - FrameEnd[k] - HeaderLength(stream[k + 1]) - 1
<1>1. k + 1 \in 1..N /\ (k + 1) - 1 = k
  BY NextFrame
<1> QED
  BY <1>1, Located

\* What the next frame does to what was read, if it is wrong and if it is not.
LEMMA WrongNext ==
    ASSUME stream \in Streams, NEW k \in 0..N, k < N, ~ReadUpTo[k].wrong,
           \/ Wrong(stream[k + 1], ReadUpTo[k].partial)
           \/ /\ stream[k + 1].opcode \notin Controls
              /\ ~WellEncoded(Joined(stream[k + 1], ReadUpTo[k].partial), Ends(stream[k + 1]))
    PROVE  ReadUpTo[k + 1].wrong /\ ReadUpTo[k + 1].messages = ReadUpTo[k].messages
<1> DEFINE f == stream[k + 1]
           read == ReadUpTo[k]
<1>1. read \in Readings /\ ReadUpTo[k + 1] = Whole(read, f)
  BY NextFrame
<1>2. /\ \/ Wrong(f, read.partial)
         \/ f.opcode \notin Controls /\ ~WellEncoded(Joined(f, read.partial), Ends(f))
      /\ ~read.wrong
  OBVIOUS
<1> HIDE DEF f, read
<1>3. Whole(read, f) = [read EXCEPT !.wrong = TRUE]
  <2>1. CASE Wrong(f, read.partial)
    BY <1>2, <2>1 DEF Whole
  <2>2. CASE ~Wrong(f, read.partial)
    <3>1. Whole(read, f) = Taken(read, f, Joined(f, read.partial))
      BY <1>2, <2>2 DEF Whole
    <3>2. f.opcode \notin Controls /\ ~WellEncoded(Joined(f, read.partial), Ends(f))
      BY <1>2, <2>2
    <3>3. Taken(read, f, Joined(f, read.partial)) = [read EXCEPT !.wrong = TRUE]
      BY <3>2, Zenon DEF Taken
    <3> QED
      BY <3>1, <3>3
  <2> QED
    BY <2>1, <2>2
<1>4. ReadUpTo[k + 1].wrong /\ ReadUpTo[k + 1].messages = read.messages
  BY <1>1, <1>3 DEF Readings
<1> QED
  BY <1>4 DEF read

\* What the reference reader makes of a frame that is not wrong.
LEMMA TakenNext ==
    ASSUME stream \in Streams, NEW k \in 0..N, k < N, ~ReadUpTo[k].wrong,
           ~Wrong(stream[k + 1], ReadUpTo[k].partial)
    PROVE  LET f    == stream[k + 1]
               read == ReadUpTo[k]
               next == ReadUpTo[k + 1]
               m    == Joined(f, read.partial)
           IN /\ f.opcode \in Controls /\ HasAll(f) =>
                    /\ ~next.wrong /\ next.partial = read.partial
                    /\ next.messages = Append(read.messages, Content(f))
              /\ f.opcode \in Controls /\ ~HasAll(f) => next = read
              /\ f.opcode \notin Controls /\ WellEncoded(m, Ends(f)) /\ Ends(f) =>
                    /\ ~next.wrong /\ next.partial = <<>>
                    /\ next.messages = Append(read.messages, m)
              /\ f.opcode \notin Controls /\ WellEncoded(m, Ends(f)) /\ ~Ends(f) =>
                    ~next.wrong /\ next.partial = <<m>> /\ next.messages = read.messages
<1> DEFINE f == stream[k + 1]
           read == ReadUpTo[k]
           m == Joined(f, read.partial)
<1>1. read \in Readings /\ ReadUpTo[k + 1] = Whole(read, f)
  BY NextFrame
<1>2. ~read.wrong /\ ~Wrong(f, read.partial)
  OBVIOUS
<1>3. Whole(read, f) = Taken(read, f, m)
  BY <1>2 DEF Whole
<1> HIDE DEF f, read, m
<1>4. ASSUME f.opcode \in Controls, HasAll(f)
      PROVE  /\ ~Whole(read, f).wrong /\ Whole(read, f).partial = read.partial
             /\ Whole(read, f).messages = Append(read.messages, Content(f))
  <2>1. Taken(read, f, m) = [read EXCEPT !.messages = Append(@, Content(f))]
    BY <1>4, Zenon DEF Taken
  <2> QED
    BY <1>1, <1>2, <1>3, <2>1 DEF Readings
<1>5. ASSUME f.opcode \in Controls, ~HasAll(f) PROVE Whole(read, f) = read
  <2>1. Taken(read, f, m) = read
    BY <1>5, Zenon DEF Taken
  <2> QED
    BY <1>3, <2>1
<1>6. ASSUME f.opcode \notin Controls, WellEncoded(m, Ends(f)), Ends(f)
      PROVE  /\ ~Whole(read, f).wrong /\ Whole(read, f).partial = <<>>
             /\ Whole(read, f).messages = Append(read.messages, m)
  <2>1. Taken(read, f, m) = [read EXCEPT !.messages = Append(@, m), !.partial = <<>>]
    BY <1>6, Zenon DEF Taken
  <2> QED
    BY <1>1, <1>2, <1>3, <2>1 DEF Readings
<1>7. ASSUME f.opcode \notin Controls, WellEncoded(m, Ends(f)), ~Ends(f)
      PROVE  /\ ~Whole(read, f).wrong /\ Whole(read, f).partial = <<m>>
             /\ Whole(read, f).messages = read.messages
  <2>1. Taken(read, f, m) = [read EXCEPT !.partial = <<m>>]
    BY <1>7, Zenon DEF Taken
  <2> QED
    BY <1>1, <1>2, <1>3, <2>1 DEF Readings
<1> QED
  BY <1>1, <1>4, <1>5, <1>6, <1>7 DEF f, read, m

\* The next bytes are as many as are there, and not more than are needed.
LEMMA ChunkFacts ==
    ASSUME m_bytes_needed \in Nat, consumed \in Nat, arrived \in Nat, consumed <= arrived
    PROVE  /\ Chunk \in Nat /\ Chunk <= m_bytes_needed /\ consumed + Chunk <= arrived
           /\ Chunk < m_bytes_needed => consumed + Chunk = arrived
           /\ consumed < arrived /\ m_bytes_needed > 0 => Chunk > 0
<1> DEFINE c == IF m_bytes_needed <= arrived - consumed THEN m_bytes_needed ELSE arrived - consumed
<1>1. c \in Available /\ \A k \in Available : k <= c
  BY DEF Available
<1>2. Chunk \in Available /\ \A k \in Available : k <= Chunk
  BY <1>1 DEF Chunk
<1>3. Chunk = c
  <2>1. Chunk <= c /\ c <= Chunk
    BY <1>1, <1>2
  <2>2. Chunk \in Int /\ c \in Int
    BY <1>1, <1>2 DEF Available
  <2> HIDE DEF c
  <2> QED
    BY <2>1, <2>2
<1> QED
  BY <1>3

\* A data message is there exactly if a fragment has come, and is as long.
LEMMA HoldsPartialFacts ==
    ASSUME NEW msg, NEW partial \in Partials, HoldsPartial(msg, partial)
    PROVE  /\ msg = NoMessage <=> partial = <<>>
           /\ Len(msg.payload) = IF partial = <<>> THEN 0 ELSE Len(partial[1].payload)
<1>1. CASE partial = <<>>
  BY <1>1 DEF HoldsPartial, NoMessage
<1>2. CASE partial # <<>>
  <2>1. PICK m \in Contents : partial = <<m>>
    BY <1>2 DEF Partials
  <2>2. partial[1].opcode \in Opcodes
    BY <2>1 DEF Contents
  <2>3. msg.opcode \in Opcodes /\ msg.payload = partial[1].payload
    BY <1>2, <2>2 DEF HoldsPartial, Holds
  <2>4. msg # NoMessage
    BY <2>3 DEF NoMessage, Opcodes
  <2> QED
    BY <1>2, <2>3, <2>4
<1> QED
  BY <1>1, <1>2

----------------------------------------------------------------------------
(* The headers.                                                             *)

\* Why a frame is refused for its first two bytes, and what is known if it is not.
LEMMA BasicHeader ==
    ASSUME NEW f \in Frames, NEW partial \in Partials, Frame = f
    PROVE  /\ BasicError = "none" => BasicAllows(f, NewMessage)
           /\ BasicError # "none" /\ HoldsPartial(m_data_msg, partial) => Wrong(f, partial)
<1>1. /\ f.opcode \in Opcodes /\ f.code \in {"7bit", "16bit", "64bit"} /\ f.size \in Nat
      /\ f.fin \in BOOLEAN /\ f.rsv \in BOOLEAN /\ f.masked \in BOOLEAN
  BY DEF Frames
<1>2. /\ payload_size_basic \in Nat /\ payload_size_extended \in Nat
      /\ payload_size_basic < payload_size_extended
  BY SizesAssumption
<1> DEFINE big == f.opcode \in Controls /\ f.code # "7bit"
           fragmented == f.opcode \in Controls /\ ~f.fin
           misplaced == f.opcode \notin Controls /\ NewMessage = (f.opcode = "CONTINUATION")
<1>3. BasicError = "none" <=>
          ~big /\ ~f.rsv /\ f.opcode \notin Reserved /\ ~fragmented /\ ~misplaced /\ f.masked
  <2>1. BasicError =
            CASE big -> "control_too_big"
              [] f.rsv -> "invalid_rsv_bit"
              [] f.opcode \in Reserved -> "invalid_opcode"
              [] fragmented -> "fragmented_control"
              [] misplaced -> "invalid_continuation"
              [] ~f.masked -> "masking_required"
              [] OTHER -> "none"
    BY DEF BasicError, Control
  <2> HIDE DEF big, fragmented, misplaced
  <2> QED
    BY <2>1
<1>4. ASSUME BasicError = "none" PROVE BasicAllows(f, NewMessage)
  BY <1>1, <1>3, <1>4 DEF BasicAllows, NewMessage
<1>5. ASSUME BasicError # "none", HoldsPartial(m_data_msg, partial) PROVE Wrong(f, partial)
  <2>1. NewMessage <=> partial = <<>>
    BY <1>5, HoldsPartialFacts DEF NewMessage
  <2>2. CASE big
    <3>1. CASE f.size > payload_size_basic
      BY <2>2, <3>1 DEF Wrong
    <3>2. CASE ~(f.size > payload_size_basic)
      <4>1. f.size <= payload_size_basic /\ f.size <= payload_size_extended
        BY <1>1, <1>2, <3>2
      <4> QED
        BY <1>1, <2>2, <4>1 DEF Wrong
    <3> QED
      BY <3>1, <3>2
  <2>3. CASE f.rsv \/ f.opcode \in Reserved \/ fragmented \/ ~f.masked
    BY <2>3 DEF Wrong
  <2>4. CASE misplaced /\ f.opcode \notin Reserved
    <3>1. CASE f.opcode = "CONTINUATION"
      BY <2>1, <2>4, <3>1 DEF Wrong
    <3>2. CASE f.opcode # "CONTINUATION"
      <4>1. f.opcode \in {"TEXT", "BINARY"}
        BY <1>1, <2>4, <3>2 DEF Opcodes, Controls, Reserved
      <4> QED
        BY <2>1, <2>4, <3>2, <4>1 DEF Wrong
    <3> QED
      BY <3>1, <3>2
  <2> HIDE DEF big, fragmented, misplaced
  <2> QED
    BY <1>3, <1>5, <2>2, <2>3, <2>4
<1> QED
  BY <1>4, <1>5

\* What is wrong with a frame that the first two bytes allow.
LEMMA ExtendedHeader ==
    ASSUME NEW f \in Frames, NEW partial \in Partials, Frame = f,
           f.code = "7bit" => f.size <= payload_size_basic,
           BasicAllows(f, m_data_msg = NoMessage), HoldsPartial(m_data_msg, partial)
    PROVE  /\ NonMinimal => Wrong(f, partial)
           /\ ~NonMinimal => (Wrong(f, partial) <=>
                  f.opcode \notin Controls /\ f.size + Len(m_data_msg.payload) > max_message_size)
<1>1. /\ f.opcode \in Opcodes /\ f.code \in {"7bit", "16bit", "64bit"} /\ f.size \in Nat
  BY DEF Frames
<1>2. payload_size_basic \in Nat
  BY SizesAssumption
<1>3. /\ m_data_msg = NoMessage <=> partial = <<>>
      /\ Len(m_data_msg.payload) = IF partial = <<>> THEN 0 ELSE Len(partial[1].payload)
  BY HoldsPartialFacts
<1>4. NonMinimal <=> \/ f.code = "16bit" /\ f.size <= payload_size_basic
                     \/ f.code = "64bit" /\ f.size <= payload_size_extended
  BY DEF NonMinimal
<1>5. f.opcode \in Controls => ~(f.size > payload_size_basic)
  BY <1>1, <1>2 DEF BasicAllows
<1>6. f.opcode \in {"TEXT", "BINARY"} => f.opcode # "CONTINUATION" /\ f.opcode \notin Controls
  BY DEF Controls
<1>7. f.opcode = "CONTINUATION" => f.opcode \notin Controls
  BY DEF Controls
<1>8. /\ ~(f.opcode \in {"TEXT", "BINARY"} /\ partial # <<>>)
      /\ ~(f.opcode = "CONTINUATION" /\ partial = <<>>)
  BY <1>3, <1>6, <1>7 DEF BasicAllows
<1>9. f.masked /\ ~f.rsv /\ f.opcode \notin Reserved /\ (f.opcode \in Controls => f.fin)
  BY DEF BasicAllows
<1> QED
  BY <1>3, <1>4, <1>5, <1>8, <1>9 DEF Wrong

\* The sum of the sizes does not wrap.
LEMMA NoWrap ==
    ASSUME NEW f \in Frames, Frame = f, 2 * f.size < SizeRange,
           NEW payload \in Seq(Byte), Len(payload) <= max_message_size
    PROVE  TooBig(payload) <=> f.size + Len(payload) > max_message_size
<1>1. f.size \in Nat /\ Len(payload) \in Nat
  BY LenProperties DEF Frames
<1>2. SizeRange \in Nat /\ max_message_size \in Nat /\ 2 * max_message_size <= SizeRange
  BY SizesAssumption
<1>3. ASSUME NEW a \in Nat, NEW b \in Nat, NEW max \in Nat, NEW R \in Nat,
             a <= max, 2 * max <= R, 2 * b < R
      PROVE  (a + b) % R = a + b
  <2>1. a + b < R
    BY <1>3
  <2> QED
    BY <1>3, <2>1
<1>4. (Len(payload) + f.size) % SizeRange = Len(payload) + f.size
  BY <1>1, <1>2, <1>3
<1> QED
  BY <1>1, <1>2, <1>4 DEF TooBig

----------------------------------------------------------------------------
(* Init, and the steps of the transport.                                    *)

\* NoMessage is a message without a payload.
LEMMA NoMessageType == NoMessage \in MsgTypes /\ Len(NoMessage.payload) = 0
<1>1. 0 \in States /\ <<>> \in Seq(Byte) /\ <<0, 0>> \in Nat \X Nat
  BY DEF States
<1> QED
  BY <1>1 DEF NoMessage, MsgTypes, utf8_accept

\* Nor does a message that has just been started have one.
LEMMA MessageType ==
    ASSUME NEW opcode \in Opcodes, NEW key \in Nat \X Nat
    PROVE  /\ Message(opcode, key) \in MsgTypes /\ Len(Message(opcode, key).payload) = 0
           /\ Message(opcode, key) = [opcode |-> opcode, payload |-> <<>>,
                                      validator |-> utf8_accept, key |-> key]
<1>1. Message(opcode, key) = [opcode |-> opcode, payload |-> <<>>,
                              validator |-> utf8_accept, key |-> key]
  <2> DEFINE m == [opcode |-> opcode, payload |-> <<>>, validator |-> utf8_accept, key |-> key]
  <2>1. NoMessage = [opcode |-> "none", payload |-> <<>>, validator |-> utf8_accept, key |-> NoMessage.key]
    BY DEF NoMessage
  <2> DEFINE half == [opcode |-> opcode, payload |-> <<>>, validator |-> utf8_accept,
                      key |-> NoMessage.key]
  <2>2. [NoMessage EXCEPT !.opcode = opcode] = half
    BY <2>1
  <2>3. Message(opcode, key) = [half EXCEPT !.key = key]
    BY <2>2 DEF Message
  <2>4. [half EXCEPT !.key = key] = m
    OBVIOUS
  <2> QED
    BY <2>3, <2>4
<1>2. 0 \in States /\ <<>> \in Seq(Byte)
  BY DEF States
<1> QED
  BY <1>1, <1>2 DEF MsgTypes, utf8_accept

\* The invariant holds at first: some bytes have come with the request.
LEMMA FrameInitInv == FrameInit => FrameInv
<1> SUFFICES ASSUME FrameInit PROVE FrameInv
  OBVIOUS
<1>1. stream \in Streams
  BY DEF FrameInit
<1>2. N \in Nat /\ FrameEnd \in [0..N -> Nat] /\ FrameEnd[0] = 0 /\ 0 \in 0..N
  BY <1>1, FrameFacts, FrameEndFacts
<1>3. Total \in Nat /\ arrived \in Nat /\ arrived <= Total
  <2>1. N \in 0..N
    BY <1>2
  <2>2. Total \in Nat
    BY <1>2, <2>1 DEF Total, N
  <2> QED
    BY <2>2 DEF FrameInit
<1>4. ReadUpTo[0] = NothingRead
  BY <1>1, ReadUpToFacts
<1>5. FrameTypes
  <2>1. <<>> \in Seq(Nat) /\ <<>> \in Seq([opcode : Opcodes \cup {"none"}, payload : Seq(Byte)])
    OBVIOUS
  <2>2. consumed \in Nat /\ consumed <= arrived
    BY <1>3 DEF FrameInit
  <2>3. m_bytes_needed \in Nat /\ reader = "consume" /\ m_state = "HEADER_BASIC"
    BY DEF FrameInit, BASIC_HEADER_LENGTH
  <2> QED
    BY <1>1, <1>3, <2>1, <2>2, <2>3, NoMessageType DEF FrameInit, FrameTypes
<1>6. Idle /\ DataFits /\ ControlFits
  BY NoMessageType, SizesAssumption DEF FrameInit, Idle, DataFits, ControlFits, Room
<1>7. AtFrame(0)
  <2>1. InBasic(0)
    BY <1>2 DEF FrameInit, InBasic, BASIC_HEADER_LENGTH
  <2>2. InExtended(0) /\ InPayload(0)
    BY DEF FrameInit, InExtended, InPayload
  <2>3. Matches(0)
    BY <1>4 DEF FrameInit, Matches, NothingRead, HoldsPartial
  <2> QED
    BY <2>1, <2>2, <2>3 DEF AtFrame, Aligned
<1> QED
  BY <1>2, <1>5, <1>6, <1>7 DEF FrameInv, FrameInit

\* Where the reader is does not depend on what has arrived.
LEMMA AtFrameSame ==
    ASSUME UNCHANGED <<stream, consumed, m_state, m_bytes_needed, m_header, messages, dispatched>>,
           NEW k
    PROVE  (AtFrame(k)' <=> AtFrame(k)) /\ (Excepted' <=> Excepted)
<1>1. /\ FrameEnd' = FrameEnd /\ ReadUpTo' = ReadUpTo /\ N' = N /\ LegalSizes' = LegalSizes
      /\ stream' = stream
  BY SameStream
<1>2. Excepted' <=> Excepted
  BY <1>1 DEF Excepted, TextComplete
<1>3. Aligned(k)' <=> Aligned(k)
  BY <1>1 DEF Aligned, InBasic, InExtended, InPayload, HeaderOf, PayloadRead, Current, messages
<1>4. Matches(k)' <=> Matches(k)
  BY <1>1 DEF Matches, PartRead, PayloadRead, messages
<1> QED
  BY <1>2, <1>3, <1>4 DEF AtFrame

\* Reading from the transport preserves the invariant.
LEMMA ReadSomeInv == FrameInv /\ ReadSome => FrameInv'
<1> SUFFICES ASSUME FrameInv, ReadSome PROVE FrameInv'
  OBVIOUS
<1>1. UNCHANGED <<stream, consumed, m_state, m_bytes_needed, m_header, messages, dispatched>>
  BY DEF ReadSome
<1>2. FrameTypes /\ DataFits /\ ControlFits /\ reader = "read" /\ reader' = "consume"
  BY DEF FrameInv, ReadSome
<1>3. Total' = Total /\ LegalSizes' = LegalSizes
  BY <1>1, SameStream
<1>4. Total \in Nat
  <2>1. stream \in Streams
    BY <1>2 DEF FrameTypes
  <2>2. N \in 0..N
    BY <2>1, FrameFacts
  <2> QED
    BY <2>1, <2>2, FrameEndFacts DEF Total, N
<1>5. FrameTypes'
  <2>1. arrived' \in Nat /\ consumed' <= arrived' /\ arrived' <= Total'
    BY <1>1, <1>2, <1>3, <1>4 DEF ReadSome, FrameTypes
  <2> QED
    BY <1>1, <1>2, <2>1 DEF FrameTypes, messages
<1>6. Idle' /\ DataFits' /\ ControlFits'
  BY <1>1, <1>2, <1>3 DEF Idle, DataFits, ControlFits, Room, messages
<1>7. PICK k \in 0..N : AtFrame(k)
  BY <1>2 DEF FrameInv
<1>8. AtFrame(k)' /\ N' = N
  BY <1>1, <1>7, AtFrameSame, SameStream
<1> QED
  BY <1>2, <1>5, <1>6, <1>7, <1>8 DEF FrameInv

\* So does running out of bytes.
LEMMA ConsumeEndsInv == FrameInv /\ ConsumeEnds => FrameInv'
<1> SUFFICES ASSUME FrameInv, ConsumeEnds PROVE FrameInv'
  OBVIOUS
<1>1. /\ UNCHANGED <<stream, consumed, m_state, m_bytes_needed, m_header, messages, dispatched>>
      /\ arrived' = arrived
  BY DEF ConsumeEnds, position
<1>2. FrameTypes /\ DataFits /\ ControlFits /\ reader = "consume" /\ reader' = "read"
  BY DEF FrameInv, ConsumeEnds
<1>3. Total' = Total /\ LegalSizes' = LegalSizes
  BY <1>1, SameStream
<1>4. FrameTypes'
  BY <1>1, <1>2, <1>3 DEF FrameTypes, messages
<1>5. DataFits' /\ ControlFits'
  BY <1>1, <1>2, <1>3 DEF DataFits, ControlFits, Room, messages
<1>6. Idle'
  BY <1>1 DEF Idle, ConsumeEnds
<1>7. PICK k \in 0..N : AtFrame(k)
  BY <1>2 DEF FrameInv
<1>8. AtFrame(k)' /\ N' = N
  BY <1>1, <1>7, AtFrameSame, SameStream
<1> QED
  BY <1>2, <1>4, <1>5, <1>6, <1>7, <1>8 DEF FrameInv

\* So does a step that changes none of the reader's variables.
LEMMA StutterInv == FrameInv /\ UNCHANGED frameVars => FrameInv'
<1> SUFFICES ASSUME FrameInv, UNCHANGED frameVars PROVE FrameInv'
  OBVIOUS
<1>1. /\ UNCHANGED <<stream, consumed, m_state, m_bytes_needed, m_header, messages, dispatched>>
      /\ arrived' = arrived /\ reader' = reader
  BY DEF frameVars, position
<1>2. Total' = Total /\ LegalSizes' = LegalSizes /\ N' = N /\ ReadUpTo' = ReadUpTo
  BY <1>1, SameStream
<1>3. FrameTypes'
  BY <1>1, <1>2 DEF FrameInv, FrameTypes, messages
<1>4. DataFits' /\ ControlFits' /\ Idle'
  BY <1>1, <1>2 DEF FrameInv, DataFits, ControlFits, Room, messages, Idle
<1>5. ASSUME reader # "closed" PROVE \E k \in 0..N : AtFrame(k)'
  <2>1. PICK k \in 0..N : AtFrame(k)
    BY <1>5 DEF FrameInv
  <2> QED
    BY <1>1, <2>1, AtFrameSame
<1>6. ASSUME reader = "closed" PROVE Excepted' \/ \E k \in 0..N : ClosedAt(k)'
  <2>1. Excepted \/ \E k \in 0..N : ClosedAt(k)
    BY <1>6 DEF FrameInv
  <2>2. Excepted' <=> Excepted
    BY <1>1, AtFrameSame
  <2>3. \A k \in 0..N : ClosedAt(k)' <=> ClosedAt(k)
    BY <1>1, <1>2 DEF ClosedAt
  <2> QED
    BY <2>1, <2>2, <2>3
<1> QED
  BY <1>1, <1>2, <1>3, <1>4, <1>5, <1>6 DEF FrameInv

----------------------------------------------------------------------------
(* The steps that read the headers.                                         *)

\* The frame whose header is read is the next one.
LEMMA Joins ==
    ASSUME NEW S, NEW s \in Seq(S), NEW t \in Seq(S)
    PROVE  /\ s \o t \in Seq(S) /\ Len(s \o t) = Len(s) + Len(t)
           /\ \A j \in 1..Len(s) : (s \o t)[j] = s[j]
           /\ \A j \in 1..Len(t) : (s \o t)[Len(s) + j] = t[j]
<1>1. Len(s) \in Nat /\ Len(t) \in Nat
  BY LenProperties
<1>2. /\ s \o t \in Seq(S) /\ Len(s \o t) = Len(s) + Len(t)
      /\ \A i \in 1..(Len(s) + Len(t)) : (s \o t)[i] = IF i <= Len(s) THEN s[i] ELSE t[i - Len(s)]
  BY ConcatProperties
<1>3. \A j \in 1..Len(s) : (s \o t)[j] = s[j]
  BY <1>1, <1>2
<1>4. ASSUME NEW j \in 1..Len(t) PROVE (s \o t)[Len(s) + j] = t[j]
  <2>1. /\ Len(s) + j \in 1..(Len(s) + Len(t)) /\ ~(Len(s) + j <= Len(s))
        /\ (Len(s) + j) - Len(s) = j
    BY <1>1
  <2> QED
    BY <1>2, <2>1
<1> QED
  BY <1>2, <1>3, <1>4

\* Whatever of the header comes, its first byte says which frame it is.
LEMMA HeaderCopied ==
    ASSUME FrameTypes, CopyHeader, UNCHANGED stream, NEW k \in 0..N, k < N,
           HeaderOf(k) \/ (m_header = <<>> /\ consumed = FrameEnd[k] /\ Chunk > 0)
    PROVE  /\ m_header' \in Seq(Nat) /\ HeaderOf(k)' /\ Frame = stream[k + 1]
<1>1. /\ Chunk \in Nat /\ consumed \in Nat /\ m_header \in Seq(Nat) /\ stream \in Streams
  BY ChunkFacts DEF FrameTypes
<1>2. FrameEnd' = FrameEnd
  BY SameStream
<1> DEFINE new == [j \in 1..Chunk |-> consumed + j]
<1>3. m_header' = m_header \o new
  BY DEF CopyHeader
<1>4. new \in Seq(Nat) /\ Len(new) = Chunk /\ \A j \in 1..Chunk : new[j] = consumed + j
  BY <1>1
<1> HIDE DEF new
<1>5. /\ m_header' \in Seq(Nat)
      /\ Len(m_header') = Len(m_header) + Len(new)
      /\ \A j \in 1..Len(m_header) : m_header'[j] = m_header[j]
      /\ \A j \in 1..Len(new) : m_header'[Len(m_header) + j] = new[j]
  <2>1. m_header \in Seq(Nat) /\ new \in Seq(Nat)
    BY <1>1, <1>4
  <2>2. /\ m_header \o new \in Seq(Nat)
        /\ Len(m_header \o new) = Len(m_header) + Len(new)
        /\ \A j \in 1..Len(m_header) : (m_header \o new)[j] = m_header[j]
        /\ \A j \in 1..Len(new) : (m_header \o new)[Len(m_header) + j] = new[j]
    <3>1. \A s, t \in Seq(Nat) :
             /\ s \o t \in Seq(Nat) /\ Len(s \o t) = Len(s) + Len(t)
             /\ \A j \in 1..Len(s) : (s \o t)[j] = s[j]
             /\ \A j \in 1..Len(t) : (s \o t)[Len(s) + j] = t[j]
      BY Joins
    <3> QED
      BY <2>1, <3>1
  <2> QED
    BY <1>3, <2>2
<1>6. Len(m_header) \in Nat /\ (m_header # <<>> => Len(m_header) > 0)
  BY <1>1, LenProperties, EmptySeq
<1>7. m_header'[1] = FrameEnd[k] + 1 /\ Len(m_header') > 0
  <2>1. CASE HeaderOf(k)
    <3>1. 1 \in 1..Len(m_header) /\ m_header[1] = FrameEnd[k] + 1
      BY <1>6, <2>1 DEF HeaderOf
    <3>2. m_header'[1] = m_header[1]
      BY <1>5, <3>1
    <3>3. Len(m_header') > 0
      BY <1>1, <1>4, <1>5, <1>6, <3>1
    <3> QED
      BY <3>1, <3>2, <3>3
  <2>2. CASE m_header = <<>> /\ consumed = FrameEnd[k] /\ Chunk > 0
    <3>1. Len(m_header) = 0
      BY <2>2
    <3>2. 1 \in 1..Len(new) /\ Len(m_header) + 1 = 1
      BY <1>1, <1>4, <2>2, <3>1
    <3>3. m_header'[Len(m_header) + 1] = new[1]
      BY <1>5, <3>2
    <3>4. new[1] = consumed + 1
      BY <1>4, <3>2
    <3>5. Len(m_header') > 0
      BY <1>1, <1>4, <1>5, <2>2, <3>1
    <3> QED
      BY <2>2, <3>2, <3>3, <3>4, <3>5
  <2> QED
    BY <2>1, <2>2
<1>8. m_header' # <<>>
  BY <1>7
<1>9. /\ FrameEnd[k] \in Nat /\ FrameEnd[k + 1] \in Nat
      /\ FrameEnd[k] + 1 \in Nat /\ FrameEnd[k] < FrameEnd[k] + 1
      /\ FrameEnd[k] + 1 <= FrameEnd[k + 1]
  <2>1. k + 1 \in 0..N /\ k < k + 1
    BY <1>1, NextFrame
  <2>2. FrameEnd[k] + 2 <= FrameEnd[k + 1] /\ FrameEnd[k] \in Nat /\ FrameEnd[k + 1] \in Nat
    BY <1>1, <2>1, FrameEndOrder, PlaceFacts
  <2> QED
    BY <2>2
<1>10. FrameAt(FrameEnd[k] + 1) = k + 1
  BY <1>1, <1>9, FrameOfByte
<1>11. Frame = stream[k + 1]
  BY <1>7, <1>10 DEF Frame
<1> QED
  BY <1>2, <1>5, <1>7, <1>8, <1>11 DEF HeaderOf

\* Reading the basic header, or a part of it, preserves the invariant.
LEMMA HeaderBasicInv == FrameInv /\ HeaderBasic => FrameInv'
<1> SUFFICES ASSUME FrameInv, HeaderBasic PROVE FrameInv'
  OBVIOUS
<1>1. /\ FrameTypes /\ DataFits /\ ControlFits /\ stream \in Streams
      /\ reader = "consume" /\ m_state = "HEADER_BASIC"
      /\ consumed < arrived \/ m_bytes_needed = 0
      /\ consumed' = consumed + Chunk /\ CopyHeader
      /\ stream' = stream /\ arrived' = arrived /\ dispatched' = dispatched
      /\ m_data_msg' = m_data_msg /\ m_control_msg' = m_control_msg /\ m_current_msg' = m_current_msg
  BY DEF FrameInv, FrameTypes, HeaderBasic, InConsume, CopyHeader, messages
<1>2. /\ FrameEnd' = FrameEnd /\ ReadUpTo' = ReadUpTo /\ N' = N /\ Total' = Total
      /\ LegalSizes' = LegalSizes
  BY <1>1, SameStream
<1>3. PICK k \in 0..N : AtFrame(k)
  BY <1>1 DEF FrameInv
<1>4. /\ m_bytes_needed \in 1..2
      /\ consumed = FrameEnd[k] + 2 - m_bytes_needed
      /\ IF m_bytes_needed = 2 THEN m_header = <<>> ELSE HeaderOf(k)
      /\ Matches(k) \/ Excepted
  BY <1>1, <1>3 DEF AtFrame, Aligned, InBasic
<1>5. /\ consumed \in Nat /\ arrived \in Nat /\ arrived <= Total /\ Total \in Nat
      /\ consumed < arrived /\ FrameEnd[k] \in Nat /\ N \in Nat
      /\ Chunk \in Nat /\ Chunk <= m_bytes_needed /\ consumed + Chunk <= arrived /\ Chunk > 0
  <2>1. N \in 0..N /\ FrameEnd \in [0..N -> Nat]
    BY <1>1, FrameFacts, FrameEndFacts
  <2>2. consumed \in Nat /\ arrived \in Nat /\ arrived <= Total /\ Total \in Nat /\ consumed < arrived
    BY <1>1, <1>4, PlaceFacts DEF FrameTypes
  <2>3. m_bytes_needed \in Nat /\ m_bytes_needed > 0
    BY <1>4
  <2> QED
    BY <2>1, <2>2, <2>3, ChunkFacts
<1>6. k < N
  <2>1. CASE k = N
    <3>1. FrameEnd[k] = Total
      BY <1>1, <2>1, PlaceFacts
    <3> QED
      BY <1>4, <1>5, <3>1
  <2> QED
    BY <1>5, <2>1
<1>7. /\ k + 1 \in 0..N /\ stream[k + 1] \in Frames
      /\ HeaderLength(stream[k + 1]) \in Nat /\ HeaderLength(stream[k + 1]) >= 2
      /\ stream[k + 1].masked => HeaderLength(stream[k + 1]) >= 6
      /\ ReadUpTo[k] \in Readings
  BY <1>1, <1>6, NextFrame
<1>8. /\ m_header' \in Seq(Nat) /\ HeaderOf(k)' /\ Frame = stream[k + 1]
  <2>1. HeaderOf(k) \/ (m_header = <<>> /\ consumed = FrameEnd[k] /\ Chunk > 0)
    BY <1>4, <1>5
  <2> QED
    BY <1>1, <1>6, <2>1, HeaderCopied
<1>9. Excepted' <=> Excepted
  BY <1>1, <1>2 DEF Excepted, TextComplete
<1>10. DataFits' /\ ControlFits'
  <2>1. m_state' # "APPLICATION"
    BY <1>1 DEF HeaderBasic
  <2> QED
    BY <1>1, <1>2, <2>1 DEF DataFits, ControlFits, Room
<1>11. consumed' \in Nat /\ consumed' <= arrived'
  BY <1>1, <1>5
<1>12. CASE Lacking /\ MoreBytes /\ UNCHANGED <<m_state, reader, error>>
  <2>0. Chunk < m_bytes_needed /\ m_bytes_needed' = m_bytes_needed - Chunk
    BY <1>12 DEF Lacking, MoreBytes
  <2>1. m_bytes_needed = 2 /\ Chunk = 1 /\ m_bytes_needed' = 1 /\ consumed' = FrameEnd[k] + 2 - 1
    BY <1>1, <1>4, <1>5, <2>0
  <2>2. FrameTypes' /\ Idle'
    BY <1>1, <1>2, <1>8, <1>11, <1>12, <2>1 DEF FrameTypes, Idle
  <2>3. Aligned(k)'
    BY <1>1, <1>2, <1>8, <1>12, <2>1 DEF Aligned, InBasic, InExtended, InPayload
  <2>4. Matches(k)' \/ Excepted'
    BY <1>1, <1>2, <1>4, <1>9, <1>12 DEF Matches
  <2> QED
    BY <1>1, <1>2, <1>3, <1>10, <1>12, <2>2, <2>3, <2>4 DEF FrameInv, AtFrame
<1>13. CASE /\ ~Lacking /\ BasicError = "none"
            /\ m_state' = "HEADER_EXTENDED"
            /\ m_bytes_needed' = HeaderLength(Frame) - BASIC_HEADER_LENGTH
            /\ UNCHANGED <<reader, error>>
  <2>0. ~(Chunk < m_bytes_needed)
    BY <1>13 DEF Lacking
  <2>1. Chunk = m_bytes_needed /\ consumed' = FrameEnd[k] + 2
    BY <1>1, <1>4, <1>5, <2>0
  <2>2. BasicAllows(stream[k + 1], NewMessage)
    <3>1. ReadUpTo[k].partial \in Partials
      BY <1>7 DEF Readings
    <3> QED
      BY <1>7, <1>8, <1>13, <3>1, BasicHeader
  <2>3. m_bytes_needed' = HeaderLength(stream[k + 1]) - 2 /\ m_bytes_needed' \in Nat /\ m_bytes_needed' >= 1
    BY <1>7, <1>8, <1>13, <2>2 DEF BasicAllows, BASIC_HEADER_LENGTH
  <2>4. FrameTypes' /\ Idle'
    BY <1>1, <1>2, <1>8, <1>11, <1>13, <2>3 DEF FrameTypes, Idle
  <2>5. InExtended(k)'
    <3>1. consumed' = FrameEnd[k] + HeaderLength(stream[k + 1]) - m_bytes_needed'
      BY <1>5, <1>7, <2>1, <2>3
    <3>2. BasicAllows(stream[k + 1], m_data_msg = NoMessage)
      BY <2>2 DEF NewMessage
    <3> QED
      BY <1>1, <1>2, <1>6, <1>8, <2>3, <3>1, <3>2 DEF InExtended
  <2>6. Aligned(k)'
    BY <1>13, <2>5 DEF Aligned, InBasic, InPayload
  <2>7. Matches(k)' \/ Excepted'
    BY <1>1, <1>2, <1>4, <1>9, <1>13 DEF Matches
  <2> QED
    BY <1>1, <1>2, <1>3, <1>10, <1>13, <2>4, <2>6, <2>7 DEF FrameInv, AtFrame
<1>14. CASE ~Lacking /\ BasicError # "none" /\ MoreBytes /\ Fail(BasicError) /\ UNCHANGED m_state
  <2>1. m_bytes_needed' \in Nat /\ reader' = "closed"
    BY <1>4, <1>5, <1>14 DEF MoreBytes, Fail
  <2>2. FrameTypes' /\ Idle'
    BY <1>1, <1>2, <1>8, <1>11, <1>14, <2>1 DEF FrameTypes, Idle
  <2>3. ASSUME Matches(k) PROVE ClosedAt(k + 1)'
    <3>1. /\ ~ReadUpTo[k].wrong /\ dispatched = ReadUpTo[k].messages
          /\ HoldsPartial(m_data_msg, ReadUpTo[k].partial)
      BY <1>1, <2>3 DEF Matches
    <3>2. ReadUpTo[k].partial \in Partials
      BY <1>7 DEF Readings
    <3>3. Wrong(stream[k + 1], ReadUpTo[k].partial)
      BY <1>7, <1>8, <1>14, <3>1, <3>2, BasicHeader
    <3>4. ReadUpTo[k + 1].wrong /\ ReadUpTo[k + 1].messages = ReadUpTo[k].messages
      BY <1>1, <1>6, <3>1, <3>3, WrongNext
    <3> QED
      BY <1>1, <1>2, <3>1, <3>4 DEF ClosedAt
  <2> QED
    BY <1>2, <1>4, <1>7, <1>9, <1>10, <2>1, <2>2, <2>3 DEF FrameInv
<1> QED
  BY <1>12, <1>13, <1>14 DEF HeaderBasic

\* Nothing of the payload was read, and nothing of it was decoded.
LEMMA NothingDecoded == Decode(utf8_accept, <<>>) = utf8_accept
<1>1. 0 \in States /\ <<>> \in Seq(Byte) /\ Len(<<>>) = 0
  BY DEF States
<1>2. PICK run : Decoding(run, 0, <<>>)
  BY <1>1, DecodingExists
<1>3. run[0] = 0
  BY <1>2 DEF Decoding, Decodes
<1>4. Decode(0, <<>>) = run[Len(<<>>)]
  BY <1>1, <1>2, DecodeIs
<1> QED
  BY <1>1, <1>3, <1>4 DEF utf8_accept

\* A payload is started: what the messages are then.
LEMMA Started ==
    ASSUME FrameTypes, NEW k \in Nat, Frame = stream[k + 1], stream[k + 1] \in Frames,
           StartPayload(<<k + 1, 0>>)
    PROVE  /\ m_data_msg' \in MsgTypes /\ m_control_msg' \in MsgTypes
           /\ m_current_msg' = IF stream[k + 1].opcode \in Controls THEN "control" ELSE "data"
           /\ Current'.key = <<k + 1, 0>>
           /\ Len(m_data_msg'.payload) = Len(m_data_msg.payload)
           /\ stream[k + 1].opcode \in Controls =>
                 /\ m_data_msg' = m_data_msg
                 /\ Len(m_control_msg'.payload) = 0
                 /\ m_control_msg' = Message(stream[k + 1].opcode, <<k + 1, 0>>)
           /\ stream[k + 1].opcode \notin Controls =>
                 /\ m_control_msg' = m_control_msg
                 /\ m_data_msg' = IF NewMessage THEN Message(stream[k + 1].opcode, <<k + 1, 0>>)
                                  ELSE [m_data_msg EXCEPT !.key = <<k + 1, 0>>]
<1> DEFINE f == stream[k + 1]
           key == <<k + 1, 0>>
           new == Message(f.opcode, key)
<1>1. f.opcode \in Opcodes /\ key \in Nat \X Nat
  BY DEF Frames
<1>2. /\ new \in MsgTypes /\ Len(new.payload) = 0
      /\ new = [opcode |-> f.opcode, payload |-> <<>>, validator |-> utf8_accept, key |-> key]
  BY <1>1, MessageType
<1>3. m_data_msg \in MsgTypes /\ m_control_msg \in MsgTypes
  BY DEF FrameTypes
<1>4. Frame = f /\ StartPayload(key)
  OBVIOUS
<1>5. new.key = key
  BY <1>2
<1> HIDE DEF f, key, new
<1>6. CASE f.opcode \in Controls
  <2>1. m_control_msg' = new /\ m_current_msg' = "control" /\ m_data_msg' = m_data_msg
    BY <1>4, <1>6 DEF StartPayload, Control, new
  <2>2. Current' = new
    BY <2>1 DEF Current
  <2> QED
    BY <1>2, <1>3, <1>5, <1>6, <2>1, <2>2 DEF f, key, new
<1>7. CASE f.opcode \notin Controls
  <2> DEFINE more == IF NewMessage THEN new ELSE [m_data_msg EXCEPT !.key = key]
  <2>1. m_data_msg' = more /\ m_current_msg' = "data" /\ m_control_msg' = m_control_msg
    BY <1>4, <1>7 DEF StartPayload, Control, new
  <2>2. Current' = more
    BY <2>1 DEF Current
  <2>3. more \in MsgTypes /\ more.key = key /\ Len(more.payload) = Len(m_data_msg.payload)
    <3>1. CASE NewMessage
      BY <1>2, <1>5, <3>1, NoMessageType DEF NewMessage
    <3>2. CASE ~NewMessage
      BY <1>1, <1>3, <3>2 DEF MsgTypes
    <3> QED
      BY <3>1, <3>2
  <2> QED
    BY <1>3, <1>7, <2>1, <2>2, <2>3 DEF f, key, new
<1> QED
  BY <1>6, <1>7

\* What is held of the next frame when its payload is started.
LEMMA StartedHolds ==
    ASSUME NEW f \in Frames, NEW partial \in Partials, NEW key \in Nat \X Nat,
           HoldsPartial(m_data_msg, partial), NewMessage => m_data_msg = NoMessage,
           m_data_msg \in MsgTypes
    PROVE  LET none == [f EXCEPT !.payload = <<>>]
               m    == Joined(none, partial)
               new  == IF NewMessage THEN Message(f.opcode, key) ELSE [m_data_msg EXCEPT !.key = key]
           IN /\ Holds(new, m.opcode, m.payload)
              /\ f.opcode \in Controls => Holds(Message(f.opcode, key), f.opcode, <<>>)
<1> DEFINE none == [f EXCEPT !.payload = <<>>]
           m == Joined(none, partial)
           new == IF NewMessage THEN Message(f.opcode, key) ELSE [m_data_msg EXCEPT !.key = key]
<1>1. f.opcode \in Opcodes /\ none.opcode = f.opcode /\ none.payload = <<>>
  BY DEF Frames
<1>2. Message(f.opcode, key) = [opcode |-> f.opcode, payload |-> <<>>,
                                validator |-> utf8_accept, key |-> key]
  BY <1>1, MessageType
<1>3. Decode(utf8_accept, <<>>) = utf8_accept /\ utf8_accept # utf8_reject
  BY NothingDecoded DEF utf8_accept, utf8_reject
<1>4. Holds(Message(f.opcode, key), f.opcode, <<>>)
  BY <1>2, <1>3 DEF Holds
<1>5. Holds(new, m.opcode, m.payload)
  <2>1. NewMessage <=> partial = <<>>
    BY HoldsPartialFacts DEF NewMessage
  <2>2. CASE partial = <<>>
    <3>1. m.opcode = f.opcode /\ m.payload = <<>>
      BY <1>1, <2>2 DEF Joined, Content
    <3> QED
      BY <1>4, <2>1, <2>2, <3>1
  <2>3. CASE partial # <<>>
    <3>1. PICK c \in Contents : partial = <<c>>
      BY <2>3 DEF Partials
    <3>2. c.payload \in Seq(Byte) /\ partial[1] = c
      BY <3>1 DEF Contents
    <3>3. m.opcode = c.opcode /\ m.payload = c.payload
      <4>1. c.payload \o <<>> = c.payload
        BY <3>2, ConcatEmptySeq
      <4>2. m = [opcode |-> c.opcode, payload |-> c.payload \o <<>>]
        BY <1>1, <2>3, <3>2 DEF Joined
      <4> QED
        BY <4>1, <4>2
    <3>4. Holds(m_data_msg, c.opcode, c.payload)
      BY <2>3, <3>2 DEF HoldsPartial
    <3>5. /\ new.opcode = m_data_msg.opcode /\ new.payload = m_data_msg.payload
          /\ new.validator = m_data_msg.validator
      BY <2>1, <2>3 DEF MsgTypes
    <3> QED
      BY <3>3, <3>4, <3>5 DEF Holds
  <2> QED
    BY <2>2, <2>3
<1> QED
  BY <1>4, <1>5

\* Reading the extended header, or a part of it, preserves the invariant: what
\* validate_incoming_extended_header accepts fits within max_message_size, and the
\* message that is started or continued is the one of the frame.
LEMMA HeaderExtendedInv == FrameInv /\ HeaderExtended => FrameInv'
<1> SUFFICES ASSUME FrameInv, HeaderExtended PROVE FrameInv'
  OBVIOUS
<1>1. /\ FrameTypes /\ DataFits /\ ControlFits /\ stream \in Streams
      /\ reader = "consume" /\ m_state = "HEADER_EXTENDED"
      /\ consumed < arrived \/ m_bytes_needed = 0
      /\ consumed' = consumed + Chunk /\ CopyHeader
      /\ stream' = stream /\ arrived' = arrived /\ dispatched' = dispatched
  BY DEF FrameInv, FrameTypes, HeaderExtended, InConsume, CopyHeader
<1>2. /\ FrameEnd' = FrameEnd /\ ReadUpTo' = ReadUpTo /\ N' = N /\ Total' = Total
      /\ LegalSizes' = LegalSizes
  BY <1>1, SameStream
<1>3. PICK k \in 0..N : AtFrame(k)
  BY <1>1 DEF FrameInv
<1> DEFINE f == stream[k + 1]
           partial == ReadUpTo[k].partial
<1>4. /\ k < N /\ HeaderOf(k)
      /\ m_bytes_needed >= 1
      /\ m_bytes_needed <= HeaderLength(f) - 2
      /\ consumed = FrameEnd[k] + HeaderLength(f) - m_bytes_needed
      /\ BasicAllows(f, m_data_msg = NoMessage)
      /\ Matches(k) \/ Excepted
  BY <1>1, <1>3 DEF AtFrame, Aligned, InExtended
<1>5. /\ k + 1 \in 0..N /\ f \in Frames /\ f.size \in Nat
      /\ f.payload \in Seq(Byte) /\ Len(f.payload) \in Nat
      /\ HeaderLength(f) \in Nat
      /\ ReadUpTo[k] \in Readings /\ FrameEnd[k] \in Nat
      /\ f.code = "7bit" => f.size <= payload_size_basic
  BY <1>1, <1>4, NextFrame
<1>6. /\ consumed \in Nat /\ arrived \in Nat /\ arrived <= Total /\ Total \in Nat
      /\ consumed < arrived /\ N \in Nat /\ k \in Nat
      /\ Chunk \in Nat /\ Chunk <= m_bytes_needed /\ consumed + Chunk <= arrived /\ Chunk > 0
      /\ m_bytes_needed \in Nat
  <2>1. N \in Nat /\ Total \in Nat
    BY <1>1, PlaceFacts
  <2>2. /\ consumed \in Nat /\ arrived \in Nat /\ arrived <= Total /\ consumed <= arrived
        /\ m_bytes_needed \in Nat
    BY <1>1 DEF FrameTypes
  <2>3. consumed < arrived /\ m_bytes_needed > 0
    BY <1>1, <1>4, <2>2
  <2> QED
    BY <2>1, <2>2, <2>3, ChunkFacts
<1>7. m_header' \in Seq(Nat) /\ HeaderOf(k)' /\ Frame = f
  BY <1>1, <1>4, HeaderCopied
<1>8. consumed' \in Nat /\ consumed' <= arrived'
  BY <1>1, <1>6
<1>9. partial \in Partials
  BY <1>5 DEF Readings
<1>10. ASSUME Matches(k)
       PROVE  ~ReadUpTo[k].wrong /\ dispatched = ReadUpTo[k].messages /\ HoldsPartial(m_data_msg, partial)
  BY <1>1, <1>10 DEF Matches
<1>11. Excepted' <=> Excepted
  BY <1>1, <1>2 DEF Excepted, TextComplete
<1>12. ASSUME Matches(k), Wrong(f, partial) PROVE ClosedAt(k + 1)'
  <2>1. ReadUpTo[k + 1].wrong /\ ReadUpTo[k + 1].messages = ReadUpTo[k].messages
    BY <1>1, <1>4, <1>10, <1>12, WrongNext
  <2> QED
    BY <1>1, <1>2, <1>10, <1>12, <2>1 DEF ClosedAt
<1>13. ASSUME LegalSizes
       PROVE  /\ Len(m_data_msg.payload) <= max_message_size
              /\ TooBig(m_data_msg.payload) <=> f.size + Len(m_data_msg.payload) > max_message_size
  <2>1. Len(m_data_msg.payload) + 0 <= max_message_size
    BY <1>1, <1>13 DEF DataFits, Room
  <2>2. m_data_msg.payload \in Seq(Byte)
    BY <1>1 DEF FrameTypes, MsgTypes
  <2>3. Len(m_data_msg.payload) \in Nat
    BY <2>2, LenProperties
  <2>4. 2 * f.size < SizeRange
    <3>1. DOMAIN stream = 1..N /\ k + 1 \in 1..N
      BY <1>1, <1>4, NextFrame, FrameFacts
    <3> QED
      BY <1>13, <3>1 DEF LegalSizes
  <2>5. Len(m_data_msg.payload) <= max_message_size
    BY <2>1, <2>3
  <2> QED
    BY <1>5, <1>7, <2>2, <2>4, <2>5, NoWrap
<1>14. /\ HeaderLength(f) \in Nat /\ FrameEnd[k] \in Nat /\ Chunk \in Nat /\ m_bytes_needed \in Nat
       /\ consumed = FrameEnd[k] + HeaderLength(f) - m_bytes_needed
       /\ consumed' = consumed + Chunk /\ Chunk > 0 /\ Chunk <= m_bytes_needed
       /\ m_bytes_needed <= HeaderLength(f) - 2
  BY <1>1, <1>4, <1>5, <1>6
<1>15. FrameEnd[k] + 2 <= FrameEnd[k + 1] /\ FrameEnd[k + 1] \in Nat
  <2>1. k \in 0..N /\ k + 1 \in 0..N /\ k < k + 1
    BY <1>5, <1>6
  <2> QED
    BY <1>1, <2>1, FrameEndOrder, PlaceFacts
<1>16. m_data_msg \in MsgTypes /\ Len(m_data_msg.payload) \in Nat
  BY <1>1, LenProperties DEF FrameTypes, MsgTypes
<1> HIDE DEF f, partial
<1>17. CASE Lacking /\ MoreBytes /\ UNCHANGED <<m_state, messages, reader, error>>
  <2>0. Chunk < m_bytes_needed /\ m_bytes_needed' = m_bytes_needed - Chunk
    BY <1>17 DEF Lacking, MoreBytes
  <2>1. /\ m_bytes_needed' \in Nat /\ m_bytes_needed' >= 1
        /\ m_bytes_needed' <= HeaderLength(f) - 2
        /\ consumed' = FrameEnd[k] + HeaderLength(f) - m_bytes_needed'
    BY <1>14, <2>0
  <2>2. FrameTypes' /\ Idle'
    BY <1>1, <1>2, <1>7, <1>8, <1>17, <2>1 DEF FrameTypes, Idle, messages
  <2>3. DataFits' /\ ControlFits'
    BY <1>1, <1>2, <1>17 DEF DataFits, ControlFits, Room, messages
  <2>4. Aligned(k)'
    BY <1>1, <1>2, <1>4, <1>7, <1>17, <2>1 DEF Aligned, InBasic, InExtended, InPayload, messages, f
  <2>5. Matches(k)' \/ Excepted'
    BY <1>1, <1>2, <1>4, <1>11, <1>17 DEF Matches, messages
  <2> QED
    BY <1>1, <1>2, <1>3, <1>17, <2>2, <2>3, <2>4, <2>5 DEF FrameInv, AtFrame
<1>18. CASE /\ ~Lacking /\ NonMinimal
            /\ MoreBytes /\ Fail("non_minimal_encoding") /\ UNCHANGED <<m_state, messages>>
  <2>1. m_bytes_needed' \in Nat /\ reader' = "closed"
    BY <1>6, <1>18 DEF MoreBytes, Fail
  <2>2. FrameTypes' /\ Idle'
    BY <1>1, <1>2, <1>7, <1>8, <1>18, <2>1 DEF FrameTypes, Idle, messages
  <2>3. DataFits' /\ ControlFits'
    BY <1>1, <1>2, <1>18, <2>1 DEF DataFits, ControlFits, Room, messages
  <2>4. ASSUME Matches(k) PROVE ClosedAt(k + 1)'
    BY <1>4, <1>5, <1>7, <1>9, <1>10, <1>12, <1>18, <2>4, ExtendedHeader
  <2> QED
    BY <1>2, <1>4, <1>5, <1>11, <2>1, <2>2, <2>3, <2>4 DEF FrameInv
<1>19. CASE /\ ~Lacking /\ ~NonMinimal
            /\ m_state' = "APPLICATION" /\ m_bytes_needed' = Frame.size
            /\ ~Control /\ TooBig(m_data_msg.payload)
            /\ Fail("message_too_big") /\ UNCHANGED messages
  <2>1. m_bytes_needed' \in Nat /\ reader' = "closed"
    BY <1>5, <1>7, <1>19 DEF Fail
  <2>2. FrameTypes' /\ Idle'
    BY <1>1, <1>2, <1>7, <1>8, <1>19, <2>1 DEF FrameTypes, Idle, messages
  <2>3. DataFits' /\ ControlFits'
    BY <1>1, <1>2, <1>19, <2>1 DEF DataFits, ControlFits, Room, messages
  <2>4. ASSUME Matches(k), ~Excepted PROVE ClosedAt(k + 1)'
    <3>1. f.size + Len(m_data_msg.payload) > max_message_size
      BY <1>19, <1>13, <2>4 DEF Excepted
    <3>2. Wrong(f, partial)
      <4>1. f.opcode \notin Controls
        BY <1>7, <1>19 DEF Control
      <4> QED
        BY <1>4, <1>5, <1>7, <1>9, <1>10, <1>19, <2>4, <3>1, <4>1, ExtendedHeader
    <3> QED
      BY <1>12, <2>4, <3>2
  <2> QED
    BY <1>2, <1>4, <1>5, <1>11, <2>1, <2>2, <2>3, <2>4 DEF FrameInv
<1>20. CASE /\ ~Lacking /\ ~NonMinimal
            /\ m_state' = "APPLICATION" /\ m_bytes_needed' = Frame.size
            /\ ~(~Control /\ TooBig(m_data_msg.payload))
            /\ StartPayload(<<FrameAt(m_header'[1]), 0>>) /\ UNCHANGED <<reader, error>>
  <2>1. m_bytes_needed' = f.size /\ m_bytes_needed' \in Nat /\ reader' = "consume"
    BY <1>1, <1>5, <1>7, <1>20
  <2>2. consumed' = FrameEnd[k] + HeaderLength(f)
    <3>1. ~(Chunk < m_bytes_needed)
      BY <1>20 DEF Lacking
    <3> QED
      BY <1>14, <3>1
  <2>3. StartPayload(<<k + 1, 0>>)
    <3>1. FrameAt(m_header'[1]) = k + 1
      <4>1. FrameEnd[k] + 1 \in Nat /\ FrameEnd[k] < FrameEnd[k] + 1 /\ FrameEnd[k] + 1 <= FrameEnd[k + 1]
        BY <1>14, <1>15
      <4>2. m_header'[1] = FrameEnd[k] + 1
        BY <1>2, <1>7 DEF HeaderOf
      <4> QED
        BY <1>1, <1>4, <4>1, <4>2, FrameOfByte
    <3> QED
      BY <1>20, <3>1
  <2>4. /\ m_data_msg' \in MsgTypes /\ m_control_msg' \in MsgTypes
        /\ m_current_msg' = IF f.opcode \in Controls THEN "control" ELSE "data"
        /\ Current'.key = <<k + 1, 0>>
        /\ Len(m_data_msg'.payload) = Len(m_data_msg.payload)
        /\ f.opcode \in Controls =>
              /\ m_data_msg' = m_data_msg
              /\ Len(m_control_msg'.payload) = 0
              /\ m_control_msg' = Message(f.opcode, <<k + 1, 0>>)
        /\ f.opcode \notin Controls =>
              /\ m_control_msg' = m_control_msg
              /\ m_data_msg' = IF NewMessage THEN Message(f.opcode, <<k + 1, 0>>)
                               ELSE [m_data_msg EXCEPT !.key = <<k + 1, 0>>]
    BY <1>1, <1>5, <1>6, <1>7, <2>3, Started DEF f
  <2>5. m_current_msg' \in {"data", "control"}
    BY <2>4
  <2>6. FrameTypes' /\ Idle'
    BY <1>1, <1>2, <1>7, <1>8, <1>20, <2>1, <2>4, <2>5 DEF FrameTypes, Idle
  <2>7. DataFits'
    <3>1. ASSUME LegalSizes PROVE Room(m_data_msg, "data")' <= max_message_size
      <4>1. CASE f.opcode \in Controls
        <5>1. Room(m_data_msg, "data")' = Len(m_data_msg.payload) + 0
          BY <2>4, <4>1 DEF Room
        <5> QED
          BY <1>13, <1>16, <3>1, <5>1
      <4>2. CASE f.opcode \notin Controls
        <5>1. Room(m_data_msg, "data")' = Len(m_data_msg.payload) + f.size
          BY <1>20, <2>1, <2>4, <4>2 DEF Room
        <5>2. ~(f.size + Len(m_data_msg.payload) > max_message_size)
          BY <1>7, <1>20, <1>13, <3>1, <4>2 DEF Control
        <5> QED
          BY <1>5, <1>16, <5>1, <5>2, SizesAssumption
      <4> QED
        BY <4>1, <4>2
    <3> QED
      BY <1>2, <3>1 DEF DataFits
  <2>8. ControlFits'
    <3>1. CASE f.opcode \in Controls
      <4>1. Room(m_control_msg, "control")' = 0 + f.size
        BY <1>20, <2>1, <2>4, <3>1 DEF Room
      <4>2. f.size <= payload_size_basic
        BY <1>4, <1>5, <3>1 DEF BasicAllows
      <4> QED
        BY <1>5, <4>1, <4>2 DEF ControlFits
    <3>2. CASE f.opcode \notin Controls
      <4>1. Room(m_control_msg, "control")' = Len(m_control_msg.payload) + 0
        BY <2>4, <3>2 DEF Room
      <4>2. Room(m_control_msg, "control") = Len(m_control_msg.payload) + 0
        BY <1>1 DEF Room
      <4> QED
        BY <1>1, <4>1, <4>2 DEF ControlFits
    <3> QED
      BY <3>1, <3>2
  <2>9. InPayload(k)' /\ PayloadRead(k)' = 0
    <3>1. PayloadRead(k)' = 0
      BY <1>1, <1>5, <2>1 DEF PayloadRead, f
    <3>2. stream'[k + 1] = f
      BY <1>1 DEF f
    <3>3. f.opcode \in Controls => f.fin
      BY <1>4 DEF BasicAllows
    <3>4. consumed' = FrameEnd[k] + HeaderLength(f) + 0
      BY <1>5, <2>2
    <3>5. 0 % 4 = 0
      OBVIOUS
    <3> QED
      BY <1>1, <1>2, <1>4, <1>5, <1>7, <1>20, <2>1, <2>4, <3>1, <3>2, <3>3, <3>4, <3>5 DEF InPayload
  <2>10. Aligned(k)'
    BY <1>20, <2>9 DEF Aligned, InBasic, InExtended
  <2>11. ASSUME Matches(k), ~Excepted PROVE Matches(k)'
    <3>1. ~Wrong(f, partial)
      <4>1. f.opcode \notin Controls => ~(f.size + Len(m_data_msg.payload) > max_message_size)
        BY <1>7, <1>20, <1>13, <2>11 DEF Control, Excepted
      <4> QED
        BY <1>4, <1>5, <1>7, <1>9, <1>10, <1>20, <2>11, <4>1, ExtendedHeader
    <3>2. PartRead(k)' = [f EXCEPT !.payload = <<>>]
      <4>1. SubSeq(f.payload, 1, 0) = <<>>
        BY <1>5
      <4>2. PartRead(k)' = [f EXCEPT !.payload = SubSeq(f.payload, 1, 0)]
        BY <1>1, <2>9 DEF PartRead, f
      <4> QED
        BY <4>1, <4>2
    <3>3. <<k + 1, 0>> \in Nat \X Nat /\ HoldsPartial(m_data_msg, partial)
      BY <1>6, <1>10, <2>11
    <3> DEFINE none == [f EXCEPT !.payload = <<>>]
               m == Joined(none, partial)
               new == IF NewMessage THEN Message(f.opcode, <<k + 1, 0>>)
                      ELSE [m_data_msg EXCEPT !.key = <<k + 1, 0>>]
    <3>4. /\ Holds(new, m.opcode, m.payload)
          /\ f.opcode \in Controls => Holds(Message(f.opcode, <<k + 1, 0>>), f.opcode, <<>>)
      BY <1>5, <1>9, <1>16, <3>3, StartedHolds DEF NewMessage
    <3>5. none.payload = <<>>
      BY <1>5 DEF Frames
    <3> HIDE DEF new, m, none
    <3>6. stream'[k + 1] = f /\ ReadUpTo'[k].partial = partial /\ PartRead(k)' = none
      BY <1>1, <1>2, <3>2 DEF f, partial, none
    <3>7. CASE f.opcode \in Controls
      <4>1. HoldsPartial(m_data_msg', partial) /\ Holds(m_control_msg', f.opcode, <<>>)
        BY <2>4, <3>3, <3>4, <3>7
      <4> QED
        BY <1>1, <1>2, <1>10, <1>20, <2>11, <3>1, <3>5, <3>6, <3>7, <4>1 DEF Matches
    <3>8. CASE f.opcode \notin Controls
      <4>1. Holds(m_data_msg', m.opcode, m.payload)
        BY <2>4, <3>4, <3>8 DEF new
      <4> QED
        BY <1>1, <1>2, <1>10, <1>20, <2>11, <3>1, <3>6, <3>8, <4>1 DEF Matches, m
    <3> QED
      BY <3>7, <3>8
  <2> QED
    BY <1>1, <1>2, <1>3, <1>4, <1>11, <2>1, <2>6, <2>7, <2>8, <2>10, <2>11 DEF FrameInv, AtFrame
<1> QED
  BY <1>17, <1>18, <1>19, <1>20 DEF HeaderExtended

----------------------------------------------------------------------------
(* The payload.                                                             *)

\* The bytes lo to hi of a sequence.
LEMMA Slice ==
    ASSUME NEW S, NEW s \in Seq(S), NEW lo \in Nat, NEW hi \in Nat, lo <= hi, hi <= Len(s)
    PROVE  /\ SubSeq(s, lo + 1, hi) \in Seq(S)
           /\ SubSeq(s, lo + 1, hi) = [j \in 1..(hi - lo) |-> s[lo + j]]
           /\ Len(SubSeq(s, lo + 1, hi)) = hi - lo
<1>1. Len(s) \in Nat /\ \A i \in 1..Len(s) : s[i] \in S
  BY LenProperties, ElementOfSeq
<1>2. SubSeq(s, lo + 1, hi) = [j \in 1..(hi - lo) |-> s[lo + j]]
  <2>1. (1 + hi) - (lo + 1) = hi - lo /\ \A j \in 1..(hi - lo) : j + (lo + 1) - 1 = lo + j
    OBVIOUS
  <2> QED
    BY <2>1
<1>3. \A j \in 1..(hi - lo) : s[lo + j] \in S
  BY <1>1
<1>4. [j \in 1..(hi - lo) |-> s[lo + j]] \in Seq(S) /\ hi - lo \in Nat
  BY <1>3
<1>5. Len([j \in 1..(hi - lo) |-> s[lo + j]]) = hi - lo
  BY <1>4
<1> QED
  BY <1>2, <1>4, <1>5

\* The beginning of a sequence, cut in two.
LEMMA SliceMore ==
    ASSUME NEW S, NEW s \in Seq(S), NEW lo \in Nat, NEW hi \in Nat, lo <= hi, hi <= Len(s)
    PROVE  SubSeq(s, 1, hi) = SubSeq(s, 1, lo) \o SubSeq(s, lo + 1, hi)
<1>1. Len(s) \in Nat /\ lo <= Len(s)
  BY LenProperties
<1>2. /\ SubSeq(s, 0 + 1, hi) = [j \in 1..(hi - 0) |-> s[0 + j]]
      /\ SubSeq(s, 0 + 1, hi) \in Seq(S)
  BY <1>1, Slice
<1>3. /\ SubSeq(s, 0 + 1, lo) = [j \in 1..(lo - 0) |-> s[0 + j]]
      /\ SubSeq(s, 0 + 1, lo) \in Seq(S) /\ Len(SubSeq(s, 0 + 1, lo)) = lo - 0
  BY <1>1, Slice
<1>4. /\ SubSeq(s, lo + 1, hi) = [j \in 1..(hi - lo) |-> s[lo + j]]
      /\ SubSeq(s, lo + 1, hi) \in Seq(S) /\ Len(SubSeq(s, lo + 1, hi)) = hi - lo
  BY <1>1, Slice
<1>5. 0 + 1 = 1 /\ hi - 0 = hi /\ lo - 0 = lo /\ lo + (hi - lo) = hi /\ \A j \in Nat : 0 + j = j
  OBVIOUS
<1> DEFINE whole == SubSeq(s, 1, hi)
           front == SubSeq(s, 1, lo)
           back == SubSeq(s, lo + 1, hi)
<1>6. whole = [j \in 1..hi |-> s[j]] /\ whole \in Seq(S)
  BY <1>2, <1>5
<1>7. front = [j \in 1..lo |-> s[j]] /\ front \in Seq(S) /\ Len(front) = lo
  BY <1>3, <1>5
<1>8. back = [j \in 1..(hi - lo) |-> s[lo + j]] /\ back \in Seq(S) /\ Len(back) = hi - lo
  BY <1>4
<1> HIDE DEF whole, front, back
<1>9. /\ front \o back \in Seq(S) /\ Len(front \o back) = Len(front) + Len(back)
      /\ \A j \in 1..Len(front) : (front \o back)[j] = front[j]
      /\ \A j \in 1..Len(back) : (front \o back)[Len(front) + j] = back[j]
  BY <1>7, <1>8, Joins
<1>10. Len(front \o back) = hi
  BY <1>7, <1>8, <1>9, <1>5
<1>11. \A j \in 1..hi : (front \o back)[j] = s[j]
  <2>1. SUFFICES ASSUME NEW j \in 1..hi PROVE (front \o back)[j] = s[j]
    OBVIOUS
  <2>2. CASE j <= lo
    <3>1. j \in 1..lo
      BY <2>2
    <3> QED
      BY <1>7, <1>9, <3>1
  <2>3. CASE ~(j <= lo)
    <3>1. j - lo \in 1..(hi - lo) /\ lo + (j - lo) = j
      BY <2>3
    <3>2. (front \o back)[lo + (j - lo)] = back[j - lo]
      BY <1>7, <1>8, <1>9, <3>1
    <3>3. back[j - lo] = s[lo + (j - lo)]
      BY <1>8, <3>1
    <3> QED
      BY <3>1, <3>2, <3>3
  <2> QED
    BY <2>2, <2>3
<1>12. ASSUME NEW t \in Seq(S), Len(t) = hi, \A j \in 1..hi : t[j] = s[j]
       PROVE  t = [j \in 1..hi |-> s[j]]
  BY <1>12
<1>13. front \o back = [j \in 1..hi |-> s[j]]
  <2>1. front \o back \in Seq(S)
    BY <1>9
  <2> QED
    BY <1>10, <1>11, <1>12, <2>1
<1> QED
  BY <1>6, <1>13 DEF whole, front, back

\* What is read next of the payload, unmasked, and the message with it.
LEMMA PayloadBytes ==
    ASSUME FrameTypes, m_state = "APPLICATION", NEW k \in 0..N, InPayload(k)
    PROVE  LET f     == stream[k + 1]
               lo    == PayloadRead(k)
               hi    == PayloadRead(k) + Chunk
               bytes == SubSeq(f.payload, lo + 1, hi)
               msg   == WithPayload(Current)
           IN /\ lo \in Nat /\ hi \in Nat /\ Chunk \in Nat /\ hi <= Len(f.payload)
              /\ bytes \in Seq(Byte) /\ Len(bytes) = Chunk
              /\ Current \in MsgTypes /\ msg \in MsgTypes
              /\ msg.opcode = Current.opcode /\ msg.payload = Current.payload \o bytes
              /\ msg.key = <<k + 1, hi % 4>>
              /\ msg.validator = IF Current.opcode = "TEXT" THEN Decode(Current.validator, bytes)
                                 ELSE Current.validator
<1> DEFINE f == stream[k + 1]
           lo == PayloadRead(k)
           hi == PayloadRead(k) + Chunk
           bytes == SubSeq(f.payload, lo + 1, hi)
           msg == WithPayload(Current)
           start == FrameEnd[k] + HeaderLength(f)
<1>1. /\ stream \in Streams /\ consumed \in Nat /\ arrived \in Nat /\ consumed <= arrived
      /\ arrived <= Total /\ m_bytes_needed \in Nat
      /\ m_data_msg \in MsgTypes /\ m_control_msg \in MsgTypes
  BY DEF FrameTypes
<1>2. /\ k < N /\ m_bytes_needed <= f.size /\ lo <= Len(f.payload)
      /\ consumed = start + lo
      /\ Current.key = <<k + 1, lo % 4>>
  BY DEF InPayload
<1>3. /\ f \in Frames /\ f.payload \in Seq(Byte) /\ f.size \in Nat /\ Len(f.payload) \in Nat
      /\ HeaderLength(f) \in Nat /\ FrameEnd[k] \in Nat /\ FrameEnd[k + 1] \in Nat /\ Total \in Nat
      /\ FrameEnd[k + 1] = FrameEnd[k] + HeaderLength(f) + Len(f.payload)
      /\ Len(f.payload) = f.size \/ FrameEnd[k + 1] = Total
  BY <1>1, <1>2, NextFrame
<1>4. Chunk \in Nat /\ Chunk <= m_bytes_needed /\ consumed + Chunk <= arrived
  BY <1>1, ChunkFacts
<1>5. lo = f.size - m_bytes_needed /\ hi = lo + Chunk /\ start = FrameEnd[k] + HeaderLength(f)
  BY DEF PayloadRead
<1> DEFINE end == FrameEnd[k + 1]
           length == Len(f.payload)
<1> HIDE DEF f, lo, hi, start, bytes, msg, end, length
<1>6. /\ f.size \in Nat /\ length \in Nat /\ end \in Nat /\ start \in Nat /\ lo \in Nat
       /\ end = start + length /\ (length = f.size \/ end = Total)
       /\ Chunk \in Nat /\ Chunk <= m_bytes_needed /\ consumed + Chunk <= Total
       /\ consumed = start + lo /\ lo = f.size - m_bytes_needed /\ lo <= length
       /\ hi = lo + Chunk /\ Total \in Nat
  <2>1. start \in Nat /\ end = start + length
    <3>1. /\ FrameEnd[k] \in Nat /\ HeaderLength(f) \in Nat /\ length \in Nat
          /\ end = FrameEnd[k] + HeaderLength(f) + length
          /\ start = FrameEnd[k] + HeaderLength(f)
      BY <1>3, <1>5 DEF end, length
    <3> QED
      BY <3>1
  <2>2. lo \in Nat
    <3>1. f.size \in Nat /\ m_bytes_needed \in Nat /\ m_bytes_needed <= f.size /\ lo = f.size - m_bytes_needed
      BY <1>1, <1>2, <1>3, <1>5
    <3> QED
      BY <3>1
  <2>3. consumed + Chunk <= Total
    BY <1>1, <1>3, <1>4
  <2> QED
    BY <1>1, <1>2, <1>3, <1>4, <1>5, <2>1, <2>2, <2>3 DEF end, length
<1>7. hi \in Nat /\ lo <= hi /\ hi <= length
  BY <1>1, <1>6
<1>8. hi <= Len(f.payload) /\ lo \in Nat
  BY <1>7, <1>6 DEF length
<1>9. /\ bytes \in Seq(Byte) /\ Len(bytes) = hi - lo
      /\ bytes = [j \in 1..(hi - lo) |-> f.payload[lo + j]]
  BY <1>3, <1>7, <1>8, Slice DEF bytes
<1>10. hi - lo = Chunk
  BY <1>6
<1>11. Current \in MsgTypes
  BY <1>1 DEF Current
<1>12. ASSUME NEW j \in 1..Chunk
       PROVE  Unmasked(consumed + j, <<Current.key[1], (Current.key[2] + j - 1) % 4>>) = f.payload[lo + j]
  <2>1. /\ consumed + j \in Nat /\ FrameEnd[k] < consumed + j /\ consumed + j <= FrameEnd[k + 1]
        /\ j \in Nat /\ 1 <= j
    <3>1. j \in Nat /\ 1 <= j /\ j <= Chunk
      BY <1>6
    <3>2. consumed + j \in Nat /\ consumed + j <= end /\ start < consumed + j
      BY <1>7, <1>6, <3>1
    <3>3. FrameEnd[k] <= start
      BY <1>3, <1>5
    <3> QED
      <4>1. FrameEnd[k] \in Nat /\ start \in Nat /\ consumed \in Nat
        BY <1>1, <1>3, <1>6
      <4>2. FrameEnd[k] < consumed + j
        BY <3>1, <3>2, <3>3, <4>1
      <4> QED
        BY <3>1, <3>2, <4>2 DEF end
  <2>2. /\ FrameAt(consumed + j) = k + 1
        /\ OffsetOf(consumed + j) = (consumed + j) - FrameEnd[k] - HeaderLength(f) - 1
    <3>1. stream \in Streams /\ k < N
      BY <1>1, <1>2
    <3> DEFINE byte == consumed + j
    <3>2. byte \in Nat /\ FrameEnd[k] < byte /\ byte <= FrameEnd[k + 1]
      BY <2>1
    <3> HIDE DEF byte
    <3>3. FrameAt(byte) = k + 1 /\ OffsetOf(byte) = byte - FrameEnd[k] - HeaderLength(f) - 1
      BY <3>1, <3>2, FrameOfByte DEF f
    <3> QED
      BY <3>3 DEF byte
  <2>3. OffsetOf(consumed + j) = lo + j - 1
    <3>1. FrameEnd[k] \in Nat /\ HeaderLength(f) \in Nat /\ consumed = FrameEnd[k] + HeaderLength(f) + lo
      BY <1>3, <1>5, <1>6
    <3> QED
      BY <1>6, <2>1, <2>2, <3>1
  <2>4. Current.key[1] = k + 1 /\ Current.key[2] = lo % 4
    BY <1>2
  <2>5. ((lo % 4) + j - 1) % 4 = (lo + j - 1) % 4
    <3>1. \A a, b \in Nat : b >= 1 => ((a % 4) + b - 1) % 4 = (a + b - 1) % 4
      OBVIOUS
    <3> QED
      BY <1>6, <2>1, <3>1
  <2>6. <<Current.key[1], (Current.key[2] + j - 1) % 4>>
          = <<FrameAt(consumed + j), OffsetOf(consumed + j) % 4>>
    BY <2>2, <2>3, <2>4, <2>5
  <2>7. lo + j - 1 + 1 = lo + j
    BY <1>6, <2>1
  <2> QED
    BY <2>2, <2>3, <2>6, <2>7 DEF Unmasked, f
<1> DEFINE read == [j \in 1..Chunk |->
                       Unmasked(consumed + j, <<Current.key[1], (Current.key[2] + j - 1) % 4>>)]
<1>13. read = bytes
  BY <1>9, <1>10, <1>12
<1>14. msg = [Current EXCEPT !.payload = @ \o read,
                             !.key = <<@[1], (@[2] + Chunk) % 4>>,
                             !.validator = IF Current.opcode = "TEXT" THEN Decode(@, read) ELSE @]
  BY DEF WithPayload, msg
<1> HIDE DEF read
<1>15. /\ msg.opcode = Current.opcode /\ msg.payload = Current.payload \o bytes
       /\ msg.key = <<Current.key[1], (Current.key[2] + Chunk) % 4>>
       /\ msg.validator = IF Current.opcode = "TEXT" THEN Decode(Current.validator, bytes)
                          ELSE Current.validator
       /\ msg = [opcode |-> msg.opcode, payload |-> msg.payload, validator |-> msg.validator,
                 key |-> msg.key]
  BY <1>11, <1>13, <1>14 DEF MsgTypes
<1>16. msg.key = <<k + 1, hi % 4>>
  <2>1. Current.key[1] = k + 1 /\ Current.key[2] = lo % 4
    BY <1>2
  <2>2. ((lo % 4) + Chunk) % 4 = hi % 4
    <3>1. \A a, b \in Nat : ((a % 4) + b) % 4 = (a + b) % 4
      OBVIOUS
    <3> QED
      BY <1>6, <3>1
  <2> QED
    BY <1>15, <2>1, <2>2
<1>17. msg \in MsgTypes
  <2>1. Current.payload \in Seq(Byte) /\ Current.validator \in States /\ Current.opcode \in Opcodes \cup {"none"}
    BY <1>11 DEF MsgTypes
  <2>2. msg.payload \in Seq(Byte)
    BY <1>9, <1>15, <2>1, Joins
  <2>3. Decode(Current.validator, bytes) \in States
    BY <1>9, <2>1, DecodeConcat
  <2>4. msg.validator \in States
    BY <1>15, <2>1, <2>3
  <2>5. k + 1 \in Nat /\ hi % 4 \in Nat
    BY <1>1, <1>7, PlaceFacts
  <2>6. msg.key \in Nat \X Nat
    BY <1>16, <2>5
  <2> QED
    BY <1>15, <2>1, <2>2, <2>4, <2>6 DEF MsgTypes
<1> QED
  BY <1>4, <1>7, <1>8, <1>9, <1>10, <1>11, <1>15, <1>16, <1>17, <1>6 DEF bytes, msg, f, lo, hi

\* The first n bytes of a frame's payload, joined with what came before it.
Part(f, partial, n) == Joined([f EXCEPT !.payload = SubSeq(@, 1, n)], partial)

\* More of a frame's payload is more of the message.
LEMMA JoinedMore ==
    ASSUME NEW f \in Frames, NEW partial \in Partials, NEW lo \in Nat, NEW hi \in Nat,
           lo <= hi, hi <= Len(f.payload)
    PROVE  /\ Part(f, partial, lo) \in Contents /\ Part(f, partial, hi) \in Contents
           /\ Part(f, partial, hi).opcode = Part(f, partial, lo).opcode
           /\ Part(f, partial, lo).opcode = Joined(f, partial).opcode
           /\ Part(f, partial, hi).payload
                = Part(f, partial, lo).payload \o SubSeq(f.payload, lo + 1, hi)
           /\ SubSeq(f.payload, 1, hi) = SubSeq(f.payload, 1, lo) \o SubSeq(f.payload, lo + 1, hi)
           /\ hi = Len(f.payload) => Part(f, partial, hi) = Joined(f, partial)
                                     /\ SubSeq(f.payload, 1, hi) = f.payload
<1> DEFINE front == SubSeq(f.payload, 1, lo)
           whole == SubSeq(f.payload, 1, hi)
           back == SubSeq(f.payload, lo + 1, hi)
           a == [f EXCEPT !.payload = front]
           b == [f EXCEPT !.payload = whole]
<1>1. f.payload \in Seq(Byte) /\ Len(f.payload) \in Nat
  BY LenProperties DEF Frames
<1>2. front \in Seq(Byte) /\ whole \in Seq(Byte) /\ back \in Seq(Byte) /\ whole = front \o back
  <2>1. SubSeq(f.payload, 0 + 1, lo) \in Seq(Byte) /\ SubSeq(f.payload, 0 + 1, hi) \in Seq(Byte)
    <3>1. lo <= Len(f.payload) /\ 0 <= lo /\ 0 <= hi /\ 0 \in Nat
      BY <1>1
    <3> QED
      BY <1>1, <3>1, Slice
  <2>2. back \in Seq(Byte)
    BY <1>1, Slice
  <2>3. whole = front \o back
    BY <1>1, SliceMore
  <2>4. 0 + 1 = 1
    OBVIOUS
  <2> QED
    BY <2>1, <2>2, <2>3, <2>4
<1>3. hi = Len(f.payload) => whole = f.payload
  <2>1. ASSUME NEW s \in Seq(Byte) PROVE SubSeq(s, 1, Len(s)) = s
    BY <2>1
  <2> QED
    BY <1>1, <2>1
<1> HIDE DEF front, whole, back
<1>4. /\ a \in Frames /\ a.opcode = f.opcode /\ a.payload = front
      /\ b \in Frames /\ b.opcode = f.opcode /\ b.payload = whole
  BY <1>2 DEF Frames
<1>5. whole = f.payload => b = f
  BY DEF Frames
<1>6. Part(f, partial, lo) = Joined(a, partial) /\ Part(f, partial, hi) = Joined(b, partial)
  BY DEF Part, front, whole
<1> HIDE DEF a, b
<1>7. Joined(a, partial) \in Contents /\ Joined(b, partial) \in Contents
  BY <1>4, JoinedType
<1>8. /\ Joined(b, partial).opcode = Joined(a, partial).opcode
      /\ Joined(a, partial).opcode = Joined(f, partial).opcode
      /\ Joined(b, partial).payload = Joined(a, partial).payload \o back
  <2>1. CASE partial = <<>>
    BY <1>2, <1>4, <2>1 DEF Joined, Content
  <2>2. CASE partial # <<>>
    <3>1. PICK c \in Contents : partial = <<c>>
      BY <2>2 DEF Partials
    <3>2. c.payload \in Seq(Byte) /\ partial[1] = c
      BY <3>1 DEF Contents
    <3>3. /\ Joined(a, partial) = [opcode |-> c.opcode, payload |-> c.payload \o front]
          /\ Joined(b, partial) = [opcode |-> c.opcode, payload |-> c.payload \o whole]
      BY <1>4, <2>2, <3>2 DEF Joined
    <3>4. c.payload \o whole = (c.payload \o front) \o back
      <4>1. \A s, t, u \in Seq(Byte) : (s \o t) \o u = s \o (t \o u)
        BY ConcatAssociative
      <4> QED
        BY <1>2, <3>2, <4>1
    <3>5. Joined(f, partial).opcode = c.opcode
      BY <2>2, <3>2 DEF Joined
    <3> QED
      BY <3>3, <3>4, <3>5
  <2> QED
    BY <2>1, <2>2
<1> QED
  BY <1>2, <1>3, <1>5, <1>6, <1>7, <1>8 DEF whole, front, back

\* Some more bytes of a message.
Adds(old, bytes, new) ==
    /\ new.opcode = old.opcode /\ new.payload = old.payload \o bytes
    /\ new.validator = IF old.opcode = "TEXT" THEN Decode(old.validator, bytes) ELSE old.validator

\* The validator has seen all of the message, and one that refused it knows why.
LEMMA MoreHeld ==
    ASSUME NEW old \in MsgTypes, NEW new \in MsgTypes, NEW opcode, NEW payload \in Seq(Byte),
           NEW bytes \in Seq(Byte), Holds(old, opcode, payload), Adds(old, bytes, new)
    PROVE  /\ new.validator = IF opcode = "TEXT" THEN Decode(utf8_accept, payload \o bytes)
                              ELSE utf8_accept
           /\ new.validator # utf8_reject => Holds(new, opcode, payload \o bytes)
           /\ opcode # "TEXT" => new.validator # utf8_reject
<1>1. /\ old.opcode = opcode /\ old.payload = payload
      /\ old.validator = IF opcode = "TEXT" THEN Decode(utf8_accept, payload) ELSE utf8_accept
      /\ old.validator # utf8_reject
  BY DEF Holds
<1>2. 0 \in States
  BY DEF States
<1>3. Decode(0, payload \o bytes) = Decode(Decode(0, payload), bytes)
  BY <1>2, DecodeConcat
<1>4. new.validator = IF opcode = "TEXT" THEN Decode(utf8_accept, payload \o bytes) ELSE utf8_accept
  BY <1>1, <1>3 DEF utf8_accept, Adds
<1>5. utf8_accept # utf8_reject
  BY DEF utf8_accept, utf8_reject
<1> QED
  BY <1>1, <1>4, <1>5 DEF Holds, Adds

\* A message of which a part was refused is not well encoded.
LEMMA Refused ==
    ASSUME NEW f \in Frames, NEW partial \in Partials, NEW n \in Nat, n <= Len(f.payload),
           Joined(f, partial).opcode = "TEXT",
           Decode(utf8_accept, Part(f, partial, n).payload) = utf8_reject, NEW ends
    PROVE  ~WellEncoded(Joined(f, partial), ends)
<1> DEFINE front == Part(f, partial, n).payload
           rest == SubSeq(f.payload, n + 1, Len(f.payload))
           m == Joined(f, partial)
<1>1. f.payload \in Seq(Byte) /\ Len(f.payload) \in Nat
  BY LenProperties DEF Frames
<1>2. rest \in Seq(Byte)
  BY <1>1, Slice
<1>3. /\ Part(f, partial, n) \in Contents /\ m \in Contents
      /\ m.payload = front \o rest
  <2> DEFINE length == Len(f.payload)
  <2>1. length \in Nat /\ n <= length /\ length <= Len(f.payload)
    BY <1>1
  <2>2. length = Len(f.payload)
    OBVIOUS
  <2> HIDE DEF length
  <2>3. /\ Part(f, partial, n) \in Contents /\ Part(f, partial, length) \in Contents
        /\ Part(f, partial, length).payload = front \o SubSeq(f.payload, n + 1, length)
        /\ length = Len(f.payload) => Part(f, partial, length) = Joined(f, partial)
    BY <2>1, JoinedMore
  <2> QED
    BY <2>2, <2>3
<1>4. front \in Seq(Byte) /\ m.payload \in Seq(Byte)
  BY <1>3 DEF Contents
<1> HIDE DEF front, rest
<1>5. 0 \in States /\ Decode(0, front) = 1
  BY DEF States, utf8_accept, utf8_reject, front
<1>6. Decode(0, m.payload) = 1
  BY <1>2, <1>3, <1>4, <1>5, DecodeConcat, DecodeRejected
<1>7. ~IsUtf8(m.payload) /\ ~BeginsUtf8(m.payload)
  BY <1>4, <1>6, DecodeDecides
<1>8. m.opcode = "TEXT"
  OBVIOUS
<1> HIDE DEF m
<1> QED
  BY <1>7, <1>8 DEF WellEncoded, m

\* Reading payload preserves the invariant: it is unmasked with the key of its frame
\* in the right rotation, and text is refused as soon as nothing can make it UTF-8.
LEMMA ApplicationInv == FrameInv /\ Application => FrameInv'
<1> SUFFICES ASSUME FrameInv, Application PROVE FrameInv'
  OBVIOUS
<1> DEFINE msg == WithPayload(Current)
<1>1. /\ FrameTypes /\ DataFits /\ ControlFits /\ stream \in Streams
      /\ reader = "consume" /\ m_state = "APPLICATION"
      /\ consumed < arrived \/ m_bytes_needed = 0
      /\ SetCurrent(msg)
      /\ stream' = stream /\ arrived' = arrived /\ dispatched' = dispatched
      /\ m_current_msg' = m_current_msg
  BY DEF FrameInv, FrameTypes, Application, InConsume
<1>2. /\ FrameEnd' = FrameEnd /\ ReadUpTo' = ReadUpTo /\ N' = N /\ Total' = Total
      /\ LegalSizes' = LegalSizes
  BY <1>1, SameStream
<1>3. PICK k \in 0..N : AtFrame(k)
  BY <1>1 DEF FrameInv
<1> DEFINE f == stream[k + 1]
           partial == ReadUpTo[k].partial
           lo == PayloadRead(k)
           hi == PayloadRead(k) + Chunk
           bytes == SubSeq(f.payload, lo + 1, hi)
           start == FrameEnd[k] + HeaderLength(f)
<1>4. /\ InPayload(k) /\ k < N /\ HeaderOf(k)
      /\ m_bytes_needed <= f.size
      /\ lo <= Len(f.payload)
      /\ consumed = start + lo
      /\ m_current_msg = IF f.opcode \in Controls THEN "control" ELSE "data"
      /\ f.opcode \in Controls => f.fin
      /\ Matches(k) \/ Excepted
  BY <1>1, <1>3 DEF AtFrame, Aligned, InPayload
<1>5. /\ lo \in Nat /\ hi \in Nat /\ Chunk \in Nat /\ hi <= Len(f.payload)
      /\ bytes \in Seq(Byte) /\ Len(bytes) = Chunk
      /\ Current \in MsgTypes /\ msg \in MsgTypes
      /\ msg.opcode = Current.opcode /\ msg.payload = Current.payload \o bytes
      /\ msg.key = <<k + 1, hi % 4>>
      /\ msg.validator = IF Current.opcode = "TEXT" THEN Decode(Current.validator, bytes)
                         ELSE Current.validator
  BY <1>1, <1>4, PayloadBytes
<1>6. /\ k + 1 \in 0..N /\ f \in Frames /\ f.size \in Nat
      /\ f.payload \in Seq(Byte) /\ Len(f.payload) \in Nat /\ Len(f.payload) <= f.size
      /\ HeaderLength(f) \in Nat /\ ReadUpTo[k] \in Readings /\ FrameEnd[k] \in Nat
      /\ FrameEnd[k + 1] = FrameEnd[k] + HeaderLength(f) + Len(f.payload)
  BY <1>1, <1>4, NextFrame
<1>7. /\ consumed \in Nat /\ arrived \in Nat /\ m_bytes_needed \in Nat /\ consumed <= arrived
      /\ Chunk <= m_bytes_needed /\ consumed + Chunk <= arrived
      /\ Chunk < m_bytes_needed => consumed + Chunk = arrived
      /\ m_data_msg \in MsgTypes /\ m_control_msg \in MsgTypes
      /\ lo = f.size - m_bytes_needed /\ hi = lo + Chunk
      /\ start \in Nat /\ FrameEnd[k + 1] = start + Len(f.payload)
  <2>1. /\ consumed \in Nat /\ arrived \in Nat /\ m_bytes_needed \in Nat /\ consumed <= arrived
        /\ m_data_msg \in MsgTypes /\ m_control_msg \in MsgTypes
    BY <1>1 DEF FrameTypes
  <2>2. start \in Nat /\ FrameEnd[k + 1] = start + Len(f.payload)
    BY <1>6
  <2> QED
    BY <2>1, <2>2, ChunkFacts DEF PayloadRead
<1>8. partial \in Partials
  BY <1>6 DEF Readings
<1>9. stream'[k + 1] = f /\ ReadUpTo'[k].partial = partial
  BY <1>1, <1>2
<1>10. FrameAt(m_header[1]) = k + 1
  <2>1. k \in 0..N /\ k + 1 \in 0..N /\ k < k + 1
    BY <1>6, <1>1, PlaceFacts
  <2>2. FrameEnd[k] \in Nat /\ FrameEnd[k + 1] \in Nat /\ FrameEnd[k] + 2 <= FrameEnd[k + 1]
    BY <1>1, <2>1, FrameEndOrder, PlaceFacts
  <2> DEFINE byte == FrameEnd[k] + 1
  <2>3. byte \in Nat /\ FrameEnd[k] < byte /\ byte <= FrameEnd[k + 1]
    BY <2>2
  <2>4. m_header[1] = byte
    BY <1>4 DEF HeaderOf
  <2> HIDE DEF byte
  <2> QED
    BY <1>1, <1>4, <2>3, <2>4, FrameOfByte
<1>11. ASSUME Matches(k)
       PROVE  /\ ~ReadUpTo[k].wrong /\ dispatched = ReadUpTo[k].messages /\ ~Wrong(f, partial)
              /\ f.opcode \in Controls =>
                    HoldsPartial(m_data_msg, partial) /\ Holds(Current, f.opcode, SubSeq(f.payload, 1, lo))
              /\ f.opcode \notin Controls =>
                    Holds(Current, Part(f, partial, lo).opcode, Part(f, partial, lo).payload)
  <2>1. PartRead(k) = [f EXCEPT !.payload = SubSeq(f.payload, 1, lo)]
    BY DEF PartRead
  <2>2. PartRead(k).payload = SubSeq(f.payload, 1, lo)
    BY <1>6, <2>1 DEF Frames
  <2>3. Joined(PartRead(k), partial) = Part(f, partial, lo)
    BY <2>1 DEF Part
  <2> QED
    BY <1>1, <1>4, <1>11, <2>2, <2>3 DEF Matches, Current
<1>12. /\ Part(f, partial, lo) \in Contents /\ Part(f, partial, hi) \in Contents
       /\ Part(f, partial, hi).opcode = Part(f, partial, lo).opcode
       /\ Part(f, partial, lo).opcode = Joined(f, partial).opcode
       /\ Part(f, partial, hi).payload = Part(f, partial, lo).payload \o bytes
       /\ SubSeq(f.payload, 1, hi) = SubSeq(f.payload, 1, lo) \o bytes
       /\ hi = Len(f.payload) => Part(f, partial, hi) = Joined(f, partial)
                                 /\ SubSeq(f.payload, 1, hi) = f.payload
       /\ SubSeq(f.payload, 1, lo) \in Seq(Byte)
  <2>1. lo <= hi
    BY <1>5, <1>7
  <2>2. lo \in Nat /\ hi \in Nat /\ lo <= Len(f.payload) /\ hi <= Len(f.payload) /\ 0 <= lo /\ 0 \in Nat
    BY <1>4, <1>5
  <2>3. f \in Frames /\ f.payload \in Seq(Byte) /\ partial \in Partials
    BY <1>6, <1>8
  <2>4. bytes = SubSeq(f.payload, lo + 1, hi)
    OBVIOUS
  <2> HIDE DEF f, partial, lo, hi, bytes
  <2>5. SubSeq(f.payload, 0 + 1, lo) \in Seq(Byte)
    BY <2>2, <2>3, Slice
  <2>6. SubSeq(f.payload, 1, lo) \in Seq(Byte)
    BY <2>5
  <2>7. /\ Part(f, partial, lo) \in Contents /\ Part(f, partial, hi) \in Contents
        /\ Part(f, partial, hi).opcode = Part(f, partial, lo).opcode
        /\ Part(f, partial, lo).opcode = Joined(f, partial).opcode
        /\ Part(f, partial, hi).payload
             = Part(f, partial, lo).payload \o SubSeq(f.payload, lo + 1, hi)
        /\ SubSeq(f.payload, 1, hi) = SubSeq(f.payload, 1, lo) \o SubSeq(f.payload, lo + 1, hi)
        /\ hi = Len(f.payload) => Part(f, partial, hi) = Joined(f, partial)
                                  /\ SubSeq(f.payload, 1, hi) = f.payload
    BY <2>1, <2>2, <2>3, JoinedMore
  <2> QED
    BY <2>4, <2>6, <2>7
<1> HIDE DEF f, partial, lo, hi, bytes, start, msg

<1>13. Adds(Current, bytes, msg) /\ bytes \in Seq(Byte)
  BY <1>5 DEF Adds
<1>14. m_bytes_needed \in Nat /\ Chunk \in Nat /\ Chunk <= m_bytes_needed
  BY <1>5, <1>7
<1>15. ASSUME Matches(k), f.opcode \in Controls
       PROVE  /\ msg.validator # utf8_reject
              /\ Holds(msg, f.opcode, SubSeq(f.payload, 1, hi))
  <2>1. Holds(Current, f.opcode, SubSeq(f.payload, 1, lo))
    BY <1>11, <1>15
  <2>2. f.opcode # "TEXT"
    BY <1>15 DEF Controls
  <2> DEFINE front == SubSeq(f.payload, 1, lo)
  <2>3. front \in Seq(Byte) /\ SubSeq(f.payload, 1, hi) = front \o bytes /\ Holds(Current, f.opcode, front)
    BY <1>12, <2>1
  <2> HIDE DEF front
  <2>4. /\ msg.validator # utf8_reject => Holds(msg, f.opcode, front \o bytes)
        /\ f.opcode # "TEXT" => msg.validator # utf8_reject
    BY <1>5, <1>13, <2>3, MoreHeld
  <2> QED
    BY <2>2, <2>3, <2>4
<1>16. ASSUME Matches(k), f.opcode \notin Controls
       PROVE  /\ msg.validator # utf8_reject =>
                    Holds(msg, Part(f, partial, hi).opcode, Part(f, partial, hi).payload)
              /\ msg.validator = utf8_reject =>
                    /\ Part(f, partial, hi).opcode = "TEXT"
                    /\ Decode(utf8_accept, Part(f, partial, hi).payload) = utf8_reject
  <2> DEFINE opcode == Part(f, partial, lo).opcode
             front == Part(f, partial, lo).payload
  <2>1. /\ front \in Seq(Byte) /\ Holds(Current, opcode, front)
        /\ Part(f, partial, hi).opcode = opcode /\ Part(f, partial, hi).payload = front \o bytes
    BY <1>11, <1>12, <1>16 DEF Contents
  <2> HIDE DEF opcode, front
  <2>2. /\ msg.validator = IF opcode = "TEXT" THEN Decode(utf8_accept, front \o bytes) ELSE utf8_accept
        /\ msg.validator # utf8_reject => Holds(msg, opcode, front \o bytes)
        /\ opcode # "TEXT" => msg.validator # utf8_reject
    BY <1>5, <1>13, <2>1, MoreHeld
  <2> QED
    BY <2>1, <2>2
<1>17. /\ m_data_msg' \in MsgTypes /\ m_control_msg' \in MsgTypes /\ Current' = msg
       /\ f.opcode \in Controls => m_data_msg' = m_data_msg /\ m_control_msg' = msg
       /\ f.opcode \notin Controls => m_control_msg' = m_control_msg /\ m_data_msg' = msg
  <2>1. CASE f.opcode \in Controls
    BY <1>1, <1>4, <1>5, <1>7, <2>1 DEF SetCurrent, Current
  <2>2. CASE f.opcode \notin Controls
    BY <1>1, <1>4, <1>5, <1>7, <2>2 DEF SetCurrent, Current
  <2> QED
    BY <2>1, <2>2
<1>18. Excepted' <=> Excepted
  BY <1>1, <1>2 DEF Excepted, TextComplete
<1>19. /\ Len(msg.payload) = Len(Current.payload) + Chunk
       /\ Len(m_data_msg.payload) \in Nat /\ Len(m_control_msg.payload) \in Nat
  <2>1. /\ Current.payload \in Seq(Byte) /\ m_data_msg.payload \in Seq(Byte)
        /\ m_control_msg.payload \in Seq(Byte)
    BY <1>5, <1>7 DEF MsgTypes
  <2>2. \A s, t \in Seq(Byte) : Len(s \o t) = Len(s) + Len(t) /\ Len(s) \in Nat
    BY Joins, LenProperties
  <2> QED
    BY <1>5, <2>1, <2>2
<1>20. ASSUME m_state' # "APPLICATION" \/ reader' = "closed" \/ m_bytes_needed' = m_bytes_needed - Chunk
       PROVE  DataFits' /\ ControlFits'
  <2> DEFINE more == IF reader' # "closed" /\ m_state' = "APPLICATION" THEN m_bytes_needed' ELSE 0
  <2>1. Chunk + more <= m_bytes_needed /\ more \in Nat
    <3>1. more = 0 \/ more = m_bytes_needed - Chunk
      BY <1>20
    <3> HIDE DEF more
    <3> QED
      BY <1>14, <3>1
  <2>2. CASE f.opcode \in Controls
    <3>1. /\ Room(m_data_msg, "data") = Len(m_data_msg.payload) + 0
          /\ Room(m_data_msg, "data")' = Len(m_data_msg.payload) + 0
      BY <1>1, <1>4, <1>17, <2>2 DEF Room
    <3>2. /\ Room(m_control_msg, "control") = Len(m_control_msg.payload) + m_bytes_needed
          /\ Room(m_control_msg, "control")' = Len(msg.payload) + more
      BY <1>1, <1>4, <1>17, <2>2 DEF Room
    <3>3. Len(msg.payload) = Len(m_control_msg.payload) + Chunk
      BY <1>4, <1>19, <2>2 DEF Current
    <3>4. payload_size_basic \in Nat
      BY SizesAssumption
    <3> HIDE DEF more
    <3>5. Room(m_control_msg, "control")' <= payload_size_basic
      <4>1. Len(m_control_msg.payload) + m_bytes_needed <= payload_size_basic
        BY <1>1, <3>2 DEF ControlFits
      <4> QED
        BY <1>19, <1>14, <2>1, <3>2, <3>3, <3>4, <4>1
    <3> QED
      BY <1>1, <1>2, <3>1, <3>5 DEF DataFits, ControlFits
  <2>3. CASE f.opcode \notin Controls
    <3>1. /\ Room(m_control_msg, "control") = Len(m_control_msg.payload) + 0
          /\ Room(m_control_msg, "control")' = Len(m_control_msg.payload) + 0
      BY <1>1, <1>4, <1>17, <2>3 DEF Room
    <3>2. /\ Room(m_data_msg, "data") = Len(m_data_msg.payload) + m_bytes_needed
          /\ Room(m_data_msg, "data")' = Len(msg.payload) + more
      BY <1>1, <1>4, <1>17, <2>3 DEF Room
    <3>3. Len(msg.payload) = Len(m_data_msg.payload) + Chunk
      BY <1>4, <1>19, <2>3 DEF Current
    <3>4. max_message_size \in Nat
      BY SizesAssumption
    <3> HIDE DEF more
    <3>5. ASSUME LegalSizes PROVE Room(m_data_msg, "data")' <= max_message_size
      <4>1. Len(m_data_msg.payload) + m_bytes_needed <= max_message_size
        BY <1>1, <3>2, <3>5 DEF DataFits
      <4> QED
        BY <1>19, <1>14, <2>1, <3>2, <3>3, <3>4, <4>1
    <3> QED
      BY <1>1, <1>2, <3>1, <3>5 DEF DataFits, ControlFits
  <2> QED
    BY <2>2, <2>3
<1>21. CASE msg.validator = utf8_reject /\ Fail("invalid_utf8")
            /\ UNCHANGED <<consumed, m_state, m_bytes_needed, m_header>>
  <2>1. reader' = "closed"
    BY <1>21 DEF Fail
  <2>2. FrameTypes' /\ Idle'
    BY <1>1, <1>2, <1>17, <1>21, <2>1 DEF FrameTypes, Idle
  <2>3. DataFits' /\ ControlFits'
    BY <1>20, <2>1
  <2>4. ASSUME Matches(k) PROVE ClosedAt(k + 1)'
    <3>1. f.opcode \notin Controls
      BY <1>15, <1>21, <2>4
    <3>2. ~WellEncoded(Joined(f, partial), Ends(f))
      BY <1>5, <1>6, <1>8, <1>12, <1>16, <1>21, <2>4, <3>1, Refused
    <3>3. ReadUpTo[k + 1].wrong /\ ReadUpTo[k + 1].messages = ReadUpTo[k].messages
      BY <1>1, <1>4, <1>11, <2>4, <3>1, <3>2, WrongNext DEF f, partial
    <3> QED
      BY <1>1, <1>2, <1>11, <2>4, <3>3 DEF ClosedAt
  <2> QED
    BY <1>2, <1>4, <1>6, <1>18, <2>1, <2>2, <2>3, <2>4 DEF FrameInv
<1>22. ASSUME consumed' = consumed + Chunk, m_bytes_needed' = m_bytes_needed - Chunk,
              m_header' = m_header, m_state' \in {"APPLICATION", "READY"},
              m_state' = "READY" => m_bytes_needed' = 0 /\ f.fin, msg.validator # utf8_reject
       PROVE  AtFrame(k)'
  <2>1. /\ m_bytes_needed' \in Nat /\ m_bytes_needed' <= f.size
        /\ PayloadRead(k)' = hi /\ consumed' = start + hi
    <3>1. PayloadRead(k)' = f.size - m_bytes_needed'
      BY <1>9 DEF PayloadRead
    <3>2. /\ f.size \in Nat /\ lo = f.size - m_bytes_needed /\ hi = lo + Chunk
          /\ consumed = start + lo /\ start \in Nat /\ lo \in Nat
      BY <1>4, <1>5, <1>6, <1>7
    <3> QED
      BY <1>14, <1>22, <3>1, <3>2
  <2>2. Aligned(k)'
    <3>1. InPayload(k)'
      <4>1. HeaderOf(k)' /\ k < N'
        BY <1>2, <1>4, <1>22 DEF HeaderOf
      <4>2. Current'.key = <<k + 1, PayloadRead(k)' % 4>>
        BY <1>5, <1>17, <2>1
      <4>3. consumed' = FrameEnd'[k] + HeaderLength(stream'[k + 1]) + PayloadRead(k)'
        BY <1>2, <1>9, <2>1 DEF start
      <4> QED
        BY <1>1, <1>4, <1>5, <1>9, <1>22, <2>1, <4>1, <4>2, <4>3 DEF InPayload
    <3> QED
      BY <1>22, <3>1 DEF Aligned, InBasic, InExtended
  <2>3. ASSUME Matches(k) PROVE Matches(k)'
    <3>1. PartRead(k)' = [f EXCEPT !.payload = SubSeq(f.payload, 1, hi)]
      BY <1>9, <2>1 DEF PartRead
    <3>2. PartRead(k)'.payload = SubSeq(f.payload, 1, hi)
      BY <1>6, <3>1 DEF Frames
    <3>3. Joined(PartRead(k)', partial) = Part(f, partial, hi)
      BY <3>1 DEF Part
    <3>4. ~ReadUpTo[k].wrong /\ dispatched = ReadUpTo[k].messages /\ ~Wrong(f, partial)
      BY <1>11, <2>3
    <3>5. CASE f.opcode \in Controls
      <4>1. HoldsPartial(m_data_msg', partial) /\ Holds(m_control_msg', f.opcode, PartRead(k)'.payload)
        BY <1>11, <1>15, <1>17, <2>3, <3>2, <3>5
      <4> QED
        BY <1>1, <1>2, <1>9, <1>22, <3>4, <3>5, <4>1 DEF Matches
    <3>6. CASE f.opcode \notin Controls
      <4> DEFINE m == Joined(PartRead(k)', partial)
      <4>1. Holds(m_data_msg', m.opcode, m.payload)
        BY <1>16, <1>17, <1>22, <2>3, <3>3, <3>6
      <4> QED
        BY <1>1, <1>2, <1>9, <1>22, <3>4, <3>6, <4>1 DEF Matches
    <3> QED
      BY <3>5, <3>6
  <2> QED
    BY <1>4, <1>18, <2>2, <2>3 DEF AtFrame
<1>23. ASSUME ~Lacking
       PROVE  /\ m_bytes_needed - Chunk = 0 /\ hi = Len(f.payload) /\ HasAll(f)
              /\ start + hi = FrameEnd[k + 1] /\ consumed + Chunk = start + hi
  <2>1. ~(Chunk < m_bytes_needed)
    BY <1>23 DEF Lacking
  <2>2. Chunk = m_bytes_needed
    BY <1>14, <2>1
  <2> DEFINE length == Len(f.payload)
  <2>3. /\ f.size \in Nat /\ lo = f.size - m_bytes_needed /\ hi = lo + Chunk
        /\ length \in Nat /\ length <= f.size /\ hi <= length
        /\ start \in Nat /\ FrameEnd[k + 1] = start + length /\ consumed = start + lo /\ lo \in Nat
    BY <1>4, <1>5, <1>6, <1>7
  <2> HIDE DEF length
  <2>4. hi = length /\ length = f.size
    BY <1>14, <2>2, <2>3
  <2>5. m_bytes_needed - Chunk = 0 /\ start + hi = FrameEnd[k + 1] /\ consumed + Chunk = start + hi
    BY <1>14, <2>2, <2>3, <2>4
  <2> QED
    BY <2>4, <2>5 DEF HasAll, length
<1>24. CASE /\ msg.validator # utf8_reject /\ consumed' = consumed + Chunk
            /\ Lacking /\ MoreBytes /\ UNCHANGED <<m_state, m_header, reader, error>>
  <2>1. m_bytes_needed' = m_bytes_needed - Chunk
    BY <1>24 DEF MoreBytes
  <2>2. AtFrame(k)'
    BY <1>1, <1>24, <1>22, <2>1
  <2>3. DataFits' /\ ControlFits'
    BY <1>20, <2>1
  <2>4. m_bytes_needed' \in Nat /\ consumed' \in Nat /\ consumed' <= arrived'
    BY <1>1, <1>7, <1>24, <1>14, <2>1
  <2>5. FrameTypes' /\ Idle'
    BY <1>1, <1>2, <1>17, <1>24, <2>4 DEF FrameTypes, Idle
  <2> QED
    BY <1>1, <1>2, <1>24, <2>2, <2>3, <2>5 DEF FrameInv
<1>25. CASE /\ msg.validator # utf8_reject /\ consumed' = consumed + Chunk
            /\ ~Lacking /\ ~f.fin
            /\ ResetHeaders /\ UNCHANGED <<reader, error>>
  <2>1. m_state' = "HEADER_BASIC" /\ m_bytes_needed' = 2 /\ m_header' = <<>> /\ reader' = "consume"
    BY <1>1, <1>25 DEF ResetHeaders, BASIC_HEADER_LENGTH
  <2>2. DataFits' /\ ControlFits'
    BY <1>20, <2>1
  <2>3. consumed' \in Nat /\ consumed' <= arrived' /\ consumed' = FrameEnd[k + 1]
    BY <1>1, <1>7, <1>25, <1>14, <1>23
  <2>4. FrameTypes' /\ Idle'
    <3>1. m_header' \in Seq(Nat) /\ m_bytes_needed' \in Nat
      BY <2>1
    <3> QED
      BY <1>1, <1>2, <1>17, <2>1, <2>3, <3>1 DEF FrameTypes, Idle
  <2>5. Aligned(k + 1)'
    <3>1. InBasic(k + 1)'
      <4>1. consumed' = FrameEnd[k + 1] + 2 - 2 /\ 2 \in 1..2
        BY <2>3
      <4> QED
        BY <1>2, <2>1, <4>1 DEF InBasic
    <3> QED
      BY <2>1, <3>1 DEF Aligned, InExtended, InPayload
  <2>6. ASSUME Matches(k) PROVE Matches(k + 1)'
    <3>1. f.opcode \notin Controls /\ ~Ends(f)
      BY <1>4, <1>25 DEF Ends
    <3> DEFINE m == Joined(f, partial)
    <3>2. Holds(msg, m.opcode, m.payload) /\ m \in Contents
      BY <1>12, <1>16, <1>25, <1>23, <2>6, <3>1
    <3>3. WellEncoded(m, Ends(f))
      <4>1. m.opcode = "TEXT" => Decode(0, m.payload) # 1
        BY <3>2 DEF Holds, utf8_accept, utf8_reject
      <4>2. m.payload \in Seq(Byte)
        BY <3>2 DEF Contents
      <4> HIDE DEF m
      <4> QED
        BY <3>1, <4>1, <4>2, DecodeDecides DEF WellEncoded
    <3>4. /\ ~ReadUpTo[k].wrong /\ dispatched = ReadUpTo[k].messages /\ ~Wrong(f, partial)
      BY <1>11, <2>6
    <3>5. /\ ~ReadUpTo[k + 1].wrong /\ ReadUpTo[k + 1].partial = <<m>>
          /\ ReadUpTo[k + 1].messages = ReadUpTo[k].messages
      BY <1>1, <1>4, <3>1, <3>3, <3>4, TakenNext DEF f, partial
    <3>6. HoldsPartial(m_data_msg', ReadUpTo[k + 1].partial)
      <4>1. <<m>> # <<>> /\ <<m>>[1] = m
        OBVIOUS
      <4> HIDE DEF m
      <4> QED
        BY <1>17, <3>1, <3>2, <3>5, <4>1 DEF HoldsPartial
    <3> QED
      BY <1>1, <1>2, <2>1, <3>4, <3>5, <3>6 DEF Matches
  <2> QED
    BY <1>2, <1>4, <1>6, <1>18, <2>1, <2>2, <2>4, <2>5, <2>6 DEF FrameInv, AtFrame
<1>26. stream[FrameAt(m_header[1])] = f
  BY <1>10 DEF f
<1>27. CASE /\ msg.validator # utf8_reject /\ consumed' = consumed + Chunk
            /\ ~Lacking /\ f.fin /\ MoreBytes /\ UNCHANGED m_header
            /\ EndsWithin(msg) /\ Fail("invalid_utf8") /\ UNCHANGED m_state
  <2>1. m_bytes_needed' = m_bytes_needed - Chunk /\ reader' = "closed"
    BY <1>27 DEF MoreBytes, Fail
  <2>2. DataFits' /\ ControlFits'
    BY <1>20, <2>1
  <2>3. m_bytes_needed' \in Nat /\ consumed' \in Nat /\ consumed' <= arrived'
    BY <1>1, <1>7, <1>27, <1>14, <2>1
  <2>4. FrameTypes' /\ Idle'
    BY <1>1, <1>2, <1>17, <1>27, <2>1, <2>3 DEF FrameTypes, Idle
  <2>5. ASSUME Matches(k) PROVE ClosedAt(k + 1)'
    <3>1. f.opcode = "TEXT" /\ msg.validator # utf8_accept
      BY <1>27, <1>26 DEF EndsWithin
    <3>2. f.opcode \notin Controls
      BY <3>1 DEF Controls
    <3> DEFINE m == Joined(f, partial)
    <3>3. Holds(msg, m.opcode, m.payload) /\ m \in Contents
      BY <1>12, <1>16, <1>27, <1>23, <2>5, <3>2
    <3>4. ~ReadUpTo[k].wrong /\ dispatched = ReadUpTo[k].messages /\ ~Wrong(f, partial)
      BY <1>11, <2>5
    <3>5. partial = <<>> /\ m.opcode = "TEXT"
      <4>1. partial = <<>>
        BY <3>1, <3>4 DEF Wrong
      <4> QED
        BY <3>1, <4>1 DEF Joined, Content
    <3>6. Ends(f)
      BY <1>27, <1>23 DEF Ends
    <3>7. ~WellEncoded(m, Ends(f))
      <4>1. m.payload \in Seq(Byte) /\ Decode(0, m.payload) # 0
        BY <3>1, <3>3, <3>5 DEF Contents, Holds, utf8_accept
      <4>2. m.opcode = "TEXT"
        BY <3>5
      <4> HIDE DEF m
      <4> QED
        BY <3>6, <4>1, <4>2, DecodeDecides DEF WellEncoded
    <3>8. ReadUpTo[k + 1].wrong /\ ReadUpTo[k + 1].messages = ReadUpTo[k].messages
      BY <1>1, <1>4, <3>2, <3>4, <3>7, WrongNext DEF f, partial
    <3> QED
      BY <1>1, <1>2, <3>4, <3>8 DEF ClosedAt
  <2> QED
    BY <1>2, <1>4, <1>6, <1>18, <2>1, <2>2, <2>4, <2>5 DEF FrameInv
<1>28. CASE /\ msg.validator # utf8_reject /\ consumed' = consumed + Chunk
            /\ ~Lacking /\ f.fin /\ MoreBytes /\ UNCHANGED m_header
            /\ ~EndsWithin(msg) /\ m_state' = "READY" /\ UNCHANGED <<reader, error>>
  <2>1. m_bytes_needed' = m_bytes_needed - Chunk /\ m_bytes_needed' = 0 /\ f.fin
    BY <1>28, <1>23 DEF MoreBytes
  <2>2. AtFrame(k)'
    BY <1>28, <1>22, <2>1
  <2>3. DataFits' /\ ControlFits'
    BY <1>20, <2>1
  <2>4. m_bytes_needed' \in Nat /\ consumed' \in Nat /\ consumed' <= arrived'
    BY <1>1, <1>7, <1>28, <1>14, <2>1
  <2>5. FrameTypes' /\ Idle'
    BY <1>1, <1>2, <1>17, <1>28, <2>4 DEF FrameTypes, Idle
  <2> QED
    BY <1>1, <1>2, <1>28, <2>2, <2>3, <2>5 DEF FrameInv
<1> QED
  BY <1>21, <1>24, <1>25, <1>27, <1>28, <1>26 DEF Application, msg


\* Dispatching the message preserves the invariant.
LEMMA DispatchInv == FrameInv /\ Dispatch => FrameInv'
<1> SUFFICES ASSUME FrameInv, Dispatch PROVE FrameInv'
  OBVIOUS
<1>1. /\ FrameTypes /\ DataFits /\ ControlFits /\ stream \in Streams
      /\ reader = "consume" /\ m_state = "READY"
      /\ dispatched' = Append(dispatched, Content(Current)) /\ SetCurrent(NoMessage)
      /\ m_state' = "HEADER_BASIC" /\ m_bytes_needed' = 2 /\ m_header' = <<>>
      /\ reader' = IF consumed < arrived THEN "consume" ELSE "read"
      /\ stream' = stream /\ arrived' = arrived /\ consumed' = consumed
      /\ m_current_msg' = m_current_msg
  BY DEF FrameInv, FrameTypes, Dispatch, ResetHeaders, BASIC_HEADER_LENGTH, position
<1>2. /\ FrameEnd' = FrameEnd /\ ReadUpTo' = ReadUpTo /\ N' = N /\ Total' = Total
      /\ LegalSizes' = LegalSizes
  BY <1>1, SameStream
<1>3. PICK k \in 0..N : AtFrame(k)
  BY <1>1 DEF FrameInv
<1> DEFINE f == stream[k + 1]
           partial == ReadUpTo[k].partial
           m == Joined(f, partial)
<1>4. /\ k < N /\ m_bytes_needed = 0 /\ f.fin
      /\ PayloadRead(k) <= Len(f.payload)
      /\ consumed = FrameEnd[k] + HeaderLength(f) + PayloadRead(k)
      /\ m_current_msg = IF f.opcode \in Controls THEN "control" ELSE "data"
      /\ Matches(k) \/ Excepted
  BY <1>1, <1>3 DEF AtFrame, Aligned, InPayload
<1>5. /\ k + 1 \in 0..N /\ f \in Frames /\ f.size \in Nat
      /\ f.payload \in Seq(Byte) /\ Len(f.payload) \in Nat /\ Len(f.payload) <= f.size
      /\ ReadUpTo[k] \in Readings
      /\ FrameEnd[k + 1] = FrameEnd[k] + HeaderLength(f) + Len(f.payload)
  BY <1>1, <1>4, NextFrame
<1>6. /\ m_data_msg \in MsgTypes /\ m_control_msg \in MsgTypes
      /\ dispatched \in Seq([opcode : Opcodes \cup {"none"}, payload : Seq(Byte)])
      /\ consumed \in Nat /\ arrived \in Nat /\ consumed <= arrived
      /\ m_current_msg \in {"data", "control"}
  BY <1>1 DEF FrameTypes
<1>7. PayloadRead(k) = Len(f.payload) /\ HasAll(f) /\ Ends(f) /\ consumed = FrameEnd[k + 1]
  <2> DEFINE length == Len(f.payload)
             size == f.size
             read == PayloadRead(k)
  <2>1. read = size - 0 /\ read <= length /\ length <= size /\ size \in Nat /\ length \in Nat
    BY <1>4, <1>5 DEF PayloadRead
  <2> HIDE DEF length, size, read
  <2>2. read = length /\ length = size
    BY <2>1
  <2> QED
    BY <1>4, <1>5, <2>2 DEF length, size, read, HasAll, Ends
<1>8. partial \in Partials /\ m \in Contents /\ Content(f) \in Contents
  <2>1. partial \in Partials
    BY <1>5 DEF Readings
  <2> QED
    BY <1>5, <2>1, JoinedType
<1>9. PartRead(k) = f
  <2>1. ASSUME NEW s \in Seq(Byte) PROVE SubSeq(s, 1, Len(s)) = s
    BY <2>1
  <2>2. SubSeq(f.payload, 1, PayloadRead(k)) = f.payload
    BY <1>5, <1>7, <2>1
  <2>3. PartRead(k) = [f EXCEPT !.payload = f.payload]
    BY <2>2 DEF PartRead
  <2> QED
    BY <1>5, <2>3 DEF Frames
<1>10. ASSUME Matches(k)
       PROVE  /\ ~ReadUpTo[k].wrong /\ dispatched = ReadUpTo[k].messages /\ ~Wrong(f, partial)
              /\ f.opcode \in Controls =>
                    HoldsPartial(m_data_msg, partial) /\ Holds(m_control_msg, f.opcode, f.payload)
              /\ f.opcode \notin Controls => Holds(m_data_msg, m.opcode, m.payload)
  BY <1>1, <1>9, <1>10 DEF Matches
<1> HIDE DEF f, partial, m
<1>11. Len(dispatched) \in Nat /\ Len(dispatched') = Len(dispatched) + 1
       /\ (\A i \in 1..Len(dispatched) : dispatched'[i] = dispatched[i])
       /\ dispatched'[Len(dispatched) + 1] = Content(Current)
       /\ dispatched' \in Seq([opcode : Opcodes \cup {"none"}, payload : Seq(Byte)])
       /\ DOMAIN dispatched = 1..Len(dispatched) /\ DOMAIN dispatched' = 1..Len(dispatched')
  <2> DEFINE S == [opcode : Opcodes \cup {"none"}, payload : Seq(Byte)]
             c == Content(Current)
  <2>1. c \in S
    BY <1>6 DEF Content, Current, MsgTypes
  <2>2. dispatched \in Seq(S) /\ dispatched' = Append(dispatched, c)
    BY <1>1, <1>6
  <2> HIDE DEF S, c
  <2>3. ASSUME NEW s \in Seq(S)
        PROVE /\ Len(s) \in Nat /\ Len(Append(s, c)) = Len(s) + 1
              /\ (\A i \in 1..Len(s) : Append(s, c)[i] = s[i])
              /\ Append(s, c)[Len(s) + 1] = c /\ Append(s, c) \in Seq(S)
              /\ DOMAIN s = 1..Len(s) /\ DOMAIN Append(s, c) = 1..Len(Append(s, c))
    BY <2>1
  <2>4. /\ Len(dispatched) \in Nat /\ Len(dispatched') = Len(dispatched) + 1
        /\ (\A i \in 1..Len(dispatched) : dispatched'[i] = dispatched[i])
        /\ dispatched'[Len(dispatched) + 1] = c /\ dispatched' \in Seq(S)
        /\ DOMAIN dispatched = 1..Len(dispatched) /\ DOMAIN dispatched' = 1..Len(dispatched')
    BY <2>2, <2>3
  <2> QED
    BY <2>4 DEF S, c
<1>12. Excepted => Excepted'
  <2>1. ASSUME NEW i \in DOMAIN dispatched, Unfinished(dispatched[i])
        PROVE  i \in DOMAIN dispatched' /\ Unfinished(dispatched'[i])
    BY <1>11, <2>1
  <2>2. ~TextComplete => ~TextComplete'
    BY <2>1 DEF TextComplete
  <2> QED
    BY <1>2, <2>2 DEF Excepted
<1>13. ASSUME ~Excepted' PROVE ~Unfinished(Content(Current))
  <2>1. Len(dispatched) + 1 \in DOMAIN dispatched'
    BY <1>11
  <2>2. ~Unfinished(dispatched'[Len(dispatched) + 1])
    BY <1>13, <2>1 DEF Excepted, TextComplete
  <2> QED
    BY <1>11, <2>2
<1>14. /\ f.opcode \in Controls => m_data_msg' = m_data_msg /\ m_control_msg' = NoMessage
       /\ f.opcode \notin Controls => m_control_msg' = m_control_msg /\ m_data_msg' = NoMessage
       /\ m_data_msg' \in MsgTypes /\ m_control_msg' \in MsgTypes
  BY <1>1, <1>4, <1>6, NoMessageType DEF SetCurrent
<1>15. FrameTypes' /\ Idle'
  <2>1. /\ m_header' \in Seq(Nat) /\ m_bytes_needed' \in Nat /\ reader' \in {"read", "consume", "closed"}
        /\ reader' = "read" => consumed' = arrived'
    BY <1>1, <1>6
  <2> QED
    BY <1>1, <1>2, <1>6, <1>11, <1>14, <2>1 DEF FrameTypes, Idle
<1>16. DataFits' /\ ControlFits'
  <2>1. /\ Room(m_data_msg, "data")' = Len(m_data_msg'.payload) + 0
        /\ Room(m_data_msg, "data") = Len(m_data_msg.payload) + 0
        /\ Room(m_control_msg, "control")' = Len(m_control_msg'.payload) + 0
        /\ Room(m_control_msg, "control") = Len(m_control_msg.payload) + 0
    BY <1>1 DEF Room
  <2>2. payload_size_basic \in Nat /\ max_message_size \in Nat
    BY SizesAssumption
  <2>3. ASSUME LegalSizes PROVE Room(m_data_msg, "data")' <= max_message_size
    BY <1>1, <1>14, <2>1, <2>2, <2>3, NoMessageType DEF DataFits
  <2>4. Room(m_control_msg, "control")' <= payload_size_basic
    BY <1>1, <1>14, <2>1, <2>2, NoMessageType DEF ControlFits
  <2> QED
    BY <1>2, <2>3, <2>4 DEF DataFits, ControlFits
<1>17. Aligned(k + 1)'
  <2>1. InBasic(k + 1)'
    <3>1. consumed' = FrameEnd[k + 1] + 2 - 2 /\ 2 \in 1..2
      BY <1>1, <1>6, <1>7
    <3> QED
      BY <1>1, <1>2, <3>1 DEF InBasic
  <2> QED
    BY <1>1, <2>1 DEF Aligned, InExtended, InPayload
<1>18. ASSUME Matches(k), ~Excepted' PROVE Matches(k + 1)'
  <2>1. CASE f.opcode \in Controls
    <3>1. /\ ~ReadUpTo[k + 1].wrong /\ ReadUpTo[k + 1].partial = partial
          /\ ReadUpTo[k + 1].messages = Append(ReadUpTo[k].messages, Content(f))
      BY <1>1, <1>4, <1>7, <1>10, <1>18, <2>1, TakenNext DEF f, partial
    <3>2. Content(Current) = Content(f)
      BY <1>4, <1>10, <1>18, <2>1 DEF Content, Current, Holds
    <3>3. dispatched' = ReadUpTo[k + 1].messages
      BY <1>1, <1>10, <1>18, <3>1, <3>2
    <3>4. HoldsPartial(m_data_msg', ReadUpTo[k + 1].partial)
      BY <1>10, <1>14, <1>18, <2>1, <3>1
    <3> QED
      BY <1>1, <1>2, <3>1, <3>3, <3>4 DEF Matches
  <2>2. CASE f.opcode \notin Controls
    <3>1. Content(Current) = m
      <4>1. Current = m_data_msg /\ m_data_msg.opcode = m.opcode /\ m_data_msg.payload = m.payload
        BY <1>4, <1>10, <1>18, <2>2 DEF Current, Holds
      <4>2. m = [opcode |-> m.opcode, payload |-> m.payload]
        BY <1>8 DEF Contents
      <4> QED
        BY <4>1, <4>2 DEF Content
    <3>2. WellEncoded(m, Ends(f))
      BY <1>7, <1>13, <1>18, <3>1 DEF WellEncoded, Unfinished
    <3>3. /\ ~ReadUpTo[k + 1].wrong /\ ReadUpTo[k + 1].partial = <<>>
          /\ ReadUpTo[k + 1].messages = Append(ReadUpTo[k].messages, m)
      BY <1>1, <1>4, <1>7, <1>10, <1>18, <2>2, <3>2, TakenNext DEF f, partial, m
    <3>4. dispatched' = ReadUpTo[k + 1].messages
      BY <1>1, <1>10, <1>18, <3>1, <3>3
    <3>5. HoldsPartial(m_data_msg', ReadUpTo[k + 1].partial)
      BY <1>14, <2>2, <3>3 DEF HoldsPartial
    <3> QED
      BY <1>1, <1>2, <3>3, <3>4, <3>5 DEF Matches
  <2> QED
    BY <2>1, <2>2
<1>19. reader' # "closed"
  BY <1>1
<1> QED
  BY <1>2, <1>4, <1>5, <1>12, <1>15, <1>16, <1>17, <1>18, <1>19 DEF FrameInv, AtFrame

----------------------------------------------------------------------------
(* What was read is right.                                                  *)

\* Everything has arrived and the reader waits for more: all frames were processed,
\* or all but the last, which lacks bytes.
LEMMA WaitsAtEnd ==
    ASSUME FrameInv, reader = "read", arrived = Total, NEW k \in 0..N, AtFrame(k)
    PROVE  \/ m_state = "HEADER_BASIC" /\ k = N
           \/ /\ m_state = "APPLICATION" /\ k < N /\ k + 1 = N
              /\ ~HasAll(stream[k + 1]) /\ PayloadRead(k) = Len(stream[k + 1].payload)
<1>1. /\ FrameTypes /\ stream \in Streams /\ consumed = Total /\ m_bytes_needed > 0
      /\ m_bytes_needed \in Nat
      /\ m_state \in {"HEADER_BASIC", "HEADER_EXTENDED", "APPLICATION"}
  BY DEF FrameInv, FrameTypes, Idle
<1>2. /\ N \in Nat /\ Total \in Nat /\ FrameEnd[k] \in Nat /\ (k = N \/ k < N)
      /\ Total = FrameEnd[N]
  BY <1>1, PlaceFacts
<1>3. CASE m_state = "HEADER_BASIC"
  <2>1. m_bytes_needed \in 1..2 /\ consumed = FrameEnd[k] + 2 - m_bytes_needed
    BY <1>3 DEF AtFrame, Aligned, InBasic
  <2>2. ASSUME k < N PROVE FALSE
    <3>1. FrameEnd[k] + 2 <= FrameEnd[N]
      BY <1>1, <1>2, <2>2, PlaceFacts, FrameEndOrder
    <3> QED
      BY <1>1, <1>2, <2>1, <3>1
  <2> QED
    BY <1>2, <1>3, <2>2
<1>4. CASE m_state = "HEADER_EXTENDED"
  <2>1. k < N /\ consumed = FrameEnd[k] + HeaderLength(stream[k + 1]) - m_bytes_needed
    BY <1>4 DEF AtFrame, Aligned, InExtended
  <2>2. /\ HeaderLength(stream[k + 1]) \in Nat /\ Len(stream[k + 1].payload) \in Nat
        /\ FrameEnd[k + 1] = FrameEnd[k] + HeaderLength(stream[k + 1]) + Len(stream[k + 1].payload)
        /\ FrameEnd[k + 1] <= Total /\ FrameEnd[k + 1] \in Nat
    BY <1>1, <2>1, NextFrame
  <2> DEFINE head == HeaderLength(stream[k + 1])
             length == Len(stream[k + 1].payload)
             from == FrameEnd[k]
             to == FrameEnd[k + 1]
  <2>3. /\ Total = from + head - m_bytes_needed /\ to = from + head + length /\ to <= Total
        /\ from \in Nat /\ to \in Nat /\ head \in Nat /\ length \in Nat /\ Total \in Nat
        /\ m_bytes_needed \in Nat /\ m_bytes_needed > 0
    BY <1>1, <1>2, <2>1, <2>2
  <2> HIDE DEF head, length, from, to
  <2>4. FALSE
    BY <2>3
  <2> QED
    BY <2>4
<1>5. CASE m_state = "APPLICATION"
  <2> DEFINE f == stream[k + 1]
             start == FrameEnd[k] + HeaderLength(f)
             length == Len(f.payload)
             read == PayloadRead(k)
  <2>1. k < N /\ consumed = start + read /\ read <= length /\ read = f.size - m_bytes_needed
    BY <1>5 DEF AtFrame, Aligned, InPayload, PayloadRead
  <2>2. /\ HeaderLength(f) \in Nat /\ length \in Nat /\ f.size \in Nat /\ length <= f.size
        /\ FrameEnd[k + 1] = start + length
        /\ FrameEnd[k + 1] <= Total
        /\ length = f.size \/ (k + 1 = N /\ FrameEnd[k + 1] = Total)
    BY <1>1, <2>1, NextFrame
  <2>3. start \in Nat /\ start + read = Total /\ start + length <= Total
    <3> DEFINE head == HeaderLength(f)
               from == FrameEnd[k]
    <3>1. start = from + head /\ from \in Nat /\ head \in Nat
      BY <1>2, <2>2
    <3>2. Total = start + read /\ start + length <= Total
      BY <1>1, <2>1, <2>2
    <3> HIDE DEF f, start, length, read, head, from
    <3>3. start \in Nat
      BY <3>1
    <3> QED
      BY <3>2, <3>3
  <2> HIDE DEF f, start, length, read
  <2>4. read = length /\ length # f.size
    BY <1>1, <2>1, <2>2, <2>3
  <2> QED
    BY <1>5, <2>1, <2>2, <2>4 DEF f, length, read, HasAll
<1> QED
  BY <1>1, <1>3, <1>4, <1>5

\* The invariant says of the messages what FramesRead does.
LEMMA FrameInvImplies == FrameInv => FramesRead
<1> SUFFICES ASSUME FrameInv PROVE FramesRead
  OBVIOUS
<1>1. FrameTypes /\ DataFits /\ ControlFits /\ stream \in Streams
  BY DEF FrameInv, FrameTypes
<1>2. /\ LegalSizes => Len(m_data_msg.payload) <= max_message_size
      /\ Len(m_control_msg.payload) <= payload_size_basic
  <2>1. /\ Len(m_data_msg.payload) \in Nat /\ Len(m_control_msg.payload) \in Nat
        /\ m_bytes_needed \in Nat /\ max_message_size \in Nat /\ payload_size_basic \in Nat
    BY <1>1, LenProperties, SizesAssumption DEF FrameTypes, MsgTypes
  <2>2. ASSUME NEW x, Room(m_data_msg, x) <= max_message_size
        PROVE  Len(m_data_msg.payload) <= max_message_size
    <3>1. \/ Len(m_data_msg.payload) + 0 <= max_message_size
          \/ Len(m_data_msg.payload) + m_bytes_needed <= max_message_size
      BY <2>2 DEF Room
    <3> QED
      BY <2>1, <3>1
  <2>3. ASSUME NEW x, Room(m_control_msg, x) <= payload_size_basic
        PROVE  Len(m_control_msg.payload) <= payload_size_basic
    <3>1. \/ Len(m_control_msg.payload) + 0 <= payload_size_basic
          \/ Len(m_control_msg.payload) + m_bytes_needed <= payload_size_basic
      BY <2>3 DEF Room
    <3> QED
      BY <2>1, <3>1
  <2> QED
    BY <1>1, <2>2, <2>3 DEF DataFits, ControlFits
<1>3. N \in 0..N /\ ReadUpTo[N] = ReadWhole
  BY <1>1, PlaceFacts DEF ReadWhole, N
<1>4. ASSUME LegalSizes, TextComplete
      PROVE  /\ IsPrefix(dispatched, ReadWhole.messages)
             /\ reader = "closed" => ReadWhole.wrong /\ dispatched = ReadWhole.messages
             /\ reader = "read" /\ arrived = Total =>
                   ~ReadWhole.wrong /\ dispatched = ReadWhole.messages
  <2>1. ~Excepted
    BY <1>4 DEF Excepted
  <2>2. CASE reader = "closed"
    <3>1. PICK k \in 0..N : ClosedAt(k)
      BY <2>1, <2>2 DEF FrameInv
    <3>2. ReadUpTo[k].wrong /\ dispatched = ReadUpTo[k].messages
      BY <3>1 DEF ClosedAt
    <3>3. ReadWhole = ReadUpTo[k]
      BY <1>1, <3>2, WrongStays
    <3>4. IsPrefix(ReadUpTo[k].messages, ReadWhole.messages)
      BY <1>1, MessagesGrow
    <3> QED
      BY <2>2, <3>2, <3>3, <3>4
  <2>3. CASE reader # "closed"
    <3>1. PICK k \in 0..N : AtFrame(k)
      BY <2>3 DEF FrameInv
    <3>2. Matches(k) /\ ~ReadUpTo[k].wrong /\ dispatched = ReadUpTo[k].messages
      BY <2>1, <3>1 DEF AtFrame, Matches
    <3>3. IsPrefix(ReadUpTo[k].messages, ReadWhole.messages)
      BY <1>1, MessagesGrow
    <3>4. ASSUME reader = "read", arrived = Total
          PROVE  ~ReadWhole.wrong /\ dispatched = ReadWhole.messages
      <4>1. CASE m_state = "HEADER_BASIC" /\ k = N
        BY <1>3, <3>2, <4>1
      <4>2. CASE /\ m_state = "APPLICATION" /\ k < N /\ k + 1 = N
                 /\ ~HasAll(stream[k + 1]) /\ PayloadRead(k) = Len(stream[k + 1].payload)
        <5> DEFINE f == stream[k + 1]
                   partial == ReadUpTo[k].partial
                   m == Joined(f, partial)
        <5>1. f \in Frames /\ f.payload \in Seq(Byte) /\ ReadUpTo[k] \in Readings
          BY <1>1, <4>2, NextFrame
        <5>2. partial \in Partials
          BY <5>1 DEF Readings
        <5>3. PartRead(k) = f
          <6>1. ASSUME NEW s \in Seq(Byte) PROVE SubSeq(s, 1, Len(s)) = s
            BY <6>1
          <6>2. SubSeq(f.payload, 1, PayloadRead(k)) = f.payload
            BY <4>2, <5>1, <6>1
          <6>3. PartRead(k) = [f EXCEPT !.payload = f.payload]
            BY <6>2 DEF PartRead
          <6> QED
            BY <5>1, <6>3 DEF Frames
        <5>4. ~Wrong(f, partial) /\ (f.opcode \notin Controls => Holds(m_data_msg, m.opcode, m.payload))
          BY <3>2, <4>2, <5>3 DEF Matches
        <5>5. ~HasAll(f) /\ ~Ends(f)
          BY <4>2 DEF Ends
        <5>6. CASE f.opcode \in Controls
          <6>1. ReadUpTo[k + 1] = ReadUpTo[k]
            BY <1>1, <3>2, <4>2, <5>4, <5>5, <5>6, TakenNext
          <6> QED
            BY <1>3, <3>2, <4>2, <6>1
        <5>7. CASE f.opcode \notin Controls
          <6>1. m \in Contents
            BY <5>1, <5>2, JoinedType
          <6>2. WellEncoded(m, Ends(f))
            <7>1. m.opcode = "TEXT" => Decode(0, m.payload) # 1
              BY <5>4, <5>7 DEF Holds, utf8_accept, utf8_reject
            <7>2. m.payload \in Seq(Byte)
              BY <6>1 DEF Contents
            <7> HIDE DEF m, f
            <7> QED
              BY <5>5, <7>1, <7>2, DecodeDecides DEF WellEncoded
          <6>3. ~ReadUpTo[k + 1].wrong /\ ReadUpTo[k + 1].messages = ReadUpTo[k].messages
            BY <1>1, <3>2, <4>2, <5>4, <5>5, <5>7, <6>2, TakenNext
          <6> QED
            BY <1>3, <3>2, <4>2, <6>3
        <5> QED
          BY <5>6, <5>7
      <4> QED
        BY <3>1, <3>4, <4>1, <4>2, WaitsAtEnd
    <3> QED
      BY <2>3, <3>2, <3>3, <3>4
  <2> QED
    BY <2>2, <2>3
<1> QED
  BY <1>2, <1>4 DEF FramesRead

\* Every step preserves the invariant.
LEMMA FrameNextInv == FrameInv /\ [FrameNext]_frameVars => FrameInv'
BY ReadSomeInv, ConsumeEndsInv, HeaderBasicInv, HeaderExtendedInv, ApplicationInv, DispatchInv,
   StutterInv DEF FrameNext

\* However the bytes of a stream are divided among the reads, the reader dispatches
\* what RFC 6455 makes of its frames, and closes exactly if one of them is wrong:
\* if no size has its most significant bit set, and no text of several fragments that
\* ended within a character was dispatched. With which error it closes is not said.
THEOREM FramesReadCorrect == FrameSpec => []FramesRead
<1>1. FrameSpec => []FrameInv
  BY FrameInitInv, FrameNextInv, PTL DEF FrameSpec
<1> QED
  BY <1>1, FrameInvImplies, PTL

=============================================================================
