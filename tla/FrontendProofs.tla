---------------------------- MODULE FrontendProofs ----------------------------
(***************************************************************************)
(* Proofs about Frontend, for any clients, any scripts that keep the grammar *)
(* of their protocol, and any limit on descriptors.                          *)
(***************************************************************************)
EXTENDS Frontend, SequenceTheorems, FiniteSetTheorems, WellFoundedInduction, TLAPS

-----------------------------------------------------------------------------
(* Numbers and sequences.                                                   *)

(* The order on Nat as a set of pairs, for the theorems on well-founded relations. *)
Lower == {ss \in Nat \X Nat : ss[1] < ss[2]}

(* A nonempty set of numbers has a least. *)
LEMMA LeastOf ==
  ASSUME NEW S \in SUBSET Nat, S # {}
  PROVE  \E m \in S : \A k \in S : ~ (k < m)
<1>1. IsWellFoundedOn(Lower, Nat)
  BY Zenon, NatLessThanWellFounded DEF Lower, OpToRel
<1>2. PICK m \in S : \A k \in S : <<k, m>> \notin Lower
  BY <1>1, WFMin
<1>3. ASSUME NEW k \in S, k < m PROVE FALSE
  <2>1. <<k, m>> \in Lower
    BY <1>3 DEF Lower
  <2> QED BY <1>2, <2>1
<1> QED BY <1>3

(* The minimum of a nonempty set of numbers is its least element. *)
LEMMA MinOf ==
  ASSUME NEW S \in SUBSET Nat, S # {}
  PROVE  Min(S) \in S /\ \A k \in S : Min(S) <= k
<1>1. PICK m \in S : \A k \in S : ~ (k < m)
  BY LeastOf
<1>2. \A k \in S : m <= k
  BY <1>1
<1> QED BY <1>2 DEF Min

(* The maximum of a nonempty set of numbers up to n is its greatest. *)
LEMMA MaxOf ==
  ASSUME NEW n \in Nat, NEW S \in SUBSET (0 .. n), S # {}
  PROVE  Max(S) \in S /\ \A k \in S : k <= Max(S)
<1> DEFINE T == {n - x : x \in S}
<1>1. T \in SUBSET Nat /\ T # {}
  <2>1. \A x \in S : n - x \in Nat
    OBVIOUS
  <2> QED BY <2>1
<1>2. PICK t \in T : \A y \in T : ~ (y < t)
  <2> HIDE DEF T
  <2> QED BY <1>1, LeastOf
<1>3. PICK m \in S : t = n - m
  BY <1>2
<1>4. ASSUME NEW k \in S PROVE k <= m
  <2>1. ~ (n - k < n - m)
    BY <1>2, <1>3
  <2> QED BY <2>1
<1> QED BY <1>4 DEF Max

(* f is computed step by step from a first value. *)
Computed(f, start, next, top) ==
  f[0] = start /\ \A i \in 1 .. top : f[i] = next[<<i, f[i - 1]>>]

(* There is such a function. *)
LEMMA Recursion ==
  ASSUME NEW W, NEW start \in W, NEW next \in [Nat \X W -> W], NEW top \in Nat
  PROVE  \E f \in [0 .. top -> W] : Computed(f, start, next, top)
<1> DEFINE Steps(f, x) == Computed(f, start, next, x)
           Bad == {x \in Nat : ~ \E f \in [0 .. x -> W] : Steps(f, x)}
<1> SUFFICES ASSUME Bad # {} PROVE FALSE
  OBVIOUS
<1>1. PICK m \in Bad : \A k \in Bad : ~ (k < m)
  <2>1. Bad \in SUBSET Nat
    OBVIOUS
  <2> HIDE DEF Bad
  <2> QED BY <2>1, LeastOf
<1>2. CASE m = 0
  <2> DEFINE g == [x \in 0 .. 0 |-> start]
  <2>1. g \in [0 .. 0 -> W] /\ Steps(g, 0)
    BY DEF Computed
  <2> QED BY <1>1, <1>2, <2>1
<1>3. CASE m # 0
  <2>1. m \in Nat /\ m - 1 \in Nat /\ m - 1 < m
    BY <1>1, <1>3
  <2>2. PICK g \in [0 .. m - 1 -> W] : Steps(g, m - 1)
    BY <1>1, <2>1
  <2>3. next[<<m, g[m - 1]>>] \in W
    BY <2>1
  <2> DEFINE h == [x \in 0 .. m |-> IF x = m THEN next[<<m, g[m - 1]>>] ELSE g[x]]
  <2>4. h \in [0 .. m -> W]
    BY <2>1, <2>3
  <2>5. h[0] = start
    BY <1>3, <2>1, <2>2 DEF Computed
  <2>6. ASSUME NEW i \in 1 .. m PROVE h[i] = next[<<i, h[i - 1]>>]
    <3>1. CASE i = m
      <4>1. m \in 0 .. m /\ m - 1 \in 0 .. m /\ m - 1 # m
        BY <2>1
      <4>2. h[m] = next[<<m, g[m - 1]>>] /\ h[m - 1] = g[m - 1]
        BY <4>1
      <4> QED BY <3>1, <4>2
    <3>2. CASE i # m
      <4>1. i \in 1 .. m - 1 /\ i \in 0 .. m /\ i - 1 \in 0 .. m /\ i - 1 # m
        BY <2>1, <3>2
      <4>2. g[i] = next[<<i, g[i - 1]>>]
        BY <2>2, <4>1 DEF Computed
      <4>3. h[i] = g[i] /\ h[i - 1] = g[i - 1]
        BY <3>2, <4>1
      <4> QED BY <4>2, <4>3
    <3> QED BY <3>1, <3>2
  <2>7. Steps(h, m)
    BY <2>5, <2>6 DEF Computed
  <2> HIDE DEF h, Steps
  <2> QED BY <1>1, <2>4, <2>7
<1> QED BY <1>2, <1>3

(* The concatenation of sequences is a sequence. *)
LEMMA Flattened ==
  ASSUME NEW T, NEW s \in Seq(Seq(T))
  PROVE  FlattenSeq(s) \in Seq(T)
<1> DEFINE n == Len(s)
           Body(p) == [i \in 1 .. n |-> IF i = 1 THEN s[i] ELSE p[i - 1] \o s[i]]
<1>1. CASE n = 0
  <2>1. s = <<>>
    BY <1>1, EmptySeq
  <2> QED BY <1>1, <2>1 DEF FlattenSeq
<1>2. CASE n # 0
  <2>1. n \in Nat /\ n \in 1 .. n /\ \A i \in 1 .. n : s[i] \in Seq(T)
    BY <1>2
  <2> DEFINE step == [p \in Nat \X Seq(T) |-> IF p[1] \in 1 .. n THEN p[2] \o s[p[1]] ELSE p[2]]
  <2>2. step \in [Nat \X Seq(T) -> Seq(T)]
    BY <2>1
  <2>3. <<>> \in Seq(T)
    OBVIOUS
  <2> HIDE DEF n
  <2>4. PICK f \in [0 .. n -> Seq(T)] :
          f[0] = <<>> /\ \A i \in 1 .. n : f[i] = step[<<i, f[i - 1]>>]
    <3> DEFINE V == Seq(T)
               b == <<>>
    <3>1. step \in [Nat \X V -> V] /\ b \in V /\ n \in Nat
      BY <2>1, <2>2, <2>3
    <3> HIDE DEF step, V, b
    <3>2. \E f \in [0 .. n -> V] : Computed(f, b, step, n)
      BY <3>1, Recursion
    <3> QED BY <3>2 DEF V, b, Computed
  <2>5. \A i \in 1 .. n : f[i] = f[i - 1] \o s[i]
    <3> TAKE i \in 1 .. n
    <3>1. i - 1 \in 0 .. n /\ i \in Nat
      BY <2>1
    <3>2. f[i - 1] \in Seq(T)
      BY <3>1
    <3> QED BY <2>4, <3>1, <3>2
  <2> DEFINE g == [i \in 1 .. n |-> f[i]]
  <2>6. g = Body(g)
    <3>1. ASSUME NEW i \in 1 .. n PROVE f[i] = IF i = 1 THEN s[i] ELSE g[i - 1] \o s[i]
      <4>1. CASE i = 1
        <5>1. f[1] = f[0] \o s[1]
          <6>1. 1 \in 1 .. n /\ 1 - 1 = 0
            BY <4>1
          <6> QED BY <2>5, <6>1
        <5> QED BY <2>1, <2>4, <4>1, <5>1
      <4>2. CASE i # 1
        <5>1. i - 1 \in 1 .. n
          BY <2>1, <4>2
        <5> QED BY <2>5, <4>2, <5>1
      <4> QED BY <4>1, <4>2
    <3> HIDE DEF g
    <3> QED BY <3>1 DEF g
  <2> HIDE DEF g
  <2> DEFINE flatten == CHOOSE p : p = Body(p)
  <2>7. flatten = Body(flatten)
    <3> HIDE DEF Body
    <3> QED BY <2>6
  <2>8. FlattenSeq(s) = flatten[n]
    BY <1>2 DEF FlattenSeq, n
  <2> HIDE DEF flatten
  <2>9. \A i \in 1 .. n : flatten[i] = IF i = 1 THEN s[i] ELSE flatten[i - 1] \o s[i]
    BY <2>7
  <2> DEFINE Bad == {i \in 1 .. n : flatten[i] \notin Seq(T)}
  <2> SUFFICES ASSUME Bad # {} PROVE FALSE
    BY <2>1, <2>8
  <2>10. PICK m \in Bad : \A k \in Bad : ~ (k < m)
    <3>1. Bad \in SUBSET Nat
      BY <2>1
    <3> HIDE DEF Bad
    <3> QED BY <3>1, LeastOf
  <2>11. m # 1
    BY <2>1, <2>9, <2>10
  <2>12. m - 1 \in 1 .. n /\ m - 1 < m
    BY <2>1, <2>10, <2>11
  <2>13. flatten[m - 1] \in Seq(T)
    BY <2>10, <2>12
  <2>14. s[m] \in Seq(T)
    BY <2>1, <2>10
  <2>15. flatten[m] = flatten[m - 1] \o s[m]
    BY <2>9, <2>10, <2>11
  <2>16. flatten[m - 1] \o s[m] \in Seq(T)
    BY <2>13, <2>14, ConcatProperties
  <2> QED BY <2>10, <2>15, <2>16
<1> QED BY <1>1, <1>2

(* A part of a sequence: its length and its elements. *)
LEMMA Part ==
  ASSUME NEW T, NEW s \in Seq(T), NEW m \in Nat, NEW n \in 0 .. Len(s)
  PROVE  /\ SubSeq(s, m + 1, n) \in Seq(T)
         /\ Len(SubSeq(s, m + 1, n)) = IF m < n THEN n - m ELSE 0
         /\ \A i \in 1 .. n - m : SubSeq(s, m + 1, n)[i] = s[m + i]
<1>1. \A i \in m + 1 .. n : s[i] \in T
  BY ElementOfSeq
<1>2. m + 1 \in Int /\ n \in Int
  OBVIOUS
<1>3. /\ SubSeq(s, m + 1, n) \in Seq(T)
      /\ Len(SubSeq(s, m + 1, n)) = IF m + 1 <= n THEN n - (m + 1) + 1 ELSE 0
      /\ \A i \in 1 .. n - (m + 1) + 1 : SubSeq(s, m + 1, n)[i] = s[(m + 1) + i - 1]
  BY <1>1, <1>2, SubSeqProperties
<1>4. \A i \in 1 .. n - m : i \in 1 .. n - (m + 1) + 1 /\ (m + 1) + i - 1 = m + i
  OBVIOUS
<1> QED BY <1>3, <1>4

-----------------------------------------------------------------------------
(* The lines of a request.                                                  *)

(* What is said, and what the proxy says itself. *)
Unit == STRING \cup {"method", "refused", "success", "GET", "path", "host", "close"}
Text == Seq(Unit)

(* A trimmed line is a sequence of units, and is empty only if no word stands *)
(* in front of the end of the line.                                          *)
LEMMA Trimmed ==
  ASSUME NEW text \in Text, NEW i \in Nat \ {0}
  PROVE  /\ LineAt(text, i) \in Text
         /\ LineAt(text, i) = <<>> =>
              \A j \in i .. Len(text) : text[j] = "cr" \/ \E k \in i .. j : text[k] = "lf"
<1> DEFINE words == {j \in i .. Len(text) : text[j] # "cr" /\ \A k \in i .. j : text[k] # "lf"}
<1>1. CASE words = {}
  <2>1. LineAt(text, i) = <<>>
    BY <1>1 DEF LineAt
  <2>2. ASSUME NEW j \in i .. Len(text), text[j] # "cr" PROVE \E k \in i .. j : text[k] = "lf"
    <3>1. j \notin words
      BY <1>1
    <3> QED BY <2>2, <3>1
  <2>3. <<>> \in Text
    BY DEF Text
  <2> QED BY <2>1, <2>2, <2>3
<1>2. CASE words # {}
  <2>1. words \in SUBSET Nat /\ words \in SUBSET (0 .. Len(text)) /\ Len(text) \in Nat
    BY DEF Text
  <2>2. LineAt(text, i) = SubSeq(text, Min(words), Max(words))
    BY <1>2 DEF LineAt
  <2>3. words \subseteq i .. Len(text)
    OBVIOUS
  <2> HIDE DEF words
  <2>4. Min(words) \in words /\ Max(words) \in words /\ Min(words) <= Max(words)
    BY <1>2, <2>1, MinOf, MaxOf
  <2> DEFINE a == Min(words) - 1
             b == Max(words)
  <2>5. a \in Nat /\ a + 1 = Min(words) /\ b \in 0 .. Len(text) /\ a < b
    <3>1. Min(words) \in i .. Len(text) /\ Max(words) \in i .. Len(text)
      BY <2>3, <2>4
    <3>2. Min(words) \in Nat /\ Max(words) \in Nat /\ Min(words) >= 1
      BY <2>1, <3>1
    <3> QED BY <2>1, <2>4, <3>1, <3>2
  <2> HIDE DEF a, b
  <2>6. SubSeq(text, a + 1, b) \in Text /\ Len(SubSeq(text, a + 1, b)) = b - a
    BY <2>5, Part DEF Text
  <2>7. LineAt(text, i) = SubSeq(text, a + 1, b)
    BY <2>2, <2>5 DEF b
  <2>8. LineAt(text, i) # <<>>
    <3>1. Len(LineAt(text, i)) = b - a
      BY <2>6, <2>7
    <3>2. b - a # 0
      BY <2>1, <2>5
    <3> QED BY <3>1, <3>2
  <2> QED BY <2>6, <2>7, <2>8
<1> QED BY <1>1, <1>2

(* What stands behind the request line is a text, *)
LEMMA RemainingText ==
  ASSUME NEW text \in Text
  PROVE  \E m \in Nat : Remaining(text) = SubSeq(text, m + 1, Len(text)) /\ Remaining(text) \in Text
<1> DEFINE m == Len(LineAt(text, 1))
<1>1. LineAt(text, 1) \in Text
  BY Trimmed
<1>2. m \in Nat /\ Len(text) \in Nat /\ Len(text) \in 0 .. Len(text)
  BY <1>1 DEF Text
<1>3. Remaining(text) = SubSeq(text, m + 1, Len(text))
  BY DEF Remaining
<1> HIDE DEF m
<1>4. SubSeq(text, m + 1, Len(text)) \in Text
  BY <1>2, Part DEF Text
<1> QED BY <1>2, <1>3, <1>4

(* and its lines are a sequence of texts. *)
LEMMA HeadersAreTexts ==
  ASSUME NEW text \in Text
  PROVE  HeaderLines(text) \in Seq(Text)
<1> DEFINE line == [i \in DOMAIN text |->
              IF i \in Starts(text) /\ \A b \in Blank(text) : i < b THEN <<LineAt(text, i)>> ELSE <<>>]
<1>1. DOMAIN text = 1 .. Len(text) /\ Len(text) \in Nat
  BY DEF Text
<1>2. ASSUME NEW i \in 1 .. Len(text) PROVE line[i] \in Seq(Text)
  <2>1. LineAt(text, i) \in Text
    BY Trimmed
  <2>2. <<LineAt(text, i)>> \in Seq(Text) /\ <<>> \in Seq(Text)
    BY <2>1
  <2> QED BY <1>1, <2>2
<1>3. line \in Seq(Seq(Text))
  <2>1. line = [i \in 1 .. Len(text) |-> line[i]]
    BY <1>1
  <2> HIDE DEF line
  <2> QED BY <1>1, <1>2, <2>1
<1>4. HeaderLines(text) = FlattenSeq(line)
  BY DEF HeaderLines
<1> HIDE DEF line
<1> QED BY <1>3, <1>4, Flattened

(* Whenever the end of the headers is found in what stands behind the request *)
(* line, a blank line has been read whole.                                   *)
LEMMA CompleteAtBlank ==
  ASSUME NEW s, s.said \in Text, s.head \in 0 .. Len(s.said), NEW n \in 0 .. s.head,
         HeadersComplete(Remaining(SubSeq(s.said, 1, n)))
  PROVE  \E j \in BlankEnds(s) : j <= n
<1> DEFINE text == SubSeq(s.said, 1, n)
<1>1. n \in 0 .. Len(s.said) /\ n \in Nat /\ Len(s.said) \in Nat
  BY DEF Text
<1>2. text \in Text /\ Len(text) = n /\ \A i \in 1 .. n : text[i] = s.said[i]
  <2>1. /\ SubSeq(s.said, 0 + 1, n) \in Text
        /\ Len(SubSeq(s.said, 0 + 1, n)) = IF 0 < n THEN n - 0 ELSE 0
        /\ \A i \in 1 .. n - 0 : SubSeq(s.said, 0 + 1, n)[i] = s.said[0 + i]
    BY <1>1, Part DEF Text
  <2> QED BY <1>1, <2>1
<1> HIDE DEF text
<1>3. PICK m \in Nat : Remaining(text) = SubSeq(text, m + 1, n)
  BY <1>2, RemainingText
<1> DEFINE rest == SubSeq(text, m + 1, n)
<1>4. /\ rest \in Text
      /\ Len(rest) = IF m < n THEN n - m ELSE 0
      /\ \A i \in 1 .. n - m : rest[i] = text[m + i]
  <2>1. text \in Seq(Unit) /\ n \in 0 .. Len(text)
    BY <1>1, <1>2 DEF Text
  <2> QED BY <2>1, Part DEF Text
<1> HIDE DEF rest
<1>5. PICK i \in DOMAIN rest, end \in {<<"cr", "lf", "cr", "lf">>, <<"lf", "lf">>} :
        IsPrefix(end, SubSeq(rest, i, Len(rest)))
  BY <1>3 DEF HeadersComplete, rest, text
<1>6. i \in 1 .. n - m /\ m < n /\ Len(rest) = n - m
  BY <1>1, <1>4, <1>5 DEF Text
<1> DEFINE h == i - 1
           from == SubSeq(rest, h + 1, n - m)
<1>7. /\ h \in Nat /\ h + 1 = i /\ n - m \in 0 .. Len(rest) /\ n - m \in Nat
  BY <1>1, <1>6
<1> HIDE DEF h
<1>8. /\ Len(from) = (n - m) - h
      /\ \A k \in 1 .. (n - m) - h : from[k] = rest[h + k]
  <2>1. rest \in Seq(Unit)
    BY <1>4 DEF Text
  <2>2. h < n - m
    BY <1>6, <1>7
  <2> QED BY <1>7, <2>1, <2>2, Part
<1>9. IsPrefix(end, from)
  BY <1>5, <1>6, <1>7
<1> HIDE DEF from
<1>10. ASSUME NEW k \in 1 .. (n - m) - h
       PROVE  /\ from[k] = s.said[m + h + k] /\ m + h + k \in 1 .. n /\ m + h + k \in 1 .. s.head
  <2>1. h + k \in 1 .. n - m /\ m + (h + k) \in 1 .. n /\ m + (h + k) = m + h + k
    BY <1>1, <1>6, <1>7
  <2>2. from[k] = rest[h + k] /\ rest[h + k] = text[m + (h + k)] /\ text[m + (h + k)] = s.said[m + (h + k)]
    BY <1>2, <1>4, <1>8, <2>1
  <2>3. m + (h + k) \in 1 .. s.head
    BY <1>1, <2>1
  <2> QED BY <2>1, <2>2, <2>3
<1>11. ASSUME NEW a \in 1 .. s.head, NEW b \in 1 .. s.head, a < b, b <= n,
              s.said[a] = "lf", s.said[b] = "lf", \A k \in a + 1 .. b - 1 : s.said[k] = "cr"
       PROVE  b \in BlankEnds(s)
  <2>1. a \in 1 .. b - 1
    BY <1>11
  <2> QED BY <1>11, <2>1 DEF BlankEnds
<1>12. CASE end = <<"lf", "lf">>
  <2>1. Len(end) = 2 /\ end[1] = "lf" /\ end[2] = "lf"
    BY <1>12
  <2>2. 2 <= Len(from) /\ SubSeq(end, 1, 2) = SubSeq(from, 1, 2)
    BY <1>9, <2>1 DEF IsPrefix
  <2>3. 1 \in 1 .. (n - m) - h /\ 2 \in 1 .. (n - m) - h
    BY <1>7, <1>8, <2>2
  <2>4. from[1] = "lf" /\ from[2] = "lf"
    <3>1. SubSeq(end, 1, 2)[1] = end[1] /\ SubSeq(end, 1, 2)[2] = end[2]
      BY <1>12
    <3>2. SubSeq(from, 1, 2)[1] = from[1] /\ SubSeq(from, 1, 2)[2] = from[2]
      BY <2>2
    <3> QED BY <2>1, <2>2, <3>1, <3>2
  <2>5. s.said[m + h + 1] = "lf" /\ s.said[m + h + 2] = "lf"
    BY <1>10, <2>3, <2>4
  <2>6. /\ m + h + 1 \in 1 .. s.head /\ m + h + 2 \in 1 .. s.head /\ m + h + 2 <= n
    BY <1>10, <2>3
  <2>7. m + h + 2 \in BlankEnds(s)
    <3>1. PICK a \in 1 .. s.head : a = m + h + 1
      BY <2>6
    <3>2. PICK b \in 1 .. s.head : b = m + h + 2
      BY <2>6
    <3>3. a < b /\ \A k \in a + 1 .. b - 1 : FALSE
      BY <1>7, <3>1, <3>2
    <3> QED BY <1>11, <2>5, <2>6, <3>1, <3>2, <3>3
  <2> QED BY <2>6, <2>7
<1>13. CASE end = <<"cr", "lf", "cr", "lf">>
  <2>1. Len(end) = 4 /\ end[2] = "lf" /\ end[3] = "cr" /\ end[4] = "lf"
    BY <1>13
  <2>2. 4 <= Len(from) /\ SubSeq(end, 1, 4) = SubSeq(from, 1, 4)
    BY <1>9, <2>1 DEF IsPrefix
  <2>3. 2 \in 1 .. (n - m) - h /\ 3 \in 1 .. (n - m) - h /\ 4 \in 1 .. (n - m) - h
    BY <1>7, <1>8, <2>2
  <2>4. from[2] = "lf" /\ from[3] = "cr" /\ from[4] = "lf"
    <3>1. \A k \in 1 .. 4 : SubSeq(end, 1, 4)[k] = end[k]
      BY <1>13
    <3>2. \A k \in 1 .. 4 : SubSeq(from, 1, 4)[k] = from[k]
      BY <2>2
    <3> QED BY <2>1, <2>2, <3>1, <3>2
  <2>5. s.said[m + h + 2] = "lf" /\ s.said[m + h + 3] = "cr" /\ s.said[m + h + 4] = "lf"
    BY <1>10, <2>3, <2>4
  <2>6. /\ m + h + 2 \in 1 .. s.head /\ m + h + 4 \in 1 .. s.head /\ m + h + 4 <= n
    BY <1>10, <2>3
  <2>7. m + h + 4 \in BlankEnds(s)
    <3>1. PICK a \in 1 .. s.head : a = m + h + 2
      BY <2>6
    <3>2. PICK b \in 1 .. s.head : b = m + h + 4
      BY <2>6
    <3>3. a < b /\ \A k \in a + 1 .. b - 1 : k = m + h + 3
      BY <1>7, <3>1, <3>2
    <3> QED BY <1>11, <2>5, <2>6, <3>1, <3>2, <3>3
  <2> QED BY <2>6, <2>7
<1> QED BY <1>5, <1>12, <1>13

-----------------------------------------------------------------------------
(* The inductive invariant, one part per idea, for each client.             *)

HeadOf(c) == script[c].head

Before == {"waiting", "peek"}
Socks  == {"socks5", "request", "length", "address", "socks4", "userid"}
Http   == {"http", "line", "headers"}
Over   == {"relay", "closed"}
Places == Before \cup Socks \cup Http \cup {"resolve", "connect"} \cup Over

Typed ==
  /\ mode \in {"socks", "transparent"} /\ script \in [Clients -> Script]
  /\ \A c \in Clients : IF mode = "socks" THEN Grammar(script[c]) ELSE script[c] = Direct
  /\ at \in [Clients -> Places]
  /\ arrived \in [Clients -> Nat] /\ taken \in [Clients -> Nat]
  /\ parsed \in [Clients -> Nat] /\ first \in [Clients -> Nat]
  /\ headers \in [Clients -> Seq(Text)]
  /\ told \in [Clients -> Text] /\ upstream \in [Clients -> Text]

(* Nothing is taken that has not arrived, nor parsed that is not taken. *)
Counted(c) == arrived[c] <= Len(Said(c)) /\ taken[c] <= arrived[c] /\ parsed[c] <= taken[c]

(* Before the relay nothing reaches the upstream, and success is not told; *)
Unsaid(c) == at[c] \notin Over => upstream[c] = <<>> /\ \A i \in DOMAIN told[c] : told[c][i] # "success"

(* so a client of CONNECT that waits for it has not gone on. *)
Patient(c) == Proto(c) = "connect" /\ ~ script[c].eager
Waits(c) == Patient(c) /\ at[c] \notin Over => arrived[c] <= HeadOf(c)

(* The unit that is read last is the address, or the name. *)
Addressed(c) ==
  \/ Proto(c) = "socks5" /\ HeadOf(c) = 5 /\ Said(c)[4] = "ip"
  \/ Proto(c) = "socks5" /\ HeadOf(c) = 6
  \/ Proto(c) = "socks4" /\ HeadOf(c) = 4

(* Where a task is says which protocol it speaks, how many units it has taken *)
(* and what they were.                                                       *)
Placed(c) ==
  /\ at[c] \in Before \cup {"socks5", "socks4", "http"} => taken[c] = 0
  /\ at[c] \in {"peek"} \cup Socks \cup Http => mode = "socks"
  /\ at[c] \in Http => Proto(c) \in {"connect", "forward"}
  /\ at[c] = "socks5" => Proto(c) \in {"socks5", "other"} \/ (c \in shut /\ arrived[c] = 0)
  /\ at[c] = "socks4" => Proto(c) = "socks4"
  /\ at[c] = "request" => Proto(c) = "socks5" /\ taken[c] = 2 /\ Said(c)[2] = "no auth"
  /\ at[c] = "length" => /\ Proto(c) = "socks5" /\ taken[c] = 4 /\ Said(c)[2] = "no auth"
                         /\ Said(c)[3] = "connect" /\ Said(c)[4] = "name"
  /\ at[c] = "userid" => Proto(c) = "socks4" /\ taken[c] = 2 /\ Said(c)[1] # "v4 bind"
  /\ at[c] = "address" => Addressed(c) /\ taken[c] = HeadOf(c) - 1
  /\ at[c] \in {"resolve", "connect"} /\ Proto(c) \in {"socks4", "socks5", "direct"} =>
       taken[c] = HeadOf(c)

(* The client of CONNECT for whom the end of the headers is found. *)
Whole(c) == Patient(c) /\ ~ CutAtLineEnd(c)

(* Its lines are read from the beginning of one, *)
Reading(c) ==
  at[c] = "headers" /\ Whole(c) =>
    \/ c \in shut /\ parsed[c] = arrived[c]
    \/ parsed[c] > 0 /\ Said(c)[parsed[c]] = "lf"
    \/ parsed[c] = first[c] /\ \E j \in 1 .. first[c] : Said(c)[j] = "lf"

(* so all of the request is taken, unless it has left before the end of it. *)
Begun(c) ==
  at[c] \in {"resolve", "connect"} /\ Whole(c) =>
    taken[c] = HeadOf(c) \/ (c \in shut /\ taken[c] = arrived[c])

(* What the upstream was sent is what was taken behind the request. *)
Exact(c) == Proto(c) \in {"socks4", "socks5", "direct"} \/ Whole(c)
Relayed(c) ==
  /\ at[c] = "relay" /\ Exact(c) =>
       \/ upstream[c] = <<>> /\ c \in shut /\ taken[c] = arrived[c]
       \/ taken[c] >= HeadOf(c) /\ upstream[c] = SubSeq(Said(c), HeadOf(c) + 1, taken[c])
  /\ at[c] = "closed" /\ Exact(c) => IsPrefix(upstream[c], Data(c))

(* An end without an answer has a reason. *)
Answered(c) ==
  (\E i \in DOMAIN told[c] : told[c][i] \in {"refused", "success"}) \/ upstream[c] # <<>>
Excused(c) ==
  c \in shut \cup unresolved \/ Proto(c) = "direct" \/ \E i \in DOMAIN Said(c) : Said(c)[i] \in Flaws
Ended(c) ==
  /\ at[c] = "relay" => Proto(c) = "direct" \/ Answered(c)
  /\ at[c] = "closed" => Excused(c) \/ Answered(c)

Good(c) ==
  /\ Counted(c) /\ Unsaid(c) /\ Waits(c) /\ Placed(c)
  /\ Reading(c) /\ Begun(c) /\ Relayed(c) /\ Ended(c)

Inv == Typed /\ \A c \in Clients : Good(c)

-----------------------------------------------------------------------------
(* What a step of one client leaves alone.                                  *)

Same(d) ==
  /\ arrived'[d] = arrived[d] /\ (d \in shut') = (d \in shut)
  /\ at'[d] = at[d] /\ taken'[d] = taken[d] /\ parsed'[d] = parsed[d] /\ first'[d] = first[d]
  /\ told'[d] = told[d] /\ upstream'[d] = upstream[d] /\ (d \in unresolved') = (d \in unresolved)

(* A step of client c: what the clients say is fixed, and the others stay. *)
Local(c) ==
  /\ mode' = mode /\ script' = script /\ Typed'
  /\ \A d \in Clients \ {c} : Same(d)

(* What the invariant says of a client, it says again if the client stays. *)
LEMMA Kept ==
  ASSUME NEW d \in Clients, Good(d), mode' = mode, script' = script, Same(d)
  PROVE  Good(d)'
<1>1. Counted(d)'
  BY DEF Good, Counted, Said, Same
<1>2. Unsaid(d)'
  BY DEF Good, Unsaid, Said, Same
<1>3. Waits(d)'
  BY DEF Good, Waits, Patient, Said, Proto, HeadOf, Same
<1>4. Placed(d)'
  BY DEF Good, Placed, Addressed, Said, Proto, HeadOf, Same
<1>5. Whole(d)' = Whole(d)
  BY DEF Whole, Patient, CutAtLineEnd, Said, Proto, Same
<1>6. Reading(d)'
  BY <1>5 DEF Good, Reading, Said, Same
<1>7. Begun(d)'
  BY <1>5 DEF Good, Begun, HeadOf, Same
<1>8. Relayed(d)'
  BY <1>5 DEF Good, Relayed, Exact, Data, Said, Proto, HeadOf, Same
<1>9. Ended(d)'
  BY DEF Good, Ended, Answered, Excused, Said, Proto, Same
<1> QED BY <1>1, <1>2, <1>3, <1>4, <1>6, <1>7, <1>8, <1>9 DEF Good

(* What is known of what a client says. *)
LEMMA Speaks ==
  ASSUME Typed, NEW c \in Clients
  PROVE  /\ Said(c) \in Text /\ HeadOf(c) \in 0 .. Len(Said(c)) /\ Len(Said(c)) \in Nat
         /\ script[c].eager \in BOOLEAN
         /\ mode = "socks" => Grammar(script[c])
         /\ mode # "socks" => Proto(c) = "direct" /\ HeadOf(c) = 0
<1>1. script[c] \in Script
  BY DEF Typed
<1>2. Said(c) \in Text /\ HeadOf(c) \in Nat /\ script[c].eager \in BOOLEAN
  <2>1. Said(c) \in Seq(STRING) /\ HeadOf(c) \in Nat /\ script[c].eager \in BOOLEAN
    BY <1>1 DEF Script, Said, HeadOf
  <2>2. STRING \subseteq Unit
    BY DEF Unit
  <2>3. Said(c) \in Seq(Unit)
    <3> DEFINE s == Said(c)
    <3>1. s \in Seq(STRING)
      BY <2>1
    <3> HIDE DEF s
    <3>2. Len(s) \in Nat /\ s = [i \in 1 .. Len(s) |-> s[i]] /\ \A i \in 1 .. Len(s) : s[i] \in STRING
      BY <3>1
    <3>3. \A i \in 1 .. Len(s) : s[i] \in Unit
      BY <2>2, <3>2
    <3>4. s \in Seq(Unit)
      BY <3>2, <3>3
    <3> QED BY <3>4 DEF s
  <2> QED BY <2>1, <2>3 DEF Text
<1>3. Len(Said(c)) \in Nat
  BY <1>2 DEF Text
<1>4. mode = "socks" => Grammar(script[c])
  BY DEF Typed
<1>5. mode # "socks" => Proto(c) = "direct" /\ HeadOf(c) = 0
  BY FrontendAssumption DEF Typed, Proto, HeadOf
<1>6. Grammar(script[c]) => HeadOf(c) <= Len(Said(c))
  BY <1>2, <1>3 DEF Grammar, HeadOf, Said
<1> QED BY <1>2, <1>3, <1>4, <1>5, <1>6

(* The next units of a client. *)
LEMMA NextUnits ==
  ASSUME Typed, NEW c \in Clients, Counted(c), NEW n \in Nat, arrived[c] >= taken[c] + n
  PROVE  \A k \in 1 .. n : Units(c, n)[k] = Said(c)[taken[c] + k] /\ taken[c] + k \in DOMAIN Said(c)
<1>1. taken[c] \in Nat /\ taken[c] + n \in 0 .. Len(Said(c)) /\ Said(c) \in Seq(Unit)
  <2>1. Said(c) \in Text /\ Len(Said(c)) \in Nat
    BY Speaks
  <2>2. taken[c] \in Nat /\ arrived[c] \in Nat /\ arrived[c] <= Len(Said(c))
    BY DEF Typed, Counted
  <2>3. taken[c] + n \in 0 .. Len(Said(c))
    BY <2>1, <2>2
  <2> QED BY <2>1, <2>2, <2>3 DEF Text
<1>2. \A k \in 1 .. (taken[c] + n) - taken[c] :
        SubSeq(Said(c), taken[c] + 1, taken[c] + n)[k] = Said(c)[taken[c] + k]
  BY <1>1, Part
<1>3. (taken[c] + n) - taken[c] = n
  BY <1>1
<1>4. \A k \in 1 .. n : taken[c] + k \in 1 .. Len(Said(c))
  BY <1>1
<1>5. DOMAIN Said(c) = 1 .. Len(Said(c))
  BY <1>1
<1>6. ASSUME NEW k \in 1 .. n PROVE Units(c, n)[k] = Said(c)[taken[c] + k]
  BY <1>2, <1>3 DEF Units
<1> QED BY <1>4, <1>5, <1>6

(* What a step tells a client is a text, and longer. *)
LEMMA Telling ==
  ASSUME Typed, NEW c \in Clients, NEW reply \in Unit
  PROVE  /\ [told EXCEPT ![c] = Append(@, reply)] \in [Clients -> Text]
         /\ Append(told[c], reply) \in Text
         /\ \A i \in DOMAIN Append(told[c], reply) :
              Append(told[c], reply)[i] = reply \/ (i \in DOMAIN told[c] /\ Append(told[c], reply)[i] = told[c][i])
         /\ \E i \in DOMAIN Append(told[c], reply) : Append(told[c], reply)[i] = reply
<1>1. told[c] \in Seq(Unit)
  BY DEF Typed, Text
<1>2. Append(told[c], reply) \in Seq(Unit) /\ Len(Append(told[c], reply)) = Len(told[c]) + 1
      /\ Append(told[c], reply)[Len(told[c]) + 1] = reply
      /\ \A i \in 1 .. Len(told[c]) : Append(told[c], reply)[i] = told[c][i]
  BY <1>1
<1>3. DOMAIN Append(told[c], reply) = 1 .. Len(told[c]) + 1 /\ DOMAIN told[c] = 1 .. Len(told[c])
      /\ Len(told[c]) \in Nat
  BY <1>1, <1>2
<1>4. \A i \in 1 .. Len(told[c]) + 1 : i \in 1 .. Len(told[c]) \/ i = Len(told[c]) + 1
  BY <1>3
<1>5. [told EXCEPT ![c] = Append(@, reply)] \in [Clients -> Text]
  BY <1>2 DEF Typed, Text
<1>6. Len(told[c]) + 1 \in 1 .. Len(told[c]) + 1
  BY <1>3
<1> QED BY <1>2, <1>3, <1>4, <1>5, <1>6 DEF Text

(* A connection that ends before the relay, with an answer or an excuse. *)
LEMMA Closes ==
  ASSUME Typed, NEW c \in Clients, Good(c), mode' = mode, script' = script, Typed',
         at[c] \notin Over, at'[c] = "closed", upstream'[c] = upstream[c],
         Counted(c)', Excused(c)' \/ Answered(c)'
  PROVE  Good(c)'
<1>1. upstream'[c] = <<>>
  BY DEF Good, Unsaid
<1>2. IsPrefix(<<>>, Data(c)')
  <2>1. Said(c)' \in Text /\ HeadOf(c)' \in 0 .. Len(Said(c)') /\ Len(Said(c)') \in Nat
    BY Speaks DEF Said, HeadOf
  <2>2. Data(c)' \in Text
    <3>1. SubSeq(Said(c)', HeadOf(c)' + 1, Len(Said(c)')) \in Text
      BY <2>1, Part DEF Text
    <3> QED BY <3>1 DEF Data, HeadOf
  <2>3. Len(Data(c)') \in Nat /\ SubSeq(Data(c)', 1, 0) = <<>> /\ SubSeq(<<>>, 1, 0) = <<>>
    BY <2>2, SubSeqEmpty DEF Text
  <2>4. Len(<<>>) = 0
    OBVIOUS
  <2> QED BY <2>3, <2>4 DEF IsPrefix
<1>3. Unsaid(c)' /\ Waits(c)' /\ Placed(c)' /\ Reading(c)' /\ Begun(c)' /\ Ended(c)'
  BY DEF Unsaid, Waits, Placed, Reading, Begun, Ended, Over, Before, Socks, Http
<1>4. Relayed(c)'
  BY <1>1, <1>2 DEF Relayed
<1> QED BY <1>3, <1>4 DEF Good

(* A SOCKS dialogue that goes on, or a connection that is to be made. *)
LEMMA GoesOn ==
  ASSUME NEW c \in Clients, at'[c] \in Socks \cup {"resolve", "connect"}, Proto(c)' # "connect",
         Counted(c)', Unsaid(c)', Placed(c)'
  PROVE  Good(c)'
<1>1. Waits(c)' /\ Reading(c)' /\ Begun(c)'
  BY DEF Waits, Reading, Begun, Whole, Patient
<1>2. Relayed(c)' /\ Ended(c)'
  BY DEF Relayed, Ended, Socks
<1> QED BY <1>1, <1>2 DEF Good

(* The next n units are read. *)
LEMMA Reads ==
  ASSUME Typed, NEW c \in Clients, Counted(c), NEW n \in Nat, ReadExact(c, n),
         script' = script, arrived' = arrived, parsed' = parsed
  PROVE  /\ taken' \in [Clients -> Nat] /\ taken'[c] = taken[c] + n
         /\ \A d \in Clients \ {c} : taken'[d] = taken[d]
         /\ Counted(c)' /\ arrived[c] >= taken[c] + n
<1>1. arrived[c] >= taken[c] + n /\ taken' = [taken EXCEPT ![c] = @ + n]
  BY DEF ReadExact
<1>2. taken[c] \in Nat /\ parsed[c] \in Nat /\ arrived[c] \in Nat
  BY DEF Typed
<1>3. taken' \in [Clients -> Nat] /\ taken'[c] = taken[c] + n
      /\ \A d \in Clients \ {c} : taken'[d] = taken[d]
  BY <1>1, <1>2 DEF Typed
<1> QED BY <1>1, <1>2, <1>3 DEF Counted, Said

(* A task's step on its own connection. *)
LEMMA OwnStep ==
  ASSUME Typed, NEW c \in Clients, NEW place \in Places, NEW text \in Text,
         UNCHANGED <<inputs, net, http, out>>, Goto(c, place), told' = [told EXCEPT ![c] = text],
         taken' \in [Clients -> Nat], \A d \in Clients \ {c} : taken'[d] = taken[d]
  PROVE  /\ Local(c) /\ at'[c] = place /\ told'[c] = text /\ upstream'[c] = upstream[c]
         /\ arrived' = arrived /\ parsed' = parsed /\ first' = first /\ script' = script
         /\ shut' = shut /\ unresolved' = unresolved
<1>1. /\ mode' = mode /\ script' = script /\ arrived' = arrived /\ shut' = shut /\ parsed' = parsed
      /\ first' = first /\ headers' = headers /\ upstream' = upstream /\ unresolved' = unresolved
  BY DEF inputs, net, http, out
<1>2. at' = [at EXCEPT ![c] = place]
  BY DEF Goto
<1>3. at' \in [Clients -> Places] /\ at'[c] = place /\ \A d \in Clients \ {c} : at'[d] = at[d]
  BY <1>2 DEF Typed
<1>4. told' \in [Clients -> Text] /\ told'[c] = text /\ \A d \in Clients \ {c} : told'[d] = told[d]
  BY DEF Typed
<1>5. Typed'
  BY <1>1, <1>3, <1>4 DEF Typed
<1>6. \A d \in Clients \ {c} : Same(d)
  BY <1>1, <1>3, <1>4 DEF Same
<1> QED BY <1>1, <1>3, <1>4, <1>5, <1>6 DEF Local

(* Three ways for a task to go from a place of a dialogue: a refusal, *)
LEMMA Refused ==
  ASSUME Typed, NEW c \in Clients, Good(c), at[c] \notin Over, Refuse(c), Counted(c)',
         UNCHANGED <<inputs, net, http, out>>,
         taken' \in [Clients -> Nat], \A d \in Clients \ {c} : taken'[d] = taken[d]
  PROVE  Local(c) /\ Good(c)'
<1> DEFINE text == Append(told[c], "refused")
<1>1. /\ text \in Text /\ \E i \in DOMAIN text : text[i] = "refused"
  <2>1. "refused" \in Unit
    BY DEF Unit
  <2> QED BY <2>1, Telling
<1>2. told' = [told EXCEPT ![c] = text] /\ Goto(c, "closed")
  BY DEF Refuse, Tell, Close
<1>3. "closed" \in Places
  BY DEF Places, Over
<1> HIDE DEF text
<1>4. Local(c) /\ at'[c] = "closed" /\ told'[c] = text /\ upstream'[c] = upstream[c]
  BY <1>1, <1>2, <1>3, OwnStep
<1>5. Answered(c)'
  BY <1>1, <1>4 DEF Answered
<1> QED BY <1>4, <1>5, Closes DEF Local

(* an end without an answer, *)
LEMMA Silenced ==
  ASSUME Typed, NEW c \in Clients, Good(c), at[c] \notin Over, Silently(c), Excused(c), Counted(c)',
         UNCHANGED <<inputs, net, http, out>>,
         taken' \in [Clients -> Nat], \A d \in Clients \ {c} : taken'[d] = taken[d]
  PROVE  Local(c) /\ Good(c)'
<1>1. told[c] \in Text /\ told' = [told EXCEPT ![c] = told[c]] /\ Goto(c, "closed")
  BY DEF Silently, Close, Typed
<1>2. "closed" \in Places
  BY DEF Places, Over
<1> DEFINE text == told[c]
<1> HIDE DEF text
<1>3. Local(c) /\ at'[c] = "closed" /\ upstream'[c] = upstream[c] /\ script' = script
      /\ shut' = shut /\ unresolved' = unresolved
  <2>1. text \in Text /\ told' = [told EXCEPT ![c] = text] /\ Goto(c, "closed")
    BY <1>1 DEF text
  <2> QED BY <1>2, <2>1, OwnStep
<1>4. Excused(c)'
  BY <1>3 DEF Excused, Proto, Said
<1> QED BY <1>3, <1>4, Closes DEF Local

(* of which a client that has left is one, *)
LEMMA Cut ==
  ASSUME Typed, NEW c \in Clients, Good(c), at[c] \notin Over, NEW n \in Nat, CutShort(c, n),
         UNCHANGED <<inputs, net, http, out>>
  PROVE  Local(c) /\ Good(c)'
<1>1. Silently(c) /\ Excused(c) /\ taken' = taken
  BY DEF CutShort, Silently, Eof, Excused
<1>2. Counted(c)'
  BY <1>1 DEF Good, Counted, Said, inputs, net, http
<1>3. taken' \in [Clients -> Nat] /\ \A d \in Clients \ {c} : taken'[d] = taken[d]
  BY <1>1 DEF Typed
<1> QED BY <1>1, <1>2, <1>3, Silenced

(* and the next place of the dialogue, with nothing told. *)
LEMMA Proceeds ==
  ASSUME Typed, NEW c \in Clients, Good(c), at[c] \notin Over,
         NEW place \in Socks \cup {"resolve", "connect"}, Proceed(c, place), Counted(c)',
         UNCHANGED <<inputs, net, http, out>>,
         taken' \in [Clients -> Nat], \A d \in Clients \ {c} : taken'[d] = taken[d],
         Proto(c) # "connect", at'[c] = place => Placed(c)'
  PROVE  Local(c) /\ Good(c)'
<1>1. told[c] \in Text /\ told' = [told EXCEPT ![c] = told[c]] /\ Goto(c, place)
  BY DEF Proceed, Typed
<1>2. place \in Places
  BY DEF Places
<1> DEFINE text == told[c]
<1> HIDE DEF text
<1>3. Local(c) /\ at'[c] = place /\ told'[c] = text /\ upstream'[c] = upstream[c] /\ script' = script
  <2>1. text \in Text /\ told' = [told EXCEPT ![c] = text]
    BY <1>1 DEF text
  <2> QED BY <1>1, <1>2, <2>1, OwnStep
<1>4. Unsaid(c)'
  BY <1>3 DEF Good, Unsaid, text
<1> QED BY <1>3, <1>4, GoesOn DEF Proto

-----------------------------------------------------------------------------
(* The dialogues of SOCKS, place by place.                                  *)

(* A flaw is an excuse. *)
LEMMA FlawExcuses ==
  ASSUME Typed, NEW c \in Clients, NEW i \in DOMAIN Said(c), Said(c)[i] \in Flaws
  PROVE  Excused(c)
BY DEF Excused

(* Greet keeps the invariant. *)
LEMMA GreetKeeps ==
  ASSUME Typed, NEW c \in Clients, Good(c), Greet(c)
  PROVE  Local(c) /\ Good(c)'
<1>1. /\ UNCHANGED <<inputs, net, http, out>> /\ at[c] = "socks5" /\ at[c] \notin Over
      /\ script' = script /\ arrived' = arrived /\ parsed' = parsed
  BY DEF Greet, inputs, net, http, Over
<1>2. /\ mode = "socks"
      /\ Proto(c) \in {"socks5", "other"} \/ (c \in shut /\ arrived[c] = 0)
  BY <1>1 DEF Good, Placed, Socks
<1>9. taken[c] = 0 /\ Counted(c)
  BY <1>1 DEF Good, Placed
<1>3. /\ (Proto(c) = "socks5") = (Said(c)[1] = "v5")
      /\ Proto(c) = "other" => Said(c)[1] \in Flaws
      /\ Len(Said(c)) \in Nat /\ 1 \in DOMAIN Said(c)
  <2>1. Grammar(script[c]) /\ Said(c) \in Text
    BY <1>2, Speaks
  <2> QED BY <2>1 DEF Grammar, Proto, Said, Text
<1>4. ASSUME NEW n \in 1 .. 2, ReadExact(c, n) PROVE Proto(c) \in {"socks5", "other"}
  <2>1. arrived[c] >= taken[c] + n
    BY <1>4 DEF ReadExact
  <2>2. arrived[c] # 0
    BY <1>9, <2>1 DEF Typed
  <2> QED BY <1>2, <2>2
<1>5. CASE Said(c)[1] # "v5" /\ ReadExact(c, 1) /\ Silently(c)
  <2>1. Excused(c)
    BY <1>3, <1>4, <1>5, FlawExcuses
  <2>2. /\ taken' \in [Clients -> Nat] /\ Counted(c)'
        /\ \A d \in Clients \ {c} : taken'[d] = taken[d]
    BY <1>1, <1>5, <1>9, Reads
  <2> QED BY <1>1, <1>5, <2>1, <2>2, Silenced
<1>6. CASE Said(c)[1] = "v5" /\ ReadExact(c, 2) /\ Said(c)[2] = "no auth" /\ Tell(c, "method") /\ Goto(c, "request")
  <2> DEFINE text == Append(told[c], "method")
  <2>1. "method" \in Unit
    BY DEF Unit
  <2>2. /\ text \in Text
        /\ \A i \in DOMAIN text : text[i] = "method" \/ (i \in DOMAIN told[c] /\ text[i] = told[c][i])
    BY <2>1, Telling
  <2>3. told' = [told EXCEPT ![c] = text] /\ "request" \in Places
    BY <1>6 DEF Tell, Places, Socks
  <2>4. /\ taken' \in [Clients -> Nat] /\ taken'[c] = 2 /\ Counted(c)'
        /\ \A d \in Clients \ {c} : taken'[d] = taken[d]
    <3>1. taken'[c] = taken[c] + 2
      BY <1>1, <1>6, <1>9, Reads
    <3>2. taken'[c] = 2
      BY <1>9, <3>1
    <3> QED BY <1>1, <1>6, <1>9, <3>2, Reads
  <2> HIDE DEF text
  <2>5. Local(c) /\ at'[c] = "request" /\ told'[c] = text /\ upstream'[c] = upstream[c]
    <3> DEFINE place == "request"
    <3>1. /\ Goto(c, place) /\ place \in Places /\ text \in Text /\ told' = [told EXCEPT ![c] = text]
          /\ UNCHANGED <<inputs, net, http, out>>
      BY <1>1, <1>6, <2>2, <2>3
    <3>3. taken' \in [Clients -> Nat] /\ \A d \in Clients \ {c} : taken'[d] = taken[d]
      BY <2>4
    <3> HIDE DEF place
    <3>2. Local(c) /\ at'[c] = place /\ told'[c] = text /\ upstream'[c] = upstream[c]
      BY <3>1, <3>3, OwnStep
    <3> QED BY <3>2 DEF place
  <2>6. Unsaid(c)'
    <3>1. upstream[c] = <<>> /\ \A i \in DOMAIN told[c] : told[c][i] # "success"
      BY <1>1 DEF Good, Unsaid
    <3>2. \A i \in DOMAIN text : text[i] # "success"
      BY <2>2, <3>1
    <3> QED BY <2>5, <3>1, <3>2 DEF Unsaid
  <2>7. Proto(c)' = Proto(c) /\ Said(c)' = Said(c) /\ mode' = mode
    BY <1>1 DEF Proto, Said, inputs
  <2>8. Proto(c) = "socks5"
    BY <1>3, <1>6
  <2>9. Placed(c)'
    BY <1>2, <1>6, <2>4, <2>5, <2>7, <2>8 DEF Placed, Before, Http
  <2> QED BY <2>4, <2>5, <2>6, <2>7, <2>8, <2>9, GoesOn DEF Socks
<1>7. CASE Said(c)[1] = "v5" /\ ReadExact(c, 2) /\ Refuse(c)
  <2>1. /\ taken' \in [Clients -> Nat] /\ Counted(c)'
        /\ \A d \in Clients \ {c} : taken'[d] = taken[d]
    BY <1>1, <1>7, <1>9, Reads
  <2> QED BY <1>1, <1>7, <2>1, Refused
<1>8. CASE CutShort(c, IF Said(c)[1] = "v5" THEN 2 ELSE 1)
  <2>1. PICK n \in Nat : CutShort(c, n)
    BY <1>8
  <2> QED BY <1>1, <2>1, Cut
<1> QED BY <1>5, <1>6, <1>7, <1>8 DEF Greet

(* Arithmetic. *)
LEMMA AtLeastFour ==
  ASSUME NEW l \in Nat, NEW h \in 0 .. l, h = 4 \/ h = 5 \/ h = 6
  PROVE  h >= 4 /\ l >= 4
OBVIOUS

(* What a script of SOCKS5 says, by its own fields. *)
LEMMA Socks5Fields ==
  ASSUME Typed, NEW c \in Clients, mode = "socks", Proto(c) = "socks5", Said(c)[2] = "no auth"
  PROVE  /\ HeadOf(c) >= 4 /\ Len(Said(c)) >= 4
         /\ Said(c)[3] \in {"connect", "bind"} \cup Flaws
         /\ Said(c)[3] = "connect" /\ Said(c)[4] = "ip" => HeadOf(c) = 5
         /\ Said(c)[3] = "connect" /\ Said(c)[4] = "name" /\ Said(c)[5] # "zero" => HeadOf(c) = 6
<1>1. Grammar(script[c]) /\ HeadOf(c) \in 0 .. Len(Said(c)) /\ Len(Said(c)) \in Nat
  BY Speaks
<1>2. HeadOf(c) = Socks5Head(Said(c))
  BY <1>1 DEF Grammar, Proto, Said, HeadOf
<1>3. HeadOf(c) \in {4, 5, 6}
  BY <1>2 DEF Socks5Head
<1>4. HeadOf(c) >= 4 /\ Len(Said(c)) >= 4
  <2>1. PICK l \in Nat : l = Len(Said(c))
    BY <1>1
  <2>2. PICK h \in 0 .. l : h = HeadOf(c)
    BY <1>1, <2>1
  <2>3. h = 4 \/ h = 5 \/ h = 6
    BY <1>3, <2>2
  <2>4. h >= 4 /\ l >= 4
    BY <2>3, AtLeastFour
  <2> QED BY <2>1, <2>2, <2>4
<1>5. Said(c)[3] \in {"connect", "bind"} \cup Flaws
  BY <1>1, <1>4 DEF Grammar, Proto, Said, HeadOf
<1>6. /\ Said(c)[3] = "connect" /\ Said(c)[4] = "ip" => HeadOf(c) = 5
      /\ Said(c)[3] = "connect" /\ Said(c)[4] = "name" /\ Said(c)[5] # "zero" => HeadOf(c) = 6
  BY <1>2 DEF Socks5Head
<1> QED BY <1>4, <1>5, <1>6

(* Request keeps the invariant. *)
LEMMA RequestKeeps ==
  ASSUME Typed, NEW c \in Clients, Good(c), Request(c)
  PROVE  Local(c) /\ Good(c)'
<1>1. /\ UNCHANGED <<inputs, net, http, out>> /\ at[c] = "request" /\ at[c] \notin Over
      /\ script' = script /\ mode' = mode /\ arrived' = arrived /\ parsed' = parsed
  BY DEF Request, inputs, net, http, Over
<1>2. mode = "socks" /\ Proto(c) = "socks5" /\ Said(c)[2] = "no auth"
  BY <1>1 DEF Good, Placed, Socks
<1>12. taken[c] = 2 /\ Counted(c)
  BY <1>1 DEF Good, Placed
<1>3. /\ Said(c)[3] \in {"connect", "bind"} \cup Flaws
      /\ Said(c)[3] = "connect" /\ Said(c)[4] = "ip" => HeadOf(c) = 5
  BY <1>2, Socks5Fields
<1>4. CASE CutShort(c, 2)
  BY <1>1, <1>4, Cut
<1>5. ASSUME ReadExact(c, 2) PROVE Units(c, 1)[1] = Said(c)[3] /\ Units(c, 2)[2] = Said(c)[4] /\ 3 \in DOMAIN Said(c)
  <2>1. arrived[c] >= taken[c] + 2
    BY <1>5 DEF ReadExact
  <2>2. arrived[c] >= taken[c] + 1
    BY <1>12, <2>1 DEF Typed
  <2>3. Units(c, 1)[1] = Said(c)[taken[c] + 1] /\ taken[c] + 1 \in DOMAIN Said(c)
    BY <1>12, <2>2, NextUnits
  <2>4. Units(c, 2)[2] = Said(c)[taken[c] + 2]
    BY <1>12, <2>1, NextUnits
  <2>5. taken[c] + 1 = 3 /\ taken[c] + 2 = 4
    BY <1>12
  <2> QED BY <2>3, <2>4, <2>5
<1>6. ASSUME ReadExact(c, 2)
      PROVE  /\ taken' \in [Clients -> Nat] /\ taken'[c] = 4 /\ Counted(c)'
             /\ \A d \in Clients \ {c} : taken'[d] = taken[d]
  <2>1. taken'[c] = taken[c] + 2
    BY <1>1, <1>6, <1>12, Reads
  <2>2. taken'[c] = 4
    BY <1>12, <2>1
  <2> QED BY <1>1, <1>6, <1>12, <2>2, Reads
<1>7. CASE ReadExact(c, 2) /\ Refuse(c)
  BY <1>1, <1>6, <1>7, Refused
<1>8. CASE ReadExact(c, 2) /\ Units(c, 1)[1] = "connect" /\ Units(c, 2)[2] = "ip" /\ Proceed(c, "address")
  <2>1. Said(c)[3] = "connect" /\ Said(c)[4] = "ip" /\ HeadOf(c) = 5
    BY <1>3, <1>5, <1>8
  <2>2. Addressed(c)' /\ HeadOf(c)' = 5
    BY <1>1, <1>2, <2>1 DEF Addressed, Proto, Said, HeadOf
  <2>3. at'[c] = "address" => Placed(c)'
    <3>1. taken'[c] = HeadOf(c)' - 1
      BY <1>6, <1>8, <2>2
    <3> QED BY <1>1, <1>2, <2>2, <3>1 DEF Placed, Before, Http
  <2>4. "address" \in Socks \cup {"resolve", "connect"}
    BY DEF Socks
  <2> QED BY <1>1, <1>2, <1>6, <1>8, <2>3, <2>4, Proceeds
<1>9. CASE ReadExact(c, 2) /\ Units(c, 1)[1] = "connect" /\ Units(c, 2)[2] = "name" /\ Proceed(c, "length")
  <2>1. Said(c)[3] = "connect" /\ Said(c)[4] = "name"
    BY <1>5, <1>9
  <2>2. Said(c)' = Said(c) /\ Proto(c)' = Proto(c)
    BY <1>1 DEF Proto, Said
  <2>3. at'[c] = "length" => Placed(c)'
    BY <1>1, <1>2, <1>6, <1>9, <2>1, <2>2 DEF Placed, Before, Http
  <2>4. "length" \in Socks \cup {"resolve", "connect"}
    BY DEF Socks
  <2> QED BY <1>1, <1>2, <1>6, <1>9, <2>3, <2>4, Proceeds
<1>10. CASE ReadExact(c, 2) /\ Units(c, 1)[1] \notin {"bind", "connect"} /\ Silently(c)
  <2>1. Excused(c)
    BY <1>3, <1>5, <1>10, FlawExcuses
  <2> QED BY <1>1, <1>6, <1>10, <2>1, Silenced
<1>11. \/ CutShort(c, 2)
       \/ ReadExact(c, 2) /\ Refuse(c)
       \/ ReadExact(c, 2) /\ Units(c, 1)[1] = "connect" /\ Units(c, 2)[2] = "ip" /\ Proceed(c, "address")
       \/ ReadExact(c, 2) /\ Units(c, 1)[1] = "connect" /\ Units(c, 2)[2] = "name" /\ Proceed(c, "length")
       \/ ReadExact(c, 2) /\ Units(c, 1)[1] \notin {"bind", "connect"} /\ Silently(c)
  <2> DEFINE command == Units(c, 1)[1]
             atyp == Units(c, 2)[2]
  <2>1. \/ CutShort(c, 2)
        \/ /\ ReadExact(c, 2)
           /\ CASE command = "bind"    -> Refuse(c)
                [] command = "connect" -> CASE atyp = "ip"   -> Proceed(c, "address")
                                            [] atyp = "name" -> Proceed(c, "length")
                                            [] OTHER         -> Refuse(c)
                [] OTHER               -> Silently(c)
    BY DEF Request
  <2> HIDE DEF command, atyp
  <2>2. \/ CutShort(c, 2)
        \/ ReadExact(c, 2) /\ Refuse(c)
        \/ ReadExact(c, 2) /\ command = "connect" /\ atyp = "ip" /\ Proceed(c, "address")
        \/ ReadExact(c, 2) /\ command = "connect" /\ atyp = "name" /\ Proceed(c, "length")
        \/ ReadExact(c, 2) /\ command \notin {"bind", "connect"} /\ Silently(c)
    BY <2>1
  <2> QED BY <2>2 DEF command, atyp
<1> QED BY <1>4, <1>7, <1>8, <1>9, <1>10, <1>11

(* Length keeps the invariant. *)
LEMMA LengthKeeps ==
  ASSUME Typed, NEW c \in Clients, Good(c), Length(c)
  PROVE  Local(c) /\ Good(c)'
<1>1. /\ UNCHANGED <<inputs, net, http, out>> /\ at[c] = "length" /\ at[c] \notin Over
      /\ script' = script /\ mode' = mode /\ arrived' = arrived /\ parsed' = parsed
  BY DEF Length, inputs, net, http, Over
<1>2. /\ mode = "socks" /\ Proto(c) = "socks5"
      /\ Said(c)[2] = "no auth" /\ Said(c)[3] = "connect" /\ Said(c)[4] = "name"
  BY <1>1 DEF Good, Placed, Socks
<1>9. taken[c] = 4 /\ Counted(c)
  BY <1>1 DEF Good, Placed
<1>3. Said(c)[5] # "zero" => HeadOf(c) = 6
  BY <1>2, Socks5Fields
<1>4. CASE CutShort(c, 1)
  BY <1>1, <1>4, Cut
<1>5. ASSUME ReadExact(c, 1) PROVE Units(c, 1)[1] = Said(c)[5]
  <2>1. arrived[c] >= taken[c] + 1
    BY <1>5 DEF ReadExact
  <2>2. Units(c, 1)[1] = Said(c)[taken[c] + 1]
    BY <1>9, <2>1, NextUnits
  <2>3. taken[c] + 1 = 5
    BY <1>9
  <2> QED BY <2>2, <2>3
<1>6. ASSUME ReadExact(c, 1)
      PROVE  /\ taken' \in [Clients -> Nat] /\ taken'[c] = 5 /\ Counted(c)'
             /\ \A d \in Clients \ {c} : taken'[d] = taken[d]
  <2>1. taken'[c] = taken[c] + 1
    BY <1>1, <1>6, <1>9, Reads
  <2>2. taken'[c] = 5
    BY <1>9, <2>1
  <2> QED BY <1>1, <1>6, <1>9, <2>2, Reads
<1>7. CASE ReadExact(c, 1) /\ Refuse(c)
  BY <1>1, <1>6, <1>7, Refused
<1>8. CASE ReadExact(c, 1) /\ Units(c, 1)[1] # "zero" /\ Proceed(c, "address")
  <2>1. HeadOf(c) = 6
    BY <1>3, <1>5, <1>8
  <2>2. Addressed(c)' /\ HeadOf(c)' = 6
    BY <1>1, <1>2, <2>1 DEF Addressed, Proto, Said, HeadOf
  <2>3. at'[c] = "address" => Placed(c)'
    <3>1. taken'[c] = HeadOf(c)' - 1
      BY <1>6, <1>8, <2>2
    <3> QED BY <1>1, <1>2, <2>2, <3>1 DEF Placed, Before, Http
  <2>4. "address" \in Socks \cup {"resolve", "connect"}
    BY DEF Socks
  <2> QED BY <1>1, <1>2, <1>6, <1>8, <2>3, <2>4, Proceeds
<1> QED BY <1>4, <1>7, <1>8 DEF Length

(* What was read last says whether the target is an address or a name. *)
LEMMA AddressUnit ==
  ASSUME Typed, NEW c \in Clients, mode = "socks", Addressed(c)
  PROVE  /\ HeadOf(c) \in DOMAIN Said(c) /\ Said(c)[HeadOf(c)] \in {"address", "host"} \cup Flaws
         /\ Proto(c) \in {"socks4", "socks5"}
<1>1. Grammar(script[c]) /\ HeadOf(c) \in 0 .. Len(Said(c)) /\ Said(c) \in Text
  BY Speaks
<1>2. HeadOf(c) = 4 \/ HeadOf(c) = 5 \/ HeadOf(c) = 6
  BY DEF Addressed
<1>3. HeadOf(c) \in DOMAIN Said(c)
  <2>1. DOMAIN Said(c) = 1 .. Len(Said(c)) /\ Len(Said(c)) \in Nat
    BY <1>1 DEF Text
  <2>2. HeadOf(c) \in Nat /\ HeadOf(c) <= Len(Said(c))
    BY <1>1, <2>1
  <2> QED BY <1>2, <2>1, <2>2
<1>4. Said(c)[HeadOf(c)] \in {"address", "host"} \cup Flaws
  BY <1>1 DEF Grammar, Addressed, Proto, Said, HeadOf
<1> QED BY <1>3, <1>4 DEF Addressed

(* Address keeps the invariant. *)
LEMMA AddressKeeps ==
  ASSUME Typed, NEW c \in Clients, Good(c), Address(c)
  PROVE  Local(c) /\ Good(c)'
<1>1. /\ UNCHANGED <<inputs, net, http, out>> /\ at[c] = "address" /\ at[c] \notin Over
      /\ script' = script /\ mode' = mode /\ arrived' = arrived /\ parsed' = parsed
  BY DEF Address, inputs, net, http, Over
<1>2. mode = "socks" /\ Addressed(c)
  BY <1>1 DEF Good, Placed, Socks
<1>3. taken[c] = HeadOf(c) - 1 /\ Counted(c)
  BY <1>1 DEF Good, Placed
<1>4. /\ HeadOf(c) \in DOMAIN Said(c) /\ Said(c)[HeadOf(c)] \in {"address", "host"} \cup Flaws
      /\ Proto(c) \in {"socks4", "socks5"}
  BY <1>2, AddressUnit
<1>5. HeadOf(c) \in Nat
  <2>1. HeadOf(c) \in 0 .. Len(Said(c))
    BY Speaks
  <2> QED BY <2>1
<1>6. CASE CutShort(c, 1)
  BY <1>1, <1>6, Cut
<1>7. ASSUME ReadExact(c, 1) PROVE Units(c, 1)[1] = Said(c)[HeadOf(c)]
  <2>1. arrived[c] >= taken[c] + 1
    BY <1>7 DEF ReadExact
  <2>2. Units(c, 1)[1] = Said(c)[taken[c] + 1]
    BY <1>3, <2>1, NextUnits
  <2>3. taken[c] + 1 = HeadOf(c)
    BY <1>3, <1>5
  <2> QED BY <2>2, <2>3
<1>8. ASSUME ReadExact(c, 1)
      PROVE  /\ taken' \in [Clients -> Nat] /\ taken'[c] = HeadOf(c) /\ Counted(c)'
             /\ \A d \in Clients \ {c} : taken'[d] = taken[d]
  <2>1. taken'[c] = taken[c] + 1
    BY <1>1, <1>3, <1>8, Reads
  <2>2. taken'[c] = HeadOf(c)
    BY <1>3, <1>5, <2>1
  <2> QED BY <1>1, <1>3, <1>8, <2>2, Reads
<1>9. ASSUME ReadExact(c, 1), NEW place \in {"connect", "resolve"}, Proceed(c, place)
      PROVE  Local(c) /\ Good(c)'
  <2>1. HeadOf(c)' = HeadOf(c)
    BY <1>1 DEF HeadOf
  <2>2. at'[c] = place => Placed(c)'
    BY <1>8, <1>9, <2>1 DEF Placed, Before, Socks, Http
  <2>3. place \in Socks \cup {"resolve", "connect"} /\ Proto(c) # "connect"
    BY <1>4, <1>9
  <2> QED BY <1>1, <1>8, <1>9, <2>2, <2>3, Proceeds
<1>10. CASE ReadExact(c, 1) /\ Units(c, 1)[1] \notin {"address", "host"} /\ Silently(c)
  <2>1. Excused(c)
    BY <1>4, <1>7, <1>10, FlawExcuses
  <2> QED BY <1>1, <1>8, <1>10, <2>1, Silenced
<1>11. \/ CutShort(c, 1)
       \/ ReadExact(c, 1) /\ Proceed(c, "connect")
       \/ ReadExact(c, 1) /\ Proceed(c, "resolve")
       \/ ReadExact(c, 1) /\ Units(c, 1)[1] \notin {"address", "host"} /\ Silently(c)
  <2> DEFINE u == Units(c, 1)[1]
  <2>1. \/ CutShort(c, 1)
        \/ /\ ReadExact(c, 1)
           /\ CASE u = "address" -> Proceed(c, "connect")
                [] u = "host"    -> Proceed(c, "resolve")
                [] OTHER         -> Silently(c)
    BY DEF Address
  <2> HIDE DEF u
  <2>2. \/ CutShort(c, 1)
        \/ ReadExact(c, 1) /\ Proceed(c, "connect")
        \/ ReadExact(c, 1) /\ Proceed(c, "resolve")
        \/ ReadExact(c, 1) /\ u \notin {"address", "host"} /\ Silently(c)
    BY <2>1
  <2> QED BY <2>2 DEF u
<1> QED BY <1>6, <1>9, <1>10, <1>11

(* Header4 keeps the invariant. *)
LEMMA Header4Keeps ==
  ASSUME Typed, NEW c \in Clients, Good(c), Header4(c)
  PROVE  Local(c) /\ Good(c)'
<1>1. /\ UNCHANGED <<inputs, net, http, out>> /\ at[c] = "socks4" /\ at[c] \notin Over
      /\ script' = script /\ mode' = mode /\ arrived' = arrived /\ parsed' = parsed
  BY DEF Header4, inputs, net, http, Over
<1>2. mode = "socks" /\ Proto(c) = "socks4"
  BY <1>1 DEF Good, Placed, Socks
<1>3. taken[c] = 0 /\ Counted(c)
  BY <1>1 DEF Good, Placed
<1>4. CASE CutShort(c, 2)
  BY <1>1, <1>4, Cut
<1>5. ASSUME ReadExact(c, 2) PROVE Units(c, 2)[1] = Said(c)[1]
  <2>1. arrived[c] >= taken[c] + 2
    BY <1>5 DEF ReadExact
  <2>2. Units(c, 2)[1] = Said(c)[taken[c] + 1]
    BY <1>3, <2>1, NextUnits
  <2>3. taken[c] + 1 = 1
    BY <1>3
  <2> QED BY <2>2, <2>3
<1>6. ASSUME ReadExact(c, 2)
      PROVE  /\ taken' \in [Clients -> Nat] /\ taken'[c] = 2 /\ Counted(c)'
             /\ \A d \in Clients \ {c} : taken'[d] = taken[d]
  <2>1. taken'[c] = taken[c] + 2
    BY <1>1, <1>3, <1>6, Reads
  <2>2. taken'[c] = 2
    BY <1>3, <2>1
  <2> QED BY <1>1, <1>3, <1>6, <2>2, Reads
<1>7. CASE ReadExact(c, 2) /\ Refuse(c)
  BY <1>1, <1>6, <1>7, Refused
<1>8. CASE ReadExact(c, 2) /\ Units(c, 2)[1] # "v4 bind" /\ Proceed(c, "userid")
  <2>1. Said(c)[1] # "v4 bind" /\ Said(c)' = Said(c) /\ Proto(c)' = Proto(c)
    BY <1>1, <1>5, <1>8 DEF Said, Proto
  <2>2. at'[c] = "userid" => Placed(c)'
    BY <1>1, <1>2, <1>6, <1>8, <2>1 DEF Placed, Before, Http
  <2>3. "userid" \in Socks \cup {"resolve", "connect"}
    BY DEF Socks
  <2> QED BY <1>1, <1>2, <1>6, <1>8, <2>2, <2>3, Proceeds
<1> QED BY <1>4, <1>7, <1>8 DEF Header4

(* UserId keeps the invariant. *)
LEMMA UserIdKeeps ==
  ASSUME Typed, NEW c \in Clients, Good(c), UserId(c)
  PROVE  Local(c) /\ Good(c)'
<1>1. /\ UNCHANGED <<inputs, net, http, out>> /\ at[c] = "userid" /\ at[c] \notin Over
      /\ script' = script /\ mode' = mode /\ arrived' = arrived /\ parsed' = parsed
  BY DEF UserId, inputs, net, http, Over
<1>2. mode = "socks" /\ Proto(c) = "socks4" /\ Said(c)[1] # "v4 bind"
  BY <1>1 DEF Good, Placed, Socks
<1>3. taken[c] = 2 /\ Counted(c)
  BY <1>1 DEF Good, Placed
<1>4. CASE CutShort(c, 1)
  BY <1>1, <1>4, Cut
<1>5. HeadOf(c) = IF Said(c)[2] = "0.0.0.x" /\ Said(c)[3] # "long" THEN 4 ELSE 3
  <2>1. Grammar(script[c])
    BY <1>2, Speaks
  <2>2. HeadOf(c) = Socks4Head(Said(c))
    BY <1>2, <2>1 DEF Grammar, Proto, Said, HeadOf
  <2> QED BY <1>2, <2>2 DEF Socks4Head
<1>6. ASSUME ReadExact(c, 1) PROVE Units(c, 1)[1] = Said(c)[3] /\ 3 \in DOMAIN Said(c)
  <2>1. arrived[c] >= taken[c] + 1
    BY <1>6 DEF ReadExact
  <2>2. Units(c, 1)[1] = Said(c)[taken[c] + 1] /\ taken[c] + 1 \in DOMAIN Said(c)
    BY <1>3, <2>1, NextUnits
  <2>3. taken[c] + 1 = 3
    BY <1>3
  <2> QED BY <2>2, <2>3
<1>7. ASSUME ReadExact(c, 1)
      PROVE  /\ taken' \in [Clients -> Nat] /\ taken'[c] = 3 /\ Counted(c)'
             /\ \A d \in Clients \ {c} : taken'[d] = taken[d]
  <2>1. taken'[c] = taken[c] + 1
    BY <1>1, <1>3, <1>7, Reads
  <2>2. taken'[c] = 3
    BY <1>3, <2>1
  <2> QED BY <1>1, <1>3, <1>7, <2>2, Reads
<1>8. Said(c)' = Said(c) /\ Proto(c)' = Proto(c) /\ HeadOf(c)' = HeadOf(c)
  BY <1>1 DEF Said, Proto, HeadOf
<1>9. CASE ReadExact(c, 1) /\ Units(c, 1)[1] = "long" /\ Silently(c)
  <2>1. Said(c)[3] \in Flaws
    BY <1>6, <1>9 DEF Flaws
  <2>2. Excused(c)
    BY <1>6, <1>9, <2>1, FlawExcuses
  <2> QED BY <1>1, <1>7, <1>9, <2>2, Silenced
<1>10. CASE ReadExact(c, 1) /\ Units(c, 1)[1] # "long" /\ Said(c)[2] = "0.0.0.x" /\ Proceed(c, "address")
  <2>1. HeadOf(c) = 4
    BY <1>5, <1>6, <1>10
  <2>2. Addressed(c)'
    BY <1>2, <1>8, <2>1 DEF Addressed
  <2>5. taken'[c] = HeadOf(c)' - 1
    <3>1. taken'[c] = 3 /\ HeadOf(c)' = 4
      BY <1>7, <1>8, <1>10, <2>1
    <3> QED BY <3>1
  <2>3. at'[c] = "address" => Placed(c)'
    BY <1>1, <1>2, <2>2, <2>5 DEF Placed, Before, Http
  <2>4. "address" \in Socks \cup {"resolve", "connect"}
    BY DEF Socks
  <2> QED BY <1>1, <1>2, <1>7, <1>10, <2>3, <2>4, Proceeds
<1>11. CASE ReadExact(c, 1) /\ Units(c, 1)[1] # "long" /\ Said(c)[2] # "0.0.0.x" /\ Proceed(c, "connect")
  <2>1. HeadOf(c) = 3
    BY <1>5, <1>11
  <2>2. at'[c] = "connect" => Placed(c)'
    BY <1>7, <1>8, <1>11, <2>1 DEF Placed, Before, Socks, Http
  <2>3. "connect" \in Socks \cup {"resolve", "connect"}
    OBVIOUS
  <2> QED BY <1>1, <1>2, <1>7, <1>11, <2>2, <2>3, Proceeds
<1> QED BY <1>4, <1>9, <1>10, <1>11 DEF UserId

-----------------------------------------------------------------------------
(* The network, the accept loop and the first byte.                         *)

(* A connection at which nothing has been read yet goes on unread. *)
LEMMA Unread ==
  ASSUME Typed, NEW c \in Clients, Good(c), at[c] \in Before, NEW place \in Places, place \notin Over,
         UNCHANGED <<inputs, net, taken, http, told, out>>, Goto(c, place),
         at'[c] = place => Placed(c)', place \notin {"headers", "resolve"},
         place = "connect" => Proto(c) = "direct"
  PROVE  Local(c) /\ Good(c)'
<1>1. told[c] \in Text /\ told' = [told EXCEPT ![c] = told[c]] /\ taken' \in [Clients -> Nat] /\ taken' = taken
      /\ mode' = mode /\ script' = script
  BY DEF Typed, inputs
<1> DEFINE text == told[c]
<1> HIDE DEF text
<1>2. /\ Local(c) /\ at'[c] = place /\ told'[c] = text /\ upstream'[c] = upstream[c]
      /\ arrived' = arrived /\ parsed' = parsed
  <2>1. text \in Text /\ told' = [told EXCEPT ![c] = text]
    BY <1>1 DEF text
  <2> QED BY <1>1, <2>1, OwnStep
<1>3. at[c] \notin Over
  BY DEF Before, Over
<1>4. Counted(c)'
  BY <1>1, <1>2 DEF Good, Counted, Said
<1>5. Unsaid(c)'
  BY <1>2, <1>3 DEF Good, Unsaid, text
<1>6. Waits(c)'
  BY <1>1, <1>2, <1>3 DEF Good, Waits, Patient, Proto, HeadOf
<1>7. Reading(c)' /\ Begun(c)'
  BY <1>1, <1>2 DEF Reading, Begun, Whole, Patient, Proto
<1>8. Relayed(c)' /\ Ended(c)'
  BY <1>2 DEF Relayed, Ended, Over
<1> QED BY <1>2, <1>4, <1>5, <1>6, <1>7, <1>8 DEF Good

(* Accept keeps the invariant. *)
LEMMA AcceptKeeps ==
  ASSUME Typed, NEW c \in Clients, Good(c), Accept(c)
  PROVE  Local(c) /\ Good(c)'
<1>1. /\ UNCHANGED <<inputs, net, taken, http, told, out>> /\ at[c] = "waiting" /\ at[c] \in Before
      /\ script' = script /\ mode' = mode /\ taken' = taken
  BY DEF Accept, inputs, Before
<1>2. taken[c] = 0
  BY <1>1 DEF Good, Placed
<1>3. CASE mode = "socks" /\ Goto(c, "peek")
  <2>1. at'[c] = "peek" => Placed(c)'
    BY <1>1, <1>2, <1>3 DEF Placed, Before, Http
  <2>2. "peek" \in Places /\ "peek" \notin Over
    BY DEF Places, Before, Over
  <2> QED BY <1>1, <1>3, <2>1, <2>2, Unread
<1>4. CASE mode # "socks" /\ Goto(c, "connect")
  <2>1. Proto(c) = "direct" /\ HeadOf(c) = 0
    BY <1>4, Speaks
  <2>2. Proto(c)' = Proto(c) /\ HeadOf(c)' = HeadOf(c)
    BY <1>1 DEF Proto, HeadOf
  <2>3. at'[c] = "connect" => Placed(c)'
    BY <1>1, <1>2, <2>1, <2>2 DEF Placed, Before, Socks, Http
  <2>4. "connect" \in Places /\ "connect" \notin Over
    BY DEF Places, Over
  <2> QED BY <1>1, <1>4, <2>1, <2>3, <2>4, Unread
<1> QED BY <1>3, <1>4 DEF Accept

(* Peek keeps the invariant. *)
LEMMA PeekKeeps ==
  ASSUME Typed, NEW c \in Clients, Good(c), Peek(c)
  PROVE  Local(c) /\ Good(c)'
<1>1. /\ UNCHANGED <<inputs, net, taken, http, told, out>> /\ at[c] = "peek" /\ at[c] \in Before
      /\ script' = script /\ mode' = mode /\ taken' = taken /\ arrived' = arrived /\ shut' = shut
  BY DEF Peek, inputs, net, Before
<1>2. taken[c] = 0
  BY <1>1 DEF Good, Placed, Before
<1>3. mode = "socks"
  BY <1>1 DEF Good, Placed
<1>4. Proto(c) \in {"socks5", "socks4", "connect", "forward", "other"}
  <2>1. script[c] \in Script /\ Grammar(script[c])
    BY <1>3 DEF Typed
  <2>2. Proto(c) \in {"socks5", "socks4", "connect", "forward", "direct", "other"} /\ Proto(c) # "direct"
    BY <2>1 DEF Script, Grammar, Proto
  <2> QED BY <2>2
<1>5. Proto(c)' = Proto(c)
  BY <1>1 DEF Proto
<1>6. CASE Goto(c, "socks5") /\ (Proto(c) \in {"socks5", "other"} \/ (c \in shut /\ arrived[c] = 0))
  <2>1. at'[c] = "socks5" => Placed(c)'
    BY <1>1, <1>2, <1>3, <1>5, <1>6 DEF Placed, Before, Http
  <2>2. "socks5" \in Places /\ "socks5" \notin Over
    BY DEF Places, Socks, Over
  <2> QED BY <1>1, <1>6, <2>1, <2>2, Unread
<1>7. CASE Goto(c, "socks4") /\ Proto(c) = "socks4"
  <2>1. at'[c] = "socks4" => Placed(c)'
    BY <1>1, <1>2, <1>3, <1>5, <1>7 DEF Placed, Before, Http
  <2>2. "socks4" \in Places /\ "socks4" \notin Over
    BY DEF Places, Socks, Over
  <2> QED BY <1>1, <1>7, <2>1, <2>2, Unread
<1>8. CASE Goto(c, "http") /\ Proto(c) \in {"connect", "forward"}
  <2>1. at'[c] = "http" => Placed(c)'
    BY <1>1, <1>2, <1>3, <1>5, <1>8 DEF Placed, Before, Socks, Http
  <2>2. "http" \in Places /\ "http" \notin Over
    BY DEF Places, Http, Over
  <2> QED BY <1>1, <1>8, <2>1, <2>2, Unread
<1>9. \/ Goto(c, "socks5") /\ (Proto(c) \in {"socks5", "other"} \/ (c \in shut /\ arrived[c] = 0))
      \/ Goto(c, "socks4") /\ Proto(c) = "socks4"
      \/ Goto(c, "http") /\ Proto(c) \in {"connect", "forward"}
  <2>1. CASE arrived[c] = 0
    <3>1. Goto(c, "socks5")
      BY <2>1 DEF Peek
    <3>2. ~ arrived[c] > 0
      BY <2>1
    <3>3. c \in shut
      BY <3>2 DEF Peek, Eof
    <3> QED BY <2>1, <3>1, <3>3
  <2>2. CASE arrived[c] # 0
    <3>1. Goto(c, CASE Proto(c) = "socks4" -> "socks4"
                    [] Proto(c) \in {"connect", "forward"} -> "http"
                    [] OTHER -> "socks5")
      BY <2>2 DEF Peek
    <3> QED BY <1>4, <3>1
  <2> QED BY <2>1, <2>2
<1> QED BY <1>6, <1>7, <1>8, <1>9

(* A client whose connection the loop gives up has left. *)
LEMMA GivenUpKeeps ==
  ASSUME Typed, NEW c \in Clients, Good(c), at[c] = "waiting", c \in shut, Close(c),
         UNCHANGED <<inputs, net, taken, http, told, out>>
  PROVE  Local(c) /\ Good(c)'
<1>1. Silently(c) /\ Excused(c) /\ taken' = taken /\ at[c] \notin Over
  BY DEF Silently, Excused, Over
<1>2. Counted(c)'
  BY <1>1 DEF Good, Counted, Said, inputs, net, http
<1>3. taken' \in [Clients -> Nat] /\ \A d \in Clients \ {c} : taken'[d] = taken[d]
  BY <1>1 DEF Typed
<1> QED BY <1>1, <1>2, <1>3, Silenced

(* Arrive keeps the invariant: what was taken was taken before. *)
LEMMA ArriveKeeps ==
  ASSUME Typed, NEW c \in Clients, Good(c), Arrive(c)
  PROVE  Local(c) /\ Good(c)'
<1>1. /\ UNCHANGED <<inputs, shut, at, taken, http, told, out>> /\ c \notin shut /\ at[c] # "closed"
      /\ mode' = mode /\ script' = script /\ parsed' = parsed /\ first' = first /\ headers' = headers
      /\ upstream' = upstream /\ unresolved' = unresolved
  BY DEF Arrive, inputs, http, out
<1>2. PICK n \in arrived[c] + 1 .. Allowed(c) : arrived' = [arrived EXCEPT ![c] = n]
  BY DEF Arrive
<1>3. HeadOf(c) \in 0 .. Len(Said(c)) /\ Len(Said(c)) \in Nat /\ arrived[c] \in Nat
      /\ taken[c] \in Nat /\ parsed[c] \in Nat
  BY Speaks DEF Typed
<1>4. \A i \in DOMAIN told[c] : at[c] \notin Over => told[c][i] # "success"
  BY DEF Good, Unsaid
<1>5. Allowed(c) \in Nat /\ Allowed(c) <= Len(Said(c))
  <2>1. Proto(c) = "socks5" => 2 <= Len(Said(c))
    <3>1. ASSUME Proto(c) = "socks5" PROVE HeadOf(c) \in {2, 4, 5, 6}
      <4>1. mode = "socks"
        BY <3>1, Speaks
      <4>2. HeadOf(c) = Socks5Head(Said(c))
        BY <3>1, <4>1, Speaks DEF Grammar, Proto, Said, HeadOf
      <4> QED BY <4>2 DEF Socks5Head
    <3>2. PICK l \in Nat : l = Len(Said(c))
      BY <1>3
    <3>3. PICK h \in 0 .. l : h = HeadOf(c)
      BY <1>3, <3>2
    <3>4. ASSUME h = 2 \/ h = 4 \/ h = 5 \/ h = 6 PROVE 2 <= l
      BY <3>4
    <3> QED BY <3>1, <3>2, <3>3, <3>4
  <2>2. Allowed(c) \in {Len(Said(c)), HeadOf(c)} \/ (Proto(c) = "socks5" /\ Allowed(c) = 2)
    BY DEF Allowed, Said, Proto, HeadOf
  <2>3. HeadOf(c) \in Nat /\ HeadOf(c) <= Len(Said(c))
    BY <1>3
  <2>4. CASE Allowed(c) = Len(Said(c))
    BY <1>3, <2>4
  <2>5. CASE Allowed(c) = HeadOf(c)
    BY <2>3, <2>5
  <2>6. CASE Proto(c) = "socks5" /\ Allowed(c) = 2
    <3>1. 2 <= Len(Said(c)) /\ Allowed(c) = 2
      BY <2>1, <2>6
    <3> QED BY <3>1
  <2> QED BY <2>2, <2>4, <2>5, <2>6
<1>6. n \in Nat /\ n <= Len(Said(c)) /\ arrived[c] < n /\ n <= Allowed(c)
  BY <1>2, <1>3, <1>5
<1>7. arrived'[c] = n /\ arrived' \in [Clients -> Nat] /\ \A d \in Clients \ {c} : arrived'[d] = arrived[d]
  BY <1>2, <1>6 DEF Typed
<1>8. taken' = taken /\ told' = told /\ at' = at /\ shut' = shut
  BY <1>1
<1>9. Local(c)
  <2>1. Typed'
    BY <1>1, <1>7, <1>8 DEF Typed
  <2>2. \A d \in Clients \ {c} : Same(d)
    BY <1>1, <1>7, <1>8 DEF Same
  <2> QED BY <1>1, <2>1, <2>2 DEF Local
<1>10. Counted(c)'
  <2>1. taken[c] <= n /\ parsed[c] <= taken[c]
    BY <1>3, <1>6 DEF Good, Counted
  <2> QED BY <1>1, <1>6, <1>7, <1>8, <2>1 DEF Counted, Said
<1>11. Unsaid(c)'
  BY <1>1, <1>8 DEF Good, Unsaid
<1>12. Waits(c)'
  <2>1. ASSUME Patient(c), at[c] \notin Over PROVE Allowed(c) = HeadOf(c)
    <3>1. "success" \notin Range(told[c])
      BY <1>4, <2>1 DEF Range
    <3> QED BY <2>1, <3>1 DEF Allowed, Patient, Proto, HeadOf
  <2>2. ASSUME Patient(c), at[c] \notin Over PROVE arrived'[c] <= HeadOf(c)
    BY <1>6, <1>7, <2>1, <2>2
  <2> QED BY <1>1, <1>8, <2>2 DEF Waits, Patient, Proto, HeadOf
<1>13. Placed(c)'
  BY <1>1, <1>8 DEF Good, Placed, Addressed, Said, Proto, HeadOf
<1>14. Whole(c)' = Whole(c)
  BY <1>1 DEF Whole, Patient, CutAtLineEnd, Said, Proto
<1>15. Reading(c)'
  BY <1>1, <1>8, <1>14 DEF Good, Reading, Said
<1>16. Begun(c)'
  BY <1>1, <1>8, <1>14 DEF Good, Begun, HeadOf
<1>17. Relayed(c)'
  BY <1>1, <1>8, <1>14 DEF Good, Relayed, Exact, Data, Said, Proto, HeadOf
<1>18. Ended(c)'
  BY <1>1, <1>8 DEF Good, Ended, Answered, Excused, Said, Proto
<1> QED BY <1>9, <1>10, <1>11, <1>12, <1>13, <1>15, <1>16, <1>17, <1>18 DEF Good

(* Leave keeps the invariant: it only adds excuses. *)
LEMMA LeaveKeeps ==
  ASSUME Typed, NEW c \in Clients, Good(c), Leave(c)
  PROVE  Local(c) /\ Good(c)'
<1>1. /\ mode' = mode /\ script' = script /\ arrived' = arrived /\ at' = at /\ taken' = taken
      /\ parsed' = parsed /\ first' = first /\ headers' = headers /\ told' = told
      /\ upstream' = upstream /\ unresolved' = unresolved /\ shut' = shut \cup {c}
  BY DEF Leave, inputs, http, out
<1>2. Local(c)
  <2>1. Typed'
    BY <1>1 DEF Typed
  <2>2. \A d \in Clients \ {c} : Same(d)
    BY <1>1 DEF Same
  <2> QED BY <1>1, <2>1, <2>2 DEF Local
<1>3. Counted(c)'
  BY <1>1 DEF Good, Counted, Said
<1>4. Unsaid(c)'
  BY <1>1 DEF Good, Unsaid
<1>5. Waits(c)'
  BY <1>1 DEF Good, Waits, Patient, Proto, HeadOf
<1>6. Placed(c)'
  BY <1>1 DEF Good, Placed, Addressed, Said, Proto, HeadOf
<1>7. Whole(c)' = Whole(c) /\ c \in shut'
  BY <1>1 DEF Whole, Patient, CutAtLineEnd, Said, Proto
<1>8. Reading(c)'
  BY <1>1, <1>7 DEF Good, Reading, Said
<1>9. Begun(c)'
  BY <1>1, <1>7 DEF Good, Begun, HeadOf
<1>10. Relayed(c)'
  BY <1>1, <1>7 DEF Good, Relayed, Exact, Data, Said, Proto, HeadOf
<1>11. Ended(c)'
  BY <1>1, <1>7 DEF Good, Ended, Answered, Excused, Said, Proto
<1> QED BY <1>2, <1>3, <1>4, <1>5, <1>6, <1>8, <1>9, <1>10, <1>11 DEF Good

-----------------------------------------------------------------------------
(* The target, the upstream and the relay.                                  *)

(* A part that is extended by the next element. *)
LEMMA PartGrows ==
  ASSUME NEW T, NEW s \in Seq(T), NEW m \in Nat, NEW n \in Nat, m <= n, n + 1 <= Len(s)
  PROVE  SubSeq(s, m + 1, n + 1) = Append(SubSeq(s, m + 1, n), s[n + 1])
<1> DEFINE a == SubSeq(s, m + 1, n)
           b == SubSeq(s, m + 1, n + 1)
           u == s[n + 1]
<1>1. Len(s) \in Nat /\ n \in 0 .. Len(s) /\ n + 1 \in 0 .. Len(s) /\ n + 1 \in 1 .. Len(s)
  OBVIOUS
<1>2. a \in Seq(T) /\ Len(a) = n - m /\ \A i \in 1 .. n - m : a[i] = s[m + i]
  <2>1. m < n \/ m = n
    OBVIOUS
  <2>2. (IF m < n THEN n - m ELSE 0) = n - m
    BY <2>1
  <2> QED BY <1>1, <2>2, Part
<1>3. b \in Seq(T) /\ Len(b) = (n + 1) - m /\ \A i \in 1 .. (n + 1) - m : b[i] = s[m + i]
  <2>1. (IF m < n + 1 THEN (n + 1) - m ELSE 0) = (n + 1) - m
    OBVIOUS
  <2> QED BY <1>1, <2>1, Part
<1>4. u \in T
  BY <1>1, ElementOfSeq
<1> HIDE DEF a, b
<1>5. n - m \in Nat /\ (n - m) + 1 = (n + 1) - m /\ m + ((n + 1) - m) = n + 1
  OBVIOUS
<1>6. Append(a, u) \in Seq(T) /\ Len(Append(a, u)) = (n + 1) - m
      /\ \A i \in 1 .. n - m : Append(a, u)[i] = a[i]
      /\ Append(a, u)[(n - m) + 1] = u
  BY <1>2, <1>4, <1>5
<1>7. ASSUME NEW i \in 1 .. (n + 1) - m PROVE b[i] = Append(a, u)[i]
  <2>1. CASE i = (n + 1) - m
    <3>1. b[i] = s[m + ((n + 1) - m)]
      BY <1>3, <2>1
    <3> QED BY <1>5, <1>6, <2>1, <3>1
  <2>2. CASE i # (n + 1) - m
    <3>1. i \in 1 .. n - m
      BY <1>5, <2>2
    <3> QED BY <1>2, <1>3, <1>6, <3>1
  <2> QED BY <2>1, <2>2
<1>8. b = Append(a, u)
  BY <1>3, <1>6, <1>7, SeqEqual
<1> QED BY <1>8 DEF a, b

(* A part is a prefix of the part that ends later. *)
LEMMA PartPrefix ==
  ASSUME NEW T, NEW s \in Seq(T), NEW m \in Nat, NEW n \in 0 .. Len(s), m <= n
  PROVE  IsPrefix(SubSeq(s, m + 1, n), SubSeq(s, m + 1, Len(s)))
<1> DEFINE l == Len(s)
           a == SubSeq(s, m + 1, n)
           b == SubSeq(s, m + 1, l)
           k == n - m
<1>1. l \in Nat /\ l \in 0 .. l /\ k \in Nat /\ k <= l - m /\ n \in Nat
  OBVIOUS
<1>2. a \in Seq(T) /\ Len(a) = k /\ \A i \in 1 .. k : a[i] = s[m + i]
  <2>1. m < n \/ m = n
    OBVIOUS
  <2>2. (IF m < n THEN n - m ELSE 0) = k
    BY <2>1
  <2> QED BY <2>2, Part
<1>3. b \in Seq(T) /\ Len(b) = l - m /\ \A i \in 1 .. l - m : b[i] = s[m + i]
  <2>1. m < l \/ m = l
    OBVIOUS
  <2>2. (IF m < l THEN l - m ELSE 0) = l - m
    BY <2>1
  <2> QED BY <1>1, <2>2, Part
<1> HIDE DEF a, b
<1>4. SubSeq(a, 1, k) \in Seq(T) /\ Len(SubSeq(a, 1, k)) = k /\ \A i \in 1 .. k : SubSeq(a, 1, k)[i] = a[i]
  <2>1. 0 \in Nat /\ k \in 0 .. Len(a)
    BY <1>1, <1>2
  <2>2. /\ SubSeq(a, 0 + 1, k) \in Seq(T)
        /\ Len(SubSeq(a, 0 + 1, k)) = IF 0 < k THEN k - 0 ELSE 0
        /\ \A i \in 1 .. k - 0 : SubSeq(a, 0 + 1, k)[i] = a[0 + i]
    <3> HIDE DEF k
    <3> QED BY <1>2, <2>1, Part
  <2> HIDE DEF k
  <2> QED BY <1>1, <2>2
<1>5. SubSeq(b, 1, k) \in Seq(T) /\ Len(SubSeq(b, 1, k)) = k /\ \A i \in 1 .. k : SubSeq(b, 1, k)[i] = b[i]
  <2>1. 0 \in Nat /\ k \in 0 .. Len(b)
    BY <1>1, <1>3
  <2>2. /\ SubSeq(b, 0 + 1, k) \in Seq(T)
        /\ Len(SubSeq(b, 0 + 1, k)) = IF 0 < k THEN k - 0 ELSE 0
        /\ \A i \in 1 .. k - 0 : SubSeq(b, 0 + 1, k)[i] = b[0 + i]
    <3> HIDE DEF k
    <3> QED BY <1>3, <2>1, Part
  <2> HIDE DEF k
  <2> QED BY <1>1, <2>2
<1>6. \A i \in 1 .. k : i \in 1 .. l - m
  BY <1>1
<1>7. SubSeq(a, 1, k) = SubSeq(b, 1, k)
  <2>1. \A i \in 1 .. k : SubSeq(a, 1, k)[i] = SubSeq(b, 1, k)[i]
    BY <1>2, <1>3, <1>4, <1>5, <1>6
  <2> HIDE DEF k
  <2> QED BY <1>4, <1>5, <2>1, SeqEqual
<1>8. IsPrefix(a, b)
  <2> HIDE DEF k, l
  <2> QED BY <1>1, <1>2, <1>3, <1>7 DEF IsPrefix
<1> QED BY <1>8 DEF a, b

(* A connection at the relay that does not change has an end in order. *)
LEMMA RelayedData ==
  ASSUME Typed, NEW c \in Clients, Counted(c), upstream[c] = <<>> \/
         (taken[c] >= HeadOf(c) /\ upstream[c] = SubSeq(Said(c), HeadOf(c) + 1, taken[c]))
  PROVE  IsPrefix(upstream[c], Data(c))
<1>1. Said(c) \in Seq(Unit) /\ HeadOf(c) \in Nat /\ Len(Said(c)) \in Nat /\ Len(Said(c)) \in 0 .. Len(Said(c))
  <2>1. Said(c) \in Text /\ HeadOf(c) \in 0 .. Len(Said(c)) /\ Len(Said(c)) \in Nat
    BY Speaks
  <2> QED BY <2>1 DEF Text
<1>2. Data(c) = SubSeq(Said(c), HeadOf(c) + 1, Len(Said(c)))
  BY DEF Data, HeadOf
<1>3. CASE upstream[c] = <<>>
  <2>1. Data(c) \in Seq(Unit)
    BY <1>1, <1>2, Part
  <2>2. Len(Data(c)) \in Nat /\ SubSeq(Data(c), 1, 0) = <<>> /\ SubSeq(<<>>, 1, 0) = <<>>
    BY <2>1, SubSeqEmpty
  <2>3. Len(<<>>) = 0
    OBVIOUS
  <2> QED BY <1>3, <2>2, <2>3 DEF IsPrefix
<1>4. CASE taken[c] >= HeadOf(c) /\ upstream[c] = SubSeq(Said(c), HeadOf(c) + 1, taken[c])
  <2>1. taken[c] \in 0 .. Len(Said(c)) /\ HeadOf(c) <= taken[c]
    BY <1>1, <1>4 DEF Typed, Counted
  <2>2. IsPrefix(SubSeq(Said(c), HeadOf(c) + 1, taken[c]), SubSeq(Said(c), HeadOf(c) + 1, Len(Said(c))))
    BY <1>1, <2>1, PartPrefix
  <2> QED BY <1>2, <1>4, <2>2
<1> QED BY <1>3, <1>4

(* The rewritten request is a text, and not empty. *)
LEMMA RewrittenText ==
  ASSUME Typed, NEW c \in Clients
  PROVE  Rewritten(c) \in Text /\ Rewritten(c) # <<>>
<1> DEFINE lines == headers[c]
           Kept_(h) == IF h[1] = "proxy-" THEN <<>> ELSE h
           kept == [k \in DOMAIN lines |-> Kept_(lines[k])]
           host == IF \E k \in DOMAIN lines : lines[k][1] = "host" THEN <<>> ELSE <<"host">>
           start == <<"GET", "path">>
           rest == FlattenSeq(kept)
<1>1. lines \in Seq(Text) /\ DOMAIN lines = 1 .. Len(lines) /\ Len(lines) \in Nat
  BY DEF Typed
<1>2. rest \in Seq(Unit)
  <2>1. \A k \in 1 .. Len(lines) : kept[k] \in Seq(Unit)
    <3> TAKE k \in 1 .. Len(lines)
    <3>1. lines[k] \in Seq(Unit) /\ <<>> \in Seq(Unit)
      BY <1>1, ElementOfSeq DEF Text
    <3> QED BY <1>1, <3>1
  <2>2. kept = [k \in 1 .. Len(lines) |-> kept[k]]
    BY <1>1
  <2>3. kept \in Seq(Seq(Unit))
    <3> DEFINE T == Seq(Unit)
               n == Len(lines)
    <3>1. n \in Nat /\ kept = [k \in 1 .. n |-> kept[k]] /\ \A k \in 1 .. n : kept[k] \in T
      BY <1>1, <2>1, <2>2
    <3> HIDE DEF kept, T, n
    <3>2. kept \in Seq(T)
      BY <3>1
    <3> QED BY <3>2 DEF T
  <2> HIDE DEF kept
  <2> QED BY <2>3, Flattened
<1>3. start \in Seq(Unit) /\ host \in Seq(Unit) /\ <<"close">> \in Seq(Unit)
  <2>1. "GET" \in Unit /\ "path" \in Unit /\ "host" \in Unit /\ "close" \in Unit
    BY DEF Unit
  <2> QED BY <2>1
<1>4. Rewritten(c) = ((start \o rest) \o host) \o <<"close">>
  BY DEF Rewritten
<1> HIDE DEF rest, start, host
<1>5. (start \o rest) \o host \in Seq(Unit)
  BY <1>2, <1>3, ConcatProperties
<1> DEFINE front == (start \o rest) \o host
<1> HIDE DEF front
<1>6. front \o <<"close">> \in Seq(Unit) /\ Len(front \o <<"close">>) = Len(front) + 1 /\ Len(front) \in Nat
  BY <1>3, <1>5, ConcatProperties DEF front
<1>7. front \o <<"close">> # <<>>
  <2>1. Len(front) + 1 # 0
    BY <1>6
  <2> QED BY <1>6, <2>1
<1> QED BY <1>4, <1>6, <1>7 DEF front, Text

(* Resolve keeps the invariant: a name that is not found is remembered. *)
LEMMA ResolveKeeps ==
  ASSUME Typed, NEW c \in Clients, Good(c), Resolve(c)
  PROVE  Local(c) /\ Good(c)'
<1>1. /\ mode' = mode /\ script' = script /\ arrived' = arrived /\ shut' = shut /\ taken' = taken
      /\ parsed' = parsed /\ first' = first /\ headers' = headers /\ told' = told /\ upstream' = upstream
      /\ at[c] = "resolve" /\ at[c] \notin Over
  BY DEF Resolve, inputs, net, http, Over
<1>2. \/ Goto(c, "connect") /\ unresolved' = unresolved
      \/ Close(c) /\ unresolved' = unresolved /\ "bad port" \in Range(Said(c))
      \/ Close(c) /\ unresolved' = unresolved \cup {c}
  BY DEF Resolve
<1>3. ASSUME NEW place \in Places, Goto(c, place)
      PROVE  Local(c) /\ at'[c] = place
  <2>1. at' \in [Clients -> Places] /\ at'[c] = place /\ \A d \in Clients \ {c} : at'[d] = at[d]
    BY <1>3 DEF Goto, Typed
  <2>2. Typed'
    BY <1>1, <2>1 DEF Typed
  <2>3. \A d \in Clients \ {c} : (d \in unresolved') = (d \in unresolved)
    <3>1. unresolved' = unresolved \/ unresolved' = unresolved \cup {c}
      BY <1>2
    <3> QED BY <3>1
  <2>4. \A d \in Clients \ {c} : Same(d)
    BY <1>1, <2>1, <2>3 DEF Same
  <2> QED BY <1>1, <2>1, <2>2, <2>4 DEF Local
<1>4. Counted(c)'
  BY <1>1 DEF Good, Counted, Said
<1>5. CASE Goto(c, "connect") /\ unresolved' = unresolved
  <2>1. Local(c) /\ at'[c] = "connect"
    <3>1. "connect" \in Places
      BY DEF Places
    <3> QED BY <1>3, <1>5, <3>1
  <2>2. Unsaid(c)'
    BY <1>1 DEF Good, Unsaid
  <2>3. Waits(c)'
    BY <1>1 DEF Good, Waits, Patient, Proto, HeadOf
  <2>4. Placed(c)'
    BY <1>1, <2>1 DEF Good, Placed, Proto, HeadOf, Before, Socks, Http
  <2>5. Reading(c)'
    BY <2>1 DEF Reading
  <2>6. Whole(c)' = Whole(c)
    BY <1>1 DEF Whole, Patient, CutAtLineEnd, Said, Proto
  <2>7. Begun(c)'
    BY <1>1, <2>1, <2>6 DEF Good, Begun, HeadOf
  <2>8. Relayed(c)' /\ Ended(c)'
    BY <2>1 DEF Relayed, Ended
  <2> QED BY <1>4, <2>1, <2>2, <2>3, <2>4, <2>5, <2>7, <2>8 DEF Good
<1>6. CASE Close(c) /\ Excused(c)'
  <2>1. Local(c) /\ at'[c] = "closed"
    <3>1. "closed" \in Places /\ Goto(c, "closed")
      BY <1>6 DEF Places, Over, Close
    <3> QED BY <1>3, <3>1
  <2> QED BY <1>1, <1>4, <1>6, <2>1, Closes DEF Local
<1>7. ASSUME unresolved' = unresolved, "bad port" \in Range(Said(c)) PROVE Excused(c)'
  <2>1. "bad port" \in Flaws
    BY DEF Flaws
  <2>2. PICK i \in DOMAIN Said(c) : Said(c)[i] = "bad port"
    BY <1>7 DEF Range
  <2>3. Excused(c)
    BY <2>1, <2>2, FlawExcuses
  <2> QED BY <1>1, <1>7, <2>3 DEF Excused, Proto, Said
<1>8. ASSUME unresolved' = unresolved \cup {c} PROVE Excused(c)'
  BY <1>8 DEF Excused
<1> QED BY <1>2, <1>5, <1>6, <1>7, <1>8

(* Connect keeps the invariant: the relay begins behind the request. *)
LEMMA ConnectKeeps ==
  ASSUME Typed, NEW c \in Clients, Good(c), Connect(c)
  PROVE  Local(c) /\ Good(c)'
<1>1. /\ mode' = mode /\ script' = script /\ arrived' = arrived /\ shut' = shut /\ taken' = taken
      /\ parsed' = parsed /\ first' = first /\ headers' = headers /\ unresolved' = unresolved
      /\ at[c] = "connect" /\ at[c] \notin Over
  BY DEF Connect, inputs, net, http, Over
<1>2. Counted(c)'
  BY <1>1 DEF Good, Counted, Said
<1>3. taken' \in [Clients -> Nat] /\ \A d \in Clients \ {c} : taken'[d] = taken[d]
  BY <1>1 DEF Typed
<1>4. ASSUME upstream' = upstream PROVE UNCHANGED <<inputs, net, http, out>>
  BY <1>1, <1>4 DEF inputs, net, http, out
<1>5. CASE Refuse(c) /\ upstream' = upstream
  BY <1>1, <1>2, <1>3, <1>4, <1>5, Refused
<1>6. CASE Silently(c) /\ upstream' = upstream /\ (Proto(c) = "direct" \/ Eof(c))
  <2>1. Excused(c)
    BY <1>6 DEF Excused, Eof
  <2> QED BY <1>1, <1>2, <1>3, <1>4, <1>6, <2>1, Silenced
<1>7. CASE /\ Goto(c, "relay")
           /\ IF Proto(c) \in {"forward", "direct"} THEN UNCHANGED told ELSE Tell(c, "success")
           /\ upstream' = [upstream EXCEPT ![c] = IF Proto(c) = "forward" THEN Rewritten(c) ELSE <<>>]
  <2>1. at' \in [Clients -> Places] /\ at'[c] = "relay" /\ \A d \in Clients \ {c} : at'[d] = at[d]
    <3>1. "relay" \in Places
      BY DEF Places, Over
    <3> QED BY <1>7, <3>1 DEF Goto, Typed
  <2> DEFINE request == IF Proto(c) = "forward" THEN Rewritten(c) ELSE <<>>
  <2>2. request \in Text
    <3>1. <<>> \in Text
      BY DEF Text
    <3> QED BY <3>1, RewrittenText
  <2>3. (Proto(c) = "forward" => request # <<>>) /\ (Proto(c) # "forward" => request = <<>>)
    BY RewrittenText
  <2>4. upstream' = [upstream EXCEPT ![c] = request]
    BY <1>7
  <2> HIDE DEF request
  <2>5. upstream' \in [Clients -> Text] /\ upstream'[c] = request
        /\ \A d \in Clients \ {c} : upstream'[d] = upstream[d]
    BY <2>2, <2>4 DEF Typed
  <2>6. /\ told' \in [Clients -> Text] /\ \A d \in Clients \ {c} : told'[d] = told[d]
        /\ Proto(c) \notin {"forward", "direct"} => \E i \in DOMAIN told'[c] : told'[c][i] = "success"
    <3>1. CASE Proto(c) \in {"forward", "direct"}
      <4>1. told' = told
        BY <1>7, <3>1
      <4> QED BY <3>1, <4>1 DEF Typed
    <3>2. CASE Proto(c) \notin {"forward", "direct"}
      <4> DEFINE text == Append(told[c], "success")
      <4>1. "success" \in Unit
        BY DEF Unit
      <4>2. text \in Text /\ \E i \in DOMAIN text : text[i] = "success"
        BY <4>1, Telling
      <4>3. told' = [told EXCEPT ![c] = text]
        BY <1>7, <3>2 DEF Tell
      <4> HIDE DEF text
      <4>4. told' \in [Clients -> Text] /\ told'[c] = text /\ \A d \in Clients \ {c} : told'[d] = told[d]
        BY <4>2, <4>3 DEF Typed
      <4> QED BY <4>2, <4>4
    <3> QED BY <3>1, <3>2
  <2>7. Local(c)
    <3>1. Typed'
      BY <1>1, <2>1, <2>5, <2>6 DEF Typed
    <3>2. \A d \in Clients \ {c} : Same(d)
      BY <1>1, <2>1, <2>5, <2>6 DEF Same
    <3> QED BY <1>1, <3>1, <3>2 DEF Local
  <2>8. Unsaid(c)' /\ Waits(c)' /\ Placed(c)' /\ Reading(c)' /\ Begun(c)'
    BY <2>1 DEF Unsaid, Waits, Placed, Reading, Begun, Over, Before, Socks, Http
  <2>9. Relayed(c)'
    <3>1. at'[c] # "closed"
      BY <2>1
    <3>2. Exact(c)' = Exact(c) /\ HeadOf(c)' = HeadOf(c) /\ Said(c)' = Said(c)
      BY <1>1 DEF Exact, Whole, Patient, CutAtLineEnd, Said, Proto, HeadOf
    <3>3. Said(c) \in Seq(Unit) /\ HeadOf(c) \in Nat
      <4>1. Said(c) \in Text /\ HeadOf(c) \in 0 .. Len(Said(c))
        BY Speaks
      <4> QED BY <4>1 DEF Text
    <3>4. HeadOf(c) >= HeadOf(c) /\ SubSeq(Said(c), HeadOf(c) + 1, HeadOf(c)) = <<>>
      BY <3>3, SubSeqEmpty
    <3>5. ASSUME Exact(c)
          PROVE  /\ Proto(c) # "forward"
                 /\ taken[c] = HeadOf(c) \/ (c \in shut /\ taken[c] = arrived[c])
      <4>1. CASE Proto(c) \in {"socks4", "socks5", "direct"}
        BY <1>1, <4>1 DEF Good, Placed
      <4>2. CASE Whole(c)
        BY <1>1, <4>2 DEF Good, Begun, Whole, Patient
      <4> QED BY <3>5, <4>1, <4>2 DEF Exact
    <3>6. ASSUME Exact(c)
          PROVE  \/ upstream'[c] = <<>> /\ c \in shut' /\ taken'[c] = arrived'[c]
                 \/ taken'[c] >= HeadOf(c) /\ upstream'[c] = SubSeq(Said(c), HeadOf(c) + 1, taken'[c])
      <4>1. upstream'[c] = <<>>
        BY <2>3, <2>5, <3>5, <3>6
      <4>2. CASE taken[c] = HeadOf(c)
        BY <1>1, <3>4, <4>1, <4>2
      <4>3. CASE c \in shut /\ taken[c] = arrived[c]
        BY <1>1, <4>1, <4>3
      <4> QED BY <3>5, <3>6, <4>2, <4>3
    <3> QED BY <3>1, <3>2, <3>6 DEF Relayed
  <2>10. Ended(c)'
    <3>1. Proto(c)' = Proto(c)
      BY <1>1 DEF Proto
    <3>2. CASE Proto(c) = "forward"
      <4>1. upstream'[c] # <<>>
        BY <2>3, <2>5, <3>2
      <4> QED BY <2>1, <4>1 DEF Ended, Answered
    <3>3. CASE Proto(c) = "direct"
      BY <2>1, <3>1, <3>3 DEF Ended
    <3>4. CASE Proto(c) \notin {"forward", "direct"}
      <4>1. \E i \in DOMAIN told'[c] : told'[c][i] = "success"
        BY <2>6, <3>4
      <4> QED BY <2>1, <4>1 DEF Ended, Answered
    <3> QED BY <3>2, <3>3, <3>4
  <2> QED BY <1>2, <2>7, <2>8, <2>9, <2>10 DEF Good
<1> QED BY <1>5, <1>6, <1>7 DEF Connect

(* RelayOne keeps the invariant. *)
LEMMA RelayOneKeeps ==
  ASSUME Typed, NEW c \in Clients, Good(c), RelayOne(c)
  PROVE  Local(c) /\ Good(c)'
<1>1. /\ mode' = mode /\ script' = script /\ arrived' = arrived /\ shut' = shut /\ at' = at
      /\ parsed' = parsed /\ first' = first /\ headers' = headers /\ told' = told
      /\ unresolved' = unresolved /\ at[c] = "relay"
  BY DEF RelayOne, inputs, net, http
<1>2. Said(c) \in Seq(Unit) /\ HeadOf(c) \in Nat /\ Len(Said(c)) \in Nat
  <2>1. Said(c) \in Text /\ HeadOf(c) \in 0 .. Len(Said(c))
    BY Speaks
  <2> QED BY <2>1 DEF Text
<1>3. taken[c] \in Nat /\ arrived[c] \in Nat /\ parsed[c] \in Nat
      /\ taken[c] < arrived[c] /\ taken[c] + 1 <= Len(Said(c)) /\ taken[c] + 1 \in 1 .. Len(Said(c))
  BY <1>2 DEF RelayOne, Typed, Good, Counted
<1>4. taken' \in [Clients -> Nat] /\ taken'[c] = taken[c] + 1 /\ \A d \in Clients \ {c} : taken'[d] = taken[d]
  BY <1>3 DEF RelayOne, Typed
<1> DEFINE u == Said(c)[taken[c] + 1]
           text == Append(upstream[c], u)
<1>5. u \in Unit
  BY <1>2, <1>3, ElementOfSeq
<1>6. upstream' = [upstream EXCEPT ![c] = text] /\ upstream[c] \in Seq(Unit)
  BY DEF RelayOne, Typed, Text
<1> HIDE DEF u
<1>7. text \in Text /\ text # <<>>
  <2>1. Len(text) = Len(upstream[c]) + 1 /\ Len(upstream[c]) \in Nat /\ text \in Seq(Unit)
    BY <1>5, <1>6
  <2> HIDE DEF text
  <2>2. Len(text) # 0
    BY <2>1
  <2>3. text # <<>>
    BY <2>2
  <2> QED BY <2>1, <2>3 DEF Text
<1> HIDE DEF text
<1>8. upstream' \in [Clients -> Text] /\ upstream'[c] = text /\ \A d \in Clients \ {c} : upstream'[d] = upstream[d]
  BY <1>6, <1>7 DEF Typed
<1>9. Local(c)
  <2>1. Typed'
    BY <1>1, <1>4, <1>8 DEF Typed
  <2>2. \A d \in Clients \ {c} : Same(d)
    BY <1>1, <1>4, <1>8 DEF Same
  <2> QED BY <1>1, <2>1, <2>2 DEF Local
<1>10. Counted(c)'
  <2>1. arrived[c] <= Len(Said(c)) /\ taken[c] + 1 <= arrived[c] /\ parsed[c] <= taken[c] + 1
    BY <1>3 DEF Good, Counted
  <2> QED BY <1>1, <1>4, <2>1 DEF Counted, Said
<1>11. Unsaid(c)' /\ Waits(c)' /\ Placed(c)' /\ Reading(c)' /\ Begun(c)'
  BY <1>1 DEF Unsaid, Waits, Placed, Reading, Begun, Over, Before, Socks, Http
<1>12. Relayed(c)'
  <2>1. Exact(c)' = Exact(c) /\ HeadOf(c)' = HeadOf(c) /\ Said(c)' = Said(c)
    BY <1>1 DEF Exact, Whole, Patient, CutAtLineEnd, Said, Proto, HeadOf
  <2>2. ASSUME Exact(c)
        PROVE  taken'[c] >= HeadOf(c) /\ upstream'[c] = SubSeq(Said(c), HeadOf(c) + 1, taken'[c])
    <3>1. taken[c] # arrived[c]
      BY <1>3
    <3>2. taken[c] >= HeadOf(c) /\ upstream[c] = SubSeq(Said(c), HeadOf(c) + 1, taken[c])
      BY <1>1, <2>2, <3>1 DEF Good, Relayed
    <3>3. HeadOf(c) <= taken[c] /\ taken[c] + 1 >= HeadOf(c)
      BY <1>2, <1>3, <3>2
    <3>4. SubSeq(Said(c), HeadOf(c) + 1, taken[c] + 1) = Append(upstream[c], u)
      <4>1. PICK m \in Nat : m = HeadOf(c)
        BY <1>2
      <4>2. PICK n \in Nat : n = taken[c]
        BY <1>3
      <4>3. m <= n /\ n + 1 <= Len(Said(c))
        BY <1>3, <3>3, <4>1, <4>2
      <4>4. SubSeq(Said(c), m + 1, n + 1) = Append(SubSeq(Said(c), m + 1, n), Said(c)[n + 1])
        BY <1>2, <4>3, PartGrows
      <4> QED BY <3>2, <4>1, <4>2, <4>4 DEF u
    <3> QED BY <1>4, <1>8, <3>3, <3>4 DEF text
  <2> QED BY <1>1, <2>1, <2>2 DEF Relayed
<1>13. Ended(c)'
  BY <1>1, <1>7, <1>8 DEF Ended, Answered
<1> QED BY <1>9, <1>10, <1>11, <1>12, <1>13 DEF Good

(* RelayEnds keeps the invariant. *)
LEMMA RelayEndsKeeps ==
  ASSUME Typed, NEW c \in Clients, Good(c), RelayEnds(c)
  PROVE  Local(c) /\ Good(c)'
<1>1. /\ mode' = mode /\ script' = script /\ arrived' = arrived /\ shut' = shut /\ taken' = taken
      /\ parsed' = parsed /\ first' = first /\ headers' = headers /\ told' = told /\ upstream' = upstream
      /\ unresolved' = unresolved /\ at[c] = "relay"
  BY DEF RelayEnds, inputs, net, http, out
<1>2. at' \in [Clients -> Places] /\ at'[c] = "closed" /\ \A d \in Clients \ {c} : at'[d] = at[d]
  <2>1. "closed" \in Places
    BY DEF Places, Over
  <2> QED BY <2>1 DEF RelayEnds, Close, Goto, Typed
<1>3. Local(c)
  <2>1. Typed'
    BY <1>1, <1>2 DEF Typed
  <2>2. \A d \in Clients \ {c} : Same(d)
    BY <1>1, <1>2 DEF Same
  <2> QED BY <1>1, <2>1, <2>2 DEF Local
<1>4. Counted(c)'
  BY <1>1 DEF Good, Counted, Said
<1>5. Unsaid(c)' /\ Waits(c)' /\ Placed(c)' /\ Reading(c)' /\ Begun(c)'
  BY <1>2 DEF Unsaid, Waits, Placed, Reading, Begun, Over, Before, Socks, Http
<1>6. Relayed(c)'
  <2>1. Exact(c)' = Exact(c) /\ Data(c)' = Data(c)
    BY <1>1 DEF Exact, Whole, Patient, CutAtLineEnd, Data, Said, Proto
  <2>2. ASSUME Exact(c) PROVE IsPrefix(upstream[c], Data(c))
    <3>1. Counted(c)
      BY DEF Good
    <3>2. upstream[c] = <<>> \/
         (taken[c] >= HeadOf(c) /\ upstream[c] = SubSeq(Said(c), HeadOf(c) + 1, taken[c]))
      BY <1>1, <2>2 DEF Good, Relayed
    <3> QED BY <3>1, <3>2, RelayedData
  <2>3. Exact(c)' => IsPrefix(upstream'[c], Data(c)')
    BY <1>1, <2>1, <2>2
  <2> QED BY <1>2, <2>3 DEF Relayed
<1>7. Ended(c)'
  <2>1. Excused(c)' = Excused(c) /\ Answered(c)' = Answered(c)
    BY <1>1 DEF Excused, Answered, Proto, Said
  <2>2. Excused(c) \/ Answered(c)
    BY <1>1 DEF Good, Ended, Excused
  <2> QED BY <1>2, <2>1, <2>2 DEF Ended
<1> QED BY <1>3, <1>4, <1>5, <1>6, <1>7 DEF Good

-----------------------------------------------------------------------------
(* The requests of HTTP.                                                    *)

(* What a read of a request changes, of the connection it is made on. *)
ReadBy(c) ==
  /\ UNCHANGED <<inputs, net, out>>
  /\ taken' \in [Clients -> Nat] /\ parsed' \in [Clients -> Nat] /\ first' \in [Clients -> Nat]
  /\ \A d \in Clients \ {c} : taken'[d] = taken[d] /\ parsed'[d] = parsed[d] /\ first'[d] = first[d]

(* Such a step, with where it leads and what it tells. *)
LEMMA HttpStep ==
  ASSUME Typed, NEW c \in Clients, NEW place \in Places, NEW text \in Text, ReadBy(c),
         headers' \in [Clients -> Seq(Text)], Goto(c, place), told' = [told EXCEPT ![c] = text]
  PROVE  /\ Local(c) /\ at'[c] = place /\ told'[c] = text /\ upstream' = upstream
         /\ script' = script /\ mode' = mode /\ arrived' = arrived /\ shut' = shut
<1>1. /\ mode' = mode /\ script' = script /\ arrived' = arrived /\ shut' = shut
      /\ upstream' = upstream /\ unresolved' = unresolved
  BY DEF ReadBy, inputs, net, out
<1>2. at' \in [Clients -> Places] /\ at'[c] = place /\ \A d \in Clients \ {c} : at'[d] = at[d]
  BY DEF Goto, Typed
<1>3. told' \in [Clients -> Text] /\ told'[c] = text /\ \A d \in Clients \ {c} : told'[d] = told[d]
  BY DEF Typed
<1>4. Typed'
  BY <1>1, <1>2, <1>3 DEF Typed, ReadBy
<1>5. \A d \in Clients \ {c} : Same(d)
  BY <1>1, <1>2, <1>3 DEF Same, ReadBy
<1> QED BY <1>1, <1>2, <1>3, <1>4, <1>5 DEF Local

(* A request of which more is read, or whose target is looked for. *)
LEMMA HttpGoes ==
  ASSUME Typed, NEW c \in Clients, Good(c), at[c] \in Http, ReadBy(c), Counted(c)',
         NEW place \in {"line", "headers", "resolve"}, Proceed(c, place),
         headers' \in [Clients -> Seq(Text)],
         at'[c] = "headers" => Reading(c)', at'[c] = "resolve" => Begun(c)'
  PROVE  Local(c) /\ Good(c)'
<1>1. told[c] \in Text /\ told' = [told EXCEPT ![c] = told[c]] /\ Goto(c, place)
  BY DEF Proceed, Typed
<1>2. place \in Places
  BY DEF Places, Http
<1> DEFINE text == told[c]
<1> HIDE DEF text
<1>3. /\ Local(c) /\ at'[c] = place /\ told'[c] = text /\ upstream' = upstream
      /\ script' = script /\ mode' = mode /\ arrived' = arrived /\ shut' = shut
  <2>1. text \in Text /\ told' = [told EXCEPT ![c] = text]
    BY <1>1 DEF text
  <2> QED BY <1>1, <1>2, <2>1, HttpStep
<1>4. at[c] \notin Over /\ mode = "socks" /\ Proto(c) \in {"connect", "forward"}
  BY DEF Good, Placed, Http, Over
<1>5. Unsaid(c)'
  BY <1>3, <1>4 DEF Good, Unsaid, text
<1>6. Waits(c)'
  BY <1>3, <1>4 DEF Good, Waits, Patient, Proto, HeadOf
<1>7. Placed(c)'
  <2>1. Proto(c)' = Proto(c)
    BY <1>3 DEF Proto
  <2> QED BY <1>3, <1>4, <2>1 DEF Placed, Before, Socks, Http
<1>8. Reading(c)' /\ Begun(c)'
  BY <1>3 DEF Reading, Begun
<1>9. Relayed(c)' /\ Ended(c)'
  BY <1>3 DEF Relayed, Ended
<1> QED BY <1>3, <1>5, <1>6, <1>7, <1>8, <1>9 DEF Good

(* The text of the first n units. *)
LEMMA Beginning ==
  ASSUME Typed, NEW c \in Clients, NEW n \in 0 .. Len(Said(c))
  PROVE  /\ SubSeq(Said(c), 1, n) \in Text /\ Len(SubSeq(Said(c), 1, n)) = n
         /\ \A i \in 1 .. n : SubSeq(Said(c), 1, n)[i] = Said(c)[i]
<1>1. Said(c) \in Seq(Unit) /\ Len(Said(c)) \in Nat /\ n \in Nat
  <2>1. Said(c) \in Text /\ Len(Said(c)) \in Nat
    BY Speaks
  <2> QED BY <2>1 DEF Text
<1>2. /\ SubSeq(Said(c), 0 + 1, n) \in Seq(Unit)
      /\ Len(SubSeq(Said(c), 0 + 1, n)) = IF 0 < n THEN n - 0 ELSE 0
      /\ \A i \in 1 .. n - 0 : SubSeq(Said(c), 0 + 1, n)[i] = Said(c)[0 + i]
  <2>1. 0 \in Nat
    OBVIOUS
  <2> QED BY <1>1, <2>1, Part
<1>3. (IF 0 < n THEN n - 0 ELSE 0) = n /\ n - 0 = n /\ 0 + 1 = 1 /\ \A i \in 1 .. n : 0 + i = i
  BY <1>1
<1> QED BY <1>2, <1>3 DEF Text

(* The request line: what it leads to keeps the invariant. *)
LEMMA LineKeeps ==
  ASSUME Typed, NEW c \in Clients, Good(c), at[c] \in Http, ReadBy(c), Counted(c)',
         NEW n \in 0 .. arrived[c], n <= taken'[c], HaveLine(c, SubSeq(Said(c), 1, n)),
         at'[c] = "headers" => Reading(c)'
  PROVE  Local(c) /\ Good(c)'
<1>1. at[c] \notin Over /\ mode = "socks" /\ Proto(c) \in {"connect", "forward"} /\ Counted(c)
  BY DEF Good, Placed, Http, Over
<1>2. mode' = mode /\ script' = script /\ arrived' = arrived /\ shut' = shut /\ upstream' = upstream
  BY DEF ReadBy, inputs, net, out
<1>3. /\ Said(c) \in Text /\ HeadOf(c) \in Nat /\ HeadOf(c) <= Len(Said(c)) /\ Len(Said(c)) \in Nat
      /\ arrived[c] \in Nat /\ n \in Nat /\ n <= arrived[c] /\ n \in 0 .. Len(Said(c))
  <2>1. Said(c) \in Text /\ HeadOf(c) \in 0 .. Len(Said(c)) /\ Len(Said(c)) \in Nat
    BY Speaks
  <2>2. arrived[c] \in Nat /\ arrived[c] <= Len(Said(c))
    BY <1>1 DEF Typed, Counted
  <2> QED BY <2>1, <2>2
<1> DEFINE text == SubSeq(Said(c), 1, n)
           words == LineAt(text, 1)
           remaining == Remaining(text)
<1>4. text \in Text /\ remaining \in Text
  <2>1. text \in Text
    BY <1>3, Beginning
  <2> QED BY <2>1, RemainingText
<1>5. \/ Refuse(c) /\ headers' = headers
      \/ Proto(c) = "connect" /\ HeadersComplete(remaining) /\ Proceed(c, "resolve") /\ headers' = headers
      \/ Proceed(c, "headers") /\ headers' = headers
      \/ /\ Proto(c) # "connect" /\ headers' = [headers EXCEPT ![c] = HeaderLines(remaining)]
         /\ Proceed(c, "resolve") \/ Proceed(c, "headers")
  <2>1. words \in Text
    BY <1>4, Trimmed
  <2>2. Len(words) \in Nat
    BY <2>1 DEF Text
  <2> HIDE DEF text
  <2>3. (CASE Len(words) < 3 -> Refuse(c) /\ headers' = headers
          [] Len(words) >= 3 /\ Proto(c) = "connect" ->
               Proceed(c, IF HeadersComplete(remaining) THEN "resolve" ELSE "headers") /\ headers' = headers
          [] OTHER ->
               /\ headers' = [headers EXCEPT ![c] = HeaderLines(remaining)]
               /\ Proceed(c, IF Blank(remaining) # {} THEN "resolve" ELSE "headers"))
    BY DEF HaveLine, text
  <2> DEFINE l == Len(words)
             r == remaining
  <2> HIDE DEF l, r
  <2>4. l \in Nat
    BY <2>2 DEF l
  <2>5. (CASE l < 3 -> Refuse(c) /\ headers' = headers
          [] l >= 3 /\ Proto(c) = "connect" ->
               Proceed(c, IF HeadersComplete(r) THEN "resolve" ELSE "headers") /\ headers' = headers
          [] OTHER ->
               /\ headers' = [headers EXCEPT ![c] = HeaderLines(r)]
               /\ Proceed(c, IF Blank(r) # {} THEN "resolve" ELSE "headers"))
    BY <2>3 DEF l, r
  <2>6. l < 3 \/ l >= 3
    BY <2>4
  <2>8. ~ (l < 3 /\ l >= 3)
    BY <2>4
  <2>7. \/ Refuse(c) /\ headers' = headers
        \/ Proto(c) = "connect" /\ HeadersComplete(r) /\ Proceed(c, "resolve") /\ headers' = headers
        \/ Proceed(c, "headers") /\ headers' = headers
        \/ /\ Proto(c) # "connect" /\ headers' = [headers EXCEPT ![c] = HeaderLines(r)]
           /\ Proceed(c, "resolve") \/ Proceed(c, "headers")
    BY <2>5, <2>6, <2>8
  <2> QED BY <2>7 DEF r
<1>6. CASE Refuse(c) /\ headers' = headers
  <2> DEFINE told_ == Append(told[c], "refused")
  <2>1. told_ \in Text /\ \E i \in DOMAIN told_ : told_[i] = "refused"
    <3>1. "refused" \in Unit
      BY DEF Unit
    <3> QED BY <3>1, Telling
  <2>2. told' = [told EXCEPT ![c] = told_] /\ Goto(c, "closed") /\ "closed" \in Places
        /\ headers' \in [Clients -> Seq(Text)]
    BY <1>6 DEF Refuse, Tell, Close, Places, Over, Typed
  <2> HIDE DEF told_
  <2>3. Local(c) /\ at'[c] = "closed" /\ told'[c] = told_
    BY <2>1, <2>2, HttpStep
  <2>4. Answered(c)'
    BY <2>1, <2>3 DEF Answered
  <2> QED BY <1>1, <1>2, <2>3, <2>4, Closes DEF Local
<1>7. CASE Proto(c) = "connect" /\ HeadersComplete(remaining) /\ Proceed(c, "resolve") /\ headers' = headers
  <2>1. headers' \in [Clients -> Seq(Text)] /\ at'[c] = "resolve"
    BY <1>7 DEF Typed, Proceed, Goto
  <2>2. ASSUME Patient(c) PROVE taken'[c] = HeadOf(c)
    <3>1. arrived[c] <= HeadOf(c)
      BY <1>1, <2>2 DEF Good, Waits
    <3>2. n \in 0 .. HeadOf(c) /\ HeadOf(c) \in 0 .. Len(Said(c))
      BY <1>3, <3>1
    <3>3. PICK j \in BlankEnds(script[c]) : j <= n
      <4>1. script[c].said = Said(c) /\ script[c].head = HeadOf(c)
        BY DEF Said, HeadOf
      <4> DEFINE s == script[c]
      <4>2. s.said \in Text /\ s.head \in 0 .. Len(s.said) /\ n \in 0 .. s.head
        BY <1>3, <3>2, <4>1
      <4>3. HeadersComplete(Remaining(SubSeq(s.said, 1, n)))
        BY <1>7, <4>1
      <4> HIDE DEF s
      <4>4. \E j \in BlankEnds(s) : j <= n
        BY <4>2, <4>3, CompleteAtBlank
      <4> QED BY <4>4 DEF s
    <3>4. j = HeadOf(c)
      <4>1. Grammar(script[c])
        BY <1>1, Speaks
      <4> QED BY <1>7, <4>1 DEF Grammar, Proto, HeadOf
    <3>5. taken'[c] <= arrived[c] /\ taken'[c] \in Nat
      BY <1>2 DEF Counted, ReadBy
    <3> QED BY <1>3, <3>1, <3>3, <3>4, <3>5
  <2>3. Begun(c)'
    BY <1>2, <2>2 DEF Begun, Whole, Patient, Proto, HeadOf
  <2> QED BY <1>7, <2>1, <2>3, HttpGoes
<1>8. CASE Proceed(c, "headers") /\ headers' = headers
  <2>1. headers' \in [Clients -> Seq(Text)] /\ at'[c] = "headers"
    BY <1>8 DEF Typed, Proceed, Goto
  <2> QED BY <1>8, <2>1, HttpGoes
<1>9. CASE /\ Proto(c) # "connect" /\ headers' = [headers EXCEPT ![c] = HeaderLines(remaining)]
           /\ Proceed(c, "resolve") \/ Proceed(c, "headers")
  <2>1. HeaderLines(remaining) \in Seq(Text)
    BY <1>4, HeadersAreTexts
  <2>2. headers' \in [Clients -> Seq(Text)]
    BY <1>9, <2>1 DEF Typed
  <2>3. Begun(c)'
    BY <1>2, <1>9 DEF Begun, Whole, Patient, Proto
  <2> QED BY <1>9, <2>2, <2>3, HttpGoes
<1> QED BY <1>5, <1>6, <1>7, <1>8, <1>9

(* A line ends with the next end of lines, or with all that was said. *)
LEMMA EndOfLine ==
  ASSUME Typed, NEW c \in Clients, Good(c), NEW n \in LineEnd(c)
  PROVE  /\ n \in 0 .. arrived[c]
         /\ \/ /\ n \in parsed[c] + 1 .. arrived[c] /\ Said(c)[n] = "lf"
               /\ \A k \in parsed[c] + 1 .. n - 1 : Said(c)[k] # "lf"
            \/ c \in shut /\ n = arrived[c]
<1>1. arrived[c] \in Nat /\ parsed[c] \in Nat
  BY DEF Typed
<1> DEFINE ends == LineEnds(c, parsed[c])
<1>2. ends \in SUBSET Nat /\ ends \subseteq parsed[c] + 1 .. arrived[c] /\ \A j \in ends : Said(c)[j] = "lf"
  BY <1>1 DEF LineEnds
<1>3. \A j \in parsed[c] + 1 .. arrived[c] : Said(c)[j] = "lf" => j \in ends
  BY DEF LineEnds
<1>4. n \in (IF ends # {} THEN {Min(ends)} ELSE IF Eof(c) THEN {arrived[c]} ELSE {})
  BY DEF LineEnd
<1> HIDE DEF ends
<1>5. CASE ends # {}
  <2>1. n = Min(ends)
    BY <1>4, <1>5
  <2>2. n \in ends /\ \A k \in ends : n <= k
    BY <1>2, <1>5, <2>1, MinOf
  <2>3. n \in parsed[c] + 1 .. arrived[c] /\ n \in 0 .. arrived[c]
    BY <1>1, <1>2, <2>2
  <2>4. ASSUME NEW k \in parsed[c] + 1 .. n - 1 PROVE Said(c)[k] # "lf"
    <3>1. k \in parsed[c] + 1 .. arrived[c] /\ ~ (n <= k)
      BY <1>1, <2>3
    <3> QED BY <1>3, <2>2, <3>1
  <2> QED BY <1>2, <2>2, <2>3, <2>4
<1>6. CASE ends = {}
  <2>1. c \in shut /\ n = arrived[c]
    BY <1>4, <1>6 DEF Eof
  <2> QED BY <1>1, <2>1
<1> QED BY <1>5, <1>6

(* What read_line takes. *)
LEMMA LineTaken ==
  ASSUME Typed, NEW c \in Clients, Good(c), NEW n \in LineEnd(c), ReadLine(c, n),
         UNCHANGED <<inputs, net, out>>, first' = first
  PROVE  /\ ReadBy(c) /\ Counted(c)' /\ parsed'[c] = n /\ first'[c] = first[c] /\ n <= taken'[c]
         /\ taken'[c] <= arrived[c] /\ taken'[c] \in Nat /\ n \in 0 .. arrived[c]
         /\ script' = script /\ shut' = shut /\ arrived' = arrived
<1>1. n \in 0 .. arrived[c]
  BY EndOfLine
<1>2. taken[c] \in Nat /\ arrived[c] \in Nat /\ n \in Nat /\ n <= arrived[c]
      /\ taken[c] <= arrived[c] /\ arrived[c] <= Len(Said(c))
  BY <1>1 DEF Typed, Good, Counted
<1> DEFINE t == IF n > taken[c] THEN arrived[c] ELSE taken[c]
<1>3. t \in Nat /\ n <= t /\ t <= arrived[c]
  BY <1>2
<1>4. taken' = [taken EXCEPT ![c] = t] /\ parsed' = [parsed EXCEPT ![c] = n]
  BY DEF ReadLine
<1> HIDE DEF t
<1>5. taken' \in [Clients -> Nat] /\ taken'[c] = t /\ \A d \in Clients \ {c} : taken'[d] = taken[d]
  BY <1>3, <1>4 DEF Typed
<1>6. parsed' \in [Clients -> Nat] /\ parsed'[c] = n /\ \A d \in Clients \ {c} : parsed'[d] = parsed[d]
  BY <1>2, <1>4 DEF Typed
<1>7. script' = script /\ shut' = shut /\ arrived' = arrived
  BY DEF inputs, net
<1>8. ReadBy(c)
  BY <1>5, <1>6 DEF ReadBy, Typed
<1>9. Counted(c)'
  BY <1>2, <1>3, <1>5, <1>6, <1>7 DEF Counted, Said
<1> QED BY <1>1, <1>3, <1>5, <1>6, <1>7, <1>8, <1>9

(* FirstRead keeps the invariant. *)
LEMMA FirstReadKeeps ==
  ASSUME Typed, NEW c \in Clients, Good(c), FirstRead(c)
  PROVE  Local(c) /\ Good(c)'
<1> DEFINE n == arrived[c]
<1>1. n \in Nat /\ n \in 0 .. arrived[c] /\ n <= Len(Said(c))
  BY DEF Typed, Good, Counted
<1>2. /\ taken' = [taken EXCEPT ![c] = n] /\ parsed' = [parsed EXCEPT ![c] = n]
      /\ first' = [first EXCEPT ![c] = n] /\ UNCHANGED <<inputs, net, out>>
      /\ at[c] = "http" /\ at[c] \in Http
  BY DEF FirstRead, Http
<1>3. /\ taken' \in [Clients -> Nat] /\ parsed' \in [Clients -> Nat] /\ first' \in [Clients -> Nat]
      /\ taken'[c] = n /\ parsed'[c] = n /\ first'[c] = n
      /\ \A d \in Clients \ {c} : taken'[d] = taken[d] /\ parsed'[d] = parsed[d] /\ first'[d] = first[d]
  BY <1>1, <1>2 DEF Typed
<1>4. arrived' = arrived /\ script' = script
  BY <1>2 DEF inputs, net
<1>5. ReadBy(c)
  BY <1>2, <1>3 DEF ReadBy
<1>6. Counted(c)'
  <2>1. taken'[c] <= arrived[c] /\ parsed'[c] <= taken'[c]
    BY <1>1, <1>3
  <2> QED BY <1>1, <1>4, <2>1 DEF Counted, Said
<1>7. CASE LineEnds(c, 0) # {} /\ HaveLine(c, SubSeq(Said(c), 1, n))
  <2>1. PICK j \in 0 + 1 .. n : Said(c)[j] = "lf"
    BY <1>7 DEF LineEnds
  <2>2. j \in 1 .. first'[c]
    BY <1>3, <2>1
  <2>3. Reading(c)'
    BY <1>3, <1>4, <2>1, <2>2 DEF Reading, Said
  <2>4. n <= taken'[c]
    BY <1>1, <1>3
  <2> HIDE DEF n
  <2> QED BY <1>1, <1>2, <1>5, <1>6, <1>7, <2>3, <2>4, LineKeeps
<1>8. CASE Proceed(c, "line") /\ headers' = headers
  <2>1. headers' \in [Clients -> Seq(Text)] /\ at'[c] = "line"
    BY <1>8 DEF Typed, Proceed, Goto
  <2> QED BY <1>2, <1>5, <1>6, <1>8, <2>1, HttpGoes
<1> QED BY <1>7, <1>8 DEF FirstRead

(* RequestLine keeps the invariant. *)
LEMMA RequestLineKeeps ==
  ASSUME Typed, NEW c \in Clients, Good(c), RequestLine(c)
  PROVE  Local(c) /\ Good(c)'
<1>1. /\ at[c] \in Http /\ first' = first /\ UNCHANGED <<inputs, net, out>>
  BY DEF RequestLine, Http
<1>2. PICK n \in LineEnd(c) : ReadLine(c, n) /\ HaveLine(c, SubSeq(Said(c), 1, n))
  BY DEF RequestLine
<1>3. /\ ReadBy(c) /\ Counted(c)' /\ parsed'[c] = n /\ n <= taken'[c] /\ n \in 0 .. arrived[c]
      /\ script' = script /\ shut' = shut /\ arrived' = arrived
  BY <1>1, <1>2, LineTaken
<1>4. \/ n \in parsed[c] + 1 .. arrived[c] /\ Said(c)[n] = "lf"
      \/ c \in shut /\ n = arrived[c]
  BY EndOfLine
<1>5. Reading(c)'
  <2>1. n \in parsed[c] + 1 .. arrived[c] => n > 0
    BY DEF Typed
  <2>2. Said(c)' = Said(c)
    BY <1>3 DEF Said
  <2> QED BY <1>3, <1>4, <2>1, <2>2 DEF Reading
<1> QED BY <1>1, <1>2, <1>3, <1>5, LineKeeps

(* An empty line that begins where a line does, or where the first read ended, *)
(* is the blank one, if the read did not end in front of an end of lines.     *)
LEMMA EmptyIsBlank ==
  ASSUME Typed, NEW c \in Clients, Good(c), at[c] = "headers", Whole(c), NEW n \in parsed[c] + 1 .. arrived[c],
         Said(c)[n] = "lf", \A k \in parsed[c] + 1 .. n - 1 : Said(c)[k] = "cr"
  PROVE  n = HeadOf(c)
<1>1. at[c] \notin Over /\ mode = "socks" /\ Patient(c) /\ Proto(c) = "connect"
  BY DEF Good, Placed, Http, Over, Whole, Patient
<1>2. /\ HeadOf(c) \in Nat /\ arrived[c] \in Nat /\ parsed[c] \in Nat /\ first[c] \in Nat
      /\ arrived[c] <= HeadOf(c) /\ n \in Nat /\ n <= HeadOf(c) /\ parsed[c] < n
  <2>1. HeadOf(c) \in Nat
    <3>1. HeadOf(c) \in 0 .. Len(Said(c))
      BY Speaks
    <3> QED BY <3>1
  <2>2. arrived[c] <= HeadOf(c)
    BY <1>1 DEF Good, Waits
  <2>3. arrived[c] \in Nat /\ parsed[c] \in Nat /\ first[c] \in Nat
    BY DEF Typed
  <2> QED BY <2>1, <2>2, <2>3
<1>3. BlankEnds(script[c]) \subseteq {HeadOf(c)}
  <2>1. Grammar(script[c])
    BY <1>1, Speaks
  <2> QED BY <1>1, <2>1 DEF Grammar, Proto, HeadOf
<1>4. ASSUME parsed[c] > 0, Said(c)[parsed[c]] = "lf" PROVE n = HeadOf(c)
  <2>1. parsed[c] \in 1 .. n - 1 /\ n \in 1 .. HeadOf(c)
    BY <1>2, <1>4
  <2>2. n \in BlankEnds(script[c])
    <3> DEFINE s == script[c]
    <3>1. n \in 1 .. s.head /\ s.said[n] = "lf" /\ s.said[parsed[c]] = "lf"
          /\ \A k \in parsed[c] + 1 .. n - 1 : s.said[k] = "cr"
      BY <1>4, <2>1 DEF Said, HeadOf
    <3> QED BY <2>1, <3>1 DEF BlankEnds
  <2> QED BY <1>3, <2>2
<1>5. ASSUME parsed[c] = first[c], NEW j \in 1 .. first[c], Said(c)[j] = "lf" PROVE n = HeadOf(c)
  <2>1. first[c] > 0
    BY <1>2, <1>5
  <2>2. CASE Said(c)[first[c]] = "lf"
    BY <1>4, <1>5, <2>1, <2>2
  <2>3. CASE Said(c)[first[c]] # "lf"
    <3>1. Said(c)[first[c] + 1] \in {"cr", "lf"}
      <4>1. CASE n = first[c] + 1
        BY <4>1
      <4>2. CASE n # first[c] + 1
        <5>1. first[c] + 1 \in parsed[c] + 1 .. n - 1
          BY <1>2, <1>5, <4>2
        <5> QED BY <5>1
      <4> QED BY <4>1, <4>2
    <3>2. first[c] \notin 1 .. HeadOf(c) - 2
      BY <1>5, <2>3, <3>1 DEF Whole, CutAtLineEnd, HeadOf
    <3>3. first[c] + 1 <= n
      BY <1>2, <1>5
    <3> QED BY <1>2, <2>1, <3>2, <3>3
  <2> QED BY <2>2, <2>3
<1>6. ~ (c \in shut /\ parsed[c] = arrived[c])
  BY <1>2
<1> QED BY <1>4, <1>5, <1>6 DEF Good, Reading

(* HeaderLine keeps the invariant. *)
LEMMA HeaderLineKeeps ==
  ASSUME Typed, NEW c \in Clients, Good(c), HeaderLine(c)
  PROVE  Local(c) /\ Good(c)'
<1>1. at[c] = "headers" /\ at[c] \in Http /\ first' = first /\ UNCHANGED <<inputs, net, out>>
  BY DEF HeaderLine, Http
<1>2. PICK n \in LineEnd(c) :
        LET line == LineAt(SubSeq(Said(c), 1, n), parsed[c] + 1)
        IN /\ ReadLine(c, n)
           /\ IF line = <<>> THEN Proceed(c, "resolve") /\ UNCHANGED headers
              ELSE /\ UNCHANGED <<at, told>>
                   /\ headers' = IF Proto(c) = "connect" THEN headers
                                 ELSE [headers EXCEPT ![c] = Append(@, line)]
  BY DEF HeaderLine
<1> DEFINE text == SubSeq(Said(c), 1, n)
           line == LineAt(text, parsed[c] + 1)
<1>3. /\ ReadBy(c) /\ Counted(c)' /\ parsed'[c] = n /\ first'[c] = first[c] /\ n <= taken'[c]
      /\ taken'[c] <= arrived[c] /\ taken'[c] \in Nat /\ n \in 0 .. arrived[c]
      /\ script' = script /\ shut' = shut /\ arrived' = arrived
  <2>1. ReadLine(c, n)
    BY <1>2
  <2> QED BY <1>1, <2>1, LineTaken
<1>4. /\ n \in 0 .. Len(Said(c)) /\ n \in Nat /\ parsed[c] \in Nat /\ parsed[c] + 1 \in Nat \ {0}
      /\ arrived[c] \in Nat
  BY <1>3 DEF Typed, Good, Counted
<1>5. text \in Text /\ Len(text) = n /\ \A i \in 1 .. n : text[i] = Said(c)[i]
  BY <1>4, Beginning
<1>6. \/ /\ n \in parsed[c] + 1 .. arrived[c] /\ Said(c)[n] = "lf"
         /\ \A k \in parsed[c] + 1 .. n - 1 : Said(c)[k] # "lf"
      \/ c \in shut /\ n = arrived[c]
  BY EndOfLine
<1>7. \/ line = <<>> /\ Proceed(c, "resolve") /\ headers' = headers
      \/ at' = at /\ told' = told /\ (headers' = headers \/ headers' = [headers EXCEPT ![c] = Append(@, line)])
  BY <1>2
<1> HIDE DEF text
<1>8. /\ line \in Text
      /\ line = <<>> => \A j \in parsed[c] + 1 .. n : text[j] = "cr" \/ \E k \in parsed[c] + 1 .. j : text[k] = "lf"
  BY <1>4, <1>5, Trimmed
<1> HIDE DEF line
<1>9. CASE line = <<>> /\ Proceed(c, "resolve") /\ headers' = headers
  <2>1. headers' \in [Clients -> Seq(Text)] /\ at'[c] = "resolve"
    BY <1>9 DEF Typed, Proceed, Goto
  <2>2. ASSUME Whole(c), c \notin shut \/ n # arrived[c] PROVE taken'[c] = HeadOf(c)
    <3>1. /\ n \in parsed[c] + 1 .. arrived[c] /\ Said(c)[n] = "lf"
          /\ \A k \in parsed[c] + 1 .. n - 1 : Said(c)[k] # "lf"
      BY <1>6, <2>2
    <3>2. ASSUME NEW j \in parsed[c] + 1 .. n - 1 PROVE Said(c)[j] = "cr"
      <4>1. j \in parsed[c] + 1 .. n /\ j \in 1 .. n
        BY <1>4
      <4>2. ASSUME NEW k \in parsed[c] + 1 .. j PROVE text[k] # "lf"
        <5>1. k \in parsed[c] + 1 .. n - 1 /\ k \in 1 .. n
          BY <1>4, <4>1
        <5> QED BY <1>5, <3>1, <5>1
      <4> QED BY <1>5, <1>8, <1>9, <4>1, <4>2
    <3>3. n = HeadOf(c)
      BY <1>1, <2>2, <3>1, <3>2, EmptyIsBlank
    <3>4. arrived[c] <= HeadOf(c)
      BY <1>1, <2>2 DEF Good, Waits, Whole, Over
    <3> QED BY <1>3, <1>4, <3>3, <3>4
  <2>3. ASSUME n = arrived[c] PROVE taken'[c] = arrived[c]
    BY <1>3, <1>4, <2>3
  <2>4. Whole(c)' = Whole(c) /\ HeadOf(c)' = HeadOf(c)
    BY <1>3 DEF Whole, Patient, CutAtLineEnd, Proto, Said, HeadOf
  <2>5. Begun(c)'
    <3>1. ASSUME Whole(c) PROVE taken'[c] = HeadOf(c) \/ (c \in shut /\ taken'[c] = arrived[c])
      BY <2>2, <2>3, <3>1
    <3> QED BY <1>3, <2>4, <3>1 DEF Begun
  <2> QED BY <1>1, <1>3, <1>9, <2>1, <2>5, HttpGoes
<1>10. CASE at' = at /\ told' = told /\ (headers' = headers \/ headers' = [headers EXCEPT ![c] = Append(@, line)])
  <2>1. Append(headers[c], line) \in Seq(Text)
    <3>1. headers[c] \in Seq(Text)
      BY DEF Typed
    <3> QED BY <1>8, <3>1, AppendProperties
  <2>2. headers' \in [Clients -> Seq(Text)]
    BY <1>10, <2>1 DEF Typed
  <2>3. at'[c] = "headers" /\ Proceed(c, "headers")
    BY <1>1, <1>10 DEF Typed, Proceed, Goto
  <2>4. Reading(c)'
    <3>1. n \in parsed[c] + 1 .. arrived[c] => n > 0
      BY <1>4
    <3>2. Said(c)' = Said(c)
      BY <1>3 DEF Said
    <3> QED BY <1>3, <1>6, <3>1, <3>2 DEF Reading
  <2> QED BY <1>1, <1>3, <2>2, <2>3, <2>4, HttpGoes
<1> QED BY <1>7, <1>9, <1>10

-----------------------------------------------------------------------------
(* The theorems.                                                            *)

(* Nothing is taken, told or sent at first. *)
LEMMA InitInv ==
  ASSUME Init
  PROVE  Inv
<1>1. <<>> \in Text /\ <<>> \in Seq(Text)
  BY DEF Text
<1>2. Typed
  <2>1. mode \in {"socks", "transparent"} /\ at \in [Clients -> Places]
    BY DEF Init, Places, Before
  <2>2. script \in [Clients -> Script]
        /\ \A c \in Clients : IF mode = "socks" THEN Grammar(script[c]) ELSE script[c] = Direct
    <3>1. ASSUME NEW c \in Clients
          PROVE  script[c] \in Script /\ IF mode = "socks" THEN Grammar(script[c]) ELSE script[c] = Direct
      <4>1. script[c] \in (IF mode = "socks" THEN Scripts[c] ELSE {Direct})
        BY DEF Init
      <4>2. Scripts[c] \subseteq Script /\ \A s \in Scripts[c] : Grammar(s)
        BY FrontendAssumption
      <4>3. Direct \in Script
        BY FrontendAssumption
      <4> QED BY <4>1, <4>2, <4>3
    <3>2. script = [c \in Clients |-> script[c]]
      BY DEF Init
    <3> QED BY <3>1, <3>2
  <2>3. /\ arrived \in [Clients -> Nat] /\ taken \in [Clients -> Nat]
        /\ parsed \in [Clients -> Nat] /\ first \in [Clients -> Nat]
    BY DEF Init
  <2>4. headers \in [Clients -> Seq(Text)] /\ told \in [Clients -> Text] /\ upstream \in [Clients -> Text]
    BY <1>1 DEF Init
  <2> QED BY <2>1, <2>2, <2>3, <2>4 DEF Typed
<1>3. ASSUME NEW c \in Clients PROVE Good(c)
  <2>1. /\ at[c] = "waiting" /\ arrived[c] = 0 /\ taken[c] = 0 /\ parsed[c] = 0
        /\ told[c] = <<>> /\ upstream[c] = <<>>
    BY DEF Init
  <2>2. HeadOf(c) \in Nat /\ Len(Said(c)) \in Nat
    <3>1. HeadOf(c) \in 0 .. Len(Said(c)) /\ Len(Said(c)) \in Nat
      BY <1>2, Speaks
    <3> QED BY <3>1
  <2>3. Counted(c)
    BY <2>1, <2>2 DEF Counted
  <2>4. Waits(c)
    BY <2>1, <2>2 DEF Waits
  <2>5. Unsaid(c)
    BY <2>1 DEF Unsaid
  <2>6. Placed(c)
    BY <2>1 DEF Placed, Socks, Http
  <2>7. Reading(c) /\ Begun(c) /\ Relayed(c) /\ Ended(c)
    BY <2>1 DEF Reading, Begun, Relayed, Ended
  <2> QED BY <2>3, <2>4, <2>5, <2>6, <2>7 DEF Good
<1> QED BY <1>2, <1>3 DEF Inv

(* A step of one client keeps the invariant of all. *)
LEMMA LocalInv ==
  ASSUME Inv, NEW c \in Clients, Local(c), Good(c)'
  PROVE  Inv'
<1>1. ASSUME NEW d \in Clients \ {c} PROVE Good(d)'
  <2>1. Good(d) /\ Same(d) /\ mode' = mode /\ script' = script
    BY DEF Inv, Local
  <2> QED BY <2>1, Kept
<1>2. \A d \in Clients : Good(d)'
  BY <1>1
<1> QED BY <1>2 DEF Inv, Local

(* A step that leaves the connections alone keeps the invariant. *)
LEMMA IdleInv ==
  ASSUME Inv, UNCHANGED <<inputs, net, at, taken, http, told, out>>
  PROVE  Inv'
<1>1. /\ mode' = mode /\ script' = script /\ arrived' = arrived /\ shut' = shut /\ at' = at /\ taken' = taken
      /\ parsed' = parsed /\ first' = first /\ headers' = headers /\ told' = told /\ upstream' = upstream
      /\ unresolved' = unresolved
  BY DEF inputs, net, http, out
<1>2. Typed'
  BY <1>1 DEF Inv, Typed
<1>3. ASSUME NEW d \in Clients PROVE Good(d)'
  <2>1. Good(d) /\ Same(d)
    BY <1>1 DEF Inv, Same
  <2> QED BY <1>1, <2>1, Kept
<1> QED BY <1>2, <1>3 DEF Inv

(* The loop gives up a connection, or fails without one. *)
LEMMA AcceptFailsInv ==
  ASSUME Inv, AcceptFails
  PROVE  Inv'
<1>1. UNCHANGED <<inputs, net, taken, http, told, out>>
  BY DEF AcceptFails
<1>2. CASE at' = at
  BY <1>1, <1>2, IdleInv
<1>3. ASSUME NEW c \in shut, at[c] = "waiting", Close(c), c \in Clients PROVE Inv'
  <2>1. Typed /\ Good(c)
    BY <1>3 DEF Inv
  <2> QED BY <1>1, <1>3, <2>1, GivenUpKeeps, LocalInv
<1>4. ASSUME NEW c \in shut, at[c] = "waiting", Close(c), c \notin Clients PROVE at' = at
  BY <1>4 DEF Close, Goto, Inv, Typed
<1> QED BY <1>2, <1>3, <1>4 DEF AcceptFails, AcceptError

(* Every step keeps the invariant. *)
LEMMA NextInv ==
  ASSUME Inv, [Next]_vars
  PROVE  Inv'
<1>1. ASSUME NEW c \in Clients PROVE Typed /\ Good(c)
  BY DEF Inv
<1>2. ASSUME NEW c \in Clients, Accept(c) PROVE Inv'
  BY <1>1, <1>2, AcceptKeeps, LocalInv
<1>3. CASE AcceptFails
  BY <1>3, AcceptFailsInv
<1>4. CASE Resume
  <2>1. UNCHANGED <<inputs, net, at, taken, http, told, out>>
    BY <1>4 DEF Resume
  <2> QED BY <2>1, IdleInv
<1>5. ASSUME NEW c \in Clients, Handshake(c) PROVE Inv'
  <2>1. CASE Peek(c)
    BY <1>1, <2>1, PeekKeeps, LocalInv
  <2>2. CASE Greet(c)
    BY <1>1, <2>2, GreetKeeps, LocalInv
  <2>3. CASE Request(c)
    BY <1>1, <2>3, RequestKeeps, LocalInv
  <2>4. CASE Length(c)
    BY <1>1, <2>4, LengthKeeps, LocalInv
  <2>5. CASE Address(c)
    BY <1>1, <2>5, AddressKeeps, LocalInv
  <2>6. CASE Header4(c)
    BY <1>1, <2>6, Header4Keeps, LocalInv
  <2>7. CASE UserId(c)
    BY <1>1, <2>7, UserIdKeeps, LocalInv
  <2>8. CASE FirstRead(c)
    BY <1>1, <2>8, FirstReadKeeps, LocalInv
  <2>9. CASE RequestLine(c)
    BY <1>1, <2>9, RequestLineKeeps, LocalInv
  <2>10. CASE HeaderLine(c)
    BY <1>1, <2>10, HeaderLineKeeps, LocalInv
  <2>11. CASE Resolve(c)
    BY <1>1, <2>11, ResolveKeeps, LocalInv
  <2>12. CASE Connect(c)
    BY <1>1, <2>12, ConnectKeeps, LocalInv
  <2> QED BY <1>5, <2>1, <2>2, <2>3, <2>4, <2>5, <2>6, <2>7, <2>8, <2>9, <2>10, <2>11, <2>12 DEF Handshake
<1>6. ASSUME NEW c \in Clients, RelayOne(c) PROVE Inv'
  BY <1>1, <1>6, RelayOneKeeps, LocalInv
<1>7. ASSUME NEW c \in Clients, RelayEnds(c) PROVE Inv'
  BY <1>1, <1>7, RelayEndsKeeps, LocalInv
<1>8. ASSUME NEW c \in Clients, Arrive(c) PROVE Inv'
  BY <1>1, <1>8, ArriveKeeps, LocalInv
<1>9. ASSUME NEW c \in Clients, Leave(c) PROVE Inv'
  BY <1>1, <1>9, LeaveKeeps, LocalInv
<1>10. CASE UNCHANGED vars
  <2>1. UNCHANGED <<inputs, net, at, taken, http, told, out>>
    BY <1>10 DEF vars
  <2> QED BY <2>1, IdleInv
<1> QED BY <1>2, <1>3, <1>4, <1>5, <1>6, <1>7, <1>8, <1>9, <1>10 DEF Next, Listener

(* The invariant holds of every reachable state. *)
THEOREM Invariance == Spec => []Inv
<1>1. Init => Inv
  BY InitInv
<1>2. Inv /\ [Next]_vars => Inv'
  BY NextInv
<1> QED BY <1>1, <1>2, PTL DEF Spec

(* What reaches the upstream of a tunnel is a prefix of what the client says  *)
(* behind its request, whatever pieces the request comes in and wherever the  *)
(* dialogue ends: handle_client, handle_socks4 and handle_connect have taken  *)
(* all of the request and nothing behind it when the relay begins.           *)
THEOREM TunnelAlwaysIntact == Spec => []TunnelIntact
<1>1. Inv => TunnelIntact
  <2> SUFFICES ASSUME Inv, NEW c \in Clients,
                      \/ Proto(c) \in {"socks4", "socks5", "direct"}
                      \/ Proto(c) = "connect" /\ ~ script[c].eager /\ ~ CutAtLineEnd(c)
               PROVE  IsPrefix(upstream[c], Data(c))
    BY DEF TunnelIntact
  <2>1. Typed /\ Good(c) /\ Counted(c) /\ Exact(c)
    BY DEF Inv, Good, Exact, Whole, Patient
  <2>2. CASE at[c] = "closed"
    BY <2>1, <2>2 DEF Good, Relayed
  <2>3. CASE at[c] = "relay"
    <3>1. upstream[c] = <<>> \/
          (taken[c] >= HeadOf(c) /\ upstream[c] = SubSeq(Said(c), HeadOf(c) + 1, taken[c]))
      BY <2>1, <2>3 DEF Good, Relayed
    <3> QED BY <2>1, <3>1, RelayedData
  <2>4. CASE at[c] \notin Over
    <3>1. upstream[c] = <<>>
      BY <2>1, <2>4 DEF Good, Unsaid
    <3> QED BY <2>1, <3>1, RelayedData
  <2> QED BY <2>2, <2>3, <2>4 DEF Over
<1>2. Spec => []Inv
  BY Invariance
<1> QED BY <1>1, <1>2, PTL

(* A connection that ends without an answer had a reason that excuses it: the *)
(* client left, its name was not resolved, or its request was ill-formed.     *)
THEOREM RefusalAlwaysTold == Spec => []RefusalTold
<1>1. Inv => RefusalTold
  <2> SUFFICES ASSUME Inv, NEW c \in Clients,
                      at[c] = "closed", c \notin shut \cup unresolved,
                      Range(Said(c)) \cap Flaws = {}, Proto(c) # "direct"
               PROVE  (\E i \in DOMAIN told[c] : told[c][i] \in {"refused", "success"}) \/ upstream[c] # <<>>
    BY DEF RefusalTold
  <2>1. Excused(c) \/ Answered(c)
    BY DEF Inv, Good, Ended
  <2>2. \A i \in DOMAIN Said(c) : Said(c)[i] \notin Flaws
    BY DEF Range
  <2>3. ~ Excused(c)
    BY <2>2 DEF Excused
  <2> QED BY <2>1, <2>3 DEF Answered
<1>2. Spec => []Inv
  BY Invariance
<1> QED BY <1>1, <1>2, PTL
=============================================================================
