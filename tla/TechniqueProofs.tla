-------------------------- MODULE TechniqueProofs --------------------------
(***************************************************************************)
(* Proofs about Techniques, for messages of every size: the arithmetic of    *)
(* the cuts, and what is written after any technique or chain.               *)
(***************************************************************************)
EXTENDS Techniques, SequenceTheorems, FiniteSetTheorems, WellFoundedInduction, TLAPS

-----------------------------------------------------------------------------
(* Numbers and sequences.                                                   *)

(* The order on Nat as a set of pairs, for the theorems on well-founded relations. *)
Lower == {ss \in Nat \X Nat : ss[1] < ss[2]}

(* A nonempty set of numbers has a least. *)
LEMMA LeastOf ==
  ASSUME NEW S \in SUBSET Nat, S # {}
  PROVE  \E m \in S : \A k \in S : ~ (k < m)
<1>1. IsWellFoundedOn(Lower, Nat)
  BY Zenon, NatLessThanWellFounded DEF Lower, OpToRel
<1>2. PICK m \in S : \A k \in S : <<k, m>> \notin Lower
  BY <1>1, WFMin
<1>3. ASSUME NEW k \in S, k < m PROVE FALSE
  <2>1. <<k, m>> \in Lower
    BY <1>3 DEF Lower
  <2> QED BY <1>2, <2>1
<1> QED BY <1>3

(* The minimum of a nonempty set of numbers is its least element. *)
LEMMA MinOf ==
  ASSUME NEW S \in SUBSET Nat, S # {}
  PROVE  Min(S) \in S /\ \A k \in S : Min(S) <= k
<1>1. PICK m \in S : \A k \in S : ~ (k < m)
  BY LeastOf
<1>2. \A k \in S : m <= k
  BY <1>1
<1> QED BY <1>2 DEF Min

(* The maximum of a nonempty set of numbers up to n is its greatest. *)
LEMMA MaxOf ==
  ASSUME NEW n \in Nat, NEW S \in SUBSET (0 .. n), S # {}
  PROVE  Max(S) \in S /\ \A k \in S : k <= Max(S)
<1> DEFINE T == {n - x : x \in S}
<1>1. T \in SUBSET Nat /\ T # {}
  <2>1. \A x \in S : n - x \in Nat
    OBVIOUS
  <2> QED BY <2>1
<1>2. PICK t \in T : \A y \in T : ~ (y < t)
  <2> HIDE DEF T
  <2> QED BY <1>1, LeastOf
<1>3. PICK m \in S : t = n - m
  BY <1>2
<1>4. ASSUME NEW k \in S PROVE k <= m
  <2>1. ~ (n - k < n - m)
    BY <1>2, <1>3
  <2> QED BY <2>1
<1> QED BY <1>4 DEF Max

(* f is computed step by step from a first value. *)
Computed(f, start, rule, top) ==
  f[0] = start /\ \A i \in 1 .. top : f[i] = rule[<<i, f[i - 1]>>]

(* There is such a function. *)
LEMMA Recursion ==
  ASSUME NEW W, NEW start \in W, NEW rule \in [Nat \X W -> W], NEW top \in Nat
  PROVE  \E f \in [0 .. top -> W] : Computed(f, start, rule, top)
<1> DEFINE Steps(f, x) == Computed(f, start, rule, x)
           Bad == {x \in Nat : ~ \E f \in [0 .. x -> W] : Steps(f, x)}
<1> SUFFICES ASSUME Bad # {} PROVE FALSE
  OBVIOUS
<1>1. PICK m \in Bad : \A k \in Bad : ~ (k < m)
  <2>1. Bad \in SUBSET Nat
    OBVIOUS
  <2> HIDE DEF Bad
  <2> QED BY <2>1, LeastOf
<1>2. CASE m = 0
  <2> DEFINE g == [x \in 0 .. 0 |-> start]
  <2>1. g \in [0 .. 0 -> W] /\ Steps(g, 0)
    BY DEF Computed
  <2> QED BY <1>1, <1>2, <2>1
<1>3. CASE m # 0
  <2>1. m \in Nat /\ m - 1 \in Nat /\ m - 1 < m
    BY <1>1, <1>3
  <2>2. PICK g \in [0 .. m - 1 -> W] : Steps(g, m - 1)
    BY <1>1, <2>1
  <2>3. rule[<<m, g[m - 1]>>] \in W
    BY <2>1
  <2> DEFINE h == [x \in 0 .. m |-> IF x = m THEN rule[<<m, g[m - 1]>>] ELSE g[x]]
  <2>4. h \in [0 .. m -> W]
    BY <2>1, <2>3
  <2>5. h[0] = start
    BY <1>3, <2>1, <2>2 DEF Computed
  <2>6. ASSUME NEW i \in 1 .. m PROVE h[i] = rule[<<i, h[i - 1]>>]
    <3>1. CASE i = m
      <4>1. m \in 0 .. m /\ m - 1 \in 0 .. m /\ m - 1 # m
        BY <2>1
      <4>2. h[m] = rule[<<m, g[m - 1]>>] /\ h[m - 1] = g[m - 1]
        BY <4>1
      <4> QED BY <3>1, <4>2
    <3>2. CASE i # m
      <4>1. i \in 1 .. m - 1 /\ i \in 0 .. m /\ i - 1 \in 0 .. m /\ i - 1 # m
        BY <2>1, <3>2
      <4>2. g[i] = rule[<<i, g[i - 1]>>]
        BY <2>2, <4>1 DEF Computed
      <4>3. h[i] = g[i] /\ h[i - 1] = g[i - 1]
        BY <3>2, <4>1
      <4> QED BY <4>2, <4>3
    <3> QED BY <3>1, <3>2
  <2>7. Steps(h, m)
    BY <2>5, <2>6 DEF Computed
  <2> HIDE DEF h, Steps
  <2> QED BY <1>1, <2>4, <2>7
<1> QED BY <1>2, <1>3

(* A concatenation is computed step by step. *)
Joined(f, s) == f[0] = <<>> /\ \A i \in 1 .. Len(s) : f[i] = f[i - 1] \o s[i]

LEMMA Flattening ==
  ASSUME NEW T, NEW s \in Seq(Seq(T))
  PROVE  \E f \in [0 .. Len(s) -> Seq(T)] : Joined(f, s) /\ FlattenSeq(s) = f[Len(s)]
<1> DEFINE n == Len(s)
           Body(p) == [i \in 1 .. n |-> IF i = 1 THEN s[i] ELSE p[i - 1] \o s[i]]
<1>0. n \in Nat /\ <<>> \in Seq(T) /\ \A i \in 1 .. n : s[i] \in Seq(T)
  OBVIOUS
<1> DEFINE step == [p \in Nat \X Seq(T) |-> IF p[1] \in 1 .. n THEN p[2] \o s[p[1]] ELSE p[2]]
<1>2. step \in [Nat \X Seq(T) -> Seq(T)]
  BY <1>0
<1>8. n # 0 => FlattenSeq(s) = (CHOOSE p : p = Body(p))[n]
  BY DEF FlattenSeq, n
<1>9. n = 0 => FlattenSeq(s) = <<>>
  BY EmptySeq DEF FlattenSeq
<1> SUFFICES \E f \in [0 .. n -> Seq(T)] : 
               f[0] = <<>> /\ (\A i \in 1 .. n : f[i] = f[i - 1] \o s[i]) /\ FlattenSeq(s) = f[n]
  BY DEF Joined
<1> HIDE DEF n
<1>4. PICK f \in [0 .. n -> Seq(T)] :
        f[0] = <<>> /\ \A i \in 1 .. n : f[i] = step[<<i, f[i - 1]>>]
  <2> DEFINE V == Seq(T)
             b == <<>>
  <2>1. step \in [Nat \X V -> V] /\ b \in V /\ n \in Nat
    BY <1>0, <1>2
  <2> HIDE DEF step, V, b
  <2>2. \E f \in [0 .. n -> V] : Computed(f, b, step, n)
    BY <2>1, Recursion
  <2> QED BY <2>2 DEF V, b, Computed
<1>5. \A i \in 1 .. n : f[i] = f[i - 1] \o s[i]
  <2> TAKE i \in 1 .. n
  <2>1. i - 1 \in 0 .. n /\ i \in Nat
    BY <1>0
  <2>2. f[i - 1] \in Seq(T)
    BY <2>1
  <2> QED BY <1>4, <2>1, <2>2
<1> SUFFICES FlattenSeq(s) = f[n]
  BY <1>4, <1>5
<1>6. CASE n = 0
  BY <1>4, <1>6, <1>9
<1>7. CASE n # 0
  <2> DEFINE g == [i \in 1 .. n |-> f[i]]
  <2>6. g = Body(g)
    <3>1. ASSUME NEW i \in 1 .. n PROVE f[i] = IF i = 1 THEN s[i] ELSE g[i - 1] \o s[i]
      <4>1. CASE i = 1
        <5>1. f[1] = f[0] \o s[1]
          <6>1. 1 \in 1 .. n /\ 1 - 1 = 0
            BY <4>1
          <6> QED BY <1>5, <6>1
        <5> QED BY <1>0, <1>4, <4>1, <5>1
      <4>2. CASE i # 1
        <5>1. i - 1 \in 1 .. n
          BY <1>0, <4>2
        <5> QED BY <1>5, <4>2, <5>1
      <4> QED BY <4>1, <4>2
    <3> HIDE DEF g
    <3> QED BY <3>1 DEF g
  <2> HIDE DEF g
  <2> DEFINE flatten == CHOOSE p : p = Body(p)
  <2>7. flatten = Body(flatten)
    <3> HIDE DEF Body
    <3> QED BY <2>6
  <2>8. FlattenSeq(s) = flatten[n]
    BY <1>7, <1>8
  <2> HIDE DEF flatten
  <2>9. \A i \in 1 .. n : flatten[i] = IF i = 1 THEN s[i] ELSE flatten[i - 1] \o s[i]
    BY <2>7
  <2> DEFINE Bad == {i \in 1 .. n : flatten[i] # f[i]}
  <2> SUFFICES ASSUME Bad # {} PROVE FALSE
    <3>1. n \in 1 .. n
      BY <1>0, <1>7
    <3>2. Bad = {} => flatten[n] = f[n]
      BY <3>1
    <3> QED BY <2>8, <3>2
  <2>10. PICK m \in Bad : \A k \in Bad : ~ (k < m)
    <3>1. Bad \in SUBSET Nat
      BY <1>0
    <3> HIDE DEF Bad
    <3> QED BY <3>1, LeastOf
  <2>11. m # 1
    <3>1. f[1] = f[0] \o s[1] /\ flatten[1] = s[1] /\ s[1] \in Seq(T) /\ f[0] = <<>>
      <4>1. 1 \in 1 .. n /\ 1 - 1 = 0
        BY <1>0, <1>7
      <4> QED BY <1>0, <1>4, <1>5, <2>9, <4>1
    <3>2. f[1] = s[1]
      BY <3>1
    <3> QED BY <2>10, <3>1, <3>2
  <2>12. m \in 1 .. n /\ m - 1 \in 1 .. n /\ m - 1 < m
    BY <1>0, <2>10, <2>11
  <2>13. flatten[m - 1] = f[m - 1]
    BY <2>10, <2>12
  <2> QED BY <1>5, <2>9, <2>10, <2>11, <2>12, <2>13
<1> QED BY <1>6, <1>7

(* The concatenation of sequences is a sequence. *)
LEMMA Flattened ==
  ASSUME NEW T, NEW s \in Seq(Seq(T))
  PROVE  FlattenSeq(s) \in Seq(T)
<1>1. PICK f \in [0 .. Len(s) -> Seq(T)] : FlattenSeq(s) = f[Len(s)]
  BY Flattening
<1>2. Len(s) \in 0 .. Len(s)
  OBVIOUS
<1> QED BY <1>1, <1>2

(* A part of a sequence: its length and its elements. *)
LEMMA Part ==
  ASSUME NEW T, NEW s \in Seq(T), NEW m \in Nat, NEW n \in 0 .. Len(s)
  PROVE  /\ SubSeq(s, m + 1, n) \in Seq(T)
         /\ Len(SubSeq(s, m + 1, n)) = IF m < n THEN n - m ELSE 0
         /\ \A i \in 1 .. n - m : SubSeq(s, m + 1, n)[i] = s[m + i]
<1>1. \A i \in m + 1 .. n : s[i] \in T
  BY ElementOfSeq
<1>2. m + 1 \in Int /\ n \in Int
  OBVIOUS
<1>3. /\ SubSeq(s, m + 1, n) \in Seq(T)
      /\ Len(SubSeq(s, m + 1, n)) = IF m + 1 <= n THEN n - (m + 1) + 1 ELSE 0
      /\ \A i \in 1 .. n - (m + 1) + 1 : SubSeq(s, m + 1, n)[i] = s[(m + 1) + i - 1]
  BY <1>1, <1>2, SubSeqProperties
<1>4. \A i \in 1 .. n - m : i \in 1 .. n - (m + 1) + 1 /\ (m + 1) + i - 1 = m + i
  OBVIOUS
<1> QED BY <1>3, <1>4

-----------------------------------------------------------------------------
(* Sequences of sequences.                                                  *)
(* A concatenation: its length and its elements. *)
LEMMA Joint ==
  ASSUME NEW T, NEW s \in Seq(T), NEW t \in Seq(T)
  PROVE  /\ s \o t \in Seq(T) /\ Len(s \o t) = Len(s) + Len(t)
         /\ \A i \in 1 .. Len(s) : (s \o t)[i] = s[i]
         /\ \A i \in 1 .. Len(t) : (s \o t)[Len(s) + i] = t[i]
<1>1. /\ s \o t \in Seq(T) /\ Len(s \o t) = Len(s) + Len(t)
      /\ \A i \in 1 .. Len(s) + Len(t) : (s \o t)[i] = IF i <= Len(s) THEN s[i] ELSE t[i - Len(s)]
  BY ConcatProperties
<1>2. Len(s) \in Nat /\ Len(t) \in Nat
  OBVIOUS
<1>3. ASSUME NEW i \in 1 .. Len(t) PROVE (s \o t)[Len(s) + i] = t[i]
  <2>1. Len(s) + i \in 1 .. Len(s) + Len(t) /\ ~ (Len(s) + i <= Len(s)) /\ (Len(s) + i) - Len(s) = i
    BY <1>2
  <2> QED BY <1>1, <2>1
<1>4. ASSUME NEW i \in 1 .. Len(s) PROVE (s \o t)[i] = s[i]
  <2>1. i \in 1 .. Len(s) + Len(t) /\ i <= Len(s)
    BY <1>2
  <2> QED BY <1>1, <2>1
<1> QED BY <1>1, <1>3, <1>4

(* A quotient of a multiple is the factor, and one of less is no larger. *)
LEMMA Quotient ==
  ASSUME NEW a \in Nat, NEW s \in Nat, NEW k \in 1..7, a <= s * k
  PROVE  a \div k \in 0..s /\ (s * k) \div k = s
<1>1. CASE k = 1 BY <1>1
<1>2. CASE k = 2 BY <1>2
<1>3. CASE k = 3 BY <1>3
<1>4. CASE k = 4 BY <1>4
<1>5. CASE k = 5 BY <1>5
<1>6. CASE k = 6 BY <1>6
<1>7. CASE k = 7 BY <1>7
<1> QED BY <1>1, <1>2, <1>3, <1>4, <1>5, <1>6, <1>7

(* A product with a number up to k is at most that with k. *)
LEMMA Product ==
  ASSUME NEW s \in Nat, NEW k \in 1..7, NEW i \in 1..k
  PROVE  s * i \in Nat /\ s * i <= s * k
<1>1. i \in 1..7 /\ k \in {1, 2, 3, 4, 5, 6, 7} OBVIOUS
<1>2. i \in {1, 2, 3, 4, 5, 6, 7} BY <1>1
<1> QED BY <1>1, <1>2

(* A cut that InData yields leaves data on both sides of it, wherever the     *)
(* split position was resolved to: tls_record_frag writes no empty record.    *)
THEOREM CutIsInside ==
  ASSUME NEW o \in Nat, NEW len \in Nat, len >= 2
  PROVE  InData(o, len) \in 1..(len - 1)
BY DEF InData, Clamp, HeaderLen

(* compute_split_points: all cuts leave data on both sides, one of them is    *)
(* the place of the name, and none lies behind it.  So, whatever the sizes    *)
(* and the number of fragments, the last record begins at that place ("the    *)
(* SNI hostname always lands in the last TLS record fragment").               *)
THEOREM LastCutIsTheName ==
  ASSUME NEW len \in Nat, NEW s \in 1..(len - 1), NEW n \in 2..8
  PROVE  /\ SplitPoints(len, s, n) \subseteq 1..(len - 1)
         /\ s \in SplitPoints(len, s, n)
         /\ \A p \in SplitPoints(len, s, n) : p <= s
<1> DEFINE k == n - 1
           Cut(i) == Clamp((s * i) \div k, 1, len - 1)
<1>1. k \in 1..7 /\ s \in Nat OBVIOUS
<1> HIDE DEF k
<1>2. ASSUME NEW i \in 1..k PROVE (s * i) \div k \in 0..s
  BY <1>1, Product, Quotient
<1>3. ASSUME NEW i \in 1..k PROVE Cut(i) \in 1..s /\ Cut(i) <= len - 1
  <2> DEFINE q == (s * i) \div k
  <2>1. q \in 0..s BY <1>2
  <2>2. Cut(i) = Clamp(q, 1, len - 1) OBVIOUS
  <2> HIDE DEF q, Cut
  <2> QED BY <2>1, <2>2 DEF Clamp
<1>4. Cut(k) = s
  <2>1. s * k \in Nat BY <1>1, Product
  <2>2. (s * k) \div k = s BY <1>1, <2>1, Quotient
  <2> QED BY <2>2 DEF Clamp
<1>5. SplitPoints(len, s, n) = {Cut(i) : i \in 1..k} BY DEF SplitPoints, k
<1> HIDE DEF Cut
<1>6. k \in 1..k BY <1>1
<1> QED BY <1>1, <1>3, <1>4, <1>5, <1>6

(* The lengths of a ClientHello in one record agree, and fit their fields. *)
Lengths == [len : Nat, record : Nat, hs : Nat, at : Nat, ext : Nat]
Agree(l) ==
  /\ l.record = 4 + l.hs /\ l.hs + HeaderLen + 4 = l.at + l.ext
  /\ l.record + HeaderLen <= l.len
  /\ l.record <= MaxU16 /\ l.hs <= MaxU24 /\ l.ext <= MaxU16

(* add_tls_padding keeps the three length fields in agreement, and none of    *)
(* them, nor that of the padding itself, is cut off by its width.             *)
THEOREM PaddingAgrees ==
  ASSUME NEW l \in Lengths, Agree(l), NEW pad \in Nat, AddPadding(l, pad) # <<>>
  PROVE  Agree(AddPadding(l, pad)[1]) /\ pad <= MaxU16
<1> DEFINE grown == [l EXCEPT !.len = @ + 4 + pad, !.record = @ + 4 + pad,
                              !.hs = @ + 4 + pad, !.ext = @ + 4 + pad]
<1>1. /\ AddPadding(l, pad) = <<grown>>
      /\ grown.ext <= MaxU16 /\ grown.record <= MaxU16 /\ grown.hs <= MaxU24
  BY DEF AddPadding
<1>2. /\ grown.len = l.len + 4 + pad /\ grown.record = l.record + 4 + pad
      /\ grown.hs = l.hs + 4 + pad /\ grown.ext = l.ext + 4 + pad /\ grown.at = l.at
  BY DEF Lengths
<1> HIDE DEF grown
<1>3. Agree(grown) /\ pad <= MaxU16
  BY <1>1, <1>2 DEF Lengths, Agree, HeaderLen, MaxU16, MaxU24
<1> QED BY <1>1, <1>3
-----------------------------------------------------------------------------
(* Payloads: what is written, and that a unit which begins a record's header  *)
(* says that it has data.                                                     *)

Sound   == {u \in Unit : u.k = "rec" => u.v # 0}
Payload == Seq(Sound)

(* A unit of any other kind is sound. *)
LEMMA SoundUnit ==
  ASSUME NEW k \in Kinds, k # "rec", NEW v \in Nat
  PROVE  U(k, v) \in Sound
BY DEF U, Sound, Unit

(* So are many of them. *)
LEMMA SoundUnits ==
  ASSUME NEW k \in Kinds, k # "rec", NEW n \in Nat
  PROVE  /\ Units(k, n) \in Payload /\ Len(Units(k, n)) = n
         /\ \A i \in 1 .. n : Units(k, n)[i] = U(k, i)
<1>1. \A i \in 1 .. n : U(k, i) \in Sound
  BY SoundUnit
<1> QED BY <1>1 DEF Units, Payload

(* A header of a record with data, unit by unit. *)
LEMMA HeaderUnits ==
  ASSUME NEW n \in Nat
  PROVE  /\ Len(Header(n)) = HeaderLen /\ HeaderLen = 5 /\ Header(n)[1] = U("rec", n)
         /\ \A i \in 2 .. HeaderLen : Header(n)[i] = U("fill", 0)
         /\ Header(n) \in Seq(Unit)
         /\ n # 0 => Header(n) \in Payload
<1> DEFINE fill == [i \in 1 .. (HeaderLen - 1) |-> U("fill", 0)]
<1>1. U("rec", n) \in Unit /\ U("fill", 0) \in Sound /\ (n # 0 => U("rec", n) \in Sound)
  BY DEF U, Sound, Unit, Kinds
<1>2. HeaderLen = 5
  BY DEF HeaderLen
<1>3. fill \in Seq(Sound) /\ Len(fill) = 4 /\ \A i \in 1 .. 4 : fill[i] = U("fill", 0)
  BY <1>1, <1>2
<1>4. Header(n) = <<U("rec", n)>> \o fill
  BY DEF Header
<1>5. fill \in Seq(Unit)
  BY <1>3 DEF Sound
<1> HIDE DEF fill
<1>6. <<U("rec", n)>> \in Seq(Unit) /\ (n # 0 => <<U("rec", n)>> \in Seq(Sound))
  BY <1>1
<1> DEFINE h == <<U("rec", n)>>
<1>7. h \in Seq(Unit) /\ Len(h) = 1 /\ h[1] = U("rec", n) /\ Header(n) = h \o fill
  BY <1>4, <1>6
<1> HIDE DEF h
<1>8. /\ Len(h \o fill) = Len(h) + Len(fill)
      /\ \A i \in 1 .. Len(h) : (h \o fill)[i] = h[i]
      /\ \A i \in 1 .. Len(fill) : (h \o fill)[Len(h) + i] = fill[i]
  <2>1. h \in Seq(Unit) /\ fill \in Seq(Unit)
    BY <1>5, <1>7
  <2> QED BY <2>1, Joint
<1>9. Len(fill) = 4 /\ \A i \in 1 .. 4 : fill[i] = U("fill", 0)
  BY <1>3
<1>10. ASSUME NEW i \in 2 .. 5 PROVE Header(n)[i] = U("fill", 0)
  <2>1. PICK j \in 1 .. 4 : i = 1 + j
    <3>1. i - 1 \in 1 .. 4 /\ i = 1 + (i - 1)
      OBVIOUS
    <3> QED BY <3>1
  <2>2. Len(h) = 1 /\ Len(fill) = 4
    BY <1>7, <1>9
  <2>3. (h \o fill)[Len(h) + j] = fill[j]
    BY <1>8, <2>2
  <2>4. fill[j] = U("fill", 0) /\ Header(n) = h \o fill
    BY <1>7, <1>9
  <2> QED BY <2>1, <2>2, <2>3, <2>4
<1>11. Len(Header(n)) = 5 /\ Header(n)[1] = U("rec", n)
  <2>1. 1 \in 1 .. 1
    OBVIOUS
  <2> QED BY <1>7, <1>8, <1>9, <2>1
<1>12. Header(n) \in Seq(Unit) /\ (n # 0 => Header(n) \in Seq(Sound))
  BY <1>3, <1>4, <1>5, <1>6 DEF h
<1> QED BY <1>2, <1>10, <1>11, <1>12 DEF Payload

(* The end of the record that begins behind i is the next of the ends. *)
LEMMA NextEnd ==
  ASSUME NEW ends \in SUBSET Nat, NEW i \in Nat, NEW e \in ends, e > i
  PROVE  /\ EndAfter(ends, i) \in ends /\ EndAfter(ends, i) > i
         /\ \A d \in ends : d > i => EndAfter(ends, i) <= d
<1> DEFINE S == {d \in ends : d > i}
<1>1. S \in SUBSET Nat /\ S # {}
  OBVIOUS
<1>2. EndAfter(ends, i) = Min(S)
  BY DEF EndAfter
<1>3. Min(S) \in S /\ \A k \in S : Min(S) <= k
  <2> HIDE DEF S
  <2> QED BY <1>1, MinOf
<1> QED BY <1>2, <1>3

(* The units that are written for each byte of the data. *)
LEMMA FramedUnits ==
  ASSUME NEW data \in Payload, NEW ends \in SUBSET Nat, Len(data) \in ends
  PROVE  /\ Framed(data, ends) \in Seq(Payload) /\ Len(Framed(data, ends)) = Len(data)
         /\ \A i \in 1 .. Len(data) :
              Framed(data, ends)[i] =
                (IF i = 1 \/ i - 1 \in ends THEN Header(EndAfter(ends, i - 1) - (i - 1)) ELSE <<>>)
                \o <<data[i]>>
<1> DEFINE n == Len(data)
           One(i) == (IF i = 1 \/ i - 1 \in ends THEN Header(EndAfter(ends, i - 1) - (i - 1)) ELSE <<>>)
                     \o <<data[i]>>
<1>1. n \in Nat /\ DOMAIN data = 1 .. n /\ \A i \in 1 .. n : data[i] \in Sound
  BY DEF Payload
<1>2. ASSUME NEW i \in 1 .. n PROVE One(i) \in Seq(Sound)
  <2>1. i - 1 \in Nat /\ n > i - 1 /\ n \in ends
    BY <1>1
  <2>2. EndAfter(ends, i - 1) \in Nat /\ EndAfter(ends, i - 1) > i - 1
    <3> HIDE DEF n
    <3> QED BY <2>1, NextEnd
  <2>3. EndAfter(ends, i - 1) - (i - 1) \in Nat /\ EndAfter(ends, i - 1) - (i - 1) # 0
    BY <2>1, <2>2
  <2>4. Header(EndAfter(ends, i - 1) - (i - 1)) \in Seq(Sound)
    BY <2>3, HeaderUnits DEF Payload
  <2>5. <<data[i]>> \in Seq(Sound) /\ <<>> \in Seq(Sound)
    BY <1>1
  <2> QED BY <2>4, <2>5
<1>3. Framed(data, ends) = [i \in 1 .. n |-> One(i)]
  BY <1>1 DEF Framed
<1> HIDE DEF One, n
<1>4. [i \in 1 .. n |-> One(i)] \in Seq(Seq(Sound)) /\ Len([i \in 1 .. n |-> One(i)]) = n
  BY <1>1, <1>2
<1>5. \A i \in 1 .. n : Framed(data, ends)[i] = One(i)
  BY <1>3
<1> QED BY <1>3, <1>4, <1>5 DEF One, Payload, n

(* Cuts inside the data leave no record empty. *)
LEMMA RecordsWritten ==
  ASSUME NEW data \in Payload, NEW cuts \in SUBSET (1 .. Len(data) - 1)
  PROVE  /\ WriteRecords(data, cuts) = FlattenSeq(Framed(data, cuts \cup {Len(data)}))
         /\ WriteRecords(data, cuts) \in Payload
<1> DEFINE ends == cuts \cup {Len(data)}
           w == FlattenSeq(Framed(data, ends))
<1>0. Len(data) \in Nat
  BY DEF Payload
<1>1. Len(data) \in Nat /\ ends \in SUBSET Nat /\ Len(data) \in ends
  <2>1. \A x \in cuts : x \in Nat
    BY <1>0
  <2> QED BY <1>0, <2>1
<1>2. 0 \notin cuts /\ Len(data) \notin cuts
  BY <1>1
<1>3. WriteRecords(data, cuts) = <<>> \o w \o <<>>
  BY <1>2 DEF WriteRecords
<1> HIDE DEF ends
<1>4. Framed(data, ends) \in Seq(Seq(Sound))
  BY <1>1, FramedUnits DEF Payload
<1>5. w \in Seq(Sound)
  BY <1>4, Flattened
<1> HIDE DEF w
<1>6. <<>> \o w \o <<>> = w
  BY <1>5
<1> QED BY <1>3, <1>5, <1>6 DEF w, ends, Payload

(* A beginning, and an end, of a sequence. *)
LEMMA FrontPart ==
  ASSUME NEW T, NEW s \in Seq(T), NEW n \in 0 .. Len(s)
  PROVE  /\ SubSeq(s, 1, n) \in Seq(T) /\ Len(SubSeq(s, 1, n)) = n
         /\ \A i \in 1 .. n : SubSeq(s, 1, n)[i] = s[i]
<1>1. 0 \in Nat /\ 0 + 1 = 1 /\ n \in Nat /\ n - 0 = n /\ \A i \in 1 .. n : 0 + i = i
  OBVIOUS
<1>2. /\ SubSeq(s, 0 + 1, n) \in Seq(T)
      /\ Len(SubSeq(s, 0 + 1, n)) = IF 0 < n THEN n - 0 ELSE 0
      /\ \A i \in 1 .. n - 0 : SubSeq(s, 0 + 1, n)[i] = s[0 + i]
  BY <1>1, Part
<1>3. (IF 0 < n THEN n - 0 ELSE 0) = n
  BY <1>1
<1> QED BY <1>1, <1>2, <1>3

(* A sequence all of whose elements are in a set. *)
LEMMA ElementsIn ==
  ASSUME NEW S, NEW T, NEW s \in Seq(S), \A i \in 1 .. Len(s) : s[i] \in T
  PROVE  s \in Seq(T)
<1>1. Len(s) \in Nat /\ s = [i \in 1 .. Len(s) |-> s[i]]
  BY LenProperties
<1> DEFINE n == Len(s)
<1>2. n \in Nat /\ s = [i \in 1 .. n |-> s[i]] /\ \A i \in 1 .. n : s[i] \in T
  BY <1>1
<1> HIDE DEF n
<1>3. [i \in 1 .. n |-> s[i]] \in Seq(T)
  BY <1>2
<1> QED BY <1>2, <1>3

(* Records are made of their data and of headers. *)
LEMMA WrittenIn ==
  ASSUME NEW T \in SUBSET Sound, \A u \in Sound : u.k \in {"rec", "fill"} => u \in T,
         NEW data \in Seq(T), NEW cuts \in SUBSET (1 .. Len(data) - 1)
  PROVE  WriteRecords(data, cuts) \in Seq(T)
<1> DEFINE ends == cuts \cup {Len(data)}
           s == Framed(data, ends)
<1>1. data \in Payload /\ Len(data) \in Nat /\ <<>> \in Seq(T)
  BY DEF Payload
<1>2. ends \in SUBSET Nat /\ Len(data) \in ends
  <2>1. \A x \in cuts : x \in Nat
    BY <1>1
  <2> QED BY <1>1, <2>1
<1>3. WriteRecords(data, cuts) = FlattenSeq(s)
  BY <1>1, RecordsWritten
<1>4. s \in Seq(Payload) /\ Len(s) = Len(data)
      /\ \A i \in 1 .. Len(data) : s[i] = (IF i = 1 \/ i - 1 \in ends THEN Header(EndAfter(ends, i - 1) - (i - 1)) ELSE <<>>)
                                          \o <<data[i]>>
  <2> HIDE DEF ends
  <2> QED BY <1>1, <1>2, FramedUnits
<1> HIDE DEF s, ends
<1>5. ASSUME NEW n \in Nat, n # 0 PROVE Header(n) \in Seq(T)
  <2> DEFINE h == Header(n)
  <2>1. h \in Seq(Sound) /\ Len(h) = 5 /\ h[1] = U("rec", n) /\ \A i \in 2 .. 5 : h[i] = U("fill", 0)
    BY <1>5, HeaderUnits DEF Payload, HeaderLen
  <2> HIDE DEF h
  <2>2. \A i \in 1 .. 5 : h[i] \in Sound
    <3> TAKE i \in 1 .. 5
    <3>1. h \in Seq(Sound) /\ i \in 1 .. Len(h)
      BY <2>1
    <3> QED BY ONLY <3>1, ElementOfSeq
  <2>3. \A i \in 1 .. 5 : h[i].k \in {"rec", "fill"}
    <3> TAKE i \in 1 .. 5
    <3>1. i = 1 \/ i \in 2 .. 5
      OBVIOUS
    <3> QED BY <2>1, <3>1 DEF U
  <2>4. \A i \in 1 .. Len(h) : h[i] \in T
    BY <2>1, <2>2, <2>3
  <2>5. h \in Seq(T)
    BY <2>1, <2>4, ElementsIn
  <2> QED BY <2>5 DEF h
<1>6. ASSUME NEW i \in 1 .. Len(data) PROVE s[i] \in Seq(T)
  <2> DEFINE h == IF i = 1 \/ i - 1 \in ends THEN Header(EndAfter(ends, i - 1) - (i - 1)) ELSE <<>>
             d == <<data[i]>>
  <2>1. h \in Seq(T)
    <3>1. i - 1 \in Nat /\ Len(data) > i - 1
      BY <1>1
    <3>2. EndAfter(ends, i - 1) \in ends /\ EndAfter(ends, i - 1) > i - 1
      BY <1>2, <3>1, NextEnd
    <3>3. EndAfter(ends, i - 1) - (i - 1) \in Nat /\ EndAfter(ends, i - 1) - (i - 1) # 0
      <4>1. EndAfter(ends, i - 1) \in Nat
        BY <1>2, <3>2
      <4>2. \A e, k \in Nat : e > k => e - k \in Nat /\ e - k # 0
        OBVIOUS
      <4> QED BY <3>1, <3>2, <4>1, <4>2
    <3> QED BY <1>1, <1>5, <3>3
  <2>2. d \in Seq(T)
    OBVIOUS
  <2>3. s[i] = h \o d
    BY <1>4
  <2> HIDE DEF h, d
  <2> QED BY <2>1, <2>2, <2>3, Joint
<1>7. s \in Seq(Seq(T))
  BY <1>4, <1>6
<1> QED BY <1>3, <1>7, Flattened

(* What a client sends: no name that was written over, no fake, and no Host    *)
(* header in a ClientHello.                                                   *)
Sent(m) == {u \in Sound : u.k \notin {"mixed", "dot", "fake"} /\ (m.shape = "tls" => u.k # "host")}

LEMMA SentUnits ==
  ASSUME NEW m, NEW k \in {"hs", "app", "http", "val", "sp"}, NEW n \in Nat
  PROVE  Units(k, n) \in Seq(Sent(m)) /\ Len(Units(k, n)) = n /\ \A i \in Nat : U(k, i) \in Sent(m)
<1>1. k \in Kinds /\ k # "rec" /\ k \notin {"mixed", "dot", "fake", "host"}
  BY DEF Kinds
<1>2. \A i \in Nat : U(k, i) \in Sent(m)
  <2> TAKE i \in Nat
  <2>1. U(k, i) \in Sound /\ U(k, i).k = k
    BY <1>1, SoundUnit DEF U
  <2> QED BY <1>1, <2>1 DEF Sent
<1> QED BY <1>2 DEF Units

LEMMA OriginalIn ==
  ASSUME NEW m \in Input, m.cuts \subseteq 1 .. (MessageLen(m) - 1)
  PROVE  Original(m) \in Seq(Sent(m)) /\ MessageLen(m) \in Nat
<1> DEFINE tls == WriteRecords(Units("hs", MessageLen(m)), m.cuts) \o Units("app", m.more)
           tail == [i \in 1 .. m.tail |-> U("http", m.pre + i)]
           value == IF m.named THEN <<U("host", 0), U("sp", 0)>> \o Units("val", Len(m.name)) ELSE <<>>
           http == Units("http", m.pre) \o value \o tail
           whole == IF m.shape = "tls" THEN tls ELSE IF m.shape = "http" THEN http ELSE Units("app", m.more)
           T == Sent(m)
<1>1. m.pre \in Nat /\ Len(m.name) \in Nat /\ m.tail \in Nat /\ m.more \in Nat /\ m.read \in Nat
  BY DEF Input
<1>2. MessageLen(m) \in Nat
  BY <1>1 DEF MessageLen
<1>3. T \in SUBSET Sound /\ \A u \in Sound : u.k \in {"rec", "fill"} => u \in T
  BY DEF Sent
<1>4. tls \in Seq(T)
  <2>1. Units("hs", MessageLen(m)) \in Seq(T) /\ Len(Units("hs", MessageLen(m))) = MessageLen(m)
    BY <1>2, SentUnits
  <2>2. Units("app", m.more) \in Seq(T)
    BY <1>1, SentUnits
  <2> HIDE DEF T
  <2>3. WriteRecords(Units("hs", MessageLen(m)), m.cuts) \in Seq(T)
    BY <1>3, <2>1, WrittenIn
  <2> QED BY <2>2, <2>3, Joint
<1>5. ASSUME m.shape = "http" PROVE http \in Seq(T)
  <2>1. Units("http", m.pre) \in Seq(T) /\ Units("val", Len(m.name)) \in Seq(T)
    BY <1>1, SentUnits
  <2>2. U("host", 0) \in T /\ U("sp", 0) \in T
    <3>1. "host" \in Kinds /\ "host" # "rec"
      BY DEF Kinds
    <3>2. U("host", 0) \in Sound
      BY <3>1, SoundUnit
    <3> QED BY <1>5, <3>2, SentUnits DEF Sent, U
  <2>3. \A i \in 1 .. m.tail : U("http", m.pre + i) \in T
    <3>1. \A i \in 1 .. m.tail : m.pre + i \in Nat
      BY <1>1
    <3>2. \A i \in Nat : U("http", i) \in T
      BY SentUnits
    <3> QED BY <3>1, <3>2
  <2> HIDE DEF T
  <2>4. tail \in Seq(T)
    BY <1>1, <2>3
  <2>5. <<U("host", 0), U("sp", 0)>> \in Seq(T)
    BY <2>2
  <2>6. value \in Seq(T)
    <3>1. <<U("host", 0), U("sp", 0)>> \o Units("val", Len(m.name)) \in Seq(T)
      BY <2>1, <2>5, Joint
    <3>2. <<>> \in Seq(T)
      OBVIOUS
    <3> QED BY <3>1, <3>2
  <2> HIDE DEF tail, value
  <2>7. Units("http", m.pre) \o value \in Seq(T)
    BY <2>1, <2>6, Joint
  <2> QED BY <2>4, <2>7, Joint
<1>6. Units("app", m.more) \in Seq(T)
  BY <1>1, SentUnits
<1>7. whole \in Seq(T)
  <2>1. CASE m.shape = "http"
    BY <1>5, <2>1
  <2>2. CASE m.shape # "http"
    BY <1>4, <1>6, <2>2
  <2> QED BY <2>1, <2>2
<1>8. Original(m) = SubSeq(whole, 1, IF m.read < Len(whole) THEN m.read ELSE Len(whole))
  BY DEF Original
<1> HIDE DEF whole, T
<1>9. (IF m.read < Len(whole) THEN m.read ELSE Len(whole)) \in 0 .. Len(whole)
  <2>1. Len(whole) \in Nat
    BY <1>7
  <2> QED BY <1>1, <2>1
<1>10. Original(m) \in Seq(T)
  BY <1>7, <1>8, <1>9, FrontPart
<1> QED BY <1>2, <1>10 DEF T

LEMMA OriginalSound ==
  ASSUME NEW m \in Input, m.cuts \subseteq 1 .. (MessageLen(m) - 1)
  PROVE  Original(m) \in Payload /\ MessageLen(m) \in Nat
<1>1. Sent(m) \subseteq Sound
  BY DEF Sent
<1> QED BY <1>1, OriginalIn DEF Payload

(* The parse of the records, from each place. *)
After(f, p, i) ==
  IF ~IsHeader(p, i) THEN <<>>
  ELSE IF RecordEnd(p, i) > Len(p) THEN <<<<>>>>
  ELSE <<RecordData(p, i)>> \o f[RecordEnd(p, i) + 1]
Parsed(f, p) == \A i \in 1 .. (Len(p) + 1) : f[i] = After(f, p, i)

(* A header that is read tells the length of its record. *)
LEMMA HeaderRead ==
  ASSUME NEW p \in Seq(Unit), NEW i \in Nat \ {0}, IsHeader(p, i)
  PROVE  /\ i + 4 \in 5 .. Len(p) /\ HeaderLen = 5
         /\ i \in 1 .. Len(p) /\ p[i].v \in Nat /\ p[i] = U("rec", p[i].v)
         /\ RecordEnd(p, i) = i + 4 + p[i].v
         /\ RecordEnd(p, i) \in Nat /\ RecordEnd(p, i) >= i + 4
<1>1. HeaderLen = 5 /\ i + HeaderLen - 1 = i + 4 /\ i + 4 <= Len(p)
  BY DEF IsHeader, HeaderLen
<1>2. Len(p) \in Nat /\ i + 4 \in 5 .. Len(p) /\ i \in 1 .. Len(p) /\ i - 1 \in Nat
  BY <1>1
<1>3. p[i] \in Unit /\ p[i].v \in Nat
  <2>1. p[i] \in Unit
    BY <1>2, ElementOfSeq
  <2> QED BY <2>1 DEF Unit
<1>4. SubSeq(p, i, i + 4)[1] = p[i]
  <2>1. i + 4 \in 0 .. Len(p) /\ (i - 1) + 1 = i /\ 1 \in 1 .. (i + 4) - (i - 1)
    BY <1>2
  <2>2. \A j \in 1 .. (i + 4) - (i - 1) : SubSeq(p, (i - 1) + 1, i + 4)[j] = p[(i - 1) + j]
    BY <1>2, <2>1, Part
  <2> QED BY <2>1, <2>2
<1>5. SubSeq(p, i, i + 4) = Header(p[i].v)
  BY <1>1 DEF IsHeader
<1>6. p[i] = U("rec", p[i].v)
  BY <1>3, <1>4, <1>5, HeaderUnits
<1>7. RecordEnd(p, i) = i + 4 + p[i].v
  BY <1>1, <1>3 DEF RecordEnd
<1> QED BY <1>1, <1>2, <1>3, <1>6, <1>7

(* The parse is defined. *)
LEMMA Parsing ==
  ASSUME NEW p \in Seq(Unit)
  PROVE  \E f : Parsed(f, p) /\ Records(p) = f[1]
<1> DEFINE n == Len(p)
           Body(f) == [i \in 1 .. (n + 1) |-> After(f, p, i)]
           From == CHOOSE f : f = Body(f)
<1>1. Records(p) = From[1]
  BY DEF Records, After
<1>2. n \in Nat
  OBVIOUS
<1>3. \A i \in 1 .. (n + 1) : IsHeader(p, i) /\ ~ (RecordEnd(p, i) > n) =>
        RecordEnd(p, i) + 1 \in (i + 1) .. (n + 1)
  <2> SUFFICES ASSUME NEW i \in 1 .. (n + 1), IsHeader(p, i), ~ (RecordEnd(p, i) > n)
               PROVE  RecordEnd(p, i) + 1 \in (i + 1) .. (n + 1)
    OBVIOUS
  <2>1. i \in Nat \ {0}
    OBVIOUS
  <2>2. RecordEnd(p, i) \in Nat /\ RecordEnd(p, i) >= i + 4
    BY <2>1, HeaderRead
  <2> QED BY <1>2, <2>1, <2>2
<1> DEFINE Steps(f, a) == \A i \in a .. (n + 1) : f[i] = After(f, p, i)
           Bad == {d \in 0 .. n : ~ \E f : f = [i \in (n + 1 - d) .. (n + 1) |-> f[i]] /\ Steps(f, n + 1 - d)}
<1>4. Bad = {}
  <2> SUFFICES ASSUME Bad # {} PROVE FALSE
    OBVIOUS
  <2>1. PICK d \in Bad : \A k \in Bad : ~ (k < d)
    <3>1. Bad \in SUBSET Nat
      BY <1>2
    <3> HIDE DEF Bad
    <3> QED BY <3>1, LeastOf
  <2>2. d \in 0 .. n /\ n + 1 - d \in 1 .. (n + 1) /\ ~ \E f : f = [i \in (n + 1 - d) .. (n + 1) |-> f[i]] /\ Steps(f, n + 1 - d)
    BY <1>2, <2>1
  <2>3. PICK a \in 1 .. (n + 1) : a = n + 1 - d
    BY <2>2
  <2>4. \E g : Steps(g, a + 1)
    <3>1. CASE d = 0
      <4>1. a + 1 = n + 2 /\ \A i \in Int : i \notin (n + 2) .. (n + 1)
        BY <1>2, <2>3, <3>1
      <4>2. Steps(<<>>, a + 1)
        BY <1>2, <4>1
      <4> QED BY <4>2
    <3>2. CASE d # 0
      <4>1. d - 1 \in 0 .. n /\ d - 1 < d /\ n + 1 - (d - 1) = a + 1
        BY <1>2, <2>2, <2>3, <3>2
      <4>2. d - 1 \notin Bad
        BY <2>1, <4>1
      <4>3. \E g : Steps(g, n + 1 - (d - 1))
        <5> HIDE DEF Steps
        <5> QED BY <4>1, <4>2
      <4> QED BY <4>1, <4>3
    <3> QED BY <3>1, <3>2
  <2>5. PICK g : Steps(g, a + 1)
    BY <2>4
  <2> DEFINE h == [i \in a .. (n + 1) |-> IF i = a THEN After(g, p, a) ELSE g[i]]
  <2>6. \A i \in a .. (n + 1) : \A j \in (i + 1) .. (n + 1) : h[j] = g[j]
    <3> TAKE i \in a .. (n + 1)
    <3> TAKE j \in (i + 1) .. (n + 1)
    <3>1. j \in a .. (n + 1) /\ j # a
      BY <1>2
    <3> QED BY <3>1
  <2>7. ASSUME NEW i \in a .. (n + 1) PROVE After(h, p, i) = After(g, p, i)
    <3>1. i \in 1 .. (n + 1)
      BY <1>2
    <3>2. CASE IsHeader(p, i) /\ ~ (RecordEnd(p, i) > n)
      <4>1. h[RecordEnd(p, i) + 1] = g[RecordEnd(p, i) + 1]
        <5> HIDE DEF h
        <5> QED BY <1>3, <2>6, <3>1, <3>2
      <4> HIDE DEF h
      <4> QED BY <4>1 DEF After
    <3>3. CASE ~ (IsHeader(p, i) /\ ~ (RecordEnd(p, i) > n))
      <4> HIDE DEF h
      <4> QED BY <3>3 DEF After
    <3> QED BY <3>2, <3>3
  <2>8. ASSUME NEW i \in a .. (n + 1) PROVE h[i] = After(h, p, i)
    <3>1. CASE i = a
      <4>1. h[a] = After(g, p, a)
        BY <3>1
      <4> HIDE DEF h
      <4> QED BY <2>7, <3>1, <4>1
    <3>2. CASE i # a
      <4>1. i \in (a + 1) .. (n + 1)
        BY <1>2, <3>2
      <4>2. h[i] = g[i] /\ g[i] = After(g, p, i)
        BY <2>5, <3>2, <4>1
      <4> HIDE DEF h
      <4> QED BY <2>7, <4>2
    <3> QED BY <3>1, <3>2
  <2>9. h = [i \in a .. (n + 1) |-> h[i]]
    OBVIOUS
  <2> HIDE DEF h
  <2>10. Steps(h, a)
    BY <2>8
  <2> HIDE DEF Steps
  <2> QED BY <2>2, <2>3, <2>9, <2>10
<1>5. PICK f : f = [i \in 1 .. (n + 1) |-> f[i]] /\ Steps(f, 1)
  <2>1. n \in 0 .. n /\ n + 1 - n = 1
    BY <1>2
  <2>2. \E f : f = [i \in (n + 1 - n) .. (n + 1) |-> f[i]] /\ Steps(f, n + 1 - n)
    <3> HIDE DEF Steps
    <3> QED BY <1>4, <2>1
  <2> QED BY <2>1, <2>2
<1>6. f = Body(f)
  <2>1. \A i \in 1 .. (n + 1) : f[i] = After(f, p, i)
    BY <1>5
  <2>2. [i \in 1 .. (n + 1) |-> f[i]] = [i \in 1 .. (n + 1) |-> After(f, p, i)]
    BY <2>1
  <2> QED BY <1>5, <2>2
<1>7. From = Body(From)
  <2> HIDE DEF Body
  <2> QED BY <1>6
<1> HIDE DEF From
<1>8. \A i \in 1 .. (n + 1) : From[i] = After(From, p, i)
  BY <1>7
<1> QED BY <1>1, <1>8 DEF Parsed

(* What is parsed of a payload is its first record, and what follows it. *)
LEMMA HelloRecord ==
  ASSUME NEW m, NEW p \in Payload, IsClientHello(m, p)
  PROVE  /\ IsHeader(p, 1) /\ p[1] = U("rec", p[1].v) /\ p[1].v \in Nat
         /\ p # <<>> /\ HeaderLen + p[1].v <= Len(p)
         /\ RecordData(p, 1) \in Payload /\ Len(RecordData(p, 1)) = p[1].v
         /\ \A i \in 1 .. p[1].v : RecordData(p, 1)[i] = p[HeaderLen + i]
<1>1. p \in Seq(Unit) /\ p \in Seq(Sound)
  BY DEF Payload, Sound
<1>2. PICK f : Parsed(f, p) /\ Records(p) = f[1]
  BY <1>1, Parsing
<1>3. f[1] = After(f, p, 1)
  <2>1. Len(p) \in Nat
    BY <1>1
  <2>2. 1 \in 1 .. (Len(p) + 1)
    BY <2>1
  <2> QED BY <1>2, <2>2 DEF Parsed
<1>4. Records(p) # <<>> /\ \A i \in DOMAIN Records(p) : Records(p)[i] # <<>>
  BY DEF IsClientHello
<1>5. IsHeader(p, 1)
  BY <1>2, <1>3, <1>4 DEF After
<1>6. ~ (RecordEnd(p, 1) > Len(p))
  <2>1. RecordEnd(p, 1) > Len(p) => Records(p) = <<<<>>>>
    BY <1>2, <1>3, <1>5 DEF After
  <2>2. 1 \in DOMAIN <<<<>>>> /\ <<<<>>>>[1] = <<>>
    OBVIOUS
  <2> QED BY <1>4, <2>1, <2>2
<1>7. /\ 5 <= Len(p) /\ HeaderLen = 5 /\ p[1].v \in Nat /\ p[1] = U("rec", p[1].v)
      /\ RecordEnd(p, 1) = 1 + 4 + p[1].v
  BY <1>1, <1>5, HeaderRead
<1> DEFINE v == p[1].v
<1> HIDE DEF v
<1>8. v \in Nat /\ Len(p) \in Nat /\ RecordEnd(p, 1) = 5 + v /\ 5 + v <= Len(p)
  <2>1. Len(p) \in Nat
    BY <1>1
  <2> QED BY <1>6, <1>7, <2>1 DEF v
<1>9. RecordData(p, 1) = SubSeq(p, 5 + 1, 5 + v)
  <2>1. 1 + HeaderLen = 5 + 1
    BY <1>7
  <2> QED BY <1>8, <2>1 DEF RecordData
<1>10. /\ SubSeq(p, 5 + 1, 5 + v) \in Seq(Sound)
       /\ Len(SubSeq(p, 5 + 1, 5 + v)) = IF 5 < 5 + v THEN (5 + v) - 5 ELSE 0
       /\ \A i \in 1 .. (5 + v) - 5 : SubSeq(p, 5 + 1, 5 + v)[i] = p[5 + i]
  <2>1. 5 \in Nat /\ 5 + v \in 0 .. Len(p)
    BY <1>8
  <2> QED BY <1>1, <2>1, Part
<1>11. (5 + v) - 5 = v /\ (IF 5 < 5 + v THEN (5 + v) - 5 ELSE 0) = v
  BY <1>8
<1>12. p # <<>>
  BY <1>7, <1>8
<1> QED BY <1>5, <1>7, <1>8, <1>9, <1>10, <1>11, <1>12 DEF v, Payload

-----------------------------------------------------------------------------
(* Split positions are places in the payload.                               *)

(* The place behind some units is one. *)
LEMMA BehindIs ==
  ASSUME NEW p \in Payload, NEW i \in 0 .. Len(p), NEW kinds
  PROVE  /\ Behind(p, i, kinds) \in i .. Len(p)
         /\ \A j \in (i + 1) .. Behind(p, i, kinds) : p[j].k \in kinds
<1> DEFINE Fits(o) == o = Len(p) \/ p[o + 1].k \notin kinds
           S == {o \in i .. Len(p) : Fits(o)}
<1>1. Len(p) \in Nat /\ i \in Nat
  BY DEF Payload
<1>2. S \in SUBSET Nat /\ S # {}
  <2>1. Len(p) \in S
    BY <1>1
  <2> QED BY <1>1, <2>1
<1>3. PICK o \in S : \A k \in S : ~ (k < o)
  <2> HIDE DEF S
  <2> QED BY <1>2, LeastOf
<1>4. \A j \in (i + 1) .. o : p[j].k \in kinds
  <2> SUFFICES ASSUME NEW j \in (i + 1) .. o PROVE p[j].k \in kinds
    OBVIOUS
  <2>1. j - 1 \in i .. Len(p) /\ j - 1 < o /\ j - 1 # Len(p) /\ (j - 1) + 1 = j
    BY <1>1, <1>3
  <2>2. ~ Fits(j - 1)
    BY <1>3, <2>1
  <2> QED BY <2>1, <2>2
<1>5. o \in i .. Len(p) /\ (\A j \in (i + 1) .. o : p[j].k \in kinds) /\ (o = Len(p) \/ p[o + 1].k \notin kinds)
  BY <1>3, <1>4
<1> DEFINE Is(x) == (\A j \in (i + 1) .. x : p[j].k \in kinds) /\ (x = Len(p) \/ p[x + 1].k \notin kinds)
<1>6. Behind(p, i, kinds) = CHOOSE x \in i .. Len(p) : Is(x)
  BY DEF Behind
<1>7. o \in i .. Len(p) /\ Is(o)
  BY <1>5
<1>8. Behind(p, i, kinds) \in i .. Len(p) /\ Is(Behind(p, i, kinds))
  <2> HIDE DEF Is
  <2> QED BY <1>6, <1>7
<1> QED BY <1>8

(* The Host header is where one is. *)
LEMMA HostIs ==
  ASSUME NEW m, NEW p \in Payload, HasHost(m, p)
  PROVE  HostAt(p) \in 1 .. Len(p) /\ p[HostAt(p)].k = "host"
<1> DEFINE S == {i \in 1 .. Len(p) : p[i].k = "host"}
           Is(i) == p[i].k = "host" /\ \A j \in DOMAIN p : p[j].k = "host" => i <= j
<1>1. Len(p) \in Nat /\ DOMAIN p = 1 .. Len(p)
  BY DEF Payload
<1>2. S \in SUBSET Nat /\ S # {}
  BY <1>1 DEF HasHost
<1>3. PICK i \in S : \A k \in S : ~ (k < i)
  <2> HIDE DEF S
  <2> QED BY <1>2, LeastOf
<1>4. \A j \in DOMAIN p : p[j].k = "host" => i <= j
  BY <1>1, <1>3
<1>5. i \in DOMAIN p /\ Is(i)
  BY <1>1, <1>3, <1>4
<1>6. HostAt(p) = CHOOSE x \in DOMAIN p : Is(x)
  BY DEF HostAt
<1>7. HostAt(p) \in DOMAIN p /\ Is(HostAt(p))
  <2> HIDE DEF Is
  <2> QED BY <1>5, <1>6
<1> QED BY <1>1, <1>7

(* The second-level domain lies in front of the last label. *)
LEMMA SldIs ==
  ASSUME NEW name \in Seq(STRING), HasSld(name)
  PROVE  SldEnd(name) \in 0 .. (Len(name) - 1) /\ SldStart(name) \in 0 .. SldEnd(name)
<1> DEFINE D == Dots(name)
           T == {0} \cup {d \in D : d <= SldEnd(name)}
<1>1. Len(name) \in Nat /\ D \in SUBSET (0 .. Len(name)) /\ D # {} /\ \A d \in D : d \in 1 .. Len(name)
  BY DEF Dots, HasSld
<1>2. SldEnd(name) = Max(D) - 1 /\ SldStart(name) = Max(T)
  BY DEF SldEnd, SldStart
<1>3. Max(D) \in D
  <2> HIDE DEF D
  <2> QED BY <1>1, MaxOf
<1>4. Max(D) \in 1 .. Len(name)
  <2> HIDE DEF D
  <2> QED BY <1>1, <1>3
<1>5. SldEnd(name) \in 0 .. (Len(name) - 1)
  <2> HIDE DEF D, T
  <2> QED BY <1>1, <1>2, <1>4
<1>6. T \in SUBSET (0 .. Len(name)) /\ T # {}
  <2> HIDE DEF D
  <2>1. 0 \in T /\ 0 \in 0 .. Len(name)
    BY <1>1
  <2>2. \A t \in T : t = 0 \/ t \in D
    OBVIOUS
  <2>3. \A t \in T : t \in 0 .. Len(name)
    BY <1>1, <2>1, <2>2
  <2> QED BY <2>1, <2>3
<1>7. Max(T) \in T
  <2> HIDE DEF T
  <2> QED BY <1>1, <1>6, MaxOf
<1>8. \A t \in T : t \in 0 .. SldEnd(name)
  <2> HIDE DEF D
  <2> QED BY <1>1, <1>5
<1> QED BY <1>2, <1>5, <1>7, <1>8

(* Where the name stands. *)
LEMMA SniIs ==
  ASSUME NEW m \in Input, NEW p \in Payload, HasSni(m, p)
  PROVE  SniOffset(m) \in Nat /\ SniOffset(m) = 5 + m.pre /\ Len(p) \in Nat \ {0} /\ m.name \in Seq(STRING)
<1>1. m.pre \in Nat /\ m.name \in Seq(STRING)
  BY DEF Input
<1>2. SniOffset(m) = 5 + m.pre
  BY DEF SniOffset, HeaderLen
<1>3. p # <<>>
  BY HelloRecord DEF HasSni
<1>4. Len(p) \in Nat \ {0}
  BY <1>3, EmptySeq DEF Payload
<1> QED BY <1>1, <1>2, <1>4

(* A position is resolved to places in a payload that has some. *)
LEMMA ResolveIs ==
  ASSUME NEW m \in Input, NEW p \in Payload, NEW pos \in Position
  PROVE  /\ Resolve(m, p, pos) \subseteq Nat
         /\ Resolve(m, p, pos) # {} => Len(p) \in Nat \ {0}
<1> USE DEF Position
<1>1. Len(p) \in Nat
  BY DEF Payload
<1>2. ASSUME NEW S, NEW x \in Within(p, S), S \subseteq Int PROVE x \in Nat /\ Len(p) \in Nat \ {0}
  BY <1>1, <1>2 DEF Within
<1>3. ASSUME NEW o, NEW x \in SldOffset(m, p, o) PROVE HasSni(m, p) /\ HasSld(m.name) /\ x = SniOffset(m) + o
  BY DEF SldOffset
<1>4. ASSUME NEW x \in Base(m, p, pos) PROVE x \in Nat /\ Len(p) \in Nat \ {0}
  <2>1. CASE pos.at = "Absolute"
    <3>1. x \in Within(p, {pos.lo}) /\ {pos.lo} \subseteq Int
      BY <2>1 DEF Base
    <3> QED BY <1>2, <3>1
  <2>2. CASE pos.at = "Sni"
    <3>1. x \in DefaultSplitOffset(m, p)
      BY <2>2 DEF Base
    <3>2. CASE HasSni(m, p)
      BY <3>1, <3>2, SniIs DEF DefaultSplitOffset
    <3>3. CASE ~ HasSni(m, p)
      <4>1. HasHost(m, p) /\ x = HostOffset(p)
        BY <3>1, <3>3 DEF DefaultSplitOffset
      <4>2. HostAt(p) \in 1 .. Len(p)
        BY <4>1, HostIs
      <4>3. HostAt(p) \in 0 .. Len(p) /\ Len(p) # 0
        BY <1>1, <4>2
      <4>4. x \in HostAt(p) .. Len(p)
        BY <4>1, <4>3, BehindIs DEF HostOffset
      <4> QED BY <1>1, <4>2, <4>3, <4>4
    <3> QED BY <3>2, <3>3
  <2>3. CASE pos.at = "Random"
    <3>1. x \in pos.lo .. (pos.hi - 1) /\ pos.hi < Len(p) /\ pos.lo < pos.hi
      <4>1. Base(m, p, pos) = IF pos.lo < pos.hi /\ pos.hi < Len(p) THEN pos.lo..(pos.hi - 1) ELSE {}
        BY <2>3 DEF Base
      <4> QED BY <4>1
    <3> QED BY <1>1, <3>1
  <2>4. CASE pos.at = "SniExtStart"
    <3>1. HasSni(m, p) /\ x \in Within(p, {SniOffset(m) - 9})
      BY <2>4 DEF Base
    <3>2. {SniOffset(m) - 9} \subseteq Int
      BY <3>1, SniIs
    <3> QED BY <1>2, <3>1, <3>2
  <2>5. CASE pos.at = "EndSld"
    <3>1. x \in Within(p, SldOffset(m, p, SldEnd(m.name)))
      BY <2>5 DEF Base
    <3>2. SldOffset(m, p, SldEnd(m.name)) \subseteq Int
      <4> SUFFICES ASSUME NEW y \in SldOffset(m, p, SldEnd(m.name)) PROVE y \in Int
        OBVIOUS
      <4>1. HasSni(m, p) /\ HasSld(m.name) /\ y = SniOffset(m) + SldEnd(m.name)
        BY <1>3
      <4>2. SniOffset(m) \in Nat /\ m.name \in Seq(STRING)
        BY <4>1, SniIs
      <4>3. SldEnd(m.name) \in Int
        BY <4>1, <4>2, SldIs
      <4> QED BY <4>1, <4>2, <4>3
    <3> QED BY <1>2, <3>1, <3>2
  <2>6. CASE pos.at = "MidSld"
    <3> DEFINE mid == SldStart(m.name) + (SldEnd(m.name) - SldStart(m.name)) \div 2
    <3>1. x \in Within(p, SldOffset(m, p, mid))
      BY <2>6 DEF Base
    <3>2. SldOffset(m, p, mid) \subseteq Int
      <4> SUFFICES ASSUME NEW y \in SldOffset(m, p, mid) PROVE y \in Int
        OBVIOUS
      <4>1. HasSni(m, p) /\ HasSld(m.name) /\ y = SniOffset(m) + mid
        BY <1>3
      <4>2. SniOffset(m) \in Nat /\ m.name \in Seq(STRING)
        BY <4>1, SniIs
      <4>3. SldEnd(m.name) \in 0 .. (Len(m.name) - 1) /\ SldStart(m.name) \in 0 .. SldEnd(m.name)
        BY <4>1, <4>2, SldIs
      <4>4. PICK e \in Int : e = SldEnd(m.name)
        BY <4>3
      <4>5. PICK s \in Int : s = SldStart(m.name)
        BY <4>3
      <4>6. mid = s + (e - s) \div 2 /\ mid \in Int
        BY <4>4, <4>5
      <4> HIDE DEF mid
      <4> QED BY <4>1, <4>2, <4>6
    <3> QED BY <1>2, <3>1, <3>2
  <2>7. pos.at \in {"Absolute", "Sni", "Random", "SniExtStart", "EndSld", "MidSld"}
    OBVIOUS
  <2> QED BY <2>1, <2>2, <2>3, <2>4, <2>5, <2>6, <2>7
<1>5. CASE pos.delta = 0
  BY <1>4, <1>5 DEF Resolve
<1>6. CASE pos.delta # 0
  <2>1. Resolve(m, p, pos) = Within(p, {o + pos.delta : o \in Base(m, p, pos)})
    BY <1>6 DEF Resolve
  <2>2. {o + pos.delta : o \in Base(m, p, pos)} \subseteq Int
    BY <1>4
  <2> QED BY <1>2, <2>1, <2>2
<1> QED BY <1>5, <1>6

(* A technique's configuration, as it is used. *)
Setting(c) == c.pos \in Position /\ c.jitter \in Nat /\ c.fragments \in Nat

(* Jitter stays among the places. *)
LEMMA OffsetsAre ==
  ASSUME NEW m \in Input, NEW p \in Payload, NEW c, Setting(c)
  PROVE  Offsets(m, p, c) \subseteq Nat
<1> DEFINE Moved(o, d) == LET up == IF o + d < 1 THEN 1 ELSE o + d IN IF up < Len(p) THEN up ELSE Len(p) - 1
<1>1. Resolve(m, p, c.pos) \subseteq Nat /\ (Resolve(m, p, c.pos) # {} => Len(p) \in Nat \ {0})
  BY ResolveIs DEF Setting
<1>2. CASE c.jitter = 0
  BY <1>1, <1>2 DEF Offsets
<1>3. CASE c.jitter # 0
  <2>1. Offsets(m, p, c) = {Moved(o, d) : o \in Resolve(m, p, c.pos), d \in -c.jitter..c.jitter}
    BY <1>3 DEF Offsets
  <2>2. ASSUME NEW o \in Resolve(m, p, c.pos), NEW d \in -c.jitter..c.jitter PROVE Moved(o, d) \in Nat
    <3>1. o \in Nat /\ Len(p) \in Nat \ {0} /\ d \in Int
      BY <1>1 DEF Setting
    <3> QED BY <3>1
  <2> HIDE DEF Moved
  <2> QED BY <2>1, <2>2
<1> QED BY <1>2, <1>3

-----------------------------------------------------------------------------
(* What each technique returns is sound.                                    *)

Types == {"None", "PassThrough", "NotApplicable", "Replace", "Split", "InjectBefore"}
Act   == [type : Types, chunks : Seq(Payload)]

(* The actions without bytes, and those with. *)
LEMMA ActionsSound ==
  /\ PassThrough \in Act /\ NotApplicable \in Act /\ None \in Act
  /\ \A q \in Payload : Replace(q) \in Act
  /\ \A s \in Seq(Payload) : Split(s) \in Act /\ Action("InjectBefore", s) \in Act
<1>1. <<>> \in Seq(Payload)
  OBVIOUS
<1>2. \A q \in Payload : <<q>> \in Seq(Payload)
  OBVIOUS
<1>3. ASSUME NEW t \in Types, NEW s \in Seq(Payload) PROVE Action(t, s) \in Act
  BY DEF Action, Act
<1>4. {"None", "PassThrough", "NotApplicable", "Replace", "Split", "InjectBefore"} = Types
  BY DEF Types
<1> QED BY <1>1, <1>2, <1>3, <1>4 DEF PassThrough, NotApplicable, None, Replace, Split

(* The halves of a payload. *)
LEMMA HalvesSound ==
  ASSUME NEW p \in Payload, NEW o \in Nat, ~ (o >= Len(p))
  PROVE  /\ Len(Halves(p, o)) = 2 /\ Halves(p, o)[1] \in Payload /\ Halves(p, o)[2] \in Payload
         /\ Len(Halves(p, o)[1]) = o /\ Len(Halves(p, o)[2]) = Len(p) - o
         /\ \A i \in 1 .. o : Halves(p, o)[1][i] = p[i]
         /\ \A i \in 1 .. Len(p) - o : Halves(p, o)[2][i] = p[o + i]
<1>1. Len(p) \in Nat /\ o \in 0 .. Len(p) /\ Len(p) \in 0 .. Len(p) /\ o < Len(p) /\ p \in Seq(Sound)
  BY DEF Payload
<1>2. /\ SubSeq(p, 1, o) \in Payload /\ Len(SubSeq(p, 1, o)) = o
      /\ \A i \in 1 .. o : SubSeq(p, 1, o)[i] = p[i]
  BY <1>1, FrontPart DEF Payload
<1>3. /\ SubSeq(p, o + 1, Len(p)) \in Payload
      /\ Len(SubSeq(p, o + 1, Len(p))) = IF o < Len(p) THEN Len(p) - o ELSE 0
      /\ \A i \in 1 .. Len(p) - o : SubSeq(p, o + 1, Len(p))[i] = p[o + i]
  BY <1>1, Part DEF Payload
<1>4. /\ Len(Halves(p, o)) = 2 /\ Halves(p, o)[1] = SubSeq(p, 1, o)
      /\ Halves(p, o)[2] = SubSeq(p, o + 1, Len(p))
  BY DEF Halves
<1> QED BY <1>1, <1>2, <1>3, <1>4

(* Cutting a payload in two, and exchanging the halves. *)
LEMMA SplitSound ==
  ASSUME NEW p \in Payload, NEW S \in SUBSET Nat
  PROVE  TcpSplit(p, S) \subseteq Act /\ Disorder(p, S) \subseteq Act
<1>1. ASSUME NEW o \in S, ~ (o >= Len(p))
      PROVE  Split(Halves(p, o)) \in Act /\ Split(<<Halves(p, o)[2], Halves(p, o)[1]>>) \in Act
  <2>1. Halves(p, o)[1] \in Payload /\ Halves(p, o)[2] \in Payload
    BY <1>1, HalvesSound
  <2>2. Halves(p, o) = <<Halves(p, o)[1], Halves(p, o)[2]>>
    BY DEF Halves
  <2>3. \A x, y \in Payload : <<x, y>> \in Seq(Payload)
    OBVIOUS
  <2>4. Halves(p, o) \in Seq(Payload) /\ <<Halves(p, o)[2], Halves(p, o)[1]>> \in Seq(Payload)
    BY Zenon, <2>1, <2>2, <2>3
  <2> QED BY <2>4, ActionsSound
<1>2. PassThrough \in Act /\ NotApplicable \in Act
  BY ActionsSound
<1> QED BY <1>1, <1>2 DEF TcpSplit, Disorder

(* A clamp to the places inside some data. *)
LEMMA Inside ==
  ASSUME NEW x \in Nat, NEW n \in Nat, n >= 2
  PROVE  Clamp(x, 1, n - 1) \in 1 .. n - 1 /\ InData(x, n) \in 1 .. n - 1
<1>1. Clamp(x, 1, n - 1) \in 1 .. n - 1
  BY DEF Clamp
<1> QED BY <1>1, CutIsInside

(* The number of fragments. *)
LEMMA Fragments ==
  ASSUME NEW n \in Nat
  PROVE  Clamp(IF n = 0 THEN 3 ELSE n, 2, 8) \in 2 .. 8
BY DEF Clamp

(* A cut of the data is before its end. *)
LEMMA RewriteSound ==
  ASSUME NEW data \in Payload, NEW cuts \in SUBSET (1 .. Len(data) - 1)
  PROVE  Replace(WriteRecords(data, cuts)) \in Act
BY RecordsWritten, ActionsSound

(* Both fragmentations write sound records. *)
LEMMA FragSound ==
  ASSUME NEW m \in Input, NEW p \in Payload, NEW S \in SUBSET Nat, NEW fragments \in Nat
  PROVE  TlsRecordFrag(m, p, S) \subseteq Act /\ MultiStreamFrag(m, p, S, fragments) \subseteq Act
<1> DEFINE v == p[1].v
           data == RecordData(p, 1)
<1>1. NotApplicable \in Act
  BY ActionsSound
<1>2. ASSUME NEW o \in S, HasSni(m, p), ~ (v < 2) PROVE Replace(WriteRecords(data, {InData(o, v)})) \in Act
  <2>1. v \in Nat /\ data \in Payload /\ Len(data) = v
    BY <1>2, HelloRecord DEF HasSni
  <2> HIDE DEF v, data
  <2>2. InData(o, v) \in 1 .. v - 1
    BY <1>2, <2>1, Inside
  <2> QED BY <2>1, <2>2, RewriteSound
<1>3. TlsRecordFrag(m, p, S) \subseteq Act
  <2> SUFFICES ASSUME NEW a \in TlsRecordFrag(m, p, S) PROVE a \in Act
    OBVIOUS
  <2>1. CASE ~HasSni(m, p) \/ v < 2 \/ S = {}
    BY <1>1, <2>1 DEF TlsRecordFrag
  <2>2. CASE ~ (~HasSni(m, p) \/ v < 2 \/ S = {})
    <3>1. TlsRecordFrag(m, p, S) = {Replace(WriteRecords(data, {InData(o, v)})) : o \in S}
      BY <2>2 DEF TlsRecordFrag
    <3> HIDE DEF v, data
    <3> QED BY <1>2, <2>2, <3>1
  <2> QED BY <2>1, <2>2
<1>4. MultiStreamFrag(m, p, S, fragments) \subseteq Act
  <2> DEFINE n == Clamp(IF fragments = 0 THEN 3 ELSE fragments, 2, 8)
             places == IF S = {} THEN {HeaderLen + v \div 2} ELSE S
  <2>1. MultiStreamFrag(m, p, S, fragments) =
          IF ~HasSni(m, p) \/ v < n THEN {NotApplicable}
          ELSE {Replace(WriteRecords(data, SplitPoints(v, InData(o, v), n))) : o \in places}
    BY DEF MultiStreamFrag
  <2>2. n \in 2 .. 8
    BY Fragments
  <2>3. ASSUME NEW o \in places, HasSni(m, p), ~ (v < n)
        PROVE  Replace(WriteRecords(data, SplitPoints(v, InData(o, v), n))) \in Act
    <3>1. v \in Nat /\ data \in Payload /\ Len(data) = v
      BY <2>3, HelloRecord DEF HasSni
    <3>2. o \in Nat
      <4>1. HeaderLen + v \div 2 \in Nat
        <5> HIDE DEF v
        <5> QED BY <3>1 DEF HeaderLen
      <4> QED BY <2>3, <4>1
    <3> HIDE DEF v, data, n, places
    <3>3. v >= 2
      BY <2>2, <2>3, <3>1
    <3>4. InData(o, v) \in 1 .. v - 1
      BY <3>1, <3>2, <3>3, Inside
    <3>5. SplitPoints(v, InData(o, v), n) \subseteq 1 .. v - 1
      BY <2>2, <3>1, <3>4, LastCutIsTheName
    <3> QED BY <3>1, <3>5, RewriteSound
  <2> HIDE DEF v, data, n, places
  <2> QED BY <1>1, <2>1, <2>3
<1> QED BY <1>3, <1>4

(* A name that is overwritten is no header. *)
LEMMA ManipSound ==
  ASSUME NEW m \in Input, NEW p \in Payload, NEW mode
  PROVE  SniManip(m, p, mode) \subseteq Act
<1> DEFINE o == SniOffset(m)
           n == Len(m.name)
           k == IF mode = "Remove" THEN "dot" ELSE "mixed"
           q == [i \in DOMAIN p |-> IF o < i /\ i <= o + n THEN U(k, i - o) ELSE p[i]]
<1>1. k \in Kinds /\ k # "rec"
  BY DEF Kinds
<1>2. o \in Nat
  BY DEF SniOffset, HeaderLen, Input
<1>3. p \in Seq(Sound) /\ Len(p) \in Nat /\ DOMAIN p = 1 .. Len(p)
  BY DEF Payload
<1> DEFINE Written == Replace(q)
<1>4. SniManip(m, p, mode) = IF ~HasSni(m, p) \/ o + n > Len(p) THEN {NotApplicable} ELSE {Written}
  BY DEF SniManip
<1>5. q \in Payload
  <2> HIDE DEF k, o, n
  <2>1. ASSUME NEW i \in 1 .. Len(p) PROVE (IF o < i /\ i <= o + n THEN U(k, i - o) ELSE p[i]) \in Sound
    <3>1. CASE o < i
      <4>1. i - o \in Nat
        BY <1>2, <1>3, <3>1
      <4>2. U(k, i - o) \in Sound
        BY <1>1, <4>1, SoundUnit
      <4> QED BY <1>3, <4>2
    <3>2. CASE ~ (o < i)
      BY <1>3, <3>2
    <3> QED BY <3>1, <3>2
  <2>2. q = [i \in 1 .. Len(p) |-> IF o < i /\ i <= o + n THEN U(k, i - o) ELSE p[i]]
    BY <1>3
  <2> HIDE DEF q
  <2> QED BY <1>3, <2>1, <2>2 DEF Payload
<1> HIDE DEF q
<1>6. Written \in Act /\ NotApplicable \in Act
  BY <1>5, ActionsSound
<1> HIDE DEF Written
<1> QED BY <1>4, <1>6

(* A Host line that is rewritten is what it was but for what surrounds the value. *)
LEMMA HostLineSound ==
  ASSUME NEW m, NEW p \in Payload, HasHost(m, p), NEW separator \in Payload, NEW behind \in Payload
  PROVE  Replace(HostLine(p, separator, behind)) \in Act
<1> DEFINE h == HostAt(p)
           v == Behind(p, h, {"sp", "tab"})
           e == Behind(p, v, {"val"})
<1>1. Len(p) \in Nat /\ p \in Seq(Sound)
  BY DEF Payload
<1>2. h \in 1 .. Len(p)
  BY HostIs
<1>3. h \in 0 .. Len(p) /\ h \in Nat
  BY <1>1, <1>2
<1>4. v \in h .. Len(p)
  <2> HIDE DEF h
  <2> QED BY <1>3, BehindIs
<1>5. v \in 0 .. Len(p) /\ v \in Nat
  <2> HIDE DEF h, v
  <2> QED BY <1>1, <1>3, <1>4
<1>6. e \in v .. Len(p)
  <2> HIDE DEF h, v
  <2> QED BY <1>5, BehindIs
<1>7. HostLine(p, separator, behind) =
        SubSeq(p, 1, h) \o separator \o SubSeq(p, v + 1, e) \o behind \o SubSeq(p, e + 1, Len(p))
  BY DEF HostLine
<1> HIDE DEF h, v, e
<1>8. e \in 0 .. Len(p) /\ e \in Nat /\ Len(p) \in 0 .. Len(p)
  BY <1>1, <1>5, <1>6
<1>9. SubSeq(p, 1, h) \in Seq(Sound)
  BY <1>1, <1>3, FrontPart
<1>10. SubSeq(p, v + 1, e) \in Seq(Sound) /\ SubSeq(p, e + 1, Len(p)) \in Seq(Sound)
  BY <1>1, <1>5, <1>8, Part
<1>11. SubSeq(p, 1, h) \o separator \in Seq(Sound)
  BY <1>9, Joint DEF Payload
<1>12. SubSeq(p, 1, h) \o separator \o SubSeq(p, v + 1, e) \in Seq(Sound)
  BY <1>10, <1>11, Joint
<1>13. SubSeq(p, 1, h) \o separator \o SubSeq(p, v + 1, e) \o behind \in Seq(Sound)
  BY <1>12, Joint DEF Payload
<1>14. HostLine(p, separator, behind) \in Payload
  BY <1>7, <1>10, <1>13, Joint DEF Payload
<1> QED BY <1>14, ActionsSound

(* The modes of http_host. *)
LEMMA HostSound ==
  ASSUME NEW m, NEW p \in Payload, NEW mode
  PROVE  HttpHost(m, p, mode) \subseteq Act
<1>1. CASE ~HasHost(m, p)
  BY <1>1, ActionsSound DEF HttpHost
<1>2. CASE HasHost(m, p)
  <2> SUFFICES ASSUME NEW a \in HttpHost(m, p, mode) PROVE a \in Act
    OBVIOUS
  <2> DEFINE recased == [p EXCEPT ![HostAt(p)].v = 1]
  <2>1. \/ a = Replace(HostLine(p, [i \in 1..3 |-> U("sp", 0)], <<>>))
        \/ a = Replace(HostLine(p, <<U("tab", 0)>>, <<>>))
        \/ a = Replace(HostLine(p, <<U("fold", 0)>>, <<>>))
        \/ a = Replace(HostLine(p, <<U("sp", 0)>>, <<U("decoy", 0)>>))
        \/ a = Replace(recased)
    BY <1>2 DEF HttpHost
  <2>2. U("sp", 0) \in Sound /\ U("tab", 0) \in Sound /\ U("fold", 0) \in Sound /\ U("decoy", 0) \in Sound
    <3>1. {"sp", "tab", "fold", "decoy"} \subseteq Kinds
      BY DEF Kinds
    <3> QED BY <3>1, SoundUnit
  <2>3. /\ [i \in 1..3 |-> U("sp", 0)] \in Payload /\ <<U("tab", 0)>> \in Payload
        /\ <<U("fold", 0)>> \in Payload /\ <<U("sp", 0)>> \in Payload
        /\ <<U("decoy", 0)>> \in Payload /\ <<>> \in Payload
    BY <2>2 DEF Payload
  <2>4. Replace(recased) \in Act
    <3> DEFINE h == HostAt(p)
               u == [p[h] EXCEPT !.v = 1]
    <3>1. h \in 1 .. Len(p) /\ p[h].k = "host" /\ p \in Seq(Sound) /\ p[h] \in Unit
      <4>1. h \in 1 .. Len(p) /\ p[h].k = "host"
        BY <1>2, HostIs
      <4>2. p[h] \in Sound
        BY <4>1, ElementOfSeq DEF Payload
      <4> QED BY <4>1, <4>2 DEF Payload, Sound
    <3>2. u \in Sound
      <4>1. u.k = "host" /\ u \in Unit
        BY <3>1 DEF Unit
      <4> QED BY <4>1 DEF Sound
    <3>3. recased = [p EXCEPT ![h] = u]
      OBVIOUS
    <3> HIDE DEF h, u
    <3>4. [p EXCEPT ![h] = u] \in Seq(Sound)
      BY <3>1, <3>2, ExceptSeq
    <3> QED BY <3>3, <3>4, ActionsSound DEF Payload
  <2> HIDE DEF recased
  <2> QED BY <1>2, <2>1, <2>3, <2>4, HostLineSound
<1> QED BY <1>1, <1>2

(* Whatever the technique. *)
LEMMA ApplySound ==
  ASSUME NEW m \in Input, NEW p \in Payload, NEW c, Setting(c)
  PROVE  Apply(m, p, c) \subseteq Act
<1>1. Offsets(m, p, c) \in SUBSET Nat
  BY OffsetsAre
<1>2. c.fragments \in Nat
  BY DEF Setting
<1>3. FakePacket(m, p) \subseteq Act
  <2>1. U("fake", 0) \in Sound
    <3>1. "fake" \in Kinds
      BY DEF Kinds
    <3> QED BY <3>1, SoundUnit
  <2>2. <<U("fake", 0)>> \in Payload
    BY <2>1 DEF Payload
  <2>3. <<<<U("fake", 0)>>>> \in Seq(Payload)
    BY <2>2
  <2> QED BY <2>3, ActionsSound DEF FakePacket
<1>4. /\ TcpSplit(p, Offsets(m, p, c)) \subseteq Act
      /\ Disorder(p, Offsets(m, p, c)) \subseteq Act
      /\ TlsRecordFrag(m, p, Offsets(m, p, c)) \subseteq Act
      /\ MultiStreamFrag(m, p, Offsets(m, p, c), c.fragments) \subseteq Act
      /\ SniManip(m, p, c.mode) \subseteq Act
      /\ HttpHost(m, p, c.mode) \subseteq Act
      /\ {NotApplicable} \subseteq Act
  BY <1>1, <1>2, SplitSound, FragSound, ManipSound, HostSound, ActionsSound
<1> QED BY <1>3, <1>4 DEF Apply

-----------------------------------------------------------------------------
(* What holds of every state.                                               *)

Typed ==
  /\ input \in Inputs /\ job \in Jobs
  /\ next \in Nat \ {0}
  /\ current \in Payload
  /\ prefix \in Seq(Payload) /\ split \in Seq(Payload)
  /\ result \in Act

(* Inputs and jobs are as assumed. *)
LEMMA Given ==
  ASSUME input \in Inputs, job \in Jobs
  PROVE  /\ input \in Input /\ input.cuts \subseteq 1 .. (MessageLen(input) - 1)
         /\ input.named => input.name # <<>>
         /\ Original(input) \in Payload
         /\ job.techs \in Seq(Config) /\ (job.chain \/ Len(job.techs) = 1)
<1>1. /\ input \in Input /\ input.cuts \subseteq 1 .. (MessageLen(input) - 1)
      /\ input.named => input.name # <<>>
      /\ job \in Job /\ (job.chain \/ Len(job.techs) = 1)
  BY TechniquesAssumption
<1>2. job.techs \in Seq(Config)
  BY <1>1 DEF Job
<1> QED BY <1>1, <1>2, OriginalSound

(* A configuration is a setting, also what a chain leaves of it. *)
LEMMA Settings ==
  ASSUME NEW c \in Config
  PROVE  Setting(c) /\ Setting(Bare(c)) /\ Bare(c).name = c.name /\ Bare(c).pos = c.pos
<1>1. Setting(c)
  BY DEF Config, Setting
<1>2. Bare(c).jitter = 0 /\ Bare(c).fragments = 0 /\ Bare(c).pos = c.pos /\ Bare(c).name = c.name
  BY DEF Bare, Config
<1> QED BY <1>1, <1>2 DEF Setting

LEMMA InitTyped == Init => Typed
<1> SUFFICES ASSUME Init PROVE Typed
  OBVIOUS
<1>1. <<>> \in Seq(Payload)
  OBVIOUS
<1> QED BY <1>1, Given, ActionsSound DEF Init, Typed

(* One technique alone. *)
LEMMA ApplyOneTyped ==
  ASSUME Typed, ApplyOne
  PROVE  Typed' /\ result' \in Apply(input, current, job.techs[1])
<1>1. job.techs \in Seq(Config) /\ job.techs # <<>> /\ input \in Input
  BY Given DEF Typed, ApplyOne
<1>2. job.techs[1] \in Config
  BY <1>1
<1>3. result' \in Act
  BY <1>1, <1>2, Settings, ApplySound DEF ApplyOne, Typed
<1> QED BY <1>3 DEF Typed, ApplyOne

(* A step of a chain. *)
LEMMA ChainStepTyped ==
  ASSUME Typed, ChainStep
  PROVE  Typed'
<1>1. job.techs \in Seq(Config) /\ input \in Input /\ next \in 1 .. Len(job.techs)
  BY Given DEF Typed, ChainStep
<1>2. job.techs[next] \in Config
  BY <1>1
<1>3. PICK a \in Apply(input, current, Bare(job.techs[next])) : Absorb(a)
  BY DEF ChainStep
<1>4. a \in Act
  BY <1>1, <1>2, <1>3, Settings, ApplySound DEF Typed
<1>5. a.chunks \in Seq(Payload)
  BY <1>4 DEF Act
<1>6. current' \in Payload
  <2>1. FlattenSeq(a.chunks) \in Payload
    BY <1>5, Flattened DEF Payload
  <2> QED BY <1>3, <2>1 DEF Absorb, Typed
<1>7. split' \in Seq(Payload)
  BY <1>3, <1>5 DEF Absorb, Typed
<1>8. prefix' \in Seq(Payload)
  <2>1. prefix \o a.chunks \in Seq(Payload)
    BY <1>5, Joint DEF Typed
  <2> QED BY <1>3, <2>1 DEF Absorb, Typed
<1> QED BY <1>6, <1>7, <1>8 DEF Typed, ChainStep

(* The end of a chain. *)
LEMMA ChainEndTyped ==
  ASSUME Typed, ChainEnd
  PROVE  Typed'
<1>1. prefix \o split \in Seq(Payload)
  BY Joint DEF Typed
<1>2. Combined \in Act
  BY <1>1, ActionsSound DEF Combined, Typed
<1> QED BY <1>2 DEF Typed, ChainEnd

(* Every state is typed: what is written is made of sound payloads. *)
THEOREM Typing == Spec => []Typed
<1>1. Init => Typed
  BY InitTyped
<1>2. Typed /\ [Next]_vars => Typed'
  <2> SUFFICES ASSUME Typed, [Next]_vars PROVE Typed'
    OBVIOUS
  <2>1. CASE ApplyOne BY <2>1, ApplyOneTyped
  <2>2. CASE ChainStep BY <2>2, ChainStepTyped
  <2>3. CASE ChainEnd BY <2>3, ChainEndTyped
  <2>4. CASE UNCHANGED vars BY <2>4 DEF Typed, vars
  <2> QED BY <2>1, <2>2, <2>3, <2>4 DEF Next
<1> QED BY <1>1, <1>2, PTL DEF Spec

(* No technique, alone or in a chain, writes a TLS record without data:       *)
(* wherever a position is resolved to, the clamps of tls_record_frag.rs and   *)
(* multi_stream_frag.rs keep the cuts inside the record.                      *)
THEOREM RecordsHaveData == Spec => []NoEmptyRecord
<1>1. Typed => NoEmptyRecord
  <2> SUFFICES ASSUME Typed, NEW i \in DOMAIN Segments, NEW j \in DOMAIN Segments[i],
                      IsHeader(Segments[i], j)
               PROVE  Segments[i][j].v > 0
    BY DEF NoEmptyRecord
  <2>1. Segments \in Seq(Payload)
    <3>1. Original(input) \in Payload /\ result.chunks \in Seq(Payload)
      BY Given DEF Typed, Act
    <3>2. Append(result.chunks, Original(input)) \in Seq(Payload)
      BY <3>1
    <3>3. <<Original(input)>> \in Seq(Payload)
      BY <3>1
    <3> QED BY <3>1, <3>2, <3>3 DEF Segments
  <2>2. Segments[i] \in Payload
    BY <2>1
  <2> DEFINE p == Segments[i]
  <2> HIDE DEF p
  <2>3. p \in Seq(Sound) /\ j \in DOMAIN p /\ IsHeader(p, j)
    BY <2>2 DEF Payload, p
  <2>4. j \in Nat \ {0} /\ p[j] \in Sound /\ p \in Seq(Unit)
    BY <2>3 DEF Sound
  <2>5. p[j] = U("rec", p[j].v) /\ p[j].v \in Nat
    BY <2>3, <2>4, HeaderRead
  <2>6. p[j].k = "rec"
    BY <2>5 DEF U
  <2>7. p[j].v # 0
    BY <2>4, <2>6 DEF Sound
  <2> QED BY <2>5, <2>7 DEF p
<1>2. Spec => []Typed
  BY Typing
<1> QED BY <1>1, <1>2, PTL

-----------------------------------------------------------------------------
(* Records that are written are read again.                                 *)

(* Where the units that are written for a part of the data end: a header in   *)
(* front of each record, then its data.                                       *)
Laid(w, pos, data, ends) ==
  /\ pos[0] = 0 /\ pos[Len(data)] = Len(w)
  /\ \A a \in {0} \cup ends : a < Len(data) =>
       /\ pos[EndAfter(ends, a)] = pos[a] + 5 + (EndAfter(ends, a) - a)
       /\ pos[EndAfter(ends, a)] <= Len(w)
       /\ \A j \in 1 .. 5 : w[pos[a] + j] = Header(EndAfter(ends, a) - a)[j]
       /\ \A k \in 1 .. (EndAfter(ends, a) - a) : w[pos[a] + 5 + k] = data[a + k]

(* What is joined stays where it is. *)
Stays(f, i, j) == Len(f[i]) <= Len(f[j]) /\ \A k \in 1 .. Len(f[i]) : f[j][k] = f[i][k]

LEMMA JoinedGrows ==
  ASSUME NEW T, NEW s \in Seq(Seq(T)), NEW f \in [0 .. Len(s) -> Seq(T)], Joined(f, s),
         NEW i \in 0 .. Len(s), NEW j \in i .. Len(s)
  PROVE  Stays(f, i, j)
<1> DEFINE n == Len(s)
           Fits(x) == Len(f[i]) <= Len(f[x]) /\ \A k \in 1 .. Len(f[i]) : f[x][k] = f[i][k]
           Bad == {x \in i .. n : ~ Fits(x)}
<1>1. /\ n \in Nat /\ i \in Nat /\ \A x \in 0 .. n : f[x] \in Seq(T)
      /\ \A x \in 1 .. n : f[x] = f[x - 1] \o s[x] /\ s[x] \in Seq(T)
  <2>1. \A x \in 1 .. n : s[x] \in Seq(T)
    OBVIOUS
  <2>2. \A x \in 0 .. n : f[x] \in Seq(T)
    OBVIOUS
  <2>3. \A x \in 1 .. n : f[x] = f[x - 1] \o s[x]
    BY DEF Joined
  <2>4. n \in Nat /\ i \in Nat
    OBVIOUS
  <2> QED BY <2>1, <2>2, <2>3, <2>4
<1> SUFFICES ASSUME Bad # {} PROVE FALSE
  BY <1>1 DEF Stays
<1>2. PICK x \in Bad : \A k \in Bad : ~ (k < x)
  <2>1. Bad \in SUBSET Nat
    BY <1>1
  <2> HIDE DEF Bad
  <2> QED BY <2>1, LeastOf
<1>3. x # i
  <2>1. Len(f[i]) \in Nat
    BY <1>1
  <2>2. Fits(i)
    BY <2>1
  <2> HIDE DEF Fits
  <2> QED BY <1>2, <2>2
<1>4. x \in 1 .. n /\ x - 1 \in i .. n /\ x - 1 < x /\ x - 1 \in 0 .. n
  BY <1>1, <1>2, <1>3
<1>5. Fits(x - 1)
  <2> HIDE DEF Fits
  <2> QED BY <1>2, <1>4
<1>6. f[x] = f[x - 1] \o s[x] /\ f[x - 1] \in Seq(T) /\ s[x] \in Seq(T) /\ f[i] \in Seq(T)
  BY <1>1, <1>4
<1>7. Len(f[x]) = Len(f[x - 1]) + Len(s[x]) /\ \A k \in 1 .. Len(f[x - 1]) : f[x][k] = f[x - 1][k]
  <2> DEFINE y == f[x - 1]
             z == s[x]
  <2>1. y \in Seq(T) /\ z \in Seq(T) /\ f[x] = y \o z
    BY <1>6
  <2> HIDE DEF y, z
  <2>2. Len(y \o z) = Len(y) + Len(z) /\ \A k \in 1 .. Len(y) : (y \o z)[k] = y[k]
    BY <2>1, Joint
  <2> QED BY <2>1, <2>2 DEF y, z
<1>8. Len(f[i]) \in Nat /\ Len(f[x - 1]) \in Nat /\ Len(s[x]) \in Nat
  <2>1. \A y \in Seq(T) : Len(y) \in Nat
    OBVIOUS
  <2>2. f[x - 1] \in Seq(T) /\ s[x] \in Seq(T) /\ f[i] \in Seq(T)
    BY <1>6
  <2> HIDE DEF Bad, Fits
  <2> QED BY ONLY <2>1, <2>2
<1>9. Len(f[i]) <= Len(f[x])
  <2>1. Len(f[i]) <= Len(f[x - 1]) /\ Len(f[x]) = Len(f[x - 1]) + Len(s[x])
    BY <1>5, <1>7
  <2>2. \A a, b, c, d \in Nat : a <= b /\ c = b + d => a <= c
    OBVIOUS
  <2>3. Len(f[x]) \in Nat
    <3>1. x \in 0 .. n
      BY <1>1, <1>4
    <3> QED BY <1>1, <3>1
  <2> QED BY <1>8, <2>1, <2>2, <2>3
<1>10. ASSUME NEW k \in 1 .. Len(f[i]) PROVE f[x][k] = f[i][k]
  <2>1. k \in 1 .. Len(f[x - 1])
    BY <1>5, <1>8
  <2> QED BY <1>5, <1>7, <2>1
<1> QED BY <1>2, <1>9, <1>10

(* One byte more. *)
LEMMA FramedStep ==
  ASSUME NEW data \in Payload, NEW ends \in SUBSET Nat, Len(data) \in ends,
         NEW f \in [0 .. Len(data) -> Payload], Joined(f, Framed(data, ends)),
         NEW i \in 1 .. Len(data)
  PROVE  /\ i - 1 \in {0} \cup ends =>
              /\ Len(f[i]) = Len(f[i - 1]) + 6
              /\ \A j \in 1 .. 5 : f[i][Len(f[i - 1]) + j] = Header(EndAfter(ends, i - 1) - (i - 1))[j]
         /\ i - 1 \notin {0} \cup ends => Len(f[i]) = Len(f[i - 1]) + 1
         /\ f[i][Len(f[i])] = data[i]
<1> DEFINE F == Framed(data, ends)
           v == EndAfter(ends, i - 1) - (i - 1)
<1>1. Len(data) \in Nat /\ i - 1 \in Nat /\ i - 1 \in 0 .. Len(data) /\ Len(data) > i - 1 /\ data[i] \in Sound
  BY DEF Payload
<1>2. /\ F \in Seq(Payload) /\ Len(F) = Len(data)
      /\ F[i] = (IF i = 1 \/ i - 1 \in ends THEN Header(v) ELSE <<>>) \o <<data[i]>>
  BY FramedUnits
<1>3. f[i] = f[i - 1] \o F[i] /\ f[i - 1] \in Seq(Sound) /\ F[i] \in Seq(Sound)
  <2>1. F[i] \in Seq(Sound) /\ f[i - 1] \in Seq(Sound)
    <3>1. i \in 1 .. Len(F)
      BY <1>2
    <3> HIDE DEF F
    <3>2. F[i] \in Payload
      BY <1>2, <3>1, ElementOfSeq
    <3>3. f[i - 1] \in Payload
      BY <1>1
    <3> QED BY <3>2, <3>3 DEF Payload
  <2>2. \A x \in 1 .. Len(F) : f[x] = f[x - 1] \o F[x]
    BY DEF Joined
  <2> QED BY <1>2, <2>1, <2>2
<1>4. v \in Nat /\ v # 0
  <2>1. EndAfter(ends, i - 1) \in Nat /\ EndAfter(ends, i - 1) > i - 1
    BY <1>1, NextEnd
  <2> QED BY <1>1, <2>1
<1> DEFINE l == Len(f[i - 1])
<1>5. l \in Nat
  BY <1>3
<1>6. /\ Len(f[i]) = l + Len(F[i])
      /\ \A j \in 1 .. Len(F[i]) : f[i][l + j] = F[i][j]
  <2> DEFINE y == f[i - 1]
             z == F[i]
  <2>1. y \in Seq(Sound) /\ z \in Seq(Sound) /\ f[i] = y \o z
    BY <1>3
  <2> HIDE DEF y, z
  <2>2. Len(y \o z) = Len(y) + Len(z) /\ \A k \in 1 .. Len(z) : (y \o z)[Len(y) + k] = z[k]
    BY <2>1, Joint
  <2> QED BY <2>1, <2>2 DEF y, z
<1> DEFINE d == <<data[i]>>
<1>7. d \in Seq(Sound) /\ Len(d) = 1 /\ d[1] = data[i]
  BY <1>1
<1> HIDE DEF F, v, l, d
<1>8. CASE i - 1 \in {0} \cup ends
  <2>1. F[i] = Header(v) \o d
    <3>1. i = 1 \/ i - 1 \in ends
      BY <1>8
    <3> QED BY <1>2, <3>1 DEF d
  <2>2. Header(v) \in Seq(Sound) /\ Len(Header(v)) = 5
    BY <1>4, HeaderUnits DEF Payload
  <2>3. /\ Len(F[i]) = Len(Header(v)) + Len(d)
        /\ \A j \in 1 .. Len(Header(v)) : F[i][j] = Header(v)[j]
        /\ \A j \in 1 .. Len(d) : F[i][Len(Header(v)) + j] = d[j]
    <3> DEFINE y == Header(v)
    <3>1. y \in Seq(Sound) /\ d \in Seq(Sound) /\ F[i] = y \o d
      BY <1>7, <2>1, <2>2
    <3> HIDE DEF y
    <3>2. /\ Len(y \o d) = Len(y) + Len(d)
          /\ \A j \in 1 .. Len(y) : (y \o d)[j] = y[j]
          /\ \A j \in 1 .. Len(d) : (y \o d)[Len(y) + j] = d[j]
      BY <3>1, Joint
    <3> QED BY <3>1, <3>2 DEF y
  <2>4. Len(F[i]) = 6 /\ F[i][6] = data[i]
    <3>1. Len(Header(v)) + Len(d) = 6 /\ 1 \in 1 .. Len(d) /\ Len(Header(v)) + 1 = 6
      BY <1>7, <2>2
    <3> QED BY <1>7, <2>3, <3>1
  <2>5. Len(f[i]) = l + 6 /\ f[i][l + 6] = data[i]
    <3>1. 6 \in 1 .. Len(F[i])
      BY <2>4
    <3> QED BY <1>6, <2>4, <3>1
  <2>6. ASSUME NEW j \in 1 .. 5 PROVE f[i][l + j] = Header(v)[j]
    <3>1. j \in 1 .. Len(F[i]) /\ j \in 1 .. Len(Header(v))
      BY <2>2, <2>4
    <3> QED BY <1>6, <2>3, <3>1
  <2> QED BY <1>8, <2>5, <2>6 DEF l, v
<1>9. CASE i - 1 \notin {0} \cup ends
  <2>1. F[i] = <<>> \o d
    <3>1. ~ (i = 1 \/ i - 1 \in ends)
      BY <1>9
    <3> QED BY <1>2, <3>1 DEF d
  <2>2. F[i] = d
    BY <1>7, <2>1
  <2>3. Len(f[i]) = l + 1 /\ f[i][l + 1] = data[i]
    <3>1. 1 \in 1 .. Len(F[i]) /\ Len(F[i]) = 1
      BY <1>7, <2>2
    <3> QED BY <1>6, <1>7, <2>2, <3>1
  <2> QED BY <1>9, <2>3 DEF l
<1> QED BY <1>8, <1>9

(* How the records lie. *)
LEMMA Layout ==
  ASSUME NEW data \in Payload, NEW ends \in SUBSET (1 .. Len(data)), Len(data) \in ends
  PROVE  \E pos \in [0 .. Len(data) -> Nat] : Laid(FlattenSeq(Framed(data, ends)), pos, data, ends)
<1> DEFINE n == Len(data)
           F == Framed(data, ends)
           w == FlattenSeq(F)
<1>1. n \in Nat /\ ends \in SUBSET Nat /\ n \in ends
  <2>1. n \in Nat
    BY DEF Payload
  <2>2. \A x \in ends : x \in Nat
    BY <2>1
  <2> QED BY <2>1, <2>2
<1>2. F \in Seq(Seq(Sound)) /\ Len(F) = n
  BY <1>1, FramedUnits DEF Payload
<1>3. PICK f \in [0 .. n -> Payload] : Joined(f, F) /\ w = f[n]
  <2> HIDE DEF F, n
  <2>1. \E f \in [0 .. Len(F) -> Seq(Sound)] : Joined(f, F) /\ FlattenSeq(F) = f[Len(F)]
    BY <1>2, Flattening
  <2> QED BY <1>2, <2>1 DEF Payload
<1> HIDE DEF n, F, w
<1> DEFINE pos == [i \in 0 .. n |-> Len(f[i])]
<1>4. \A i \in 0 .. n : f[i] \in Payload /\ Len(f[i]) \in Nat /\ pos[i] = Len(f[i])
  BY DEF Payload
<1>5. \A i \in 0 .. n : Len(f[i]) <= Len(w) /\ \A k \in 1 .. Len(f[i]) : w[k] = f[i][k]
  <2> TAKE i \in 0 .. n
  <2>1. i \in 0 .. Len(F) /\ n \in i .. Len(F) /\ f \in [0 .. Len(F) -> Seq(Sound)]
    BY <1>1, <1>2 DEF Payload
  <2>2. Len(f[i]) <= Len(f[n]) /\ \A k \in 1 .. Len(f[i]) : f[n][k] = f[i][k]
    <3> DEFINE T == Sound
    <3>1. F \in Seq(Seq(T))
      BY <1>2
    <3>2. f \in [0 .. Len(F) -> Seq(T)]
      BY <2>1
    <3>3. Joined(f, F)
      BY <1>3
    <3>4. i \in 0 .. Len(F)
      BY <2>1
    <3>5. n \in i .. Len(F)
      BY <2>1
    <3> HIDE DEF T
    <3>6. Stays(f, i, n)
      BY <3>1, <3>2, <3>3, <3>4, <3>5, JoinedGrows
    <3> QED BY <3>6 DEF Stays
  <2> QED BY <1>3, <2>2
<1> HIDE DEF pos
<1>6. ASSUME NEW i \in 1 .. n
      PROVE  /\ i - 1 \in {0} \cup ends =>
                  /\ pos[i] = pos[i - 1] + 6
                  /\ \A j \in 1 .. 5 : w[pos[i - 1] + j] = Header(EndAfter(ends, i - 1) - (i - 1))[j]
             /\ i - 1 \notin {0} \cup ends => pos[i] = pos[i - 1] + 1
             /\ w[pos[i]] = data[i]
  <2>1. /\ i - 1 \in {0} \cup ends =>
              /\ Len(f[i]) = Len(f[i - 1]) + 6
              /\ \A j \in 1 .. 5 : f[i][Len(f[i - 1]) + j] = Header(EndAfter(ends, i - 1) - (i - 1))[j]
        /\ i - 1 \notin {0} \cup ends => Len(f[i]) = Len(f[i - 1]) + 1
        /\ f[i][Len(f[i])] = data[i]
    BY <1>1, <1>3, FramedStep DEF n, F
  <2>2. i \in 0 .. n /\ i - 1 \in 0 .. n
    BY <1>1
  <2>3. pos[i] = Len(f[i]) /\ pos[i - 1] = Len(f[i - 1]) /\ Len(f[i]) \in Nat /\ Len(f[i - 1]) \in Nat
    BY <1>4, <2>2
  <2>4. \A k \in 1 .. Len(f[i]) : w[k] = f[i][k]
    BY <1>5, <2>2
  <2>5. Len(f[i]) # 0
    <3>1. Len(f[i]) = Len(f[i - 1]) + 6 \/ Len(f[i]) = Len(f[i - 1]) + 1
      BY <2>1
    <3> QED BY <2>3, <3>1
  <2>6. w[pos[i]] = data[i]
    <3>1. Len(f[i]) \in 1 .. Len(f[i])
      BY <2>3, <2>5
    <3> QED BY <2>1, <2>3, <2>4, <3>1
  <2>7. ASSUME i - 1 \in {0} \cup ends, NEW j \in 1 .. 5
        PROVE  w[pos[i - 1] + j] = Header(EndAfter(ends, i - 1) - (i - 1))[j]
    <3>1. Len(f[i]) = Len(f[i - 1]) + 6
      BY <2>1, <2>7
    <3>2. Len(f[i - 1]) + j \in 1 .. Len(f[i])
      BY <2>3, <3>1
    <3>3. w[Len(f[i - 1]) + j] = f[i][Len(f[i - 1]) + j]
      BY <2>4, <3>2
    <3> QED BY <2>1, <2>3, <2>7, <3>3
  <2> QED BY <2>1, <2>3, <2>6, <2>7
<1>7. pos \in [0 .. n -> Nat]
  BY <1>4 DEF pos
<1>8. pos[0] = 0 /\ pos[n] = Len(w) /\ \A i \in 0 .. n : pos[i] \in Nat /\ pos[i] <= Len(w)
  <2>1. 0 \in 0 .. n /\ n \in 0 .. n
    BY <1>1
  <2>2. f[0] = <<>>
    BY <1>3 DEF Joined
  <2>3. pos[0] = 0 /\ pos[n] = Len(w)
    BY <1>3, <1>4, <2>1, <2>2
  <2> QED BY <1>4, <1>5, <2>3
<1>9. ASSUME NEW a \in {0} \cup ends, a < n
      PROVE  /\ pos[EndAfter(ends, a)] = pos[a] + 5 + (EndAfter(ends, a) - a)
             /\ pos[EndAfter(ends, a)] <= Len(w)
             /\ \A j \in 1 .. 5 : w[pos[a] + j] = Header(EndAfter(ends, a) - a)[j]
             /\ \A k \in 1 .. (EndAfter(ends, a) - a) : w[pos[a] + 5 + k] = data[a + k]
  <2>1. a \in Nat /\ a \in 0 .. n
    BY <1>1, <1>9
  <2>2. /\ EndAfter(ends, a) \in ends /\ EndAfter(ends, a) > a
        /\ \A d \in ends : d > a => EndAfter(ends, a) <= d
    BY <1>1, <1>9, <2>1, NextEnd
  <2>3. PICK b \in ends : b = EndAfter(ends, a)
    BY <2>2
  <2>4. b \in 1 .. n /\ b > a /\ b - a \in Nat /\ b \in Nat
    <3>1. b \in 1 .. n
      BY DEF n
    <3> QED BY <1>1, <2>1, <2>2, <2>3, <3>1
  <2>5. pos[a] \in Nat
    BY <1>7, <2>1
  <2> DEFINE Bad == {k \in 1 .. (b - a) : pos[a + k] # pos[a] + 5 + k}
  <2>6. Bad = {}
    <3> SUFFICES ASSUME Bad # {} PROVE FALSE
      OBVIOUS
    <3>1. PICK k \in Bad : \A x \in Bad : ~ (x < k)
      <4>1. Bad \in SUBSET Nat
        BY <2>4
      <4> HIDE DEF Bad
      <4> QED BY <4>1, LeastOf
    <3>2. k \in 1 .. (b - a) /\ a + k \in 1 .. n /\ (a + k) - 1 = a + (k - 1) /\ k - 1 \in Nat
      BY <1>1, <2>1, <2>4, <3>1
    <3>3. CASE k = 1
      <4>1. (a + k) - 1 = a
        BY <2>1, <3>2, <3>3
      <4>2. (a + k) - 1 \in {0} \cup ends
        BY <4>1
      <4>3. pos[a + k] = pos[(a + k) - 1] + 6
        BY <1>6, <3>2, <4>2
      <4>4. pos[a + k] = pos[a] + 6
        BY <4>1, <4>3
      <4>5. pos[a] + 6 = pos[a] + 5 + k
        BY <2>5, <3>3
      <4> QED BY <3>1, <4>4, <4>5
    <3>4. CASE k # 1
      <4>1. k - 1 \in 1 .. (b - a) /\ k - 1 < k
        BY <3>2, <3>4
      <4>2. pos[a + (k - 1)] = pos[a] + 5 + (k - 1)
        BY <3>1, <4>1
      <4>3. (a + k) - 1 > a /\ ~ (b <= (a + k) - 1) /\ (a + k) - 1 # 0
        BY <2>1, <2>4, <3>2, <4>1
      <4>4. (a + k) - 1 \notin {0} \cup ends
        BY <2>2, <2>3, <4>3
      <4>5. pos[a + k] = pos[(a + k) - 1] + 1
        BY <1>6, <3>2, <4>4
      <4>6. pos[a + k] = pos[a] + 5 + (k - 1) + 1
        BY <3>2, <4>2, <4>5
      <4>7. pos[a] + 5 + (k - 1) + 1 = pos[a] + 5 + k
        BY <2>5, <3>2
      <4> QED BY <3>1, <4>6, <4>7
    <3> QED BY <3>3, <3>4
  <2>7. \A k \in 1 .. (b - a) : pos[a + k] = pos[a] + 5 + k
    BY <2>6
  <2>8. pos[b] = pos[a] + 5 + (b - a)
    <3>1. b - a \in 1 .. (b - a) /\ a + (b - a) = b
      BY <2>1, <2>4
    <3> QED BY <2>7, <3>1
  <2>9. pos[b] <= Len(w)
    <3>1. b \in 0 .. n
      BY <1>1, <2>4
    <3> QED BY <1>8, <3>1
  <2>10. \A j \in 1 .. 5 : w[pos[a] + j] = Header(b - a)[j]
    <3>1. a + 1 \in 1 .. n /\ (a + 1) - 1 = a
      BY <1>1, <1>9, <2>1
    <3>2. \A j \in 1 .. 5 : w[pos[(a + 1) - 1] + j] = Header(EndAfter(ends, (a + 1) - 1) - ((a + 1) - 1))[j]
      BY <1>6, <3>1
    <3> QED BY <2>3, <3>1, <3>2
  <2>11. ASSUME NEW k \in 1 .. (b - a) PROVE w[pos[a] + 5 + k] = data[a + k]
    <3>1. a + k \in 1 .. n
      BY <1>1, <2>1, <2>4
    <3>2. w[pos[a + k]] = data[a + k]
      BY <1>6, <3>1
    <3> QED BY <2>7, <3>2
  <2> QED BY <2>3, <2>8, <2>9, <2>10, <2>11
<1> QED BY <1>7, <1>8, <1>9 DEF Laid, n, w, F

(* A part that agrees with another sequence, unit by unit. *)
LEMMA PartIs ==
  ASSUME NEW w \in Payload, NEW m \in Nat, NEW n \in Nat, m <= n, n <= Len(w),
         NEW t \in Payload, Len(t) = n - m, \A k \in 1 .. n - m : w[m + k] = t[k]
  PROVE  SubSeq(w, m + 1, n) = t
<1>1. n \in 0 .. Len(w) /\ w \in Seq(Sound)
  BY DEF Payload
<1>2. /\ SubSeq(w, m + 1, n) \in Seq(Sound)
      /\ Len(SubSeq(w, m + 1, n)) = IF m < n THEN n - m ELSE 0
      /\ \A i \in 1 .. n - m : SubSeq(w, m + 1, n)[i] = w[m + i]
  BY <1>1, Part
<1> DEFINE x == SubSeq(w, m + 1, n)
<1>3. x \in Seq(Sound) /\ t \in Seq(Sound) /\ Len(x) = Len(t)
  BY <1>2 DEF Payload
<1>4. \A i \in 1 .. Len(x) : x[i] = t[i]
  <2>1. Len(x) = n - m /\ \A i \in 1 .. n - m : x[i] = w[m + i]
    BY <1>2, <1>3
  <2> HIDE DEF x
  <2> QED BY <2>1
<1> HIDE DEF x
<1>5. x = t
  BY <1>3, <1>4, SeqEqual
<1> QED BY <1>5 DEF x

(* One record that was written is read, and the parse goes on behind it. *)
ReadOn(f, pos, data, a, b) == f[pos[a] + 1] = <<SubSeq(data, a + 1, b)>> \o f[pos[b] + 1]

LEMMA RecordRead ==
  ASSUME NEW w \in Payload, NEW data \in Payload, NEW ends \in SUBSET (1 .. Len(data)), Len(data) \in ends,
         NEW pos \in [0 .. Len(data) -> Nat], Laid(w, pos, data, ends),
         NEW f, Parsed(f, w), NEW a \in {0} \cup ends, a < Len(data)
  PROVE  ReadOn(f, pos, data, a, EndAfter(ends, a))
<1>1. Len(data) \in Nat /\ a \in Nat /\ a \in 0 .. Len(data) /\ Len(w) \in Nat /\ ends \in SUBSET Nat
  <2>1. Len(data) \in Nat /\ Len(w) \in Nat
    BY DEF Payload
  <2>2. \A x \in ends : x \in Nat /\ x \in 0 .. Len(data)
    BY <2>1
  <2> QED BY <2>1, <2>2
<1>2. EndAfter(ends, a) \in ends /\ EndAfter(ends, a) > a
  BY <1>1, NextEnd
<1>3. PICK b \in ends : b = EndAfter(ends, a)
  BY <1>2
<1>4. b \in Nat /\ b > a /\ b - a \in Nat /\ b - a # 0 /\ b \in 0 .. Len(data) /\ b <= Len(data)
  <2>1. b \in 1 .. Len(data)
    OBVIOUS
  <2> QED BY <1>1, <1>2, <1>3, <2>1
<1>5. PICK i \in Nat : i = pos[a]
  BY <1>1
<1>6. /\ pos[b] = i + 5 + (b - a) /\ pos[b] <= Len(w)
      /\ \A j \in 1 .. 5 : w[i + j] = Header(b - a)[j]
      /\ \A k \in 1 .. (b - a) : w[i + 5 + k] = data[a + k]
  BY <1>3, <1>5 DEF Laid
<1>7. PICK v \in Nat : v = b - a
  BY <1>4
<1>8. v # 0 /\ i + 5 + v <= Len(w) /\ i + 5 <= Len(w) /\ i + 1 \in 1 .. Len(w)
  <2>1. i + 5 + v <= Len(w)
    BY <1>6, <1>7
  <2> QED BY <1>1, <1>4, <1>7, <2>1
<1>9. w[i + 1] = U("rec", v)
  <2>1. 1 \in 1 .. 5
    OBVIOUS
  <2> QED BY <1>6, <1>7, <2>1, HeaderUnits
<1>10. w[i + 1].v = v
  BY <1>9 DEF U
<1>11. SubSeq(w, i + 1, i + 5) = Header(v)
  <2> DEFINE t == Header(v)
             n == i + 5
  <2>1. t \in Payload /\ Len(t) = n - i
    <3>1. Len(t) = 5 /\ t \in Payload
      BY <1>8, HeaderUnits
    <3> QED BY <3>1
  <2>2. n \in Nat /\ i <= n /\ n <= Len(w) /\ n - i = 5
    BY <1>8
  <2>3. \A k \in 1 .. n - i : w[i + k] = t[k]
    BY <1>6, <1>7, <2>2
  <2> HIDE DEF t, n
  <2>4. SubSeq(w, i + 1, n) = t
    BY <2>1, <2>2, <2>3, PartIs
  <2> QED BY <2>4 DEF t, n
<1>12. IsHeader(w, i + 1)
  <2>1. HeaderLen = 5 /\ (i + 1) + 5 - 1 = i + 5
    BY DEF HeaderLen
  <2> QED BY <1>8, <1>10, <1>11, <2>1 DEF IsHeader
<1>13. RecordEnd(w, i + 1) = i + 5 + v /\ RecordEnd(w, i + 1) = pos[b]
  <2>1. (i + 1) + HeaderLen - 1 + v = i + 5 + v
    BY DEF HeaderLen
  <2> QED BY <1>6, <1>7, <1>10, <2>1 DEF RecordEnd
<1>14. SubSeq(data, a + 1, b) \in Payload /\ Len(SubSeq(data, a + 1, b)) = v
       /\ \A k \in 1 .. v : SubSeq(data, a + 1, b)[k] = data[a + k]
  <2>1. data \in Seq(Sound)
    BY DEF Payload
  <2>2. /\ SubSeq(data, a + 1, b) \in Seq(Sound)
        /\ Len(SubSeq(data, a + 1, b)) = IF a < b THEN b - a ELSE 0
        /\ \A k \in 1 .. b - a : SubSeq(data, a + 1, b)[k] = data[a + k]
    BY <1>1, <1>4, <2>1, Part
  <2> QED BY <1>4, <1>7, <2>2 DEF Payload
<1>15. RecordData(w, i + 1) = SubSeq(data, a + 1, b)
  <2> DEFINE t == SubSeq(data, a + 1, b)
             m == i + 5
             n == i + 5 + v
  <2>1. /\ m \in Nat /\ n \in Nat /\ m <= n /\ n <= Len(w) /\ n - m = v
        /\ (i + 1) + HeaderLen = m + 1 /\ \A k \in Nat : m + k = i + 5 + k
    BY <1>8 DEF HeaderLen
  <2>2. t \in Payload /\ Len(t) = n - m
    BY <1>14, <2>1
  <2>3. \A k \in 1 .. n - m : w[m + k] = t[k]
    <3> TAKE k \in 1 .. n - m
    <3>1. k \in 1 .. v /\ m + k = i + 5 + k
      BY <2>1
    <3>2. w[i + 5 + k] = data[a + k]
      BY <1>6, <1>7, <3>1
    <3> QED BY <1>14, <3>1, <3>2
  <2>4. RecordData(w, i + 1) = SubSeq(w, m + 1, n)
    BY <1>13, <2>1 DEF RecordData
  <2> HIDE DEF t, m, n
  <2>5. SubSeq(w, m + 1, n) = t
    BY <2>1, <2>2, <2>3, PartIs
  <2> QED BY <2>4, <2>5 DEF t
<1>16. f[i + 1] = After(f, w, i + 1)
  <2>1. i + 1 \in 1 .. (Len(w) + 1)
    BY <1>1, <1>8
  <2> QED BY <2>1 DEF Parsed
<1>17. ~ (RecordEnd(w, i + 1) > Len(w))
  <2>1. ~ (i + 5 + v > Len(w))
    BY <1>1, <1>8
  <2> QED BY <1>13, <2>1
<1>18. f[i + 1] = <<RecordData(w, i + 1)>> \o f[RecordEnd(w, i + 1) + 1]
  BY <1>12, <1>16, <1>17 DEF After
<1> QED BY <1>3, <1>5, <1>13, <1>15, <1>18 DEF ReadOn

(* The parse ends with the payload. *)
LEMMA ParseEnds ==
  ASSUME NEW w \in Payload, NEW f, Parsed(f, w)
  PROVE  f[Len(w) + 1] = <<>>
<1>1. Len(w) \in Nat /\ Len(w) + 1 \in 1 .. (Len(w) + 1) /\ ~ ((Len(w) + 1) + 5 - 1 <= Len(w))
  <2>1. Len(w) \in Nat
    BY DEF Payload
  <2> QED BY <2>1
<1>2. ~ IsHeader(w, Len(w) + 1)
  BY <1>1 DEF IsHeader, HeaderLen
<1> QED BY <1>1, <1>2 DEF Parsed, After

(* Records up to the last cut s, and one from there. *)
Cutted(R, data, s) ==
  /\ R \in Seq(Payload) /\ Len(R) >= 1
  /\ R[Len(R)] = SubSeq(data, s + 1, Len(data))
  /\ \A i \in 1 .. Len(R) - 1 : \E x, y \in 0 .. s : R[i] = SubSeq(data, x + 1, y)

(* One more in front of them. *)
LEMMA OneMore ==
  ASSUME NEW data \in Payload, NEW s \in 0 .. Len(data), NEW x \in 0 .. s, NEW y \in 0 .. s,
         NEW R, Cutted(R, data, s)
  PROVE  Cutted(<<SubSeq(data, x + 1, y)>> \o R, data, s) /\ Len(<<SubSeq(data, x + 1, y)>> \o R) > 1
<1> DEFINE t == SubSeq(data, x + 1, y)
           h == <<t>>
           Q == h \o R
<1>1. t \in Payload
  <2>1. x \in Nat /\ y \in 0 .. Len(data) /\ data \in Seq(Sound)
    <3>1. Len(data) \in Nat /\ data \in Seq(Sound)
      BY DEF Payload
    <3> QED BY <3>1
  <2> QED BY <2>1, Part DEF Payload
<1>2. h \in Seq(Payload) /\ Len(h) = 1 /\ h[1] = t
  BY <1>1
<1>3. R \in Seq(Payload) /\ Len(R) \in Nat /\ Len(R) >= 1
  BY DEF Cutted
<1> HIDE DEF h, t
<1>4. /\ Q \in Seq(Payload) /\ Len(Q) = Len(h) + Len(R)
      /\ \A i \in 1 .. Len(h) : Q[i] = h[i]
      /\ \A i \in 1 .. Len(R) : Q[Len(h) + i] = R[i]
  <2>1. h \in Seq(Payload) /\ R \in Seq(Payload)
    BY <1>2, <1>3
  <2> QED BY <2>1, Joint
<1> HIDE DEF Q
<1>5. PICK l \in Nat : l = Len(R)
  BY <1>3
<1>6. Len(Q) = 1 + l /\ l >= 1 /\ Q[1] = t /\ \A i \in 1 .. l : Q[1 + i] = R[i]
  <2>1. 1 \in 1 .. Len(h)
    BY <1>2
  <2> QED BY <1>2, <1>3, <1>4, <1>5, <2>1
<1>7. Q[Len(Q)] = SubSeq(data, s + 1, Len(data))
  <2>1. l \in 1 .. l
    BY <1>6
  <2>2. Q[Len(Q)] = R[l]
    BY <1>6, <2>1
  <2> QED BY <1>5, <2>2 DEF Cutted
<1>8. ASSUME NEW i \in 1 .. Len(Q) - 1 PROVE \E c, d \in 0 .. s : Q[i] = SubSeq(data, c + 1, d)
  <2>1. i \in 1 .. l
    BY <1>5, <1>6
  <2>2. CASE i = 1
    BY <1>6, <2>2 DEF t
  <2>3. CASE i # 1
    <3>1. PICK j \in 1 .. l - 1 : i = 1 + j
      <4>1. i - 1 \in 1 .. l - 1 /\ i = 1 + (i - 1)
        BY <2>1, <2>3
      <4> QED BY <4>1
    <3>2. Q[i] = R[j]
      <4>1. j \in 1 .. l
        BY <3>1
      <4> QED BY <1>6, <3>1, <4>1
    <3>3. \E c, d \in 0 .. s : R[j] = SubSeq(data, c + 1, d)
      BY <1>5 DEF Cutted
    <3> QED BY <3>2, <3>3
  <2> QED BY <2>2, <2>3
<1>9. Len(Q) >= 1 /\ Len(Q) > 1
  <2>1. 1 + l >= 1 /\ (l >= 1 => 1 + l > 1)
    OBVIOUS
  <2> QED BY <1>6, <2>1
<1>10. Cutted(Q, data, s)
  BY <1>4, <1>7, <1>8, <1>9 DEF Cutted
<1> QED BY <1>9, <1>10 DEF Q, h, t

(* A payload that is written in several records: the last begins at the last  *)
(* cut, and those in front of it end there at the latest.                     *)
LEMMA RecordsAreCut ==
  ASSUME NEW data \in Payload, NEW cuts \in SUBSET (1 .. Len(data) - 1), NEW s \in cuts, \A x \in cuts : x <= s
  PROVE  /\ Cutted(Records(WriteRecords(data, cuts)), data, s)
         /\ Len(Records(WriteRecords(data, cuts))) > 1
<1> DEFINE n == Len(data)
           ends == cuts \cup {n}
           w == WriteRecords(data, cuts)
<1>1. n \in Nat /\ ends \in SUBSET (1 .. n) /\ n \in ends /\ s \in Nat /\ s < n /\ s # 0
  <2>1. n \in Nat
    BY DEF Payload
  <2>2. s \in 1 .. n - 1 /\ \A x \in cuts : x \in 1 .. n
    BY <2>1
  <2>3. n \in 1 .. n
    BY <2>1, <2>2
  <2>4. \A x \in ends : x \in 1 .. n
    BY <2>2, <2>3
  <2>5. n \in ends /\ s \in Nat /\ s < n /\ s # 0
    BY <2>1, <2>2
  <2> HIDE DEF n, ends
  <2> QED BY <2>1, <2>4, <2>5
<1>2. w = FlattenSeq(Framed(data, ends)) /\ w \in Payload
  BY RecordsWritten
<1> HIDE DEF w, ends
<1>3. PICK pos \in [0 .. n -> Nat] : Laid(w, pos, data, ends)
  BY <1>1, <1>2, Layout
<1>4. PICK f : Parsed(f, w) /\ Records(w) = f[1]
  <2>1. w \in Seq(Unit)
    BY <1>2 DEF Payload, Sound
  <2> QED BY <2>1, Parsing
<1>5. ends \in SUBSET Nat
  <2>1. \A x \in ends : x \in Nat
    BY <1>1
  <2> QED BY <2>1
<1>6. ASSUME NEW a \in {0} \cup ends, a < n
      PROVE  /\ EndAfter(ends, a) \in ends /\ EndAfter(ends, a) > a
             /\ \A d \in ends : d > a => EndAfter(ends, a) <= d
             /\ f[pos[a] + 1] = <<SubSeq(data, a + 1, EndAfter(ends, a))>> \o f[pos[EndAfter(ends, a)] + 1]
  <2>1. a \in Nat /\ n > a
    BY <1>1, <1>5, <1>6
  <2>2. /\ EndAfter(ends, a) \in ends /\ EndAfter(ends, a) > a
        /\ \A d \in ends : d > a => EndAfter(ends, a) <= d
    <3> HIDE DEF n
    <3> QED BY <1>1, <1>5, <2>1, NextEnd
  <2>3. f[pos[a] + 1] = <<SubSeq(data, a + 1, EndAfter(ends, a))>> \o f[pos[EndAfter(ends, a)] + 1]
    <3>1. ReadOn(f, pos, data, a, EndAfter(ends, a))
      BY <1>1, <1>2, <1>3, <1>4, <1>6, RecordRead
    <3> QED BY <3>1 DEF ReadOn
  <2> QED BY <2>2, <2>3
<1>7. pos[0] = 0 /\ pos[n] = Len(w)
  BY <1>3 DEF Laid
<1>8. f[pos[n] + 1] = <<>>
  BY <1>2, <1>4, <1>7, ParseEnds
<1> DEFINE Is(a) == Cutted(f[pos[a] + 1], data, s) /\ (a < s => Len(f[pos[a] + 1]) > 1)
<1>9. Is(s)
  <2>1. s \in {0} \cup ends /\ s < n
    BY <1>1 DEF ends
  <2>2. EndAfter(ends, s) = n
    <3>1. EndAfter(ends, s) \in ends /\ EndAfter(ends, s) > s
      BY <1>6, <2>1
    <3>2. EndAfter(ends, s) \notin cuts
      <4>1. EndAfter(ends, s) \in Nat
        BY <1>5, <3>1
      <4> QED BY <1>1, <3>1, <4>1
    <3> QED BY <3>1, <3>2 DEF ends
  <2>3. f[pos[s] + 1] = <<SubSeq(data, s + 1, n)>> \o <<>>
    BY <1>6, <1>8, <2>1, <2>2
  <2> DEFINE t == SubSeq(data, s + 1, n)
             R == <<t>>
  <2>4. t \in Payload
    <3>1. s \in Nat /\ n \in 0 .. n /\ data \in Seq(Sound)
      BY <1>1 DEF Payload
    <3> QED BY <3>1, Part DEF Payload
  <2> HIDE DEF t
  <2>5. R \in Seq(Payload) /\ Len(R) = 1 /\ R[1] = t /\ R = R \o <<>>
    BY <2>4
  <2> HIDE DEF R
  <2>6. Cutted(R, data, s)
    <3>1. R \in Seq(Payload) /\ Len(R) >= 1 /\ R[Len(R)] = t
      BY <2>5
    <3>2. \A i \in 1 .. Len(R) - 1 : FALSE
      <4>1. \A i \in Int : ~ (i \in 1 .. 1 - 1)
        OBVIOUS
      <4> QED BY <2>5, <4>1
    <3> QED BY <3>1, <3>2 DEF Cutted, t
  <2>7. f[pos[s] + 1] = R
    BY <2>3, <2>5 DEF R, t
  <2>8. ~ (s < s)
    BY <1>1
  <2> QED BY <2>6, <2>7, <2>8
<1> HIDE DEF n, Is
<1> DEFINE Bad == {d \in 0 .. s : s - d \in {0} \cup cuts /\ ~ Is(s - d)}
<1>10. Bad = {}
  <2> SUFFICES ASSUME Bad # {} PROVE FALSE
    OBVIOUS
  <2>1. PICK d \in Bad : \A k \in Bad : ~ (k < d)
    <3>1. Bad \in SUBSET Nat
      BY <1>1
    <3> HIDE DEF Bad
    <3> QED BY <3>1, LeastOf
  <2>2. PICK a \in Nat : a = s - d
    BY <1>1, <2>1
  <2>3. a \in {0} \cup cuts /\ ~ Is(a) /\ a <= s /\ d = s - a
    BY <1>1, <2>1, <2>2
  <2>4. a # s
    BY <1>9, <2>3
  <2>5. a < s /\ a < n
    BY <1>1, <2>2, <2>3, <2>4
  <2>6. a \in {0} \cup ends /\ s \in ends
    BY <2>3 DEF ends
  <2>7. PICK b \in ends : b = EndAfter(ends, a)
    BY <1>6, <2>5, <2>6
  <2>8. b > a /\ b <= s /\ b \in Nat
    BY <1>1, <1>5, <1>6, <2>5, <2>6, <2>7
  <2>9. b \in cuts
    <3>1. b # n
      BY <1>1, <2>8
    <3> QED BY <3>1 DEF ends
  <2>10. s - b \in 0 .. s /\ s - b < d /\ s - (s - b) = b
    BY <1>1, <2>2, <2>3, <2>8
  <2>11. Is(b)
    <3>1. s - b \notin Bad
      BY <2>1, <2>10
    <3> QED BY <2>9, <2>10, <3>1
  <2> DEFINE R == f[pos[b] + 1]
  <2>12. Cutted(R, data, s)
    BY <2>11 DEF Is
  <2>13. f[pos[a] + 1] = <<SubSeq(data, a + 1, b)>> \o R
    BY <1>6, <2>5, <2>6, <2>7
  <2> HIDE DEF R
  <2>14. s \in 0 .. Len(data) /\ a \in 0 .. s /\ b \in 0 .. s
    BY <1>1, <2>2, <2>3, <2>8 DEF n
  <2>15. /\ Cutted(<<SubSeq(data, a + 1, b)>> \o R, data, s)
         /\ Len(<<SubSeq(data, a + 1, b)>> \o R) > 1
    BY <2>12, <2>14, OneMore
  <2> QED BY <2>3, <2>13, <2>15 DEF Is
<1>11. Is(0) /\ 0 < s
  <2>1. s \in 0 .. s /\ s - s = 0 /\ 0 < s
    BY <1>1
  <2> QED BY <1>10, <2>1
<1>12. Records(w) = f[pos[0] + 1]
  <2>1. 0 + 1 = 1
    OBVIOUS
  <2> QED BY <1>4, <1>7, <2>1
<1> QED BY <1>11, <1>12 DEF Is, w

-----------------------------------------------------------------------------
(* Where the name is, and what a cut at it leaves in each piece.            *)

(* A ClientHello that is sent in one record: its header, its bytes, and what    *)
(* follows it, up to where it is read.                                         *)
SentByte(m, i) ==
  IF i <= 5 THEN Header(MessageLen(m))[i]
  ELSE IF i <= 5 + MessageLen(m) THEN U("hs", i - 5) ELSE U("app", i - 5 - MessageLen(m))

LEMMA OriginalAt ==
  ASSUME NEW m \in Input, m.cuts = {}, m.shape = "tls"
  PROVE  /\ Original(m) \in Payload /\ Len(Original(m)) <= 5 + MessageLen(m) + m.more
         /\ MessageLen(m) \in Nat /\ MessageLen(m) >= 1 /\ MessageLen(m) = m.pre + Len(m.name) + m.tail
         /\ \A i \in 1 .. Len(Original(m)) : Original(m)[i] = SentByte(m, i)
<1> DEFINE n == MessageLen(m)
           data == Units("hs", n)
           w == WriteRecords(data, {})
           app == Units("app", m.more)
           p == Original(m)
<1>1. n \in Nat /\ n >= 1 /\ n = m.pre + Len(m.name) + m.tail /\ m.more \in Nat /\ m.read \in Nat
  BY DEF MessageLen, Input
<1> HIDE DEF n
<1>2. data \in Payload /\ Len(data) = n /\ \A i \in 1 .. n : data[i] = U("hs", i)
  <2>1. "hs" \in Kinds /\ "hs" # "rec"
    BY DEF Kinds
  <2> QED BY <1>1, <2>1, SoundUnits
<1> HIDE DEF data
<1>3. w = FlattenSeq(Framed(data, {n})) /\ w \in Payload
  <2>1. {} \in SUBSET (1 .. Len(data) - 1) /\ {} \cup {Len(data)} = {n}
    BY <1>2
  <2> QED BY <1>2, <2>1, RecordsWritten
<1>4. app \in Payload /\ Len(app) = m.more /\ \A i \in 1 .. m.more : app[i] = U("app", i)
  <2>1. "app" \in Kinds /\ "app" # "rec"
    BY DEF Kinds
  <2> QED BY <1>1, <2>1, SoundUnits
<1> DEFINE whole == w \o app
<1>5. p = SubSeq(whole, 1, IF m.read < Len(whole) THEN m.read ELSE Len(whole))
  BY DEF Original, n, data
<1> HIDE DEF w, app, p
<1>6. /\ whole \in Payload /\ Len(whole) = Len(w) + Len(app)
      /\ \A i \in 1 .. Len(w) : whole[i] = w[i]
      /\ \A i \in 1 .. Len(app) : whole[Len(w) + i] = app[i]
  <2>1. w \in Seq(Sound) /\ app \in Seq(Sound)
    BY <1>3, <1>4 DEF Payload
  <2> QED BY ONLY <2>1, Joint DEF Payload
<1> HIDE DEF whole
<1>7. /\ Len(w) = 5 + n
      /\ \A j \in 1 .. 5 : w[j] = Header(n)[j]
      /\ \A k \in 1 .. n : w[5 + k] = data[k]
  <2>1. {n} \in SUBSET (1 .. Len(data)) /\ Len(data) \in {n} /\ {n} \in SUBSET Nat
    BY <1>1, <1>2
  <2>2. PICK pos \in [0 .. Len(data) -> Nat] : Laid(w, pos, data, {n})
    BY <1>2, <1>3, <2>1, Layout
  <2>3. EndAfter({n}, 0) = n
    <3> DEFINE E == {n}
    <3>1. E \in SUBSET Nat /\ n \in E /\ n > 0 /\ 0 \in Nat
      BY <1>1
    <3> HIDE DEF E
    <3>2. EndAfter(E, 0) \in E
      BY <3>1, NextEnd
    <3> QED BY <3>2 DEF E
  <2>4. /\ pos[0] = 0 /\ pos[n] = Len(w) /\ pos[n] = pos[0] + 5 + (n - 0)
        /\ \A j \in 1 .. 5 : w[pos[0] + j] = Header(n - 0)[j]
        /\ \A k \in 1 .. (n - 0) : w[pos[0] + 5 + k] = data[0 + k]
    <3>1. 0 \in {0} \cup {n} /\ 0 < Len(data)
      BY <1>1, <1>2
    <3> QED BY <1>2, <2>2, <2>3, <3>1 DEF Laid
  <2>5. n - 0 = n /\ 0 + 5 + n = 5 + n /\ \A k \in Nat : 0 + k = k /\ 0 + 5 + k = 5 + k
    BY <1>1
  <2>6. \A j \in 1 .. 5 : j \in Nat
    OBVIOUS
  <2>7. \A j \in 1 .. n : j \in Nat
    OBVIOUS
  <2> QED BY <2>4, <2>5, <2>6, <2>7
<1> DEFINE r == IF m.read < Len(whole) THEN m.read ELSE Len(whole)
<1>8. r \in 0 .. Len(whole) /\ Len(whole) \in Nat
  <2>1. Len(whole) \in Nat
    BY <1>6 DEF Payload
  <2> QED BY <1>1, <2>1
<1>9. p \in Payload /\ Len(p) = r /\ \A i \in 1 .. r : p[i] = whole[i]
  <2> HIDE DEF r
  <2>1. p = SubSeq(whole, 1, r)
    BY <1>5 DEF r
  <2> QED BY <1>6, <1>8, <2>1, FrontPart DEF Payload
<1> HIDE DEF r
<1>10. \A i \in 1 .. r : i \in Nat /\ i <= r
  BY <1>8
<1> HIDE DEF r
<1>11. Len(w) \in Nat /\ Len(whole) = 5 + n + m.more
  BY <1>1, <1>4, <1>6, <1>7
<1>12. ASSUME NEW i \in 1 .. r PROVE p[i] = SentByte(m, i)
  <2>1. i \in 1 .. Len(whole) /\ p[i] = whole[i]
    BY <1>8, <1>9
  <2>2. CASE i <= 5
    <3>1. i \in 1 .. 5 /\ i \in 1 .. Len(w)
      BY <1>1, <1>7, <2>2
    <3> QED BY <1>6, <1>7, <2>1, <2>2, <3>1 DEF SentByte, n
  <2>3. CASE ~ (i <= 5) /\ i <= 5 + n
    <3>1. i - 5 \in 1 .. n /\ i = 5 + (i - 5) /\ i \in 1 .. Len(w)
      BY <1>1, <1>7, <2>3
    <3>2. w[5 + (i - 5)] = data[i - 5] /\ data[i - 5] = U("hs", i - 5)
      BY <1>2, <1>7, <3>1
    <3>3. whole[i] = w[i]
      BY <1>6, <3>1
    <3> QED BY <2>1, <2>3, <3>1, <3>2, <3>3 DEF SentByte, n
  <2>4. CASE ~ (i <= 5) /\ ~ (i <= 5 + n)
    <3>1. i - 5 - n \in 1 .. m.more /\ i = (5 + n) + (i - 5 - n)
      BY <1>1, <1>11, <2>1, <2>4
    <3>2. whole[(5 + n) + (i - 5 - n)] = app[i - 5 - n] /\ app[i - 5 - n] = U("app", i - 5 - n)
      BY <1>4, <1>6, <1>7, <3>1
    <3> QED BY <2>1, <2>4, <3>1, <3>2 DEF SentByte, n
  <2> QED BY <2>2, <2>3, <2>4
<1>13. r <= 5 + n + m.more
  BY <1>8, <1>11
<1> QED BY <1>1, <1>9, <1>12, <1>13 DEF n, p

(* A ClientHello in one record, all there: its header, then its bytes. *)
HelloBytes(m, p) ==
  /\ MessageLen(m) \in Nat /\ MessageLen(m) >= 1 /\ MessageLen(m) = m.pre + Len(m.name) + m.tail
  /\ p[1].v = MessageLen(m) /\ 5 + MessageLen(m) <= Len(p)
  /\ \A i \in 1 .. 5 : p[i].k # "hs"
  /\ \A i \in 1 .. MessageLen(m) : p[5 + i] = U("hs", i)

LEMMA OneRecordHello ==
  ASSUME NEW m \in Input, m.cuts = {}, IsClientHello(m, Original(m))
  PROVE  HelloBytes(m, Original(m))
<1> DEFINE n == MessageLen(m)
           p == Original(m)
<1>1. /\ p \in Payload /\ n \in Nat /\ n >= 1 /\ n = m.pre + Len(m.name) + m.tail
      /\ \A i \in 1 .. Len(p) : p[i] = SentByte(m, i)
  <2>1. m.shape = "tls"
    BY DEF IsClientHello
  <2> QED BY <2>1, OriginalAt
<1>2. IsClientHello(m, p)
  OBVIOUS
<1> HIDE DEF n, p
<1>3. p[1] = U("rec", p[1].v) /\ p # <<>> /\ p[1].v \in Nat /\ HeaderLen + p[1].v <= Len(p)
  BY <1>1, <1>2, HelloRecord
<1>4. Len(p) \in Nat /\ 1 \in 1 .. Len(p) /\ HeaderLen = 5
  <2>1. Len(p) \in Nat /\ HeaderLen = 5
    BY <1>1 DEF Payload, HeaderLen
  <2> QED BY <1>3, <2>1
<1>5. p[1] = U("rec", n)
  <2>1. p[1] = Header(n)[1]
    BY <1>1, <1>4 DEF SentByte, n
  <2> QED BY <1>1, <2>1, HeaderUnits
<1>6. p[1].v = n
  BY <1>5 DEF U
<1>7. 5 + n <= Len(p)
  BY <1>3, <1>4, <1>6
<1>8. ASSUME NEW i \in 1 .. 5 PROVE p[i].k # "hs"
  <2>1. i \in 1 .. Len(p) /\ i <= 5
    BY <1>1, <1>4, <1>7
  <2>2. p[i] = Header(n)[i]
    BY <1>1, <2>1 DEF SentByte, n
  <2>3. i = 1 \/ i \in 2 .. HeaderLen
    BY DEF HeaderLen
  <2>4. p[i] = U("rec", n) \/ p[i] = U("fill", 0)
    BY <1>1, <2>2, <2>3, HeaderUnits
  <2> QED BY <2>4 DEF U
<1>9. ASSUME NEW i \in 1 .. n PROVE p[5 + i] = U("hs", i)
  <2>1. 5 + i \in 1 .. Len(p) /\ ~ (5 + i <= 5) /\ 5 + i <= 5 + n /\ (5 + i) - 5 = i
    BY <1>1, <1>4, <1>7
  <2>2. SentByte(m, 5 + i) = U("hs", i)
    BY <2>1 DEF SentByte, n
  <2> QED BY <1>1, <2>1, <2>2
<1> QED BY <1>1, <1>6, <1>7, <1>8, <1>9 DEF HelloBytes, n, p

(* The places that the markers of the name stand for. *)
LEMMA MarkedPlaces ==
  ASSUME NEW m \in Input, NEW p \in Payload, HasSni(m, p), m.name # <<>>, NEW pos \in Position,
         pos.delta = 0, pos.at \in {"Sni", "SniExtStart", "EndSld", "MidSld"},
         NEW o \in Resolve(m, p, pos)
  PROVE  /\ o \in 0 .. (5 + m.pre + Len(m.name) - 1)
         /\ pos.at = "Sni" => o = 5 + m.pre
<1>1. m.pre \in Nat /\ Len(m.name) \in Nat /\ Len(m.name) # 0 /\ m.name \in Seq(STRING)
  <2>1. m.pre \in Nat /\ m.name \in Seq(STRING)
    BY DEF Input
  <2> QED BY <2>1, EmptySeq
<1>2. SniOffset(m) = 5 + m.pre /\ Len(p) \in Nat
  BY SniIs
<1>3. o \in Base(m, p, pos)
  BY DEF Resolve
<1>4. o \in Nat
  BY ResolveIs
<1>5. CASE pos.at = "Sni"
  <2>1. o = SniOffset(m)
    BY <1>3, <1>5 DEF Base, DefaultSplitOffset
  <2> QED BY <1>1, <1>2, <2>1
<1>6. CASE pos.at = "SniExtStart"
  <2>1. o = SniOffset(m) - 9
    BY <1>3, <1>6 DEF Base, Within
  <2> QED BY <1>1, <1>2, <1>4, <1>6, <2>1
<1>7. ASSUME NEW x, o \in Within(p, SldOffset(m, p, x)) PROVE HasSld(m.name) /\ o = 5 + m.pre + x
  BY <1>2, <1>7 DEF Within, SldOffset
<1>8. HasSld(m.name) => SldEnd(m.name) \in 0 .. (Len(m.name) - 1) /\ SldStart(m.name) \in 0 .. SldEnd(m.name)
  BY <1>1, SldIs
<1>9. CASE pos.at = "EndSld"
  <2>1. HasSld(m.name) /\ o = 5 + m.pre + SldEnd(m.name)
    BY <1>3, <1>7, <1>9 DEF Base
  <2> QED BY <1>1, <1>4, <1>8, <1>9, <2>1
<1>10. CASE pos.at = "MidSld"
  <2> DEFINE mid == SldStart(m.name) + (SldEnd(m.name) - SldStart(m.name)) \div 2
  <2>1. HasSld(m.name) /\ o = 5 + m.pre + mid
    BY <1>3, <1>7, <1>10 DEF Base
  <2>2. PICK e \in 0 .. (Len(m.name) - 1) : e = SldEnd(m.name)
    BY <1>8, <2>1
  <2>3. PICK b \in 0 .. e : b = SldStart(m.name)
    BY <1>8, <2>1, <2>2
  <2>4. mid = b + (e - b) \div 2 /\ mid \in 0 .. e
    <3>1. b + (e - b) \div 2 \in 0 .. e
      BY <1>1
    <3> QED BY <2>2, <2>3, <3>1
  <2>5. PICK i \in 0 .. e : i = mid
    BY <2>4
  <2>6. o = 5 + m.pre + i
    BY <2>1, <2>5
  <2>7. o \in 0 .. (5 + m.pre + Len(m.name) - 1)
    <3> HIDE DEF mid
    <3> QED BY <1>1, <1>4, <2>2, <2>5, <2>6
  <2> QED BY <1>10, <2>7
<1> QED BY <1>5, <1>6, <1>9, <1>10

(* No piece but the last holds the last byte of the name; *)
Apart(R, x) == \A i \in 1 .. Len(R) - 1 : \A j \in DOMAIN R[i] : R[i][j] # U("hs", x)
(* the last begins with its first. *)
BeginsAt(R, x) == Len(R) > 1 /\ R[Len(R)][1] = U("hs", x)

(* The halves of a ClientHello. *)
LEMMA HalvesAt ==
  ASSUME NEW m \in Input, NEW p \in Payload, HelloBytes(m, p), m.name # <<>>,
         NEW o \in 0 .. (5 + m.pre + Len(m.name) - 1)
  PROVE  /\ ~ (o >= Len(p))
         /\ Apart(Halves(p, o), m.pre + Len(m.name))
         /\ o = 5 + m.pre => BeginsAt(Halves(p, o), m.pre + 1)
<1> DEFINE n == MessageLen(m)
           x == m.pre + Len(m.name)
<1>1. /\ m.pre \in Nat /\ m.tail \in Nat /\ Len(m.name) \in Nat /\ Len(m.name) # 0 /\ Len(p) \in Nat
  <2>1. m.pre \in Nat /\ m.tail \in Nat /\ m.name \in Seq(STRING)
    BY DEF Input
  <2> QED BY <2>1, EmptySeq DEF Payload
<1>2. n \in Nat /\ n = m.pre + Len(m.name) + m.tail /\ 5 + n <= Len(p)
  BY DEF HelloBytes
<1> HIDE DEF n
<1>3. x \in Nat /\ x <= n /\ o < 5 + x /\ o \in Nat
  <2>1. PICK a \in Nat : a = m.pre
    BY <1>1
  <2>2. PICK l \in Nat \ {0} : l = Len(m.name)
    BY <1>1
  <2>3. PICK t \in Nat : t = m.tail
    BY <1>1
  <2>4. o \in 0 .. (5 + a + l - 1) /\ n = a + l + t /\ x = a + l
    BY <1>2, <2>1, <2>2, <2>3
  <2> HIDE DEF x
  <2> QED BY <2>4
<1>4. o < Len(p) /\ ~ (o >= Len(p))
  BY <1>1, <1>2, <1>3
<1>5. /\ Len(Halves(p, o)) = 2 /\ Halves(p, o)[1] \in Payload /\ Halves(p, o)[2] \in Payload
      /\ Len(Halves(p, o)[1]) = o /\ Len(Halves(p, o)[2]) = Len(p) - o
      /\ \A i \in 1 .. o : Halves(p, o)[1][i] = p[i]
      /\ \A i \in 1 .. Len(p) - o : Halves(p, o)[2][i] = p[o + i]
  BY <1>3, <1>4, HalvesSound
<1> HIDE DEF x
<1>6. ASSUME NEW j \in 1 .. o PROVE p[j] # U("hs", x)
  <2>1. CASE j \in 1 .. 5
    <3>1. p[j].k # "hs"
      BY <2>1 DEF HelloBytes
    <3> QED BY <3>1 DEF U
  <2>2. CASE j \notin 1 .. 5
    <3>1. PICK i \in 1 .. n : j = 5 + i
      <4>1. j - 5 \in 1 .. n /\ j = 5 + (j - 5)
        BY <1>2, <1>3, <2>2
      <4> QED BY <4>1
    <3>2. p[j] = U("hs", i)
      BY <3>1 DEF HelloBytes, n
    <3>3. i # x
      BY <1>3, <3>1
    <3> QED BY <3>2, <3>3 DEF U
  <2> QED BY <2>1, <2>2
<1>7. Apart(Halves(p, o), x)
  <2> SUFFICES ASSUME NEW i \in 1 .. Len(Halves(p, o)) - 1, NEW j \in DOMAIN Halves(p, o)[i]
               PROVE  Halves(p, o)[i][j] # U("hs", x)
    BY DEF Apart
  <2>1. i = 1
    BY <1>5
  <2>2. j \in 1 .. o
    BY <1>5, <2>1 DEF Payload
  <2> QED BY <1>5, <1>6, <2>1, <2>2
<1>8. ASSUME o = 5 + m.pre PROVE BeginsAt(Halves(p, o), m.pre + 1)
  <2>1. 1 \in 1 .. Len(p) - o /\ m.pre + 1 \in 1 .. n /\ o + 1 = 5 + (m.pre + 1)
    <3>1. PICK a \in Nat : a = m.pre
      BY <1>1
    <3>2. PICK l \in Nat \ {0} : l = Len(m.name)
      BY <1>1
    <3>3. PICK t \in Nat : t = m.tail
      BY <1>1
    <3>4. o = 5 + a /\ n = a + l + t
      BY <1>2, <1>8, <3>1, <3>2, <3>3
    <3>5. a + 1 \in 1 .. n /\ o + 1 = 5 + (a + 1)
      BY <3>4
    <3>6. 1 \in 1 .. Len(p) - o
      BY <1>1, <1>3, <1>4
    <3> QED BY <3>1, <3>5, <3>6
  <2>2. Halves(p, o)[2][1] = p[5 + (m.pre + 1)]
    BY <1>5, <2>1
  <2>3. p[5 + (m.pre + 1)] = U("hs", m.pre + 1)
    BY <2>1 DEF HelloBytes, n
  <2> QED BY <1>5, <2>2, <2>3 DEF BeginsAt
<1> QED BY <1>4, <1>7, <1>8 DEF x

(* The records of a ClientHello that is cut at s. *)
LEMMA RecordsAt ==
  ASSUME NEW m \in Input, NEW p \in Payload, HelloBytes(m, p), m.name # <<>>, IsClientHello(m, p),
         NEW cuts \in SUBSET (1 .. p[1].v - 1), NEW s \in cuts, \A x \in cuts : x <= s,
         s < m.pre + Len(m.name)
  PROVE  /\ Apart(Records(WriteRecords(RecordData(p, 1), cuts)), m.pre + Len(m.name))
         /\ s = m.pre => BeginsAt(Records(WriteRecords(RecordData(p, 1), cuts)), m.pre + 1)
<1> DEFINE n == MessageLen(m)
           x == m.pre + Len(m.name)
           data == RecordData(p, 1)
           R == Records(WriteRecords(data, cuts))
<1>1. m.pre \in Nat /\ m.tail \in Nat /\ Len(m.name) \in Nat /\ Len(m.name) # 0
  <2>1. m.pre \in Nat /\ m.tail \in Nat /\ m.name \in Seq(STRING)
    BY DEF Input
  <2> QED BY <2>1, EmptySeq
<1>2. n \in Nat /\ n = m.pre + Len(m.name) + m.tail /\ p[1].v = n /\ \A i \in 1 .. n : p[5 + i] = U("hs", i)
  BY DEF HelloBytes
<1>3. data \in Payload /\ Len(data) = n /\ \A i \in 1 .. n : data[i] = p[5 + i]
  BY <1>2, HelloRecord DEF HeaderLen
<1> HIDE DEF n, data
<1>4. x \in Nat /\ x <= n /\ s < x /\ s \in 1 .. n - 1 /\ cuts \in SUBSET (1 .. Len(data) - 1)
  <2>1. x \in Nat /\ x <= n
    <3>1. \A a, b, c \in Nat : a + b \in Nat /\ a + b <= a + b + c
      OBVIOUS
    <3> QED BY <1>1, <1>2, <3>1
  <2>2. s < x
    OBVIOUS
  <2>3. s \in 1 .. n - 1 /\ cuts \in SUBSET (1 .. n - 1)
    BY <1>2
  <2>4. Len(data) = n
    BY <1>3
  <2> HIDE DEF x
  <2> QED BY <2>1, <2>2, <2>3, <2>4
<1>5. Cutted(R, data, s) /\ Len(R) > 1
  BY <1>3, <1>4, RecordsAreCut
<1> HIDE DEF R, x
<1>6. \A i \in 1 .. n : data[i] = U("hs", i)
  BY <1>2, <1>3
<1>7. Apart(R, x)
  <2> SUFFICES ASSUME NEW i \in 1 .. Len(R) - 1, NEW j \in DOMAIN R[i]
               PROVE  R[i][j] # U("hs", x)
    BY DEF Apart
  <2>1. PICK c \in 0 .. s, d \in 0 .. s : R[i] = SubSeq(data, c + 1, d)
    BY <1>5 DEF Cutted
  <2>2. c \in Nat /\ d \in Nat /\ d \in 0 .. Len(data) /\ d < x /\ d < n
    BY <1>2, <1>3, <1>4
  <2>3. /\ SubSeq(data, c + 1, d) \in Seq(Sound)
        /\ Len(SubSeq(data, c + 1, d)) = IF c < d THEN d - c ELSE 0
        /\ \A k \in 1 .. d - c : SubSeq(data, c + 1, d)[k] = data[c + k]
    <3>1. data \in Seq(Sound) /\ c \in Nat /\ d \in 0 .. Len(data)
      BY <1>3, <2>2 DEF Payload
    <3> QED BY ONLY <3>1, Part
  <2>4. j \in 1 .. (IF c < d THEN d - c ELSE 0)
    BY <2>1, <2>3
  <2>5. j \in 1 .. d - c /\ c + j \in 1 .. n /\ c + j # x
    <3>1. c \in Nat /\ d \in Nat /\ n \in Nat /\ x \in Nat /\ d < x /\ d < n
      BY <1>2, <1>4, <2>2
    <3>2. c < d
      BY <2>4, <3>1
    <3>3. j \in 1 .. d - c
      BY <2>4, <3>2
    <3>4. j \in Nat /\ 1 <= j /\ j <= d - c
      BY <3>1, <3>3
    <3>5. \A b \in Nat : 1 <= b /\ b <= d - c => c + b \in 1 .. n /\ c + b # x
      BY ONLY <3>1
    <3> QED BY ONLY <3>3, <3>4, <3>5
  <2>6. R[i][j] = U("hs", c + j)
    BY <1>6, <2>1, <2>3, <2>5
  <2> QED BY <2>5, <2>6 DEF U
<1>8. ASSUME s = m.pre PROVE BeginsAt(R, m.pre + 1)
  <2>1. R[Len(R)] = SubSeq(data, s + 1, n)
    BY <1>3, <1>5 DEF Cutted
  <2>2. s \in Nat /\ n \in 0 .. Len(data) /\ 1 \in 1 .. n - s /\ s + 1 \in 1 .. n
    BY <1>2, <1>3, <1>4
  <2>3. SubSeq(data, s + 1, n)[1] = data[s + 1]
    BY <1>3, <2>2, Part DEF Payload
  <2> QED BY <1>5, <1>6, <1>8, <2>1, <2>2, <2>3 DEF BeginsAt
<1> QED BY <1>7, <1>8 DEF R, x, data

(* A place in the payload that a marker stands for, as one in the data. *)
LEMMA MarkInData ==
  ASSUME NEW pre \in Nat \ {0}, NEW len \in Nat \ {0}, NEW n \in Nat, n >= pre + len,
         NEW o \in 0 .. (5 + pre + len - 1)
  PROVE  /\ InData(o, n) < pre + len
         /\ o = 5 + pre => InData(o, n) = pre
BY DEF InData, Clamp, HeaderLen

-----------------------------------------------------------------------------
(* A technique alone.                                                       *)

(* It gets the message of the client, and its result is the one returned. *)
Alone ==
  ~job.chain => /\ current = Original(input)
                /\ result = None \/ result \in Apply(input, Original(input), job.techs[1])

LEMMA AloneHolds == Spec => [](Typed /\ Alone)
<1>1. Init => Alone
  BY DEF Init, Alone
<1>2. Typed /\ Alone /\ [Next]_vars => Alone'
  <2> SUFFICES ASSUME Typed, Alone, [Next]_vars PROVE Alone'
    OBVIOUS
  <2>1. CASE ApplyOne
    <3>1. result' \in Apply(input, current, job.techs[1]) /\ UNCHANGED <<input, job, current>>
      BY <2>1 DEF ApplyOne
    <3> QED BY <3>1 DEF Alone
  <2>2. CASE ChainStep
    BY <2>2 DEF ChainStep, Alone
  <2>3. CASE ChainEnd
    BY <2>3 DEF ChainEnd, Alone
  <2>4. CASE UNCHANGED vars
    BY <2>4 DEF vars, Alone
  <2> QED BY <2>1, <2>2, <2>3, <2>4 DEF Next
<1>3. Spec => []Typed
  BY Typing
<1> QED BY <1>1, <1>2, <1>3, PTL DEF Spec

Markers == {"Sni", "SniExtStart", "EndSld", "MidSld"}

(* A cut at a marker of the name: what the pieces are, for each technique. *)
LEMMA Marked ==
  ASSUME Typed, Alone, AtMarker(Markers)
  PROVE  /\ input \in Input /\ input.name # <<>>
         /\ Apart(Pieces, input.pre + Len(input.name))
         /\ job.techs[1].pos.at = "Sni" => BeginsAt(Pieces, input.pre + 1)
<1> DEFINE m == input
           p == Original(input)
           c == job.techs[1]
           S == Offsets(m, p, c)
           last == m.pre + Len(m.name)
<1>1. /\ m \in Input /\ (m.named => m.name # <<>>) /\ p \in Payload
      /\ job.techs \in Seq(Config) /\ (job.chain \/ job.techs # <<>>)
  <2>1. /\ m \in Input /\ (m.named => m.name # <<>>) /\ p \in Payload
        /\ job.techs \in Seq(Config) /\ (job.chain \/ Len(job.techs) = 1)
    BY Given DEF Typed
  <2>2. Len(job.techs) = 1 => job.techs # <<>>
    OBVIOUS
  <2> HIDE DEF m, p
  <2> QED BY <2>1, <2>2
<1>2. /\ Done /\ Cutting /\ input.cuts = {} /\ c.jitter = 0 /\ c.pos.delta = 0 /\ c.pos.at \in Markers
      /\ HasSni(m, p) /\ Resolve(m, p, c.pos) # {} /\ result.type # "NotApplicable"
  BY DEF AtMarker
<1>3. m.name # <<>> /\ IsClientHello(m, p)
  BY <1>1, <1>2 DEF HasSni
<1>4. HelloBytes(m, p)
  BY <1>1, <1>2, <1>3, OneRecordHello
<1>5. c \in Config /\ c.pos \in Position /\ c.fragments \in Nat
      /\ c.name \in {"tcp_split", "tls_record_frag", "multi_stream_frag"}
  <2>1. 1 \in DOMAIN job.techs /\ c \in Config
    BY <1>1, <1>2 DEF Cutting
  <2>2. c.name \in Names
    BY <2>1 DEF Names
  <2> QED BY <1>2, <2>1, <2>2 DEF Cutting, Config
<1>6. S = Resolve(m, p, c.pos) /\ S # {}
  BY <1>2 DEF Offsets
<1>7. result \in Apply(m, p, c)
  BY <1>2 DEF Alone, Cutting, Done
<1> HIDE DEF m, p, c, S
<1>8. ASSUME NEW o \in S
      PROVE  /\ o \in 0 .. (5 + m.pre + Len(m.name) - 1)
             /\ c.pos.at = "Sni" => o = 5 + m.pre
  BY <1>1, <1>2, <1>3, <1>5, <1>6, MarkedPlaces DEF Markers
<1>9. m.pre \in Nat \ {0} /\ Len(m.name) \in Nat \ {0} /\ m.tail \in Nat
  <2>1. m.pre \in Nat \ {0} /\ m.name \in Seq(STRING) /\ m.tail \in Nat
    BY <1>1 DEF Input
  <2> QED BY <1>3, <2>1, EmptySeq
<1>10. PICK n \in Nat : n = p[1].v
  BY <1>4 DEF HelloBytes
<1>11. n >= m.pre + Len(m.name) /\ n >= 2
  <2>1. n = m.pre + Len(m.name) + m.tail
    BY <1>4, <1>10 DEF HelloBytes
  <2> QED BY <1>9, <2>1
<1>12. ASSUME NEW o \in S
       PROVE  /\ InData(o, n) \in 1 .. n - 1 /\ InData(o, n) < last
              /\ o = 5 + m.pre => InData(o, n) = m.pre
  <2>1. o \in 0 .. (5 + m.pre + Len(m.name) - 1)
    BY <1>8
  <2>2. o \in Nat
    <3> HIDE DEF S
    <3> QED BY <1>9, <2>1
  <2>3. InData(o, n) \in 1 .. n - 1
    BY <1>11, <2>2, Inside
  <2>4. InData(o, n) < m.pre + Len(m.name) /\ (o = 5 + m.pre => InData(o, n) = m.pre)
    <3> DEFINE a == m.pre
               l == Len(m.name)
    <3>1. a \in Nat \ {0} /\ l \in Nat \ {0} /\ n \in Nat /\ n >= a + l /\ o \in 0 .. (5 + a + l - 1)
      BY <1>9, <1>11, <2>1
    <3> HIDE DEF a, l
    <3>2. InData(o, n) < a + l /\ (o = 5 + a => InData(o, n) = a)
      BY <3>1, MarkInData
    <3> QED BY <3>2 DEF a, l
  <2> QED BY <2>3, <2>4
<1> DEFINE Fits(R) == Apart(R, last) /\ (c.pos.at = "Sni" => BeginsAt(R, m.pre + 1))
<1>13. ASSUME NEW cuts \in SUBSET (1 .. n - 1), NEW o \in S, InData(o, n) \in cuts,
              \A x \in cuts : x <= InData(o, n), result = Replace(WriteRecords(RecordData(p, 1), cuts))
       PROVE  Fits(Pieces)
  <2> DEFINE s == InData(o, n)
             w == WriteRecords(RecordData(p, 1), cuts)
  <2>1. s \in cuts /\ s < last /\ (o = 5 + m.pre => s = m.pre) /\ \A x \in cuts : x <= s
    BY <1>12, <1>13
  <2> HIDE DEF s
  <2>2. Apart(Records(w), last) /\ (s = m.pre => BeginsAt(Records(w), m.pre + 1))
    BY <1>1, <1>3, <1>4, <1>10, <2>1, RecordsAt
  <2>3. Pieces = Records(w)
    <3> HIDE DEF w
    <3>1. result.type = "Replace" /\ result.chunks[1] = w
      BY <1>13 DEF Replace, Action, w
    <3> QED BY <3>1 DEF Pieces
  <2>4. c.pos.at = "Sni" => s = m.pre
    BY <1>8, <2>1
  <2> QED BY <2>2, <2>3, <2>4
<1>14. CASE c.name = "tcp_split"
  <2>1. result \in TcpSplit(p, S)
    BY <1>7, <1>14 DEF Apply, S
  <2>2. PICK o \in S : result = IF o >= Len(p) THEN PassThrough ELSE Split(Halves(p, o))
    BY <1>6, <2>1 DEF TcpSplit
  <2>3. o \in 0 .. (5 + m.pre + Len(m.name) - 1) /\ (c.pos.at = "Sni" => o = 5 + m.pre)
    BY <1>8
  <2>4. /\ ~ (o >= Len(p)) /\ Apart(Halves(p, o), last)
        /\ o = 5 + m.pre => BeginsAt(Halves(p, o), m.pre + 1)
    BY <1>1, <1>3, <1>4, <2>3, HalvesAt
  <2>5. result = Split(Halves(p, o))
    BY <2>2, <2>4
  <2>6. Pieces = Halves(p, o)
    BY <2>5 DEF Pieces, Segments, Split, Action
  <2>7. Fits(Pieces)
    BY <2>3, <2>4, <2>6
  <2> QED BY <1>1, <1>3, <2>7 DEF m, c
<1>15. CASE c.name = "tls_record_frag"
  <2>1. result \in TlsRecordFrag(m, p, S)
    BY <1>7, <1>15 DEF Apply, S
  <2>2. result # NotApplicable
    BY <1>2 DEF NotApplicable, Action
  <2>3. PICK o \in S : result = Replace(WriteRecords(RecordData(p, 1), {InData(o, p[1].v)}))
    BY <2>1, <2>2 DEF TlsRecordFrag
  <2>4. InData(o, n) \in 1 .. n - 1
    BY <1>12
  <2> DEFINE cuts == {InData(o, n)}
  <2>5. /\ cuts \in SUBSET (1 .. n - 1) /\ InData(o, n) \in cuts
        /\ \A x \in cuts : x <= InData(o, n)
    BY <2>4
  <2>6. result = Replace(WriteRecords(RecordData(p, 1), cuts))
    BY <1>10, <2>3
  <2> HIDE DEF cuts
  <2>7. Fits(Pieces)
    BY <1>13, <2>5, <2>6
  <2> QED BY <1>1, <1>3, <2>7 DEF m, c
<1>16. CASE c.name = "multi_stream_frag"
  <2> DEFINE k == Clamp(IF c.fragments = 0 THEN 3 ELSE c.fragments, 2, 8)
  <2>1. result \in MultiStreamFrag(m, p, S, c.fragments)
    BY <1>7, <1>16 DEF Apply, S
  <2>2. result # NotApplicable
    BY <1>2 DEF NotApplicable, Action
  <2>3. k \in 2 .. 8
    BY <1>5, Fragments
  <2>4. PICK o \in S : result = Replace(WriteRecords(RecordData(p, 1), SplitPoints(p[1].v, InData(o, p[1].v), k)))
    BY <1>6, <2>1, <2>2 DEF MultiStreamFrag
  <2> HIDE DEF k
  <2>5. InData(o, n) \in 1 .. n - 1
    BY <1>12
  <2> DEFINE cuts == SplitPoints(n, InData(o, n), k)
  <2>6. /\ cuts \in SUBSET (1 .. n - 1) /\ InData(o, n) \in cuts
        /\ \A x \in cuts : x <= InData(o, n)
    BY <2>3, <2>5, LastCutIsTheName
  <2>7. result = Replace(WriteRecords(RecordData(p, 1), cuts))
    BY <1>10, <2>4
  <2> HIDE DEF cuts
  <2>8. Fits(Pieces)
    BY <1>13, <2>6, <2>7
  <2> QED BY <1>1, <1>3, <2>8 DEF m, c
<1> QED BY <1>5, <1>14, <1>15, <1>16

(* A cut at a marker of the name, in one piece or several, by tcp_split.rs,   *)
(* tls_record_frag.rs or multi_stream_frag.rs: no piece but the last holds    *)
(* the whole name, for every ClientHello in one record.                       *)
THEOREM NameIsHidden == Spec => []NameHidden
<1>1. Typed /\ Alone => NameHidden
  <2> SUFFICES ASSUME Typed, Alone, AtMarker(Markers), NEW i \in 1 .. (Len(Pieces) - 1), Holds(Pieces[i])
               PROVE  FALSE
    BY DEF NameHidden, Markers
  <2>1. input \in Input /\ input.name # <<>> /\ Apart(Pieces, input.pre + Len(input.name))
    BY Marked
  <2>2. Len(input.name) \in DOMAIN input.name
    <3>1. input.name \in Seq(STRING)
      BY <2>1 DEF Input
    <3> QED BY <2>1, <3>1, EmptySeq
  <2>3. \E j \in DOMAIN Pieces[i] : Pieces[i][j] = U("hs", input.pre + Len(input.name))
    BY <2>2 DEF Holds, NameByte
  <2> QED BY <2>1, <2>3 DEF Apart
<1>2. Spec => [](Typed /\ Alone)
  BY AloneHolds
<1> QED BY <1>1, <1>2, PTL

(* A cut at the name: there are several pieces, and the last begins with the  *)
(* name ("the SNI hostname always lands in the last TLS record fragment").    *)
THEOREM LastPieceIsTheName == Spec => []LastPieceAtName
<1>1. Typed /\ Alone => LastPieceAtName
  <2> SUFFICES ASSUME Typed, Alone, AtMarker({"Sni"})
               PROVE  Len(Pieces) > 1 /\ Pieces[Len(Pieces)][1] = NameByte(1)
    BY DEF LastPieceAtName
  <2>1. AtMarker(Markers) /\ job.techs[1].pos.at = "Sni"
    BY DEF AtMarker, Markers
  <2> QED BY <2>1, Marked DEF BeginsAt, NameByte
<1>2. Spec => [](Typed /\ Alone)
  BY AloneHolds
<1> QED BY <1>1, <1>2, PTL

-----------------------------------------------------------------------------
(* Concatenations of many sequences.                                        *)

(* What grows from the same beginning by the same pieces is the same. *)
Grows(x, r, n) == \A i \in 1 .. n : x[i] = x[i - 1] \o r[i]

LEMMA Grown ==
  ASSUME NEW n \in Nat, NEW x, NEW y, NEW r, x[0] = y[0], Grows(x, r, n), Grows(y, r, n)
  PROVE  x[n] = y[n]
<1> DEFINE Bad == {i \in 0 .. n : x[i] # y[i]}
<1> SUFFICES ASSUME Bad # {} PROVE FALSE
  <2>1. n \in 0 .. n
    OBVIOUS
  <2> QED BY <2>1
<1>1. PICK i \in Bad : \A k \in Bad : ~ (k < i)
  <2>1. Bad \in SUBSET Nat
    OBVIOUS
  <2> HIDE DEF Bad
  <2> QED BY <2>1, LeastOf
<1>2. i \in 0 .. n /\ x[i] # y[i]
  BY <1>1
<1>3. i \in 1 .. n /\ i - 1 \in 0 .. n /\ i - 1 < i
  BY <1>2
<1>4. i - 1 \notin Bad
  BY <1>1, <1>3
<1>5. x[i - 1] = y[i - 1]
  BY <1>3, <1>4
<1> QED BY <1>2, <1>3, <1>5 DEF Grows

(* Nothing, and one sequence. *)
LEMMA FlatNone == FlattenSeq(<<>>) = <<>>
<1>1. Len(<<>>) = 0
  OBVIOUS
<1> QED BY <1>1 DEF FlattenSeq

LEMMA FlatOne ==
  ASSUME NEW T, NEW s \in Seq(T)
  PROVE  FlattenSeq(<<s>>) = s
<1> DEFINE q == <<s>>
<1>1. q \in Seq(Seq(T)) /\ Len(q) = 1 /\ q[1] = s
  OBVIOUS
<1> HIDE DEF q
<1>2. PICK f \in [0 .. Len(q) -> Seq(T)] : Joined(f, q) /\ FlattenSeq(q) = f[Len(q)]
  BY <1>1, Flattening
<1>3. f[0] = <<>> /\ f[1] = f[0] \o q[1] /\ FlattenSeq(q) = f[1]
  <2>1. 1 \in 1 .. Len(q) /\ 1 - 1 = 0
    BY <1>1
  <2> QED BY <1>1, <1>2, <2>1 DEF Joined
<1>4. <<>> \o s = s
  BY ConcatEmptySeq
<1> QED BY <1>1, <1>3, <1>4 DEF q

(* Three are joined in either order. *)
Regroups(a, b, c) == (a \o b) \o c = a \o (b \o c)

LEMMA Regrouped ==
  ASSUME NEW T, NEW a \in Seq(T), NEW b \in Seq(T), NEW c \in Seq(T)
  PROVE  Regroups(a, b, c)
BY ConcatAssociative DEF Regroups

(* Many and many more. *)
LEMMA FlatJoint ==
  ASSUME NEW T, NEW s \in Seq(Seq(T)), NEW t \in Seq(Seq(T))
  PROVE  FlattenSeq(s \o t) = FlattenSeq(s) \o FlattenSeq(t)
<1> DEFINE S == Seq(T)
           u == s \o t
           n == Len(s)
           l == Len(t)
<1>1. /\ u \in Seq(S) /\ Len(u) = n + l /\ n \in Nat /\ l \in Nat
      /\ \A i \in 1 .. n : u[i] = s[i]
      /\ \A i \in 1 .. l : u[n + i] = t[i]
  <2>1. s \in Seq(S) /\ t \in Seq(S) /\ n \in Nat /\ l \in Nat
    OBVIOUS
  <2> HIDE DEF S
  <2> QED BY <2>1, Joint
<1> HIDE DEF u
<1>2. PICK f \in [0 .. n -> Seq(T)] : Joined(f, s) /\ FlattenSeq(s) = f[n]
  BY Flattening
<1>3. PICK g \in [0 .. l -> Seq(T)] : Joined(g, t) /\ FlattenSeq(t) = g[l]
  BY Flattening
<1>4. PICK h \in [0 .. n + l -> Seq(T)] : Joined(h, u) /\ FlattenSeq(u) = h[n + l]
  <2>1. \E h \in [0 .. Len(u) -> Seq(T)] : Joined(h, u) /\ FlattenSeq(u) = h[Len(u)]
    BY <1>1, Flattening
  <2> QED BY <1>1, <2>1
<1>5. h[0] = <<>> /\ \A i \in 1 .. n + l : h[i] = h[i - 1] \o u[i]
  BY <1>1, <1>4 DEF Joined
<1>6. f[0] = <<>> /\ \A i \in 1 .. n : f[i] = f[i - 1] \o s[i]
  BY <1>2 DEF Joined
<1>7. g[0] = <<>> /\ \A i \in 1 .. l : g[i] = g[i - 1] \o t[i]
  BY <1>3 DEF Joined
<1> HIDE DEF n, l
<1>8. h[n] = f[n]
  <2>1. \A i \in 1 .. n : h[i] = h[i - 1] \o s[i]
    <3> TAKE i \in 1 .. n
    <3>1. i \in 1 .. n + l
      BY <1>1
    <3> QED BY <1>1, <1>5, <3>1
  <2>2. Grows(h, s, n) /\ Grows(f, s, n) /\ h[0] = f[0]
    BY <1>5, <1>6, <2>1 DEF Grows
  <2> QED BY <1>1, <2>2, Grown
<1> DEFINE x == [i \in 0 .. l |-> h[n + i]]
           y == [i \in 0 .. l |-> f[n] \o g[i]]
<1>9. f[n] \in Seq(T) /\ \A i \in 0 .. l : g[i] \in Seq(T)
  BY <1>1, <1>2, <1>3
<1>10. x[0] = y[0]
  <2>1. 0 \in 0 .. l /\ n + 0 = n
    BY <1>1
  <2>2. f[n] \o <<>> = f[n]
    BY <1>9, ConcatEmptySeq
  <2> QED BY <1>7, <1>8, <2>1, <2>2
<1>11. ASSUME NEW i \in 1 .. l PROVE x[i] = x[i - 1] \o t[i] /\ y[i] = y[i - 1] \o t[i]
  <2>1. i \in 0 .. l /\ i - 1 \in 0 .. l /\ n + i \in 1 .. n + l /\ (n + i) - 1 = n + (i - 1)
    BY <1>1
  <2>2. x[i] = h[n + i] /\ x[i - 1] = h[n + (i - 1)]
    BY <2>1
  <2>3. h[n + i] = h[n + (i - 1)] \o t[i]
    BY <1>1, <1>5, <2>1
  <2>4. y[i] = f[n] \o g[i] /\ y[i - 1] = f[n] \o g[i - 1]
    BY <2>1
  <2>5. t[i] \in Seq(T)
    BY DEF l
  <2>6. (f[n] \o g[i - 1]) \o t[i] = f[n] \o (g[i - 1] \o t[i])
    <3> DEFINE a == f[n]
               b == g[i - 1]
               c == t[i]
    <3>1. a \in Seq(T) /\ b \in Seq(T) /\ c \in Seq(T)
      BY <1>9, <2>1, <2>5
    <3> HIDE DEF a, b, c
    <3>2. Regroups(a, b, c)
      BY ONLY <3>1, Regrouped
    <3> QED BY <3>2 DEF Regroups, a, b, c
  <2> QED BY <1>7, <2>2, <2>3, <2>4, <2>6
<1> HIDE DEF x, y
<1>12. x[l] = y[l]
  <2>1. Grows(x, t, l) /\ Grows(y, t, l)
    BY <1>11 DEF Grows
  <2> QED BY <1>1, <1>10, <2>1, Grown
<1>13. x[l] = h[n + l] /\ y[l] = f[n] \o g[l]
  <2>1. l \in 0 .. l
    BY <1>1
  <2>2. x[l] = h[n + l]
    BY <2>1 DEF x
  <2> QED BY <2>1, <2>2 DEF y
<1> QED BY <1>2, <1>3, <1>4, <1>12, <1>13 DEF u, l

(* One sequence in front. *)
LEMMA FlatMore ==
  ASSUME NEW T, NEW s \in Seq(T), NEW t \in Seq(Seq(T))
  PROVE  FlattenSeq(<<s>> \o t) = s \o FlattenSeq(t)
<1> DEFINE q == <<s>>
<1>1. q \in Seq(Seq(T))
  OBVIOUS
<1>2. FlattenSeq(q) = s
  BY FlatOne
<1> HIDE DEF q
<1>3. FlattenSeq(q \o t) = FlattenSeq(q) \o FlattenSeq(t)
  BY <1>1, FlatJoint
<1> QED BY <1>2, <1>3 DEF q

(* Nothing, many times. *)
LEMMA FlatEmpty ==
  ASSUME NEW s \in Seq(Seq(Unit)), \A i \in 1 .. Len(s) : s[i] = <<>>
  PROVE  FlattenSeq(s) = <<>>
<1>1. PICK f \in [0 .. Len(s) -> Seq(Unit)] : Joined(f, s) /\ FlattenSeq(s) = f[Len(s)]
  BY Flattening
<1>2. PICK n \in Nat : n = Len(s)
  OBVIOUS
<1> DEFINE y == [i \in 0 .. n |-> <<>>]
<1>3. f[0] = y[0]
  BY <1>1 DEF Joined
<1>4. ASSUME NEW i \in 1 .. n PROVE f[i] = f[i - 1] \o s[i] /\ y[i] = y[i - 1] \o s[i]
  <2>1. i \in 0 .. n /\ i - 1 \in 0 .. n
    OBVIOUS
  <2>2. y[i] = <<>> /\ y[i - 1] = <<>> /\ s[i] = <<>> /\ <<>> \o <<>> = <<>>
    BY <1>2, <2>1
  <2> HIDE DEF y
  <2> QED BY <1>1, <1>2, <2>2 DEF Joined
<1>5. y[n] = <<>> /\ n \in 0 .. n
  OBVIOUS
<1> HIDE DEF y
<1>6. f[n] = y[n]
  <2>1. Grows(f, s, n) /\ Grows(y, s, n)
    BY <1>4 DEF Grows
  <2> QED BY <1>3, <2>1, Grown
<1> QED BY <1>1, <1>2, <1>5, <1>6

(* One element, many times. *)
LEMMA FlatUnits ==
  ASSUME NEW T, NEW p \in Seq(T), NEW s \in Seq(Seq(T)), Len(s) = Len(p), \A i \in 1 .. Len(s) : s[i] = <<p[i]>>
  PROVE  FlattenSeq(s) = p
<1>1. PICK f \in [0 .. Len(s) -> Seq(T)] : Joined(f, s) /\ FlattenSeq(s) = f[Len(s)]
  BY Flattening
<1>2. PICK n \in Nat : n = Len(s) /\ n = Len(p)
  OBVIOUS
<1> DEFINE y == [i \in 0 .. n |-> SubSeq(p, 1, i)]
<1>3. f[0] = y[0]
  <2>1. SubSeq(p, 1, 0) = <<>>
    BY SubSeqEmpty
  <2>2. y[0] = SubSeq(p, 1, 0)
    OBVIOUS
  <2> QED BY <1>1, <2>1, <2>2 DEF Joined
<1>4. ASSUME NEW i \in 1 .. n PROVE f[i] = f[i - 1] \o s[i] /\ y[i] = y[i - 1] \o s[i]
  <2>1. i \in 0 .. n /\ i - 1 \in 0 .. n
    OBVIOUS
  <2>2. y[i] = SubSeq(p, 1, i) /\ y[i - 1] = SubSeq(p, 1, i - 1)
    BY <2>1
  <2> HIDE DEF y
  <2>3. SubSeq(p, 1, i) = SubSeq(p, 1, i - 1) \o <<p[i]>>
    <3>1. 1 \in 1 .. Len(p) /\ i \in 1 .. Len(p)
      BY <1>2
    <3> QED BY <3>1, SubSeqRecursiveSecond
  <2> QED BY <1>1, <1>2, <2>2, <2>3 DEF Joined
<1>5. y[n] = p /\ n \in 0 .. n
  <2>1. SubSeq(p, 1, n) = p
    BY <1>2, SubSeqFull
  <2> QED BY <2>1
<1> HIDE DEF y
<1>6. f[n] = y[n]
  <2>1. Grows(f, s, n) /\ Grows(y, s, n)
    BY <1>4 DEF Grows
  <2> QED BY <1>3, <2>1, Grown
<1> QED BY <1>1, <1>2, <1>5, <1>6

(* A sequence that has the elements of two, one behind the other, is their     *)
(* concatenation.                                                             *)
LEMMA JointIs ==
  ASSUME NEW T, NEW a \in Seq(T), NEW b \in Seq(T), NEW c \in Seq(T), Len(c) = Len(a) + Len(b),
         \A i \in 1 .. Len(a) : c[i] = a[i], \A i \in 1 .. Len(b) : c[Len(a) + i] = b[i]
  PROVE  c = a \o b
<1> DEFINE d == a \o b
<1>1. /\ d \in Seq(T) /\ Len(d) = Len(a) + Len(b)
      /\ \A i \in 1 .. Len(a) : d[i] = a[i]
      /\ \A i \in 1 .. Len(b) : d[Len(a) + i] = b[i]
  BY Joint
<1> HIDE DEF d
<1>2. Len(a) \in Nat /\ Len(b) \in Nat
  OBVIOUS
<1>3. ASSUME NEW i \in 1 .. Len(c) PROVE c[i] = d[i]
  <2>1. CASE i \in 1 .. Len(a)
    BY <1>1, <2>1
  <2>2. CASE i \notin 1 .. Len(a)
    <3>1. i - Len(a) \in 1 .. Len(b) /\ i = Len(a) + (i - Len(a))
      BY <1>2, <2>2
    <3>2. c[Len(a) + (i - Len(a))] = b[i - Len(a)] /\ d[Len(a) + (i - Len(a))] = b[i - Len(a)]
      BY <1>1, <3>1
    <3> QED BY <3>1, <3>2
  <2> QED BY <2>1, <2>2
<1>4. c = d
  BY <1>1, <1>3, SeqEqual
<1> QED BY <1>4 DEF d

-----------------------------------------------------------------------------
(* What a server makes of a payload.                                        *)

(* One unit, and all. *)
Meant(m, u)    == IF u.k \in Ignored THEN <<>> ELSE <<Plain(m, u)>>
Meanings(m, p) == [i \in DOMAIN p |-> Meant(m, p[i])]

LEMMA ContentIs ==
  ASSUME NEW m, NEW p
  PROVE  Content(m, p) = FlattenSeq(Meanings(m, p))
BY DEF Content, Meanings, Meant

LEMMA PlainUnit ==
  ASSUME NEW m \in Input, NEW u \in Unit
  PROVE  Plain(m, u) \in Unit /\ Meant(m, u) \in Seq(Unit)
<1>1. m.pre + u.v \in Nat /\ 0 \in Nat
  BY DEF Input, Unit
<1>2. "hs" \in Kinds /\ "host" \in Kinds
  BY DEF Kinds
<1>3. Plain(m, u) \in Unit
  BY <1>1, <1>2 DEF Plain, U, Unit
<1> QED BY <1>3 DEF Meant

LEMMA MeaningsAre ==
  ASSUME NEW m \in Input, NEW p \in Seq(Unit)
  PROVE  /\ Meanings(m, p) \in Seq(Seq(Unit)) /\ Len(Meanings(m, p)) = Len(p)
         /\ \A i \in 1 .. Len(p) : Meanings(m, p)[i] = Meant(m, p[i])
<1> DEFINE n == Len(p)
<1>1. n \in Nat /\ DOMAIN p = 1 .. n /\ \A i \in 1 .. n : p[i] \in Unit
  OBVIOUS
<1>2. \A i \in 1 .. n : Meant(m, p[i]) \in Seq(Unit)
  BY <1>1, PlainUnit
<1>3. Meanings(m, p) = [i \in 1 .. n |-> Meant(m, p[i])]
  BY <1>1 DEF Meanings
<1> QED BY <1>1, <1>2, <1>3

(* A payload is one of units. *)
LEMMA UnitsOf == Payload \subseteq Seq(Unit)
BY DEF Payload, Sound

(* Two payloads of the same meaning, unit by unit. *)
Alike(m, p, q) == Len(p) = Len(q) /\ \A i \in 1 .. Len(p) : Plain(m, p[i]) = Plain(m, q[i])

LEMMA ContentAlike ==
  ASSUME NEW m \in Input, NEW p \in Seq(Unit), NEW q \in Seq(Unit), Alike(m, p, q)
  PROVE  Content(m, p) = Content(m, q)
<1>1. ASSUME NEW u \in Unit, NEW v \in Unit, Plain(m, u) = Plain(m, v) PROVE Meant(m, u) = Meant(m, v)
  <2>1. ASSUME NEW w \in Unit PROVE Plain(m, w).k \in Ignored <=> w.k \in Ignored
    BY DEF Plain, Ignored, U, Unit
  <2> QED BY <1>1, <2>1 DEF Meant
<1>2. \A i \in 1 .. Len(p) : p[i] \in Unit /\ q[i] \in Unit
  BY DEF Alike
<1>3. \A i \in 1 .. Len(p) : Meant(m, p[i]) = Meant(m, q[i])
  BY <1>1, <1>2 DEF Alike
<1>4. Meanings(m, p) = Meanings(m, q)
  <2>1. DOMAIN p = 1 .. Len(p) /\ DOMAIN q = 1 .. Len(p)
    BY DEF Alike
  <2> QED BY <1>3, <2>1 DEF Meanings
<1> QED BY <1>4, ContentIs

(* Two payloads, one behind the other. *)
LEMMA ContentJoint ==
  ASSUME NEW m \in Input, NEW p \in Seq(Unit), NEW q \in Seq(Unit)
  PROVE  Content(m, p \o q) = Content(m, p) \o Content(m, q) /\ Content(m, p) \in Seq(Unit)
<1> DEFINE a == Meanings(m, p)
           b == Meanings(m, q)
           c == Meanings(m, p \o q)
           S == Seq(Unit)
<1>1. /\ p \o q \in Seq(Unit) /\ Len(p \o q) = Len(p) + Len(q) /\ Len(p) \in Nat /\ Len(q) \in Nat
      /\ \A i \in 1 .. Len(p) : (p \o q)[i] = p[i]
      /\ \A i \in 1 .. Len(q) : (p \o q)[Len(p) + i] = q[i]
  BY Joint
<1>2. /\ a \in Seq(S) /\ Len(a) = Len(p) /\ \A i \in 1 .. Len(p) : a[i] = Meant(m, p[i])
      /\ b \in Seq(S) /\ Len(b) = Len(q) /\ \A i \in 1 .. Len(q) : b[i] = Meant(m, q[i])
  BY MeaningsAre
<1>3. /\ c \in Seq(S) /\ Len(c) = Len(p) + Len(q)
      /\ \A i \in 1 .. Len(p) + Len(q) : c[i] = Meant(m, (p \o q)[i])
  <2> DEFINE r == p \o q
  <2>1. r \in Seq(Unit) /\ Len(r) = Len(p) + Len(q)
    BY <1>1
  <2> HIDE DEF r
  <2>2. /\ Meanings(m, r) \in Seq(Seq(Unit)) /\ Len(Meanings(m, r)) = Len(r)
        /\ \A i \in 1 .. Len(r) : Meanings(m, r)[i] = Meant(m, r[i])
    BY <2>1, MeaningsAre
  <2> QED BY <2>1, <2>2 DEF r
<1> HIDE DEF a, b, c, S
<1>4. a \in Seq(S) /\ b \in Seq(S) /\ c \in Seq(S) /\ Len(c) = Len(a) + Len(b)
  BY <1>2, <1>3
<1>5. \A i \in 1 .. Len(a) : c[i] = a[i]
  <2> TAKE i \in 1 .. Len(a)
  <2>1. i \in 1 .. Len(p) /\ i \in 1 .. Len(p) + Len(q)
    BY <1>1, <1>2
  <2> QED BY <1>1, <1>2, <1>3, <2>1
<1>6. \A i \in 1 .. Len(b) : c[Len(a) + i] = b[i]
  <2> TAKE i \in 1 .. Len(b)
  <2>1. i \in 1 .. Len(q) /\ Len(p) + i \in 1 .. Len(p) + Len(q)
    BY <1>1, <1>2
  <2> QED BY <1>1, <1>2, <1>3, <2>1
<1>9. c = a \o b
  BY <1>4, <1>5, <1>6, JointIs
<1>7. FlattenSeq(a \o b) = FlattenSeq(a) \o FlattenSeq(b) /\ FlattenSeq(a) \in Seq(Unit)
  BY <1>2, FlatJoint, Flattened DEF S
<1>8. Content(m, p) = FlattenSeq(a) /\ Content(m, q) = FlattenSeq(b) /\ Content(m, p \o q) = FlattenSeq(c)
  BY ContentIs DEF a, b, c
<1> QED BY <1>7, <1>8, <1>9

(* One unit, and units without a meaning. *)
LEMMA ContentOne ==
  ASSUME NEW m \in Input, NEW u \in Unit
  PROVE  Content(m, <<u>>) = Meant(m, u)
<1> DEFINE p == <<u>>
<1>1. p \in Seq(Unit) /\ Len(p) = 1 /\ p[1] = u /\ DOMAIN p = 1 .. 1
  OBVIOUS
<1> HIDE DEF p
<1> DEFINE s == Meant(m, u)
<1>2. s \in Seq(Unit)
  BY PlainUnit
<1>3. Meanings(m, p) = <<s>>
  <2>1. \A i \in 1 .. 1 : p[i] = u
    BY <1>1
  <2>2. Meanings(m, p) = [i \in 1 .. 1 |-> s]
    BY <1>1, <2>1 DEF Meanings
  <2> HIDE DEF s
  <2>3. [i \in 1 .. 1 |-> s] = <<s>>
    OBVIOUS
  <2> QED BY <2>2, <2>3
<1> HIDE DEF s
<1>4. FlattenSeq(<<s>>) = s
  BY <1>2, FlatOne
<1> QED BY <1>3, <1>4, ContentIs DEF p, s

LEMMA ContentNone ==
  ASSUME NEW m \in Input, NEW p \in Seq(Unit), \A i \in 1 .. Len(p) : p[i].k \in Ignored
  PROVE  Content(m, p) = <<>>
<1> DEFINE s == Meanings(m, p)
<1>1. /\ s \in Seq(Seq(Unit)) /\ Len(s) = Len(p)
      /\ \A i \in 1 .. Len(p) : s[i] = Meant(m, p[i])
  BY MeaningsAre
<1> HIDE DEF s
<1>2. \A i \in 1 .. Len(s) : s[i] = <<>>
  BY <1>1 DEF Meant
<1>3. FlattenSeq(s) = <<>>
  BY <1>1, <1>2, FlatEmpty
<1> QED BY <1>3, ContentIs DEF s

(* Headers have no meaning. *)
LEMMA HeaderMeans ==
  ASSUME NEW m \in Input, NEW n \in Nat
  PROVE  Content(m, Header(n)) = <<>>
<1>1. Header(n) \in Seq(Unit) /\ Len(Header(n)) = 5
  BY HeaderUnits
<1>2. ASSUME NEW i \in 1 .. 5 PROVE Header(n)[i].k \in Ignored
  <2>1. i = 1 \/ i \in 2 .. HeaderLen
    BY DEF HeaderLen
  <2>2. Header(n)[i] = U("rec", n) \/ Header(n)[i] = U("fill", 0)
    BY <2>1, HeaderUnits
  <2> QED BY <2>2 DEF U, Ignored
<1> QED BY <1>1, <1>2, ContentNone

(* Records mean what their data does. *)
LEMMA FramedMeans ==
  ASSUME NEW m \in Input, NEW data \in Payload, NEW ends \in SUBSET Nat, Len(data) \in ends
  PROVE  Content(m, FlattenSeq(Framed(data, ends))) = Content(m, data)
<1> DEFINE s == Framed(data, ends)
           r == Meanings(m, data)
<1>1. PICK n \in Nat : n = Len(data)
  BY DEF Payload
<1>2. data \in Seq(Unit) /\ \A i \in 1 .. n : data[i] \in Unit
  BY <1>1, UnitsOf
<1>3. s \in Seq(Payload) /\ Len(s) = n
      /\ \A i \in 1 .. n : s[i] = (IF i = 1 \/ i - 1 \in ends THEN Header(EndAfter(ends, i - 1) - (i - 1)) ELSE <<>>)
                                  \o <<data[i]>>
  BY <1>1, FramedUnits
<1>4. r \in Seq(Seq(Unit)) /\ Len(r) = n /\ \A i \in 1 .. n : r[i] = Meant(m, data[i])
  BY <1>1, <1>2, MeaningsAre
<1> HIDE DEF s, r
<1>5. PICK f \in [0 .. n -> Payload] : Joined(f, s) /\ FlattenSeq(s) = f[n]
  <2>1. \E f \in [0 .. Len(s) -> Seq(Sound)] : Joined(f, s) /\ FlattenSeq(s) = f[Len(s)]
    BY <1>3, Flattening DEF Payload
  <2> QED BY <1>3, <2>1 DEF Payload
<1>6. PICK g \in [0 .. n -> Seq(Unit)] : Joined(g, r) /\ FlattenSeq(r) = g[n]
  BY <1>4, Flattening
<1>7. ASSUME NEW i \in 1 .. n PROVE Content(m, s[i]) = r[i]
  <2> DEFINE h == IF i = 1 \/ i - 1 \in ends THEN Header(EndAfter(ends, i - 1) - (i - 1)) ELSE <<>>
  <2>1. h \in Seq(Unit) /\ Content(m, h) = <<>>
    <3>1. CASE i = 1 \/ i - 1 \in ends
      <4>1. i - 1 \in Nat /\ n > i - 1 /\ n \in ends
        BY <1>1
      <4>2. EndAfter(ends, i - 1) \in ends /\ EndAfter(ends, i - 1) > i - 1
        BY <4>1, NextEnd
      <4>3. EndAfter(ends, i - 1) - (i - 1) \in Nat
        <5>1. EndAfter(ends, i - 1) \in Nat
          BY <4>2
        <5>2. \A e, j \in Nat : e > j => e - j \in Nat
          OBVIOUS
        <5> QED BY <4>1, <4>2, <5>1, <5>2
      <4>4. h = Header(EndAfter(ends, i - 1) - (i - 1))
        BY <3>1
      <4> QED BY <4>3, <4>4, HeaderUnits, HeaderMeans
    <3>2. CASE ~ (i = 1 \/ i - 1 \in ends)
      <4>1. h = <<>>
        BY <3>2
      <4>2. <<>> \in Seq(Unit) /\ \A j \in 1 .. Len(<<>>) : FALSE
        OBVIOUS
      <4>3. Content(m, <<>>) = <<>>
        BY <4>2, ContentNone
      <4> QED BY <4>1, <4>2, <4>3
    <3> QED BY <3>1, <3>2
  <2> DEFINE d == <<data[i]>>
  <2>2. d \in Seq(Unit) /\ Content(m, d) = Meant(m, data[i]) /\ Meant(m, data[i]) \in Seq(Unit)
    BY <1>2, ContentOne, PlainUnit
  <2>3. s[i] = h \o d
    BY <1>3
  <2> HIDE DEF h, d
  <2>4. Content(m, h \o d) = Content(m, h) \o Content(m, d)
    BY <2>1, <2>2, ContentJoint
  <2>5. <<>> \o Meant(m, data[i]) = Meant(m, data[i])
    BY <2>2, ConcatEmptySeq
  <2> QED BY <1>4, <2>1, <2>2, <2>3, <2>4, <2>5
<1> DEFINE x == [i \in 0 .. n |-> Content(m, f[i])]
<1>8. x[0] = g[0]
  <2>1. f[0] = <<>> /\ g[0] = <<>>
    BY <1>5, <1>6 DEF Joined
  <2>2. <<>> \in Seq(Unit) /\ \A j \in 1 .. Len(<<>>) : FALSE
    OBVIOUS
  <2>3. Content(m, <<>>) = <<>>
    BY <2>2, ContentNone
  <2>4. x[0] = Content(m, f[0])
    OBVIOUS
  <2> QED BY <2>1, <2>3, <2>4
<1>9. ASSUME NEW i \in 1 .. n PROVE x[i] = x[i - 1] \o r[i]
  <2>1. i \in 0 .. n /\ i - 1 \in 0 .. n
    OBVIOUS
  <2>2. x[i] = Content(m, f[i]) /\ x[i - 1] = Content(m, f[i - 1])
    BY <2>1
  <2> HIDE DEF x
  <2>3. f[i] = f[i - 1] \o s[i]
    BY <1>3, <1>5 DEF Joined
  <2> DEFINE a == f[i - 1]
             b == s[i]
  <2>4. a \in Seq(Unit) /\ b \in Seq(Unit)
    BY <1>3, <1>5, <2>1, UnitsOf
  <2> HIDE DEF a, b
  <2>5. Content(m, a \o b) = Content(m, a) \o Content(m, b)
    BY <2>4, ContentJoint
  <2> QED BY <1>7, <2>2, <2>3, <2>5 DEF a, b
<1>10. x[n] = Content(m, FlattenSeq(s))
  BY <1>5
<1> HIDE DEF x
<1>11. x[n] = g[n]
  <2>1. Grows(x, r, n) /\ Grows(g, r, n)
    BY <1>4, <1>6, <1>9 DEF Grows, Joined
  <2> QED BY <1>8, <2>1, Grown
<1> QED BY <1>6, <1>10, <1>11, ContentIs DEF s, r

(* Fakes in front are left aside, the rest is as it is. *)
Fakes == {u \in Sound : u.k = "fake"}
Real  == {u \in Sound : u.k # "fake"}

LEMMA GenuineIs ==
  ASSUME NEW p \in Seq(Fakes), NEW q \in Seq(Real)
  PROVE  Genuine(p \o q) = q
<1> DEFINE a == [i \in 1 .. Len(p) |-> <<>>]
           b == [i \in 1 .. Len(q) |-> <<q[i]>>]
           Kept(u) == IF u.k = "fake" THEN <<>> ELSE <<u>>
           c == [i \in 1 .. Len(p) + Len(q) |-> Kept((p \o q)[i])]
           S == Seq(Unit)
<1>1. p \in Seq(Unit) /\ q \in Seq(Unit) /\ Len(p) \in Nat /\ Len(q) \in Nat
  BY DEF Fakes, Real, Sound
<1>2. /\ p \o q \in Seq(Unit) /\ Len(p \o q) = Len(p) + Len(q)
      /\ \A i \in 1 .. Len(p) : (p \o q)[i] = p[i]
      /\ \A i \in 1 .. Len(q) : (p \o q)[Len(p) + i] = q[i]
  BY <1>1, Joint
<1>3. /\ \A i \in 1 .. Len(p) : Kept((p \o q)[i]) = <<>>
      /\ \A i \in 1 .. Len(q) : Kept((p \o q)[Len(p) + i]) = <<q[i]>>
  <2>1. \A i \in 1 .. Len(p) : p[i].k = "fake"
    BY DEF Fakes
  <2>2. \A i \in 1 .. Len(q) : q[i].k # "fake"
    BY DEF Real
  <2> QED BY <1>2, <2>1, <2>2
<1>4. Genuine(p \o q) = FlattenSeq(c)
  <2> DEFINE r == p \o q
  <2>1. DOMAIN r = 1 .. Len(p) + Len(q)
    BY <1>1, <1>2
  <2> QED BY <2>1 DEF Genuine
<1>5. a \in Seq(S) /\ Len(a) = Len(p) /\ \A i \in 1 .. Len(p) : a[i] = <<>>
  BY <1>1
<1>6. b \in Seq(S) /\ Len(b) = Len(q) /\ \A i \in 1 .. Len(q) : b[i] = <<q[i]>>
  <2>1. \A i \in 1 .. Len(q) : <<q[i]>> \in S
    BY <1>1
  <2> HIDE DEF S
  <2> QED BY <1>1, <2>1
<1>7. c \in Seq(S) /\ Len(c) = Len(p) + Len(q) /\ \A i \in 1 .. Len(p) + Len(q) : c[i] = Kept((p \o q)[i])
  <2>1. \A i \in 1 .. Len(p) + Len(q) : Kept((p \o q)[i]) \in S
    BY <1>2
  <2>2. Len(p) + Len(q) \in Nat
    BY <1>1
  <2> HIDE DEF S, Kept
  <2> QED BY <2>1, <2>2
<1> HIDE DEF a, b, c, S, Kept
<1>8. a \in Seq(S) /\ b \in Seq(S) /\ c \in Seq(S) /\ Len(c) = Len(a) + Len(b)
  BY <1>5, <1>6, <1>7
<1>9. /\ \A i \in 1 .. Len(a) : c[i] = a[i]
      /\ \A i \in 1 .. Len(b) : c[Len(a) + i] = b[i]
  <2>1. ASSUME NEW i \in 1 .. Len(p) PROVE c[i] = a[i]
    <3>1. i \in 1 .. Len(p) + Len(q)
      BY <1>1
    <3> QED BY <1>3, <1>5, <1>7, <3>1
  <2>2. ASSUME NEW i \in 1 .. Len(q) PROVE c[Len(p) + i] = b[i]
    <3>1. Len(p) + i \in 1 .. Len(p) + Len(q)
      BY <1>1
    <3> QED BY <1>3, <1>6, <1>7, <3>1
  <2> QED BY <1>5, <1>6, <2>1, <2>2
<1>10. c = a \o b
  BY <1>8, <1>9, JointIs
<1>11. FlattenSeq(a \o b) = FlattenSeq(a) \o FlattenSeq(b)
  BY <1>5, <1>6, FlatJoint DEF S
<1>12. FlattenSeq(a) = <<>>
  BY <1>5, FlatEmpty DEF S
<1>13. FlattenSeq(b) = q
  BY <1>1, <1>6, FlatUnits DEF S
<1>14. <<>> \o q = q
  BY <1>1, ConcatEmptySeq
<1> QED BY <1>4, <1>10, <1>11, <1>12, <1>13, <1>14

-----------------------------------------------------------------------------
(* The handshake message that a server reads.                               *)

(* It is made of what is in the payload. *)
LEMMA HandshakeIn ==
  ASSUME NEW T \in SUBSET Unit, NEW p \in Seq(T)
  PROVE  Handshake(p) \in Seq(T)
<1>1. PICK n \in Nat : n = Len(p)
  OBVIOUS
<1>2. p \in Seq(Unit)
  OBVIOUS
<1>3. PICK f : Parsed(f, p) /\ Records(p) = f[1]
  BY <1>2, Parsing
<1> DEFINE Bad == {d \in 0 .. n : f[n + 1 - d] \notin Seq(Seq(T))}
<1>4. Bad = {}
  <2> SUFFICES ASSUME Bad # {} PROVE FALSE
    OBVIOUS
  <2>1. PICK d \in Bad : \A k \in Bad : ~ (k < d)
    <3>1. Bad \in SUBSET Nat
      OBVIOUS
    <3> HIDE DEF Bad
    <3> QED BY <3>1, LeastOf
  <2>2. PICK i \in 1 .. (n + 1) : i = n + 1 - d
    <3>1. d \in 0 .. n
      BY <2>1
    <3>2. n + 1 - d \in 1 .. (n + 1)
      BY <3>1
    <3> QED BY <3>2
  <2>3. i \in Nat \ {0} /\ f[i] \notin Seq(Seq(T)) /\ d \in Nat /\ d <= n
    BY <2>1, <2>2
  <2>4. f[i] = After(f, p, i)
    BY <1>1, <1>3 DEF Parsed
  <2>5. <<>> \in Seq(Seq(T)) /\ <<<<>>>> \in Seq(Seq(T))
    OBVIOUS
  <2>6. IsHeader(p, i) /\ ~ (RecordEnd(p, i) > n)
    BY <1>1, <2>3, <2>4, <2>5 DEF After
  <2>7. PICK e \in Nat : e = RecordEnd(p, i)
    BY <1>2, <2>3, <2>6, HeaderRead
  <2>8. e >= i + 4 /\ e <= n /\ HeaderLen = 5
    BY <1>2, <2>3, <2>6, <2>7, HeaderRead
  <2>9. n - e \in 0 .. n /\ n - e < d /\ n + 1 - (n - e) = e + 1
    BY <2>2, <2>3, <2>7, <2>8
  <2>10. f[e + 1] \in Seq(Seq(T))
    <3>1. n - e \notin Bad
      BY <2>1, <2>9
    <3> QED BY <2>9, <3>1
  <2>11. RecordData(p, i) \in Seq(T)
    <3>1. i + 4 \in Nat /\ e \in 0 .. Len(p) /\ (i + 4) + 1 = i + HeaderLen
      BY <1>1, <2>3, <2>7, <2>8
    <3>2. SubSeq(p, (i + 4) + 1, e) \in Seq(T)
      BY <3>1, Part
    <3> QED BY <2>7, <3>1, <3>2 DEF RecordData
  <2>12. f[i] = <<RecordData(p, i)>> \o f[e + 1]
    BY <1>1, <2>4, <2>6, <2>7 DEF After
  <2>13. <<RecordData(p, i)>> \o f[e + 1] \in Seq(Seq(T))
    <3> DEFINE a == RecordData(p, i)
               b == f[e + 1]
    <3>1. a \in Seq(T) /\ b \in Seq(Seq(T))
      BY <2>10, <2>11
    <3> HIDE DEF a, b
    <3>2. <<a>> \in Seq(Seq(T))
      BY <3>1
    <3>3. <<a>> \o b \in Seq(Seq(T))
      BY <3>1, <3>2, Joint
    <3> QED BY <3>3 DEF a, b
  <2> QED BY <2>3, <2>12, <2>13
<1>5. f[1] \in Seq(Seq(T))
  <2>1. n \in 0 .. n /\ n + 1 - n = 1
    OBVIOUS
  <2>2. f[n + 1 - n] \in Seq(Seq(T))
    BY <1>4, <2>1
  <2> QED BY <2>1, <2>2
<1> QED BY <1>3, <1>5, Flattened DEF Handshake

(* Units that are no part of a name are what they mean. *)
LEMMA PlainIs ==
  ASSUME NEW m \in Input, NEW u \in Unit, NEW v \in Unit, Plain(m, u) = Plain(m, v),
         v.k \in {"rec", "fill", "app"}
  PROVE  u = v
<1>1. Plain(m, v) = v
  BY DEF Plain
<1>2. ASSUME u.k \in {"mixed", "dot", "host"} PROVE FALSE
  BY <1>1, <1>2 DEF Plain, U
<1> QED BY <1>1, <1>2 DEF Plain

(* A ClientHello in one record, or what is left of one whose name was written  *)
(* over: the parse finds the one record.                                      *)
OneRecordIs(m, p) ==
  /\ IsHeader(p, 1) /\ p[1].v = MessageLen(m)
  /\ Handshake(p) = RecordData(p, 1) /\ RecordData(p, 1) = SubSeq(p, 6, 5 + MessageLen(m))
  /\ SubSeq(p, 1, 5) = Header(MessageLen(m))

LEMMA OneHandshake ==
  ASSUME NEW m \in Input, m.cuts = {}, m.shape = "tls", NEW p \in Payload, Alike(m, p, Original(m)),
         Len(p) >= 5 + MessageLen(m)
  PROVE  OneRecordIs(m, p)
<1> DEFINE o == Original(m)
           n == MessageLen(m)
<1>1. /\ o \in Payload /\ n \in Nat /\ n >= 1
      /\ \A i \in 1 .. Len(o) : o[i] = SentByte(m, i)
  BY OriginalAt
<1>2. Alike(m, p, o)
  OBVIOUS
<1> HIDE DEF o, n
<1>3. PICK l \in Nat : l = Len(p) /\ l = Len(o) /\ l >= 5 + n
  BY <1>2 DEF Alike, Payload, n
<1>4. \A i \in 1 .. l : p[i] \in Unit /\ o[i] \in Unit /\ Plain(m, p[i]) = Plain(m, o[i])
  <2>1. p \in Seq(Unit) /\ o \in Seq(Unit)
    BY <1>1, UnitsOf
  <2> QED BY <1>2, <1>3, <2>1 DEF Alike
<1>5. ASSUME NEW i \in 1 .. 5 PROVE p[i] = Header(n)[i]
  <2>1. i \in 1 .. l /\ i <= 5
    BY <1>1, <1>3
  <2>2. o[i] = Header(n)[i]
    BY <1>1, <1>3, <2>1 DEF SentByte, n
  <2>3. i = 1 \/ i \in 2 .. HeaderLen
    BY DEF HeaderLen
  <2>4. o[i] = U("rec", n) \/ o[i] = U("fill", 0)
    BY <1>1, <2>2, <2>3, HeaderUnits
  <2>5. o[i].k \in {"rec", "fill", "app"}
    BY <2>4 DEF U
  <2>6. p[i] = o[i]
    BY <1>4, <2>1, <2>5, PlainIs
  <2> QED BY <2>2, <2>6
<1>6. p[1] = U("rec", n) /\ p[1].v = n
  <2>1. 1 \in 1 .. 5
    OBVIOUS
  <2>2. p[1] = U("rec", n)
    BY <1>1, <1>5, <2>1, HeaderUnits
  <2> QED BY <2>2 DEF U
<1>7. SubSeq(p, 1, 5) = Header(n)
  <2> DEFINE t == Header(n)
  <2>1. t \in Payload /\ Len(t) = 5
    <3>1. n # 0
      BY <1>1
    <3> QED BY <1>1, <3>1, HeaderUnits
  <2>2. 0 \in Nat /\ 5 \in Nat /\ 0 <= 5 /\ 5 <= Len(p) /\ 5 - 0 = 5 /\ 0 + 1 = 1
    BY <1>1, <1>3
  <2>3. Len(t) = 5 - 0 /\ \A k \in 1 .. 5 - 0 : p[0 + k] = t[k]
    BY <1>5, <2>1
  <2> HIDE DEF t
  <2>4. SubSeq(p, 0 + 1, 5) = t
    BY <2>1, <2>2, <2>3, PartIs
  <2> QED BY <2>2, <2>4 DEF t
<1>8. IsHeader(p, 1)
  <2>1. HeaderLen = 5 /\ 1 + 5 - 1 = 5 /\ 5 <= Len(p)
    BY <1>1, <1>3 DEF HeaderLen
  <2> QED BY <1>6, <1>7, <2>1 DEF IsHeader
<1>9. RecordEnd(p, 1) = 5 + n /\ ~ (RecordEnd(p, 1) > Len(p)) /\ RecordEnd(p, 1) + 1 = 6 + n
  <2>1. 1 + HeaderLen - 1 + n = 5 + n
    BY <1>1 DEF HeaderLen
  <2>2. RecordEnd(p, 1) = 5 + n
    BY <1>6, <2>1 DEF RecordEnd
  <2> QED BY <1>1, <1>3, <2>2
<1>10. RecordData(p, 1) = SubSeq(p, 6, 5 + n)
  <2>1. 1 + HeaderLen = 6
    BY DEF HeaderLen
  <2> QED BY <1>9, <2>1 DEF RecordData
<1>11. ~ IsHeader(p, 6 + n)
  <2> SUFFICES ASSUME IsHeader(p, 6 + n) PROVE FALSE
    OBVIOUS
  <2> DEFINE j == 6 + n
  <2>1. j \in Nat \ {0} /\ ~ (j <= 5) /\ ~ (j <= 5 + n)
    BY <1>1
  <2>2. p \in Seq(Unit) /\ IsHeader(p, j)
    BY UnitsOf
  <2> HIDE DEF j
  <2>3. j \in 1 .. Len(p) /\ p[j] = U("rec", p[j].v)
    BY <2>1, <2>2, HeaderRead
  <2>4. j \in 1 .. l /\ o[j] = U("app", j - 5 - n)
    BY <1>1, <1>3, <2>1, <2>3 DEF SentByte, n
  <2>5. o[j].k = "app"
    BY <2>4 DEF U
  <2>6. p[j] = o[j]
    BY <1>4, <2>4, <2>5, PlainIs
  <2>7. p[j].k = "rec"
    BY <2>3 DEF U
  <2> QED BY <2>5, <2>6, <2>7
<1>12. PICK f : Parsed(f, p) /\ Records(p) = f[1]
  <2>1. p \in Seq(Unit)
    BY UnitsOf
  <2> QED BY <2>1, Parsing
<1>13. f[6 + n] = <<>>
  <2>1. 6 + n \in 1 .. (Len(p) + 1)
    BY <1>1, <1>3
  <2> QED BY <1>11, <1>12, <2>1 DEF Parsed, After
<1>14. Records(p) = <<RecordData(p, 1)>> \o <<>>
  <2>1. 1 \in 1 .. (Len(p) + 1)
    BY <1>3
  <2>2. f[1] = After(f, p, 1)
    BY <1>12, <2>1 DEF Parsed
  <2> QED BY <1>8, <1>9, <1>12, <1>13, <2>2 DEF After
<1>15. Handshake(p) = RecordData(p, 1)
  <2> DEFINE d == RecordData(p, 1)
  <2>1. d \in Seq(Sound)
    <3>1. 5 \in Nat /\ 5 + n \in 0 .. Len(p) /\ 5 + 1 = 6 /\ p \in Seq(Sound)
      BY <1>1, <1>3 DEF Payload
    <3>2. SubSeq(p, 5 + 1, 5 + n) \in Seq(Sound)
      BY <3>1, Part
    <3> QED BY <1>10, <3>1, <3>2
  <2> HIDE DEF d
  <2>2. <<d>> \o <<>> = <<d>>
    OBVIOUS
  <2>3. FlattenSeq(<<d>>) = d
    BY <2>1, FlatOne
  <2> QED BY <1>14, <2>2, <2>3 DEF Handshake, d
<1> QED BY <1>6, <1>7, <1>8, <1>10, <1>15 DEF OneRecordIs, n

(* Written in records, data is read again. *)
LEMMA RecordsRead ==
  ASSUME NEW data \in Payload, NEW cuts \in SUBSET (1 .. Len(data) - 1), Len(data) # 0
  PROVE  Handshake(WriteRecords(data, cuts)) = data
<1> DEFINE n == Len(data)
           ends == cuts \cup {n}
           w == WriteRecords(data, cuts)
<1>1. n \in Nat /\ ends \in SUBSET (1 .. n) /\ n \in ends /\ n # 0
  <2>1. n \in Nat /\ n # 0
    BY DEF Payload
  <2>2. \A x \in cuts : x \in 1 .. n
    BY <2>1
  <2>3. n \in 1 .. n
    BY <2>1
  <2>4. \A x \in ends : x \in 1 .. n
    BY <2>2, <2>3
  <2>5. n \in ends
    OBVIOUS
  <2> HIDE DEF n, ends
  <2> QED BY <2>1, <2>4, <2>5
<1>2. w = FlattenSeq(Framed(data, ends)) /\ w \in Payload
  BY RecordsWritten
<1> HIDE DEF w, ends
<1>3. PICK pos \in [0 .. n -> Nat] : Laid(w, pos, data, ends)
  BY <1>1, <1>2, Layout
<1>4. PICK f : Parsed(f, w) /\ Records(w) = f[1]
  <2>1. w \in Seq(Unit)
    BY <1>2, UnitsOf
  <2> QED BY <2>1, Parsing
<1>5. \A x \in ends : x \in Nat /\ x <= n /\ x # 0
  BY <1>1
<1>6. ASSUME NEW a \in {0} \cup ends, a < n
      PROVE  /\ EndAfter(ends, a) \in ends /\ EndAfter(ends, a) > a
             /\ f[pos[a] + 1] = <<SubSeq(data, a + 1, EndAfter(ends, a))>> \o f[pos[EndAfter(ends, a)] + 1]
  <2>1. a \in Nat /\ n > a /\ ends \in SUBSET Nat
    BY <1>1, <1>5, <1>6
  <2>2. EndAfter(ends, a) \in ends /\ EndAfter(ends, a) > a
    <3> HIDE DEF n
    <3> QED BY <1>1, <2>1, NextEnd
  <2>3. ReadOn(f, pos, data, a, EndAfter(ends, a))
    BY <1>1, <1>2, <1>3, <1>4, <1>6, RecordRead
  <2> QED BY <2>2, <2>3 DEF ReadOn
<1>7. pos[0] = 0 /\ pos[n] = Len(w)
  BY <1>3 DEF Laid
<1>8. f[pos[n] + 1] = <<>>
  BY <1>2, <1>4, <1>7, ParseEnds
<1> DEFINE Is(a) == f[pos[a] + 1] \in Seq(Payload) /\ FlattenSeq(f[pos[a] + 1]) = SubSeq(data, a + 1, n)
<1>9. Is(n)
  <2>1. SubSeq(data, n + 1, n) = <<>>
    <3>1. n + 1 \in Int /\ n \in Int /\ n < n + 1
      BY <1>1
    <3> QED BY <3>1, SubSeqEmpty
  <2>2. <<>> \in Seq(Payload)
    OBVIOUS
  <2> QED BY <1>8, <2>1, <2>2, FlatNone
<1> HIDE DEF n, Is
<1> DEFINE Bad == {d \in 0 .. n : n - d \in {0} \cup ends /\ ~ Is(n - d)}
<1>10. Bad = {}
  <2> SUFFICES ASSUME Bad # {} PROVE FALSE
    OBVIOUS
  <2>1. PICK d \in Bad : \A k \in Bad : ~ (k < d)
    <3>1. Bad \in SUBSET Nat
      BY <1>1
    <3> HIDE DEF Bad
    <3> QED BY <3>1, LeastOf
  <2>2. PICK a \in Nat : a = n - d
    BY <1>1, <2>1
  <2>3. a \in {0} \cup ends /\ ~ Is(a) /\ a <= n /\ d = n - a
    BY <1>1, <2>1, <2>2
  <2>4. a < n
    <3>1. a # n
      BY <1>9, <2>3
    <3> HIDE DEF Bad
    <3> QED BY <1>1, <2>2, <2>3, <3>1
  <2>5. PICK b \in ends : b = EndAfter(ends, a)
    BY <1>6, <2>3, <2>4
  <2>6. b > a /\ b <= n /\ b \in Nat /\ b # 0
    BY <1>5, <1>6, <2>3, <2>4, <2>5
  <2>7. n - b \in 0 .. n /\ n - b < d /\ n - (n - b) = b
    BY <1>1, <2>2, <2>3, <2>6
  <2>8. Is(b)
    <3>1. n - b \notin Bad
      BY <2>1, <2>7
    <3> QED BY <2>7, <3>1
  <2> DEFINE R == f[pos[b] + 1]
             t == SubSeq(data, a + 1, b)
             z == SubSeq(data, b + 1, n)
  <2>9. R \in Seq(Payload) /\ FlattenSeq(R) = z
    BY <2>8 DEF Is
  <2>10. f[pos[a] + 1] = <<t>> \o R
    BY <1>6, <2>3, <2>4, <2>5
  <2>11. t \in Seq(Sound) /\ t \o z = SubSeq(data, a + 1, n)
    <3>1. data \in Seq(Sound) /\ b \in 0 .. Len(data) /\ a + 1 \in 1 .. Len(data) + 1
          /\ b \in (a + 1) - 1 .. Len(data) /\ n \in b .. Len(data) /\ n = Len(data)
      BY <1>1, <2>2, <2>3, <2>6 DEF Payload, n
    <3>2. t \in Seq(Sound)
      BY <2>2, <3>1, Part
    <3>3. SubSeq(data, a + 1, b) \o SubSeq(data, b + 1, n) = SubSeq(data, a + 1, n)
      BY <3>1, ConcatAdjacentSubSeq
    <3> QED BY <3>2, <3>3
  <2> HIDE DEF R, t, z
  <2>12. FlattenSeq(<<t>> \o R) = t \o FlattenSeq(R)
    BY <2>9, <2>11, FlatMore DEF Payload
  <2>13. <<t>> \o R \in Seq(Payload)
    <3>1. <<t>> \in Seq(Payload)
      BY <2>11 DEF Payload
    <3> QED BY <2>9, <3>1, Joint
  <2>14. Is(a)
    BY <2>9, <2>10, <2>11, <2>12, <2>13 DEF Is
  <2> QED BY <2>3, <2>14
<1>11. Is(0)
  <2>1. n \in 0 .. n /\ n - n = 0
    BY <1>1
  <2> QED BY <1>10, <2>1
<1>12. Records(w) = f[pos[0] + 1]
  <2>1. 0 + 1 = 1
    OBVIOUS
  <2> QED BY <1>4, <1>7, <2>1
<1>13. SubSeq(data, 0 + 1, n) = data
  <2>1. data \in Seq(Sound) /\ 0 + 1 = 1 /\ n = Len(data)
    BY DEF Payload, n
  <2>2. SubSeq(data, 1, Len(data)) = data
    BY <2>1, SubSeqFull
  <2> QED BY <2>1, <2>2
<1> QED BY <1>11, <1>12, <1>13 DEF Is, Handshake, w

-----------------------------------------------------------------------------
(* Payloads that carry the client's message.                                *)

(* They mean what it means, and its handshake message is read from them. *)
Carried(m, p) ==
  /\ p \in Seq(Real)
  /\ Content(m, p) = Content(m, Original(m))
  /\ IsClientHello(m, Original(m)) => PlainSeq(m, Handshake(p)) = Handshake(Original(m))

(* The message itself does. *)
LEMMA OriginalCarried ==
  ASSUME NEW m \in Input, m.cuts \subseteq 1 .. (MessageLen(m) - 1)
  PROVE  Carried(m, Original(m))
<1> DEFINE o == Original(m)
<1>1. o \in Seq(Sent(m))
  BY OriginalIn
<1> HIDE DEF o
<1>2. Sent(m) \subseteq Real /\ Sent(m) \in SUBSET Unit
  BY DEF Sent, Real, Sound
<1>3. o \in Seq(Real)
  BY <1>1, <1>2
<1>4. ASSUME IsClientHello(m, o) PROVE PlainSeq(m, Handshake(o)) = Handshake(o)
  <2>1. m.shape = "tls"
    BY <1>4 DEF IsClientHello
  <2> DEFINE h == Handshake(o)
  <2>2. h \in Seq(Sent(m))
    BY <1>1, <1>2, HandshakeIn
  <2> HIDE DEF h
  <2>3. \A u \in Sent(m) : Plain(m, u) = u
    BY <2>1 DEF Sent, Plain
  <2>4. DOMAIN h = 1 .. Len(h) /\ h = [i \in 1 .. Len(h) |-> h[i]] /\ \A i \in 1 .. Len(h) : h[i] \in Sent(m)
    BY <2>2
  <2>5. [i \in 1 .. Len(h) |-> Plain(m, h[i])] = [i \in 1 .. Len(h) |-> h[i]]
    BY <2>3, <2>4
  <2>6. PlainSeq(m, h) = h
    BY <2>4, <2>5 DEF PlainSeq
  <2> QED BY <2>6 DEF h
<1> QED BY <1>3, <1>4 DEF Carried, o

(* A payload alike a ClientHello in one record that is parsed has all of it. *)
LEMMA HelloLength ==
  ASSUME NEW m \in Input, m.cuts = {}, m.shape = "tls", NEW p \in Payload, Alike(m, p, Original(m)),
         IsClientHello(m, p)
  PROVE  p[1].v = MessageLen(m) /\ Len(p) >= 5 + MessageLen(m)
<1> DEFINE o == Original(m)
           n == MessageLen(m)
<1>1. /\ o \in Payload /\ n \in Nat /\ n >= 1
      /\ \A i \in 1 .. Len(o) : o[i] = SentByte(m, i)
  BY OriginalAt
<1>2. Alike(m, p, o)
  OBVIOUS
<1> HIDE DEF o, n
<1>3. p # <<>> /\ p[1].v \in Nat /\ HeaderLen + p[1].v <= Len(p)
  BY HelloRecord
<1>4. Len(p) \in Nat /\ 1 \in 1 .. Len(p) /\ HeaderLen = 5
  <2>1. Len(p) \in Nat /\ HeaderLen = 5
    BY DEF Payload, HeaderLen
  <2> QED BY <1>3, <2>1
<1>5. o[1] = U("rec", n)
  <2>1. o[1] = Header(n)[1]
    BY <1>1, <1>2, <1>4 DEF SentByte, n, Alike
  <2> QED BY <1>1, <2>1, HeaderUnits
<1>6. p[1] = o[1]
  <2>1. p[1] \in Unit /\ o[1] \in Unit /\ Plain(m, p[1]) = Plain(m, o[1])
    <3>1. p \in Seq(Unit) /\ o \in Seq(Unit) /\ Len(p) = Len(o)
      BY <1>1, <1>2, UnitsOf DEF Alike
    <3> QED BY <1>2, <1>4, <3>1 DEF Alike
  <2>2. o[1].k \in {"rec", "fill", "app"}
    BY <1>5 DEF U
  <2> QED BY <2>1, <2>2, PlainIs
<1>7. p[1].v = n
  BY <1>5, <1>6 DEF U
<1> QED BY <1>3, <1>4, <1>7 DEF n

(* A ClientHello in one record whose name was written over. *)
LEMMA AlikeCarried ==
  ASSUME NEW m \in Input, m.cuts = {}, m.shape = "tls", NEW p \in Payload, Alike(m, p, Original(m))
  PROVE  Carried(m, p)
<1> DEFINE o == Original(m)
           n == MessageLen(m)
<1>1. /\ o \in Payload /\ n \in Nat /\ n >= 1 /\ o \in Seq(Sent(m))
      /\ \A i \in 1 .. Len(o) : o[i] = SentByte(m, i)
  BY OriginalAt, OriginalIn
<1>2. Alike(m, p, o)
  OBVIOUS
<1>3. IsClientHello(m, o) => Alike(m, o, o) /\ Len(o) >= 5 + n
  <2> SUFFICES ASSUME IsClientHello(m, o) PROVE Alike(m, o, o) /\ Len(o) >= 5 + n
    OBVIOUS
  <2>1. Alike(m, o, o)
    BY DEF Alike
  <2> QED BY <1>1, <2>1, HelloLength
<1>4. Len(p) = Len(o) /\ Len(p) \in Nat /\ p \in Seq(Unit) /\ o \in Seq(Unit) /\ p \in Seq(Sound)
  BY <1>1, <1>2, UnitsOf DEF Alike, Payload
<1>5. Content(m, p) = Content(m, o)
  <2> HIDE DEF o
  <2> QED BY <1>2, <1>4, ContentAlike
<1>6. p \in Seq(Real)
  <2> HIDE DEF o
  <2>1. ASSUME NEW i \in 1 .. Len(p) PROVE p[i] \in Real
    <3>1. p[i] \in Sound /\ Plain(m, p[i]) = Plain(m, o[i]) /\ o[i] \in Sent(m)
      BY <1>1, <1>2, <1>4 DEF Alike
    <3>2. Plain(m, o[i]).k # "fake"
      BY <3>1 DEF Plain, Sent, U
    <3>3. p[i].k = "fake" => Plain(m, p[i]) = p[i]
      BY DEF Plain
    <3> QED BY <3>1, <3>2, <3>3 DEF Real
  <2> QED BY <1>4, <2>1, ElementsIn
<1>7. ASSUME IsClientHello(m, o) PROVE PlainSeq(m, Handshake(p)) = Handshake(o)
  <2>1. Len(o) >= 5 + n /\ Alike(m, o, o)
    BY <1>3, <1>7
  <2>2. OneRecordIs(m, p) /\ OneRecordIs(m, o)
    BY <1>1, <1>4, <2>1, OneHandshake
  <2>3. Handshake(p) = SubSeq(p, 6, 5 + n) /\ Handshake(o) = SubSeq(o, 6, 5 + n)
    BY <2>2 DEF OneRecordIs
  <2> HIDE DEF o, n
  <2> DEFINE a == SubSeq(p, 5 + 1, 5 + n)
             b == SubSeq(o, 5 + 1, 5 + n)
  <2>4. /\ a \in Seq(Unit) /\ Len(a) = n /\ \A i \in 1 .. n : a[i] = p[5 + i]
        /\ b \in Seq(Unit) /\ Len(b) = n /\ \A i \in 1 .. n : b[i] = o[5 + i]
    <3>1. 5 + n \in 0 .. Len(p) /\ 5 + n \in 0 .. Len(o) /\ 5 < 5 + n /\ (5 + n) - 5 = n
      BY <1>1, <1>4, <2>1
    <3>2. /\ a \in Seq(Unit) /\ Len(a) = (IF 5 < 5 + n THEN (5 + n) - 5 ELSE 0)
          /\ \A i \in 1 .. (5 + n) - 5 : a[i] = p[5 + i]
      BY <1>4, <3>1, Part
    <3>3. /\ b \in Seq(Unit) /\ Len(b) = (IF 5 < 5 + n THEN (5 + n) - 5 ELSE 0)
          /\ \A i \in 1 .. (5 + n) - 5 : b[i] = o[5 + i]
      BY <1>4, <3>1, Part
    <3> HIDE DEF a, b
    <3> QED BY <3>1, <3>2, <3>3
  <2> HIDE DEF a, b
  <2>5. ASSUME NEW i \in 1 .. n PROVE Plain(m, a[i]) = b[i]
    <3>1. 5 + i \in 1 .. Len(o) /\ ~ (5 + i <= 5) /\ 5 + i <= 5 + n /\ (5 + i) - 5 = i
      BY <1>1, <1>4, <2>1
    <3>2. o[5 + i] = U("hs", i)
      <4>1. SentByte(m, 5 + i) = U("hs", i)
        BY <3>1 DEF SentByte, n
      <4> QED BY <1>1, <3>1, <4>1
    <3>3. Plain(m, a[i]) = Plain(m, b[i])
      BY <1>2, <1>4, <2>4, <3>1 DEF Alike
    <3>4. Plain(m, U("hs", i)) = U("hs", i)
      BY DEF Plain, U
    <3> QED BY <2>4, <3>2, <3>3, <3>4
  <2>6. DOMAIN a = 1 .. n /\ b = [i \in 1 .. n |-> b[i]]
    BY <1>1, <2>4
  <2>7. PlainSeq(m, a) = b
    BY <2>5, <2>6 DEF PlainSeq
  <2>8. 5 + 1 = 6
    OBVIOUS
  <2> QED BY <2>3, <2>7, <2>8 DEF a, b
<1> QED BY <1>5, <1>6, <1>7 DEF Carried

(* Its one record, written in several. *)
LEMMA RecordsCarried ==
  ASSUME NEW m \in Input, m.cuts = {}, m.shape = "tls", m.more = 0,
         NEW p \in Payload, Alike(m, p, Original(m)), IsClientHello(m, p),
         NEW cuts \in SUBSET (1 .. p[1].v - 1)
  PROVE  Carried(m, WriteRecords(RecordData(p, 1), cuts))
<1> DEFINE n == MessageLen(m)
           data == RecordData(p, 1)
           w == WriteRecords(data, cuts)
<1>1. n \in Nat /\ n >= 1 /\ Len(Original(m)) <= 5 + n + m.more
  BY OriginalAt
<1>2. p[1].v = n /\ Len(p) >= 5 + n
  BY HelloLength
<1>3. Carried(m, p)
  BY AlikeCarried
<1>4. OneRecordIs(m, p)
  BY <1>2, OneHandshake
<1>5. data \in Payload /\ Len(data) = n
  BY <1>2, HelloRecord
<1>6. Handshake(p) = data /\ data = SubSeq(p, 6, 5 + n) /\ SubSeq(p, 1, 5) = Header(n)
  BY <1>4 DEF OneRecordIs
<1>7. Len(p) = 5 + n
  <2>1. Len(p) = Len(Original(m)) /\ Len(p) \in Nat
    BY DEF Alike, Payload
  <2> QED BY <1>1, <1>2, <2>1
<1> HIDE DEF n, data
<1>8. cuts \in SUBSET (1 .. Len(data) - 1) /\ Len(data) # 0
  BY <1>1, <1>2, <1>5
<1>9. Handshake(w) = data
  BY <1>5, <1>8, RecordsRead
<1>10. w \in Seq(Real)
  <2>1. data \in Seq(Real)
    <3>1. p \in Seq(Real) /\ 5 \in Nat /\ 5 + n \in 0 .. Len(p) /\ 5 + 1 = 6
      BY <1>1, <1>3, <1>7 DEF Carried
    <3>2. SubSeq(p, 5 + 1, 5 + n) \in Seq(Real)
      BY <3>1, Part
    <3> QED BY <1>6, <3>1, <3>2
  <2>2. Real \in SUBSET Sound /\ \A u \in Sound : u.k \in {"rec", "fill"} => u \in Real
    BY DEF Real
  <2> QED BY <1>8, <2>1, <2>2, WrittenIn
<1>11. Content(m, w) = Content(m, data)
  <2> DEFINE ends == cuts \cup {Len(data)}
  <2>1. w = FlattenSeq(Framed(data, ends))
    BY <1>5, <1>8, RecordsWritten
  <2>2. ends \in SUBSET Nat /\ Len(data) \in ends
    <3>1. \A x \in cuts : x \in Nat
      BY <1>8
    <3> QED BY <1>1, <1>5, <3>1
  <2> HIDE DEF ends, w
  <2> QED BY <1>5, <2>1, <2>2, FramedMeans
<1>12. Content(m, p) = Content(m, data)
  <2> DEFINE h == Header(n)
  <2>1. h \in Seq(Unit) /\ data \in Seq(Unit) /\ Content(m, h) = <<>>
    BY <1>1, <1>5, HeaderUnits, HeaderMeans, UnitsOf
  <2>2. h \o data = p
    <3>1. /\ p \in Seq(Unit) /\ 1 \in 1 .. Len(p) + 1 /\ 5 \in 1 - 1 .. Len(p) /\ 5 + n \in 5 .. Len(p)
          /\ 5 + 1 = 6
      BY <1>1, <1>7, UnitsOf
    <3>2. SubSeq(p, 1, 5) \o SubSeq(p, 5 + 1, 5 + n) = SubSeq(p, 1, 5 + n)
      BY <3>1, ConcatAdjacentSubSeq
    <3>3. SubSeq(p, 1, 5 + n) = p
      BY <1>7, <3>1, SubSeqFull
    <3> QED BY <1>6, <3>1, <3>2, <3>3
  <2> HIDE DEF h
  <2>3. Content(m, h \o data) = Content(m, h) \o Content(m, data)
    BY <2>1, ContentJoint
  <2>4. Content(m, data) \in Seq(Unit)
    BY <2>1, ContentJoint
  <2>5. <<>> \o Content(m, data) = Content(m, data)
    BY <2>4, ConcatEmptySeq
  <2> QED BY <2>1, <2>2, <2>3, <2>5
<1> HIDE DEF w
<1>13. Carried(m, w)
  BY <1>3, <1>6, <1>9, <1>10, <1>11, <1>12 DEF Carried
<1> QED BY <1>13 DEF w, data

-----------------------------------------------------------------------------
(* What a technique does with a payload that carries the message.           *)

(* No name has been written over but in place, and no record cut, so far. *)
Untouched(m, p) == m.shape = "tls" => Alike(m, p, Original(m))

(* A message that a technique takes for one record is one. *)
Fits(m, c) ==
  /\ c.name \in RecordTools \cup {"sni_manip"} => m.cuts = {}
  /\ c.name \in RecordTools => m.more = 0

(* Its answer: nothing, the two halves in one order or the other, a fake to go  *)
(* in front, or another payload that carries the message.                     *)
Halved(p, swapped, s) == \E x, y \in Payload : x \o y = p /\ s = IF swapped THEN <<y, x>> ELSE <<x, y>>
Rewritten(m, p, c, q) ==
  /\ q \in Payload /\ Carried(m, q)
  /\ c.name \notin RecordTools /\ Untouched(m, p) => Untouched(m, q)
Answer(m, p, c, a) ==
  \/ a \in {PassThrough, NotApplicable}
  \/ /\ c.name \in {"tcp_split", "disorder"}
     /\ \E s : a = Split(s) /\ Halved(p, c.name = "disorder", s)
  \/ a = Action("InjectBefore", <<<<U("fake", 0)>>>>)
  \/ \E q : a = Replace(q) /\ Rewritten(m, p, c, q)

(* Its record is cut. *)
LEMMA FragCarries ==
  ASSUME NEW m \in Input, m.cuts = {}, m.more = 0, NEW p \in Payload, Untouched(m, p),
         NEW S \in SUBSET Nat, NEW fragments \in Nat,
         NEW a \in TlsRecordFrag(m, p, S) \cup MultiStreamFrag(m, p, S, fragments)
  PROVE  a = NotApplicable \/ \E q \in Payload : a = Replace(q) /\ Carried(m, q)
<1> DEFINE v == p[1].v
           data == RecordData(p, 1)
<1> SUFFICES ASSUME a # NotApplicable PROVE \E q \in Payload : a = Replace(q) /\ Carried(m, q)
  OBVIOUS
<1>1. ASSUME HasSni(m, p), NEW cuts \in SUBSET (1 .. v - 1), a = Replace(WriteRecords(data, cuts))
      PROVE  \E q \in Payload : a = Replace(q) /\ Carried(m, q)
  <2>1. IsClientHello(m, p) /\ m.shape = "tls"
    BY <1>1 DEF HasSni, IsClientHello
  <2>2. Alike(m, p, Original(m))
    BY <2>1 DEF Untouched
  <2>3. data \in Payload /\ Len(data) = v
    BY <2>1, HelloRecord
  <2>4. WriteRecords(data, cuts) \in Payload
    <3> HIDE DEF v, data
    <3> QED BY <1>1, <2>3, RecordsWritten
  <2>5. Carried(m, WriteRecords(data, cuts))
    BY <1>1, <2>1, <2>2, RecordsCarried
  <2> QED BY <1>1, <2>4, <2>5
<1>2. ASSUME HasSni(m, p) PROVE v \in Nat
  BY <1>2, HelloRecord DEF HasSni
<1>3. CASE a \in TlsRecordFrag(m, p, S)
  <2>1. HasSni(m, p) /\ ~ (v < 2) /\ a \in {Replace(WriteRecords(data, {InData(o, v)})) : o \in S}
    BY <1>3 DEF TlsRecordFrag
  <2> HIDE DEF v, data
  <2>2. PICK o \in S : a = Replace(WriteRecords(data, {InData(o, v)}))
    BY <2>1
  <2>3. InData(o, v) \in 1 .. v - 1
    BY <1>2, <2>1, Inside
  <2>4. {InData(o, v)} \in SUBSET (1 .. v - 1)
    BY <2>3
  <2> QED BY <1>1, <2>1, <2>2, <2>4
<1>4. CASE a \in MultiStreamFrag(m, p, S, fragments)
  <2> DEFINE n == Clamp(IF fragments = 0 THEN 3 ELSE fragments, 2, 8)
             places == IF S = {} THEN {HeaderLen + v \div 2} ELSE S
  <2>1. MultiStreamFrag(m, p, S, fragments) =
          IF ~HasSni(m, p) \/ v < n THEN {NotApplicable}
          ELSE {Replace(WriteRecords(data, SplitPoints(v, InData(o, v), n))) : o \in places}
    BY DEF MultiStreamFrag
  <2>2. n \in 2 .. 8
    BY Fragments
  <2>3. HasSni(m, p) /\ ~ (v < n)
        /\ a \in {Replace(WriteRecords(data, SplitPoints(v, InData(o, v), n))) : o \in places}
    <3> HIDE DEF v, data, n, places
    <3> QED BY <1>4, <2>1
  <2>4. \A o \in places : o \in Nat
    <3>1. HeaderLen + v \div 2 \in Nat
      <4> HIDE DEF v
      <4> QED BY <1>2, <2>3 DEF HeaderLen
    <3> QED BY <3>1
  <2> HIDE DEF v, data, n, places
  <2>5. PICK o \in places : a = Replace(WriteRecords(data, SplitPoints(v, InData(o, v), n)))
    BY <2>3
  <2>6. v \in Nat /\ v >= 2 /\ o \in Nat
    BY <1>2, <2>2, <2>3, <2>4
  <2>7. InData(o, v) \in 1 .. v - 1
    BY <2>6, Inside
  <2>8. SplitPoints(v, InData(o, v), n) \in SUBSET (1 .. v - 1)
    BY <2>2, <2>6, <2>7, LastCutIsTheName
  <2> QED BY <1>1, <2>3, <2>5, <2>8
<1> QED BY <1>3, <1>4

(* A name written over with another spelling is alike. *)
Spelt(p, o, n, k, q) ==
  /\ Len(q) = Len(p)
  /\ \A i \in 1 .. Len(p) : q[i] = IF o < i /\ i <= o + n THEN U(k, i - o) ELSE p[i]

LEMMA SpeltAlike ==
  ASSUME NEW m \in Input, m.cuts = {}, m.shape = "tls", NEW p \in Payload, Alike(m, p, Original(m)),
         NEW k \in {"mixed", "dot"}, NEW q, Spelt(p, SniOffset(m), Len(m.name), k, q)
  PROVE  Alike(m, q, Original(m))
<1> DEFINE w == Original(m)
           l == MessageLen(m)
<1>5. PICK o \in Nat : o = SniOffset(m) /\ o = 5 + m.pre
  BY DEF SniOffset, HeaderLen, Input
<1>6. PICK n \in Nat : n = Len(m.name)
  BY DEF Input
<1>7. Spelt(p, o, n, k, q)
  BY <1>5, <1>6
<1>1. /\ l \in Nat /\ l = m.pre + n + m.tail
      /\ \A i \in 1 .. Len(w) : w[i] = SentByte(m, i)
  BY <1>6, OriginalAt
<1>2. Len(p) = Len(w) /\ \A i \in 1 .. Len(p) : Plain(m, p[i]) = Plain(m, w[i])
  BY DEF Alike
<1>3. m.pre \in Nat /\ m.tail \in Nat /\ Len(p) \in Nat
  BY DEF Input, Payload
<1> HIDE DEF w
<1>4. ASSUME NEW i \in 1 .. Len(p) PROVE Plain(m, q[i]) = Plain(m, w[i])
  <2>1. CASE o < i /\ i <= o + n
    <3>1. q[i] = U(k, i - o)
      BY <1>7, <2>1 DEF Spelt
    <3>2. Plain(m, U(k, i - o)) = U("hs", m.pre + (i - o))
      BY DEF Plain, U
    <3>3. m.pre + (i - o) = i - 5 /\ ~ (i <= 5) /\ i <= 5 + l
      <4>1. PICK y \in Nat : y = m.pre
        BY <1>3
      <4>2. PICK t \in Nat : t = m.tail
        BY <1>3
      <4>3. PICK x \in Nat : x = i
        BY <1>3
      <4>4. l = y + n + t /\ o = 5 + y
        BY <1>1, <1>5, <4>1, <4>2
      <4>5. 5 + y < x /\ x <= (5 + y) + n
        BY <2>1, <4>3, <4>4
      <4> HIDE DEF l
      <4>6. y + (x - (5 + y)) = x - 5 /\ ~ (x <= 5) /\ x <= 5 + (y + n + t)
        BY ONLY <4>5
      <4> QED BY <4>1, <4>3, <4>4, <4>6
    <3>4. SentByte(m, i) = U("hs", i - 5)
      BY <3>3 DEF SentByte
    <3>5. w[i] = U("hs", i - 5)
      BY <1>1, <1>2, <3>4
    <3>6. Plain(m, U("hs", i - 5)) = U("hs", i - 5)
      BY DEF Plain, U
    <3> QED BY <3>1, <3>2, <3>3, <3>5, <3>6
  <2>2. CASE ~ (o < i /\ i <= o + n)
    BY <1>2, <1>7, <2>2 DEF Spelt
  <2> QED BY <2>1, <2>2
<1> QED BY <1>2, <1>4, <1>7 DEF Alike, Spelt, w

(* So sni_manip leaves one that carries the message. *)
LEMMA ManipCarries ==
  ASSUME NEW m \in Input, m.cuts = {}, NEW p \in Payload, Untouched(m, p), NEW mode,
         NEW a \in SniManip(m, p, mode)
  PROVE  a = NotApplicable \/ \E q \in Payload : a = Replace(q) /\ Carried(m, q) /\ Untouched(m, q)
<1> DEFINE o == SniOffset(m)
           n == Len(m.name)
           k == IF mode = "Remove" THEN "dot" ELSE "mixed"
           q == [i \in DOMAIN p |-> IF o < i /\ i <= o + n THEN U(k, i - o) ELSE p[i]]
           Written == Replace(q)
<1>1. SniManip(m, p, mode) = IF ~HasSni(m, p) \/ o + n > Len(p) THEN {NotApplicable} ELSE {Written}
  BY DEF SniManip
<1> HIDE DEF Written
<1>3. a = NotApplicable \/ (HasSni(m, p) /\ a = Written)
  BY <1>1
<1>4. ASSUME HasSni(m, p), a = Written PROVE q \in Payload /\ Carried(m, q) /\ Untouched(m, q)
  <2>1. m.shape = "tls" /\ Alike(m, p, Original(m))
    BY <1>4 DEF HasSni, IsClientHello, Untouched
  <2>2. k \in {"mixed", "dot"}
    OBVIOUS
  <2>3. o \in Nat /\ n \in Nat /\ o = 5 + m.pre /\ n = Len(m.name)
    BY DEF SniOffset, HeaderLen, Input
  <2>4. p \in Seq(Sound) /\ Len(p) \in Nat /\ DOMAIN p = 1 .. Len(p)
    BY DEF Payload
  <2>5. ASSUME NEW i \in 1 .. Len(p) PROVE (IF o < i /\ i <= o + n THEN U(k, i - o) ELSE p[i]) \in Sound
    <3> HIDE DEF k, o, n
    <3>1. CASE o < i
      <4>1. i - o \in Nat
        BY <2>3, <2>4, <3>1
      <4>2. U(k, i - o) \in Sound
        <5>1. k \in Kinds /\ k # "rec"
          BY <2>2 DEF Kinds
        <5> QED BY <4>1, <5>1, SoundUnit
      <4> QED BY <2>4, <4>2
    <3>2. CASE ~ (o < i)
      BY <2>4, <3>2
    <3> QED BY <3>1, <3>2
  <2> HIDE DEF k, o
  <2>6. /\ q \in Payload /\ Len(q) = Len(p)
        /\ \A i \in 1 .. Len(p) : q[i] = IF o < i /\ i <= o + n THEN U(k, i - o) ELSE p[i]
    <3> HIDE DEF n
    <3> DEFINE At(i) == IF o < i /\ i <= o + n THEN U(k, i - o) ELSE p[i]
    <3>1. q = [i \in 1 .. Len(p) |-> At(i)]
      BY <2>4
    <3>2. \A i \in 1 .. Len(p) : At(i) \in Sound
      BY <2>5
    <3> HIDE DEF At, q
    <3>3. q \in Seq(Sound) /\ Len(q) = Len(p) /\ \A i \in 1 .. Len(p) : q[i] = At(i)
      BY <2>4, <3>1, <3>2
    <3>4. q \in Payload
      BY <3>3 DEF Payload
    <3>5. \A i \in 1 .. Len(p) : q[i] = IF o < i /\ i <= o + n THEN U(k, i - o) ELSE p[i]
      BY <3>3 DEF At
    <3> HIDE DEF At
    <3> QED BY <3>3, <3>4, <3>5
  <2> HIDE DEF q
  <2>9. Spelt(p, SniOffset(m), Len(m.name), k, q)
    BY <2>6 DEF Spelt, o
  <2>7. Alike(m, q, Original(m))
    BY <2>1, <2>2, <2>9, SpeltAlike
  <2>8. Carried(m, q)
    BY <2>1, <2>6, <2>7, AlikeCarried
  <2> QED BY <2>6, <2>7, <2>8 DEF Untouched
<1> HIDE DEF q
<1> QED BY <1>3, <1>4 DEF Written

(* A payload in parts, with something that has no meaning between them. *)
Apart4(a, s, c, b, d) == a \o s \o c \o b \o d
Without(m, a, s, c, b, d) == Content(m, Apart4(a, s, c, b, d)) = Content(m, a) \o Content(m, c) \o Content(m, d)

LEMMA BetweenMeans ==
  ASSUME NEW m \in Input, NEW a \in Seq(Unit), NEW s \in Seq(Unit), NEW c \in Seq(Unit),
         NEW b \in Seq(Unit), NEW d \in Seq(Unit), Content(m, s) = <<>>, Content(m, b) = <<>>
  PROVE  Without(m, a, s, c, b, d)
<1> DEFINE t == a \o s
           u == t \o c
           v == u \o b
           w == v \o d
<1>1. t \in Seq(Unit) /\ Content(m, t) = Content(m, a) \o Content(m, s) /\ Content(m, a) \in Seq(Unit)
  BY Joint, ContentJoint
<1>2. Content(m, t) = Content(m, a)
  <2>1. Content(m, a) \o <<>> = Content(m, a)
    BY <1>1, ConcatEmptySeq
  <2> QED BY <1>1, <2>1
<1> HIDE DEF t
<1>3. u \in Seq(Unit) /\ Content(m, u) = Content(m, t) \o Content(m, c)
  BY <1>1, Joint, ContentJoint
<1> HIDE DEF u
<1>4. v \in Seq(Unit) /\ Content(m, v) = Content(m, u) \o Content(m, b) /\ Content(m, u) \in Seq(Unit)
  BY <1>3, Joint, ContentJoint
<1>5. Content(m, v) = Content(m, u)
  <2>1. Content(m, u) \o <<>> = Content(m, u)
    BY <1>4, ConcatEmptySeq
  <2> QED BY <1>4, <2>1
<1> HIDE DEF v
<1>6. Content(m, w) = Content(m, v) \o Content(m, d)
  BY <1>4, ContentJoint
<1> QED BY <1>2, <1>3, <1>5, <1>6 DEF Without, Apart4, t, u, v

(* The Host line, with something else around its value. *)
LEMMA HostLineMeans ==
  ASSUME NEW m \in Input, NEW p \in Payload, HasHost(m, p), p \in Seq(Real),
         NEW s \in Seq(Real), NEW b \in Seq(Real), Content(m, s) = <<>>, Content(m, b) = <<>>
  PROVE  HostLine(p, s, b) \in Seq(Real) /\ Content(m, HostLine(p, s, b)) = Content(m, p)
<1> DEFINE h == HostAt(p)
           v == Behind(p, h, {"sp", "tab"})
           e == Behind(p, v, {"val"})
           n == Len(p)
           A == SubSeq(p, 1, h)
           B == SubSeq(p, h + 1, v)
           C == SubSeq(p, v + 1, e)
           D == SubSeq(p, e + 1, n)
<1>1. n \in Nat /\ p \in Seq(Sound) /\ \A i \in 1 .. n : p[i] \in Unit
  BY DEF Payload, Sound
<1>2. h \in 1 .. n
  BY HostIs
<1>3. h \in 0 .. n
  BY <1>1, <1>2
<1>4. v \in h .. n /\ \A j \in (h + 1) .. v : p[j].k \in {"sp", "tab"}
  <2> HIDE DEF h
  <2> QED BY <1>3, BehindIs
<1>5. v \in 0 .. n
  <2> HIDE DEF h, v, n
  <2> QED BY <1>1, <1>3, <1>4
<1>6. e \in v .. n
  <2> HIDE DEF h, v
  <2> QED BY <1>5, BehindIs
<1>7. HostLine(p, s, b) = Apart4(A, s, C, b, D)
  BY DEF HostLine, Apart4
<1> HIDE DEF h, v, e
<1>8. h \in Nat /\ v \in Nat /\ e \in 0 .. n /\ e \in Nat /\ n \in 0 .. n /\ v <= n /\ h <= v
  <2> HIDE DEF n
  <2> QED BY <1>1, <1>3, <1>4, <1>5, <1>6
<1>9. A \in Seq(Real)
  BY <1>3, FrontPart
<1>10. B \in Seq(Real) /\ C \in Seq(Real) /\ D \in Seq(Real)
  <2>1. B \in Seq(Real)
    BY <1>5, <1>8, Part
  <2>2. C \in Seq(Real)
    BY <1>8, Part
  <2>3. D \in Seq(Real)
    BY <1>8, Part
  <2> QED BY <2>1, <2>2, <2>3
<1>11. Real \subseteq Unit
  BY DEF Real, Sound
<1>12. A \in Seq(Unit) /\ B \in Seq(Unit) /\ C \in Seq(Unit) /\ D \in Seq(Unit)
       /\ s \in Seq(Unit) /\ b \in Seq(Unit) /\ <<>> \in Seq(Unit)
  <2> HIDE DEF A, B, C, D
  <2> QED BY <1>9, <1>10, <1>11
<1>13. Content(m, B) = <<>>
  <2>1. Len(B) = (IF h < v THEN v - h ELSE 0) /\ \A i \in 1 .. v - h : B[i] = p[h + i]
    BY <1>1, <1>5, <1>8, Part
  <2>2. \A i \in 1 .. Len(B) : B[i].k \in Ignored
    <3> TAKE i \in 1 .. Len(B)
    <3> HIDE DEF B, n
    <3>1. i \in 1 .. v - h /\ h + i \in (h + 1) .. v
      BY <1>8, <2>1
    <3> QED BY <1>4, <2>1, <3>1 DEF Ignored
  <2> HIDE DEF B
  <2> QED BY <1>12, <2>2, ContentNone
<1>14. Content(m, <<>>) = <<>>
  <2>1. \A j \in 1 .. Len(<<>>) : FALSE
    OBVIOUS
  <2> QED BY <1>12, <2>1, ContentNone
<1>15. p = Apart4(A, B, C, <<>>, D)
  <2>1. A \o B = SubSeq(p, 1, v)
    <3>1. 1 \in 1 .. n + 1 /\ h \in 1 - 1 .. n /\ v \in h .. n
      BY <1>1, <1>3, <1>4
    <3> QED BY <1>1, <3>1, ConcatAdjacentSubSeq
  <2>2. SubSeq(p, 1, v) \o C = SubSeq(p, 1, e)
    <3>1. 1 \in 1 .. n + 1 /\ v \in 1 - 1 .. n /\ e \in v .. n
      BY <1>1, <1>5, <1>6
    <3> QED BY <1>1, <3>1, ConcatAdjacentSubSeq
  <2>3. SubSeq(p, 1, e) \o D = SubSeq(p, 1, n)
    <3>1. 1 \in 1 .. n + 1 /\ e \in 1 - 1 .. n /\ n \in e .. n
      BY <1>1, <1>8
    <3> QED BY <1>1, <3>1, ConcatAdjacentSubSeq
  <2>4. SubSeq(p, 1, n) = p
    BY <1>1, SubSeqFull
  <2>5. SubSeq(p, 1, e) \o <<>> = SubSeq(p, 1, e)
    <3> DEFINE t == SubSeq(p, 1, e)
    <3>1. t \in Seq(Sound)
      BY <1>1, <1>8, FrontPart
    <3> HIDE DEF t
    <3>2. t \o <<>> = t
      BY <3>1, ConcatEmptySeq
    <3> QED BY <3>2 DEF t
  <2> HIDE DEF A, B, C, D, n
  <2> QED BY <2>1, <2>2, <2>3, <2>4, <2>5 DEF Apart4
<1> HIDE DEF A, B, C, D, n
<1>16. Content(m, p) = Content(m, A) \o Content(m, C) \o Content(m, D)
  <2> DEFINE z == <<>>
  <2>1. z \in Seq(Unit) /\ Content(m, z) = <<>>
    BY <1>12, <1>14
  <2> HIDE DEF z
  <2>2. Without(m, A, B, C, z, D)
    BY <1>12, <1>13, <2>1, BetweenMeans
  <2> QED BY <1>15, <2>2 DEF z, Without
<1>17. Content(m, Apart4(A, s, C, b, D)) = Content(m, A) \o Content(m, C) \o Content(m, D)
  <2>1. Without(m, A, s, C, b, D)
    BY <1>12, BetweenMeans
  <2> QED BY <2>1 DEF Without
<1>18. Apart4(A, s, C, b, D) \in Seq(Real)
  <2>1. A \o s \in Seq(Real)
    BY <1>9, Joint
  <2>2. A \o s \o C \in Seq(Real)
    BY <1>10, <2>1, Joint
  <2>3. A \o s \o C \o b \in Seq(Real)
    BY <2>2, Joint
  <2>4. A \o s \o C \o b \o D \in Seq(Real)
    BY <1>10, <2>3, Joint
  <2> QED BY <2>4 DEF Apart4
<1> QED BY <1>7, <1>16, <1>17, <1>18

(* The units http_host writes. *)
LEMMA SpacesMean ==
  ASSUME NEW m \in Input, NEW s \in Seq(Unit), \A i \in 1 .. Len(s) : s[i].k \in {"sp", "tab", "fold", "decoy"}
  PROVE  s \in Seq(Real) /\ Content(m, s) = <<>>
<1>1. \A i \in 1 .. Len(s) : s[i].k \in Ignored
  BY DEF Ignored
<1>2. Content(m, s) = <<>>
  BY <1>1, ContentNone
<1>3. \A i \in 1 .. Len(s) : s[i] \in Real
  BY DEF Real, Sound
<1>4. s \in Seq(Real)
  BY <1>3, ElementsIn
<1> QED BY <1>2, <1>4

(* And http_host. *)
LEMMA HostCarries ==
  ASSUME NEW m \in Input, NEW p \in Payload, Carried(m, p), NEW mode,
         NEW a \in HttpHost(m, p, mode)
  PROVE  a = NotApplicable \/ \E q \in Payload : a = Replace(q) /\ Carried(m, q) /\ Untouched(m, q)
<1> DEFINE Carries == \E q \in Payload : a = Replace(q) /\ Carried(m, q) /\ Untouched(m, q)
<1> SUFFICES ASSUME HasHost(m, p) PROVE Carries
  BY DEF HttpHost
<1>1. m.shape = "http" /\ p \in Seq(Real) /\ Content(m, p) = Content(m, Original(m))
  BY DEF HasHost, Carried
<1>2. ASSUME NEW q \in Seq(Real), a = Replace(q), Content(m, q) = Content(m, p) PROVE Carries
  <2>1. q \in Payload
    BY DEF Real, Payload
  <2>2. Carried(m, q) /\ Untouched(m, q)
    BY <1>1, <1>2 DEF Carried, Untouched, IsClientHello
  <2> QED BY <1>2, <2>1, <2>2
<1>3. ASSUME NEW s \in Seq(Unit), NEW b \in Seq(Unit), a = Replace(HostLine(p, s, b)),
             \A i \in 1 .. Len(s) : s[i].k \in {"sp", "tab", "fold", "decoy"},
             \A i \in 1 .. Len(b) : b[i].k \in {"sp", "tab", "fold", "decoy"}
      PROVE  Carries
  <2> HIDE DEF Carries
  <2>1. s \in Seq(Real) /\ Content(m, s) = <<>> /\ b \in Seq(Real) /\ Content(m, b) = <<>>
    BY <1>3, SpacesMean
  <2>2. HostLine(p, s, b) \in Seq(Real) /\ Content(m, HostLine(p, s, b)) = Content(m, p)
    BY <1>1, <2>1, HostLineMeans
  <2> QED BY <1>2, <1>3, <2>2
<1> DEFINE recased == [p EXCEPT ![HostAt(p)].v = 1]
<1>4. ASSUME a = Replace(recased) PROVE Carries
  <2> HIDE DEF Carries
  <2> DEFINE h == HostAt(p)
             u == [p[h] EXCEPT !.v = 1]
  <2>1. h \in 1 .. Len(p) /\ p[h].k = "host"
    BY HostIs
  <2>2. p[h] \in Real
    BY <1>1, <2>1, ElementOfSeq
  <2>3. u.k = "host" /\ u \in Unit
    BY <2>1, <2>2 DEF Real, Sound, Unit
  <2>4. u \in Real
    BY <2>3 DEF Real, Sound
  <2>5. Plain(m, u) = Plain(m, p[h])
    BY <2>1, <2>3 DEF Plain
  <2>6. recased = [p EXCEPT ![h] = u]
    OBVIOUS
  <2> HIDE DEF h, u
  <2> DEFINE r == [p EXCEPT ![h] = u]
  <2>7. /\ r \in Seq(Real) /\ Len(r) = Len(p)
        /\ \A j \in 1 .. Len(p) : r[j] = IF j = h THEN u ELSE p[j]
    BY <1>1, <2>1, <2>4, ExceptSeq
  <2> HIDE DEF r
  <2>8. Alike(m, r, p)
    BY <2>5, <2>7 DEF Alike
  <2>9. r \in Seq(Unit) /\ p \in Seq(Unit)
    BY <1>1, <2>7 DEF Real, Sound
  <2>10. Content(m, r) = Content(m, p)
    BY <2>8, <2>9, ContentAlike
  <2>11. a = Replace(r)
    BY <1>4, <2>6 DEF r
  <2> QED BY <1>2, <2>7, <2>10, <2>11
<1>5. \/ a = Replace(HostLine(p, [i \in 1..3 |-> U("sp", 0)], <<>>))
      \/ a = Replace(HostLine(p, <<U("tab", 0)>>, <<>>))
      \/ a = Replace(HostLine(p, <<U("fold", 0)>>, <<>>))
      \/ a = Replace(HostLine(p, <<U("sp", 0)>>, <<U("decoy", 0)>>))
      \/ a = Replace(recased)
  BY DEF HttpHost
<1>6. \A k \in {"sp", "tab", "fold", "decoy"} : U(k, 0) \in Unit /\ U(k, 0).k = k
  BY DEF U, Unit, Kinds
<1>7. /\ [i \in 1..3 |-> U("sp", 0)] \in Seq(Unit) /\ <<>> \in Seq(Unit)
      /\ \A k \in {"sp", "tab", "fold", "decoy"} : <<U(k, 0)>> \in Seq(Unit)
  BY <1>6
<1>8. /\ \A i \in 1 .. Len([j \in 1..3 |-> U("sp", 0)]) : [j \in 1..3 |-> U("sp", 0)][i].k = "sp"
      /\ \A i \in 1 .. Len(<<>>) : <<>>[i].k = "sp"
      /\ \A k \in {"sp", "tab", "fold", "decoy"} : \A i \in 1 .. Len(<<U(k, 0)>>) : <<U(k, 0)>>[i].k = k
  BY <1>6
<1> HIDE DEF Carries, recased
<1> DEFINE spaces == [i \in 1..3 |-> U("sp", 0)]
<1>9. CASE a = Replace(HostLine(p, spaces, <<>>))
  <2>1. /\ spaces \in Seq(Unit) /\ <<>> \in Seq(Unit)
        /\ \A i \in 1 .. Len(spaces) : spaces[i].k = "sp"
        /\ \A i \in 1 .. Len(<<>>) : <<>>[i].k = "sp"
    BY <1>7, <1>8
  <2> HIDE DEF spaces
  <2> QED BY <1>3, <1>9, <2>1
<1>10. ASSUME NEW k \in {"tab", "fold"}, a = Replace(HostLine(p, <<U(k, 0)>>, <<>>)) PROVE Carries
  <2>1. /\ <<U(k, 0)>> \in Seq(Unit) /\ <<>> \in Seq(Unit)
        /\ \A i \in 1 .. Len(<<U(k, 0)>>) : <<U(k, 0)>>[i].k = k
        /\ \A i \in 1 .. Len(<<>>) : <<>>[i].k = "sp"
    BY <1>7, <1>8
  <2> QED BY <1>3, <1>10, <2>1
<1>11. CASE a = Replace(HostLine(p, <<U("sp", 0)>>, <<U("decoy", 0)>>))
  <2>1. /\ <<U("sp", 0)>> \in Seq(Unit) /\ <<U("decoy", 0)>> \in Seq(Unit)
        /\ \A i \in 1 .. Len(<<U("sp", 0)>>) : <<U("sp", 0)>>[i].k = "sp"
        /\ \A i \in 1 .. Len(<<U("decoy", 0)>>) : <<U("decoy", 0)>>[i].k = "decoy"
    BY <1>7, <1>8
  <2> QED BY <1>3, <1>11, <2>1
<1> HIDE DEF spaces
<1>12. \/ a = Replace(HostLine(p, spaces, <<>>))
       \/ \E k \in {"tab", "fold"} : a = Replace(HostLine(p, <<U(k, 0)>>, <<>>))
       \/ a = Replace(HostLine(p, <<U("sp", 0)>>, <<U("decoy", 0)>>))
       \/ a = Replace(recased)
  BY <1>5 DEF spaces
<1> QED BY <1>4, <1>9, <1>10, <1>11, <1>12

(* Two pieces, one behind the other. *)
LEMMA FlatTwo ==
  ASSUME NEW T, NEW x \in Seq(T), NEW y \in Seq(T)
  PROVE  FlattenSeq(<<x, y>>) = x \o y
<1> DEFINE s == <<y>>
<1>1. s \in Seq(Seq(T))
  OBVIOUS
<1>4. <<x>> \o s = <<x, y>>
  <2> DEFINE V == Seq(T)
             a == <<x>>
             b == <<y>>
             c == <<x, y>>
  <2>1. x \in V /\ y \in V
    OBVIOUS
  <2> HIDE DEF V
  <2>2. /\ a \in Seq(V) /\ Len(a) = 1 /\ a[1] = x
        /\ b \in Seq(V) /\ Len(b) = 1 /\ b[1] = y
        /\ c \in Seq(V) /\ Len(c) = 2 /\ c[1] = x /\ c[2] = y
    BY <2>1
  <2> HIDE DEF a, b, c
  <2>3. /\ Len(c) = Len(a) + Len(b)
        /\ \A i \in 1 .. Len(a) : c[i] = a[i]
        /\ \A i \in 1 .. Len(b) : c[Len(a) + i] = b[i]
    BY <2>2
  <2>4. c = a \o b
    BY <2>2, <2>3, JointIs
  <2> QED BY <2>4 DEF a, b, c
<1>2. FlattenSeq(s) = y
  BY FlatOne
<1> HIDE DEF s
<1>3. FlattenSeq(<<x>> \o s) = x \o FlattenSeq(s)
  BY <1>1, FlatMore
<1> QED BY <1>2, <1>3, <1>4

(* The two halves of a payload are the payload. *)
LEMMA SplitCarries ==
  ASSUME NEW p \in Payload, NEW S \in SUBSET Nat
  PROVE  /\ \A a \in TcpSplit(p, S) : 
              a \in {PassThrough, NotApplicable} \/ \E s : a = Split(s) /\ Halved(p, FALSE, s)
         /\ \A a \in Disorder(p, S) :
              a \in {PassThrough, NotApplicable} \/ \E s : a = Split(s) /\ Halved(p, TRUE, s)
<1>1. ASSUME NEW o \in S, ~ (o >= Len(p))
      PROVE  Halved(p, FALSE, Halves(p, o)) /\ Halved(p, TRUE, <<Halves(p, o)[2], Halves(p, o)[1]>>)
  <2> DEFINE x == Halves(p, o)[1]
             y == Halves(p, o)[2]
  <2>1. x \in Payload /\ y \in Payload
    BY <1>1, HalvesSound
  <2>2. Halves(p, o) = <<x, y>> /\ x = SubSeq(p, 1, o) /\ y = SubSeq(p, o + 1, Len(p))
    BY DEF Halves
  <2>3. x \o y = p
    <3>1. p \in Seq(Sound) /\ 1 \in 1 .. Len(p) + 1 /\ o \in 1 - 1 .. Len(p) /\ Len(p) \in o .. Len(p)
      <4>1. p \in Seq(Sound) /\ Len(p) \in Nat /\ o \in Nat
        BY DEF Payload
      <4> QED BY <1>1, <4>1
    <3>2. SubSeq(p, 1, o) \o SubSeq(p, o + 1, Len(p)) = SubSeq(p, 1, Len(p))
      BY <3>1, ConcatAdjacentSubSeq
    <3>3. SubSeq(p, 1, Len(p)) = p
      BY <3>1, SubSeqFull
    <3> QED BY <2>2, <3>2, <3>3
  <2> HIDE DEF x, y
  <2>4. <<Halves(p, o)[2], Halves(p, o)[1]>> = <<y, x>>
    BY DEF x, y
  <2> QED BY <2>1, <2>2, <2>3, <2>4 DEF Halved
<1>2. ASSUME NEW a \in TcpSplit(p, S), a \notin {PassThrough, NotApplicable}
      PROVE  \E s : a = Split(s) /\ Halved(p, FALSE, s)
  <2>1. PICK o \in S : ~ (o >= Len(p)) /\ a = Split(Halves(p, o))
    BY <1>2 DEF TcpSplit
  <2> QED BY <1>1, <2>1
<1>3. ASSUME NEW a \in Disorder(p, S), a \notin {PassThrough, NotApplicable}
      PROVE  \E s : a = Split(s) /\ Halved(p, TRUE, s)
  <2>1. PICK o \in S : ~ (o >= Len(p)) /\ a = Split(<<Halves(p, o)[2], Halves(p, o)[1]>>)
    BY <1>3 DEF Disorder
  <2> QED BY <1>1, <2>1
<1> QED BY <1>2, <1>3

(* Whatever the technique. *)
LEMMA Answered ==
  ASSUME NEW m \in Input, NEW p \in Payload, Carried(m, p), NEW c, Setting(c), Fits(m, c),
         c.name \in RecordTools \cup {"sni_manip"} => Untouched(m, p),
         NEW a \in Apply(m, p, c)
  PROVE  Answer(m, p, c, a)
<1> DEFINE S == Offsets(m, p, c)
<1>1. S \in SUBSET Nat /\ c.fragments \in Nat
  BY OffsetsAre DEF Setting
<1>2. \/ c.name = "tcp_split" /\ a \in TcpSplit(p, S)
      \/ c.name = "disorder" /\ a \in Disorder(p, S)
      \/ c.name \in RecordTools /\ a \in TlsRecordFrag(m, p, S) \cup MultiStreamFrag(m, p, S, c.fragments)
      \/ c.name = "fake_packet" /\ a \in FakePacket(m, p)
      \/ c.name = "sni_manip" /\ a \in SniManip(m, p, c.mode)
      \/ c.name = "http_host" /\ a \in HttpHost(m, p, c.mode)
      \/ a = NotApplicable
  BY DEF Apply, RecordTools
<1> HIDE DEF S
<1>3. CASE c.name = "tcp_split" /\ a \in TcpSplit(p, S)
  <2>1. a \in {PassThrough, NotApplicable} \/ \E s : a = Split(s) /\ Halved(p, FALSE, s)
    BY <1>1, <1>3, SplitCarries
  <2> QED BY <1>3, <2>1 DEF Answer
<1>4. CASE c.name = "disorder" /\ a \in Disorder(p, S)
  <2>1. a \in {PassThrough, NotApplicable} \/ \E s : a = Split(s) /\ Halved(p, TRUE, s)
    BY <1>1, <1>4, SplitCarries
  <2> QED BY <1>4, <2>1 DEF Answer
<1>5. CASE c.name \in RecordTools /\ a \in TlsRecordFrag(m, p, S) \cup MultiStreamFrag(m, p, S, c.fragments)
  <2>1. m.cuts = {} /\ m.more = 0 /\ Untouched(m, p)
    BY <1>5 DEF Fits
  <2>2. a = NotApplicable \/ \E q \in Payload : a = Replace(q) /\ Carried(m, q)
    BY <1>1, <1>5, <2>1, FragCarries
  <2> QED BY <1>5, <2>2 DEF Answer, Rewritten
<1>6. CASE c.name = "fake_packet" /\ a \in FakePacket(m, p)
  BY <1>6 DEF FakePacket, Answer
<1>7. CASE c.name = "sni_manip" /\ a \in SniManip(m, p, c.mode)
  <2>1. m.cuts = {} /\ Untouched(m, p)
    BY <1>7 DEF Fits
  <2>2. a = NotApplicable \/ \E q \in Payload : a = Replace(q) /\ Carried(m, q) /\ Untouched(m, q)
    BY <1>7, <2>1, ManipCarries
  <2> QED BY <2>2 DEF Answer, Rewritten
<1>8. CASE c.name = "http_host" /\ a \in HttpHost(m, p, c.mode)
  <2>1. a = NotApplicable \/ \E q \in Payload : a = Replace(q) /\ Carried(m, q) /\ Untouched(m, q)
    BY <1>8, HostCarries
  <2> QED BY <2>1 DEF Answer, Rewritten
<1>9. CASE a = NotApplicable
  BY <1>9 DEF Answer
<1> QED BY <1>2, <1>3, <1>4, <1>5, <1>6, <1>7, <1>8, <1>9

(* The message itself is untouched. *)
LEMMA OriginalUntouched ==
  ASSUME NEW m
  PROVE  Untouched(m, Original(m))
BY DEF Untouched, Alike

-----------------------------------------------------------------------------
(* A chain keeps the message.                                               *)

Closing == job.techs[Len(job.techs)]

(* The pieces of the last split are the halves of the payload, those of a      *)
(* disorder exchanged.                                                        *)
Pair(s, p) == Halved(p, Closing.name = "disorder", s)

(* What the chain has made of the message carries it, is not cut into records  *)
(* before a technique has done so, and has nothing but fakes in front.        *)
InChain ==
  /\ next \in 1 .. (Len(job.techs) + 1)
  /\ Carried(input, current)
  /\ (\A i \in DOMAIN job.techs : i < next => job.techs[i].name \notin RecordTools) => Untouched(input, current)
  /\ prefix \in Seq(Seq(Fakes))
  /\ split # <<>> => next = Len(job.techs) + 1 /\ job.techs # <<>> /\ Pair(split, current)
  /\ result # None => result = Combined

Kept == OneRecord /\ LastDisorder /\ job.chain => InChain

(* A technique in its place in the job fits the message. *)
LEMMA InPlace ==
  ASSUME OneRecord, job.techs \in Seq(Config), NEW i \in 1 .. Len(job.techs), NEW c, c.name = job.techs[i].name
  PROVE  /\ Fits(input, c)
         /\ c.name \in RecordTools \cup {"sni_manip"} =>
              \A j \in DOMAIN job.techs : j < i => job.techs[j].name \notin RecordTools
<1>1. i \in DOMAIN job.techs
  OBVIOUS
<1>2. c.name \in Names
  BY <1>1 DEF Names
<1>3. Fits(input, c)
  BY <1>2 DEF Fits, OneRecord
<1>4. c.name \in RecordTools \cup {"sni_manip"} =>
        \A j \in DOMAIN job.techs : j < i => job.techs[j].name \notin RecordTools
  BY <1>1 DEF OneRecord
<1> QED BY <1>3, <1>4

(* A step of a chain. *)
LEMMA ChainStepKept ==
  ASSUME Typed, Kept, ChainStep, OneRecord, LastDisorder
  PROVE  InChain'
<1> DEFINE m == input
           c == Bare(job.techs[next])
           l == Len(job.techs)
<1>1. m \in Input /\ job.techs \in Seq(Config) /\ l \in Nat /\ next \in 1 .. l /\ current \in Payload
  BY Given DEF Typed, ChainStep
<1>2. InChain
  BY DEF Kept, ChainStep
<1>3. Setting(c) /\ c.name = job.techs[next].name
  <2>1. job.techs[next] \in Config
    BY <1>1
  <2> QED BY <2>1, Settings
<1>4. PICK a \in Apply(m, current, c) : Absorb(a)
  BY DEF ChainStep
<1>5. next' = next + 1 /\ m' = m /\ job' = job /\ result = None /\ result' = None
  BY DEF ChainStep
<1>6. /\ Fits(m, c)
      /\ c.name \in RecordTools \cup {"sni_manip"} =>
           \A j \in DOMAIN job.techs : j < next => job.techs[j].name \notin RecordTools
  <2> HIDE DEF c
  <2> QED BY <1>1, <1>3, InPlace
<1>7. Carried(m, current)
  BY <1>2 DEF InChain
<1>8. c.name \in RecordTools \cup {"sni_manip"} => Untouched(m, current)
  BY <1>2, <1>6 DEF InChain
<1> HIDE DEF m, c
<1>9. Answer(m, current, c, a)
  BY <1>1, <1>3, <1>4, <1>6, <1>7, <1>8, Answered
<1>10. split = <<>> /\ prefix \in Seq(Seq(Fakes))
  <2>1. next # l + 1
    BY <1>1
  <2> QED BY <1>2, <2>1 DEF InChain
<1> DEFINE Uncut(n) == \A i \in DOMAIN job.techs : i < n => job.techs[i].name \notin RecordTools
<1>11. Uncut(next + 1) => Uncut(next) /\ c.name \notin RecordTools
  <2> SUFFICES ASSUME Uncut(next + 1) PROVE Uncut(next) /\ c.name \notin RecordTools
    OBVIOUS
  <2>1. next \in DOMAIN job.techs /\ next < next + 1 /\ next \in Nat
    BY <1>1
  <2>2. \A i \in DOMAIN job.techs : i < next => i < next + 1
    <3>1. \A i \in DOMAIN job.techs : i \in Nat
      BY <1>1
    <3> QED BY <2>1, <3>1
  <2> QED BY <1>3, <2>1, <2>2
<1>12. Uncut(next) => Untouched(m, current)
  BY <1>2 DEF InChain, m
<1> HIDE DEF Uncut, l
(* What has to be seen of each answer. *)
<1> DEFINE New == /\ Carried(m, current')
                  /\ Uncut(next + 1) => Untouched(m, current')
                  /\ prefix' \in Seq(Seq(Fakes))
                  /\ split' # <<>> => next = l /\ Pair(split', current')
<1>13. ASSUME a \in {PassThrough, NotApplicable} PROVE New
  <2>1. a.type \notin {"Replace", "Split", "InjectBefore"}
    BY <1>13 DEF PassThrough, NotApplicable, Action
  <2>2. current' = current /\ split' = split /\ prefix' = prefix
    BY <1>4, <2>1 DEF Absorb
  <2>3. Carried(m, current') /\ (Uncut(next + 1) => Untouched(m, current'))
    BY <1>7, <1>11, <1>12, <2>2
  <2>4. prefix' \in Seq(Seq(Fakes)) /\ split' = <<>>
    BY <1>10, <2>2
  <2> QED BY <2>3, <2>4
<1>14. ASSUME c.name \in {"tcp_split", "disorder"}, NEW s, a = Split(s), Halved(current, c.name = "disorder", s)
       PROVE  New
  <2>1. a.type = "Split" /\ a.chunks = s
    BY <1>14 DEF Split, Action
  <2>3. prefix' = prefix
    BY <1>4, <2>1 DEF Absorb
  <2>4. CASE next = l
    <3>1. current' = current /\ split' = s
      BY <1>4, <2>1, <2>4 DEF Absorb, l
    <3>2. Pair(split', current')
      <4>1. Closing.name = c.name
        BY <1>3, <2>4 DEF Closing, l
      <4> QED BY <1>14, <3>1, <4>1 DEF Pair
    <3>3. Carried(m, current') /\ (Uncut(next + 1) => Untouched(m, current'))
      BY <1>7, <1>11, <1>12, <3>1
    <3> QED BY <1>10, <2>3, <2>4, <3>2, <3>3
  <2>5. CASE next # l
    <3>1. next < l /\ next \in 1 .. (l - 1)
      BY <1>1, <2>5 DEF l
    <3>2. c.name # "disorder"
      BY <1>3, <3>1 DEF LastDisorder, l
    <3>3. PICK x \in Payload, y \in Payload : x \o y = current /\ s = <<x, y>>
      BY <1>14, <3>2 DEF Halved
    <3>4. FlattenSeq(<<x, y>>) = x \o y
      BY FlatTwo DEF Payload
    <3>5. current' = current /\ split' = <<>>
      BY <1>4, <1>10, <2>1, <2>5, <3>1, <3>3, <3>4 DEF Absorb, l
    <3>6. Carried(m, current') /\ (Uncut(next + 1) => Untouched(m, current'))
      BY <1>7, <1>11, <1>12, <3>5
    <3> QED BY <1>10, <2>3, <3>5, <3>6
  <2> QED BY <2>4, <2>5
<1>15. ASSUME a = Action("InjectBefore", <<<<U("fake", 0)>>>>) PROVE New
  <2>1. a.type = "InjectBefore" /\ a.chunks = <<<<U("fake", 0)>>>>
    BY <1>15 DEF Action
  <2>2. current' = current /\ split' = split /\ prefix' = prefix \o a.chunks
    BY <1>4, <2>1 DEF Absorb
  <2>3. a.chunks \in Seq(Seq(Fakes))
    <3>1. "fake" \in Kinds /\ "fake" # "rec"
      BY DEF Kinds
    <3>2. U("fake", 0) \in Sound /\ U("fake", 0).k = "fake"
      BY <3>1, SoundUnit DEF U
    <3>3. U("fake", 0) \in Fakes
      BY <3>2 DEF Fakes
    <3> QED BY <2>1, <3>3
  <2>4. prefix' \in Seq(Seq(Fakes))
    <3> DEFINE d == a.chunks
    <3>1. d \in Seq(Seq(Fakes)) /\ prefix \in Seq(Seq(Fakes)) /\ prefix' = prefix \o d
      BY <1>10, <2>2, <2>3
    <3> HIDE DEF d
    <3>2. prefix \o d \in Seq(Seq(Fakes))
      BY <3>1, Joint
    <3> QED BY <3>1, <3>2
  <2>5. Carried(m, current') /\ (Uncut(next + 1) => Untouched(m, current'))
    BY <1>7, <1>11, <1>12, <2>2
  <2> QED BY <1>10, <2>2, <2>4, <2>5
<1>16. ASSUME NEW q, a = Replace(q), Rewritten(m, current, c, q) PROVE New
  <2>2. a.type = "Replace" /\ a.chunks = <<q>>
    BY <1>16 DEF Replace, Action
  <2>3. FlattenSeq(<<q>>) = q
    BY <1>16, FlatOne DEF Payload, Rewritten
  <2>4. current' = q /\ split' = split /\ prefix' = prefix
    BY <1>4, <2>2, <2>3 DEF Absorb
  <2>5. Carried(m, current') /\ (Uncut(next + 1) => Untouched(m, current'))
    BY <1>11, <1>12, <1>16, <2>4 DEF Rewritten
  <2> QED BY <1>10, <2>4, <2>5
<1>17. New
  <2> HIDE DEF New
  <2> QED BY <1>9, <1>13, <1>14, <1>15, <1>16 DEF Answer
<1>18. next' \in 1 .. (Len(job'.techs) + 1) /\ (next = l => next' = Len(job'.techs) + 1 /\ job'.techs # <<>>)
  BY <1>1, <1>5 DEF l
<1>19. Pair(split', current') <=> Pair(split, current)'
  BY <1>5 DEF Pair, Closing
<1> QED BY <1>5, <1>17, <1>18, <1>19 DEF InChain, Uncut, m

(* So does every state. *)
LEMMA KeptHolds == Spec => [](Typed /\ Alone /\ Kept)
<1>1. Init => Kept
  <2> SUFFICES ASSUME Init PROVE InChain
    BY DEF Kept
  <2>1. input \in Input /\ input.cuts \subseteq 1 .. (MessageLen(input) - 1) /\ job.techs \in Seq(Config)
    BY Given DEF Init
  <2>2. Carried(input, current) /\ Untouched(input, current)
    BY <2>1, OriginalCarried, OriginalUntouched DEF Init
  <2>3. next \in 1 .. (Len(job.techs) + 1)
    BY <2>1 DEF Init
  <2>4. prefix \in Seq(Seq(Fakes)) /\ split = <<>> /\ result = None
    BY DEF Init
  <2> QED BY <2>2, <2>3, <2>4 DEF InChain
<1>2. Typed /\ Kept /\ [Next]_vars => Kept'
  <2> SUFFICES ASSUME Typed, Kept, [Next]_vars PROVE Kept'
    OBVIOUS
  <2>1. CASE ApplyOne
    BY <2>1 DEF ApplyOne, Kept
  <2>2. CASE ChainStep
    <3>1. OneRecord' => OneRecord
      BY <2>2 DEF ChainStep, OneRecord, Names
    <3>2. LastDisorder' => LastDisorder
      BY <2>2 DEF ChainStep, LastDisorder
    <3> QED BY <2>2, <3>1, <3>2, ChainStepKept DEF Kept
  <2>3. CASE ChainEnd
    <3>1. result' = Combined /\ UNCHANGED <<input, job, next, current, prefix, split>> /\ job.chain
      BY <2>3 DEF ChainEnd
    <3>2. (OneRecord' => OneRecord) /\ (LastDisorder' => LastDisorder)
      BY <3>1 DEF OneRecord, Names, LastDisorder
    <3>3. Combined' = Combined
      BY <3>1 DEF Combined
    <3>4. InChain => InChain'
      BY <3>1, <3>3 DEF InChain, Pair, Closing
    <3> QED BY <3>1, <3>2, <3>4 DEF Kept
  <2>4. CASE UNCHANGED vars
    <3>1. UNCHANGED <<input, job, next, current, prefix, split, result>>
      BY <2>4 DEF vars
    <3>2. (OneRecord' => OneRecord) /\ (LastDisorder' => LastDisorder)
      BY <3>1 DEF OneRecord, Names, LastDisorder
    <3>3. Combined' = Combined
      BY <3>1 DEF Combined
    <3>4. InChain => InChain'
      BY <3>1, <3>3 DEF InChain, Pair, Closing
    <3> QED BY <3>1, <3>2, <3>4 DEF Kept
  <2> QED BY <2>1, <2>2, <2>3, <2>4 DEF Next
<1>3. Spec => [](Typed /\ Alone)
  BY AloneHolds
<1> QED BY <1>1, <1>2, <1>3, PTL DEF Spec

-----------------------------------------------------------------------------
(* What is written, in the order of the stream.                             *)

(* Fakes, and behind them what carries the message. *)
LEMMA WireSurvives ==
  ASSUME NEW m, m = input, NEW f \in Seq(Seq(Fakes)), NEW w, Carried(m, w),
         FlattenSeq(InOrder) = FlattenSeq(f) \o w
  PROVE  Survives
<1>1. FlattenSeq(f) \in Seq(Fakes)
  BY Flattened
<1>2. w \in Seq(Real)
  BY DEF Carried
<1>3. Genuine(FlattenSeq(InOrder)) = w
  <2> DEFINE p == FlattenSeq(f)
  <2>1. p \in Seq(Fakes)
    BY <1>1
  <2> HIDE DEF p
  <2>2. Genuine(p \o w) = w
    BY <1>2, <2>1, GenuineIs
  <2> QED BY <2>2 DEF p
<1> QED BY <1>3 DEF Carried, Survives

(* The fakes in front are sound. *)
LEMMA FakesSound == Seq(Seq(Fakes)) \subseteq Seq(Payload) /\ Seq(Real) \subseteq Payload
<1>1. Fakes \subseteq Sound /\ Real \subseteq Sound
  BY DEF Fakes, Real
<1>2. Seq(Fakes) \subseteq Payload /\ Seq(Real) \subseteq Payload
  BY <1>1 DEF Payload
<1> QED BY <1>2

(* A payload alone. *)
LEMMA ReplacedSurvives ==
  ASSUME NEW m, m = input, NEW w, Carried(m, w), Segments = <<w>>, result.type # "Split"
  PROVE  Survives
<1>1. InOrder = <<w>>
  BY DEF InOrder
<1>2. w \in Payload
  BY FakesSound DEF Carried
<1>3. FlattenSeq(<<w>>) = w
  BY <1>2, FlatOne DEF Payload
<1>4. <<>> \in Seq(Seq(Fakes)) /\ FlattenSeq(<<>>) = <<>>
  BY FlatNone
<1>5. <<>> \o w = w
  BY <1>2, ConcatEmptySeq DEF Payload
<1>6. FlattenSeq(InOrder) = FlattenSeq(<<>>) \o w
  BY <1>1, <1>3, <1>4, <1>5
<1> QED BY <1>4, <1>6, WireSurvives

(* The client's message behind fakes. *)
LEMMA InjectedSurvives ==
  ASSUME NEW m, m = input, NEW f \in Seq(Seq(Fakes)), Carried(m, Original(m)),
         result = Action("InjectBefore", f)
  PROVE  Survives
<1> DEFINE o == Original(m)
<1>1. InOrder = Append(f, o)
  BY DEF InOrder, Segments, Action
<1>2. o \in Payload /\ f \in Seq(Payload)
  BY FakesSound DEF Carried
<1> HIDE DEF o
<1> DEFINE V == Payload
           d == <<o>>
<1>3. d \in Seq(Payload) /\ FlattenSeq(d) = o
  BY <1>2, FlatOne DEF Payload
<1>4. Append(f, o) = f \o d
  <2>1. f \in Seq(V) /\ o \in V
    BY <1>2
  <2> HIDE DEF V
  <2> QED BY <2>1
<1> HIDE DEF d
<1>5. FlattenSeq(f \o d) = FlattenSeq(f) \o FlattenSeq(d)
  BY <1>2, <1>3, FlatJoint DEF Payload
<1>6. FlattenSeq(InOrder) = FlattenSeq(f) \o o
  BY <1>1, <1>3, <1>4, <1>5
<1> QED BY <1>6, WireSurvives DEF o

(* The last two of some pieces, exchanged. *)
Swapped(s) == [s EXCEPT ![Len(s) - 1] = s[Len(s)], ![Len(s)] = s[Len(s) - 1]]

LEMMA Exchanged ==
  ASSUME NEW T, NEW f \in Seq(T), NEW x \in T, NEW y \in T, NEW s, s = f \o <<y, x>>
  PROVE  Swapped(s) = f \o <<x, y>>
<1> DEFINE n == Len(f)
           a == <<y, x>>
           b == <<x, y>>
           t == f \o b
           r == [s EXCEPT ![Len(s) - 1] = s[Len(s)], ![Len(s)] = s[Len(s) - 1]]
<1>1. /\ a \in Seq(T) /\ Len(a) = 2 /\ a[1] = y /\ a[2] = x
      /\ b \in Seq(T) /\ Len(b) = 2 /\ b[1] = x /\ b[2] = y
  OBVIOUS
<1>2. s = f \o a
  OBVIOUS
<1> HIDE DEF a, b
<1>3. /\ s \in Seq(T) /\ Len(s) = n + 2
      /\ \A i \in 1 .. n : s[i] = f[i]
      /\ \A i \in 1 .. 2 : s[n + i] = a[i]
  BY <1>1, <1>2, Joint
<1>4. /\ t \in Seq(T) /\ Len(t) = n + 2
      /\ \A i \in 1 .. n : t[i] = f[i]
      /\ \A i \in 1 .. 2 : t[n + i] = b[i]
  <2>1. /\ f \o b \in Seq(T) /\ Len(f \o b) = Len(f) + Len(b)
        /\ \A i \in 1 .. Len(f) : (f \o b)[i] = f[i]
        /\ \A i \in 1 .. Len(b) : (f \o b)[Len(f) + i] = b[i]
    <3>1. f \in Seq(T) /\ b \in Seq(T)
      BY <1>1
    <3> QED BY ONLY <3>1, Joint
  <2> QED BY <1>1, <2>1
<1>5. n \in Nat
  OBVIOUS
<1> HIDE DEF n, t
<1>6. s[n + 1] = y /\ s[n + 2] = x /\ t[n + 1] = x /\ t[n + 2] = y
  <2>1. 1 \in 1 .. 2 /\ 2 \in 1 .. 2
    OBVIOUS
  <2> QED BY <1>1, <1>3, <1>4, <2>1
<1>7. r = [i \in 1 .. n + 2 |-> IF i = n + 2 THEN y ELSE IF i = n + 1 THEN x ELSE s[i]]
  <2>1. Len(s) - 1 = n + 1 /\ Len(s) = n + 2 /\ DOMAIN s = 1 .. n + 2 /\ n + 1 # n + 2
    BY <1>3, <1>5
  <2> QED BY <1>6, <2>1
<1> HIDE DEF r
<1>8. \A i \in 1 .. n + 2 : r[i] = t[i]
  <2> TAKE i \in 1 .. n + 2
  <2>1. i = n + 2 \/ i = n + 1 \/ (i \in 1 .. n /\ i # n + 2 /\ i # n + 1)
    BY <1>5
  <2> QED BY <1>3, <1>4, <1>5, <1>6, <1>7, <2>1
<1>9. r = t
  <2>1. t = [i \in 1 .. n + 2 |-> t[i]]
    <3>1. t = [i \in 1 .. Len(t) |-> t[i]]
      BY <1>4, LenProperties
    <3> QED BY <1>4, <3>1
  <2>2. r = [i \in 1 .. n + 2 |-> r[i]]
    BY <1>7
  <2>3. [i \in 1 .. n + 2 |-> r[i]] = [i \in 1 .. n + 2 |-> t[i]]
    BY <1>8
  <2> QED BY <2>1, <2>2, <2>3
<1> QED BY <1>9 DEF Swapped, r, t, b

(* The halves of a payload behind fakes. *)
LEMMA SplitSurvives ==
  ASSUME NEW m, m = input, NEW f \in Seq(Seq(Fakes)), NEW w, Carried(m, w), NEW s, Pair(s, w),
         job.techs # <<>>, result = Split(f \o s)
  PROVE  Survives
<1>1. PICK x \in Payload, y \in Payload :
        x \o y = w /\ s = IF Closing.name = "disorder" THEN <<y, x>> ELSE <<x, y>>
  BY DEF Pair, Halved
<1>2. Segments = f \o s /\ result.type = "Split"
  BY DEF Segments, Split, Action
<1>3. f \in Seq(Payload)
  BY FakesSound
<1>4. InOrder = f \o <<x, y>>
  <2>1. CASE Closing.name = "disorder"
    <3>1. Segments = f \o <<y, x>>
      BY <1>1, <1>2, <2>1
    <3> DEFINE q == Segments
    <3>2. InOrder = Swapped(q)
      BY <1>2, <2>1 DEF InOrder, Closing, Swapped
    <3>3. q = f \o <<y, x>>
      BY <3>1
    <3> HIDE DEF q
    <3>4. Swapped(q) = f \o <<x, y>>
      BY <1>3, <3>3, Exchanged
    <3> QED BY <3>2, <3>4
  <2>2. CASE Closing.name # "disorder"
    BY <1>1, <1>2, <2>2 DEF InOrder, Closing
  <2> QED BY <2>1, <2>2
<1> DEFINE d == <<x, y>>
<1>5. d \in Seq(Payload) /\ FlattenSeq(d) = w
  <2>1. FlattenSeq(<<x, y>>) = x \o y
    BY FlatTwo DEF Payload
  <2> QED BY <1>1, <2>1
<1> HIDE DEF d
<1>6. FlattenSeq(f \o d) = FlattenSeq(f) \o FlattenSeq(d)
  BY <1>3, <1>5, FlatJoint DEF Payload
<1>7. FlattenSeq(InOrder) = FlattenSeq(f) \o w
  BY <1>4, <1>5, <1>6 DEF d
<1> QED BY <1>7, WireSurvives

(* The result of one technique. *)
LEMMA AloneSurvives ==
  ASSUME Typed, Alone, Done, OneRecord, ~job.chain
  PROVE  Survives
<1> DEFINE m == input
           o == Original(m)
           c == job.techs[1]
<1>1. m \in Input /\ m.cuts \subseteq 1 .. (MessageLen(m) - 1) /\ job.techs \in Seq(Config) /\ Len(job.techs) = 1
      /\ o \in Payload
  BY Given DEF Typed
<1>2. 1 \in 1 .. Len(job.techs) /\ c \in Config /\ job.techs # <<>>
  <2>1. 1 \in 1 .. Len(job.techs) /\ job.techs # <<>>
    BY <1>1
  <2>2. job.techs[1] \in Config
    BY <1>1, <2>1, ElementOfSeq
  <2> QED BY <2>1, <2>2
<1>3. Setting(c) /\ Fits(m, c) /\ Untouched(m, o) /\ Carried(m, o)
  <2>1. Fits(m, c)
    <3>1. c.name = job.techs[1].name
      OBVIOUS
    <3> HIDE DEF c
    <3> QED BY <1>1, <1>2, <3>1, InPlace
  <2> QED BY <1>1, <1>2, <2>1, Settings, OriginalUntouched, OriginalCarried
<1>4. result \in Apply(m, o, c)
  BY DEF Alone, Done
<1> HIDE DEF c
<1>5. Answer(m, o, c, result)
  <2> HIDE DEF o
  <2> QED BY <1>1, <1>3, <1>4, Answered
<1>6. CASE result \in {PassThrough, NotApplicable}
  <2>1. Segments = <<o>> /\ result.type # "Split"
    BY <1>6 DEF Segments, PassThrough, NotApplicable, Action
  <2> QED BY <1>3, <2>1, ReplacedSurvives
<1>7. ASSUME NEW s, result = Split(s), Halved(o, c.name = "disorder", s) PROVE Survives
  <2>1. Pair(s, o)
    BY <1>1, <1>7 DEF Pair, Closing, c
  <2>2. s \in Seq(Payload)
    BY <1>7 DEF Halved
  <2>3. <<>> \o s = s /\ <<>> \in Seq(Seq(Fakes))
    BY <2>2, ConcatEmptySeq
  <2> DEFINE f == <<>>
  <2>4. f \in Seq(Seq(Fakes)) /\ result = Split(f \o s)
    BY <1>7, <2>3
  <2> HIDE DEF f, o
  <2> QED BY <1>2, <1>3, <2>1, <2>4, SplitSurvives
<1>8. CASE result = Action("InjectBefore", <<<<U("fake", 0)>>>>)
  <2> DEFINE f == <<<<U("fake", 0)>>>>
  <2>1. U("fake", 0) \in Fakes
    <3>1. "fake" \in Kinds /\ "fake" # "rec"
      BY DEF Kinds
    <3>2. U("fake", 0) \in Sound /\ U("fake", 0).k = "fake"
      BY <3>1, SoundUnit DEF U
    <3> QED BY <3>2 DEF Fakes
  <2>2. f \in Seq(Seq(Fakes)) /\ result = Action("InjectBefore", f)
    BY <1>8, <2>1
  <2> HIDE DEF f
  <2> QED BY <1>3, <2>2, InjectedSurvives
<1>9. ASSUME NEW q, result = Replace(q), Rewritten(m, o, c, q) PROVE Survives
  <2>1. Segments = <<q>> /\ result.type # "Split" /\ Carried(m, q)
    BY <1>9 DEF Segments, Replace, Action, Rewritten
  <2> QED BY <2>1, ReplacedSurvives
<1> QED BY <1>5, <1>6, <1>7, <1>8, <1>9 DEF Answer

(* The result of a chain. *)
LEMMA ChainSurvives ==
  ASSUME Typed, Kept, Done, OneRecord, LastDisorder, job.chain
  PROVE  Survives
<1> DEFINE m == input
           o == Original(m)
<1>1. m \in Input /\ m.cuts \subseteq 1 .. (MessageLen(m) - 1)
  BY Given DEF Typed
<1>2. Carried(m, o)
  BY <1>1, OriginalCarried
<1>3. /\ Carried(m, current) /\ prefix \in Seq(Seq(Fakes)) /\ result = Combined
      /\ split # <<>> => job.techs # <<>> /\ Pair(split, current)
  BY DEF Kept, InChain, Done
<1>4. CASE split # <<>>
  <2>1. result = Split(prefix \o split)
    BY <1>3, <1>4 DEF Combined
  <2> QED BY <1>3, <1>4, <2>1, SplitSurvives
<1>5. CASE split = <<>> /\ prefix # <<>>
  <2>1. result = Action("InjectBefore", prefix)
    BY <1>3, <1>5 DEF Combined
  <2> QED BY <1>2, <1>3, <2>1, InjectedSurvives
<1>6. CASE split = <<>> /\ prefix = <<>> /\ current # o
  <2>1. result = Replace(current)
    BY <1>3, <1>6 DEF Combined
  <2>2. Segments = <<current>> /\ result.type # "Split"
    BY <2>1 DEF Segments, Replace, Action
  <2> QED BY <1>3, <2>2, ReplacedSurvives
<1>7. CASE split = <<>> /\ prefix = <<>> /\ current = o
  <2>1. result = PassThrough
    BY <1>3, <1>7 DEF Combined
  <2>2. Segments = <<o>> /\ result.type # "Split"
    BY <2>1 DEF Segments, PassThrough, Action
  <2> QED BY <1>2, <2>2, ReplacedSurvives
<1> QED BY <1>4, <1>5, <1>6, <1>7

(* Whatever the message, its size and the bytes read of it, the technique, its *)
(* position, jitter and mode, and however many techniques a chain has: what is *)
(* written after TechniqueRegistry::apply or apply_chain, put in the order of  *)
(* the stream, is read by the server as the request or the handshake message   *)
(* that the client sent.                                                      *)
THEOREM MessageAlwaysSurvives == Spec => []MessageSurvives
<1>1. Typed /\ Alone /\ Kept => MessageSurvives
  BY AloneSurvives, ChainSurvives DEF MessageSurvives
<1>2. Spec => [](Typed /\ Alone /\ Kept)
  BY KeptHolds
<1> QED BY <1>1, <1>2, PTL

=============================================================================
