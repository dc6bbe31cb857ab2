----------------------------- MODULE SearchProofs -----------------------------
(***************************************************************************)
(* Theorems about Search, for any searchers, domains, techniques, positions, *)
(* limits and tables found.                                                 *)
(*                                                                          *)
(* Three invariants, each on top of the one before: the local variables of a *)
(* search have their types (Typed); a search has made no more probes than    *)
(* where it is tells (Counted); and what it is about to save was confirmed   *)
(* this week (Sound), in tables whose names say what the strategies are      *)
(* (Tables).  Between two statements of one search the others may change any *)
(* row: what a search read is then still right, since a name that is not     *)
(* shared always means the same techniques (Known).                         *)
(***************************************************************************)
EXTENDS Search, TLAPS, SequenceTheorems, FiniteSetTheorems, WellFoundedInduction

-----------------------------------------------------------------------------
(* The types.                                                               *)

Places ==
  {"idle", "read best", "read any", "guess", "guess again", "baseline", "sweep", "vary",
   "stealth", "confirm", "save", "map", "save again", "map again", "classify", "fall back",
   "morph", "morph confirm", "morph stealth"}

Saving == {"save", "map", "save again", "map again"}

Names == {m.name : m \in Made} \cup {NoStrategy.name}
           \cup UNION {DOMAIN tables.strategies : tables \in Found}
Techniques ==
  {m.techniques : m \in Made} \cup {NoStrategy.techniques}
    \cup UNION {Range(tables.strategies) : tables \in Found}

Candidate == [name : Names, techniques : Techniques]
Best == [name : Names, techniques : Techniques, score : Nat]
Won == [label : Range(Sweep) \cup Labels, score : Nat]

Task ==
  [at : Places, domain : Domains \cup {"none"}, candidates : Seq(Candidate), i : Nat, j : Nat,
   probes : Nat, winners : Seq(Won), best : Best, oks : Nat]

Row(names) ==
  [strategy : names, score : Nat, lastSuccess : Nat, successes : Nat, failures : Nat]

(* x is one of the strategies a search may make, at some score. *)
IsMade(x) == \E m \in Made : m.name = x.name /\ m.techniques = x.techniques

(* The best so far, when none has worked yet. *)
MadeOrNone(x) == x = NoStrategy \/ IsMade(x)

(* Where a search is in its lists, and what it has found there. *)
Local(t) ==
  /\ t.at # "idle" => t.domain \in Domains
  /\ t.at \in {"idle", "read best"} => t.candidates = <<>>
  /\ t.at \in {"read best", "read any", "baseline", "sweep", "classify"} => t.best = NoStrategy
  /\ t.at \in {"read best", "read any", "guess", "guess again", "baseline"} => t.winners = <<>>
  /\ t.at \in {"classify", "morph"} => t.oks = 0
  /\ t.at \in {"read best", "read any", "baseline", "classify"} => t.i = 1
  /\ t.at \in {"guess", "guess again"} => t.i \in 1 .. Len(t.candidates)
  /\ t.at = "guess again" =>
       /\ t.best.name = t.candidates[t.i].name
       /\ t.best.techniques = t.candidates[t.i].techniques
  /\ t.at = "sweep" => t.i \in 1 .. Len(Sweep)
  /\ t.at \in {"sweep", "vary"} =>
       \A k \in 1 .. Len(t.winners) : t.winners[k].label \in Range(Sweep)
  /\ t.at = "vary" => t.i \in 1 .. Len(t.winners) /\ t.j \in 1 .. Len(Positions)
  /\ t.at = "stealth" => t.i \in 1 .. Len(Stealth)
  /\ t.at \in {"morph", "morph confirm", "morph stealth"} =>
       /\ t.i \in 1 .. Len(t.winners)
       /\ \A k \in 1 .. Len(t.winners) : t.winners[k].label \in Labels
  /\ t.at = "morph" => t.j \in 0 .. Len(Positions)
  /\ t.at \in {"vary", "stealth", "morph"} => MadeOrNone(t.best)
  /\ t.at \in {"confirm", "morph confirm"} => IsMade(t.best)
  /\ t.at = "morph stealth" => t.best = NoStrategy \/ SharedName(t.best.name)
  /\ t.at \in {"guess again", "confirm", "morph confirm"} => t.j \in 1 .. 2 /\ t.oks < t.j

Typed == task \in [Searchers -> Task] /\ \A s \in Searchers : Local(task[s])

-----------------------------------------------------------------------------
(* The probes.                                                              *)

(* Most and MorphMost: from where no limit was looked at. *)
Unchecked(t) == Len(t.candidates) * (1 + FastGuessConfirms) + 1 + Len(Sweep) + 1
Most(t) == IF Unchecked(t) > MaxProbes THEN Unchecked(t) ELSE MaxProbes
Diagnosed == 1 + Cardinality(Diagnostics) + 1
MorphMost == IF Diagnosed > MaxProbes THEN Diagnosed ELSE MaxProbes

(* How many probes at most a search has made, by where it is. *)
Counted(t) ==
  /\ t.at \in {"read best", "read any"} => t.probes = 0
  /\ t.at = "guess" => t.probes <= 3 * (t.i - 1)
  /\ t.at = "guess again" => t.probes <= 3 * (t.i - 1) + t.j
  /\ t.at = "baseline" => t.probes <= 3 * Len(t.candidates)
  /\ t.at = "sweep" => t.probes <= 3 * Len(t.candidates) + t.i
  /\ t.at \in {"vary", "stealth"} => t.probes < Most(t)
  /\ t.at = "confirm" => t.probes < Most(t) + t.j
  /\ t.at = "morph" => t.probes < MorphMost + (IF t.j = 0 THEN 0 ELSE 1)
  /\ t.at = "morph confirm" => t.probes <= MorphMost + t.j
  /\ t.at = "morph stealth" => t.probes <= MorphMost + 3

-----------------------------------------------------------------------------
(* The tables and what was confirmed.                                       *)

(* A name that is not shared tells the techniques, when a search may make it. *)
Telling == \A name \in DOMAIN strategies \ SharedNames : \A m \in Made :
             m.name = name => strategies[name] = m.techniques

Tables ==
  /\ \A name \in DOMAIN strategies : name \in Names /\ strategies[name] \in Techniques
  /\ Telling
  /\ DOMAIN mapping \subseteq Domains
  /\ \A d \in DOMAIN mapping :
       mapping[d] \in Row(DOMAIN strategies) /\ mapping[d].lastSuccess <= week
  /\ week \in Nat
  /\ DOMAIN confirmed = Domains
  /\ \A d \in Domains : \A x \in DOMAIN confirmed[d] :
       confirmed[d][x] \in Nat /\ confirmed[d][x] <= week

(* Name and techniques belong together: a search that holds both may save    *)
(* them and changes no strategy.                                            *)
Known(name, techniques) ==
  \/ SharedName(name)
  \/ \E m \in Made : m.name = name /\ m.techniques = techniques
  \/ /\ \A m \in Made : m.name # name
     /\ name \in DOMAIN strategies /\ strategies[name] = techniques

(* The best was confirmed for the domain this week. *)
Fresh(t) ==
  /\ t.best.techniques \in DOMAIN confirmed[t.domain]
  /\ confirmed[t.domain][t.best.techniques] = week

(* The techniques were confirmed for some domain within the last week. *)
Recent(techniques) ==
  \E d \in Domains : techniques \in DOMAIN confirmed[d] /\ week - confirmed[d][techniques] <= 1

Sound(t) ==
  /\ t.at = "read best" =>
       t.domain \in DOMAIN mapping /\ week - mapping[t.domain].lastSuccess <= 1
  /\ \A k \in 1 .. Len(t.candidates) :
       LET c == t.candidates[k]
       IN Known(c.name, c.techniques) /\ (SharedName(c.name) \/ Recent(c.techniques))
  /\ t.at \in {"guess again", "confirm", "morph confirm"} /\ t.oks > 0 => Fresh(t)
  /\ t.at \in Saving =>
       /\ Known(t.best.name, t.best.techniques)
       /\ SharedName(t.best.name) \/ Fresh(t)
  /\ t.at \in {"map", "map again"} => t.best.name \in DOMAIN strategies

Inv ==
  /\ Typed
  /\ \A s \in Searchers : Counted(task[s])
  /\ Tables /\ MappedIsConfirmed
  /\ \A s \in Searchers : Sound(task[s])
-----------------------------------------------------------------------------
(* The confidence.                                                          *)

(* The order on Nat as a set of pairs, for the theorems on well-founded relations. *)
Lower == {ss \in Nat \X Nat : ss[1] < ss[2]}

(* A nonempty set of numbers has a least. *)
LEMMA LeastOf ==
  ASSUME NEW S \in SUBSET Nat, S # {}
  PROVE  \E m \in S : \A k \in S : ~ (k < m)
<1>1. IsWellFoundedOn(Lower, Nat)
  BY Zenon, NatLessThanWellFounded DEF Lower, OpToRel
<1>2. PICK m \in S : \A k \in S : <<k, m>> \notin Lower
  BY <1>1, WFMin
<1>3. ASSUME NEW k \in S, k < m PROVE FALSE
  <2>1. <<k, m>> \in Lower
    BY <1>3 DEF Lower
  <2> QED BY <1>2, <2>1
<1> QED BY <1>3

(* g doubles from 1, up to n. *)
Doubling(g, n) == g[0] = 1 /\ \A k \in 1 .. n : g[k] = 2 * g[k - 1]

(* Up to every n there is such a function, *)
LEMMA DoublingExists ==
  ASSUME NEW n \in Nat
  PROVE  \E g \in [0 .. n -> Nat] : Doubling(g, n)
<1> DEFINE Bad == {x \in Nat : ~ \E g \in [0 .. x -> Nat] : Doubling(g, x)}
<1> SUFFICES ASSUME Bad # {} PROVE FALSE
  OBVIOUS
<1>1. PICK m \in Bad : \A k \in Bad : ~ (k < m)
  <2>1. Bad \in SUBSET Nat
    OBVIOUS
  <2> HIDE DEF Bad
  <2> QED BY <2>1, LeastOf
<1>2. CASE m = 0
  <2> DEFINE g == [x \in 0 .. 0 |-> 1]
  <2>1. g \in [0 .. 0 -> Nat] /\ Doubling(g, 0)
    BY DEF Doubling
  <2> QED BY <1>1, <1>2, <2>1
<1>3. CASE m # 0
  <2>1. m \in Nat /\ m - 1 \in Nat /\ m - 1 < m
    BY <1>1, <1>3
  <2>2. PICK g \in [0 .. m - 1 -> Nat] : Doubling(g, m - 1)
    BY <1>1, <2>1
  <2> DEFINE h == [x \in 0 .. m |-> IF x = m THEN 2 * g[m - 1] ELSE g[x]]
  <2>3. h \in [0 .. m -> Nat]
    BY <2>1, <2>2
  <2>4. h[0] = 1
    BY <1>3, <2>1, <2>2 DEF Doubling
  <2>5. ASSUME NEW k \in 1 .. m PROVE h[k] = 2 * h[k - 1]
    <3>1. CASE k = m
      BY <2>1, <3>1
    <3>2. CASE k # m
      <4>1. k \in 1 .. m - 1 /\ k \in 0 .. m /\ k - 1 \in 0 .. m /\ k - 1 # m
        BY <2>1, <3>2
      <4>2. g[k] = 2 * g[k - 1]
        BY <2>2, <4>1 DEF Doubling
      <4> QED BY <3>2, <4>1, <4>2
    <3> QED BY <3>1, <3>2
  <2>6. Doubling(h, m)
    BY <2>4, <2>5 DEF Doubling
  <2> HIDE DEF h
  <2> QED BY <1>1, <2>3, <2>6
<1> QED BY <1>2, <1>3

(* and two of them agree; *)
LEMMA DoublingUnique ==
  ASSUME NEW n \in Nat, NEW m \in Nat, NEW g, NEW h, Doubling(g, n), Doubling(h, m),
         NEW k \in Nat, k <= n, k <= m
  PROVE  g[k] = h[k]
<1> DEFINE Bad == {x \in Nat : x <= n /\ x <= m /\ g[x] # h[x]}
<1> SUFFICES ASSUME Bad # {} PROVE FALSE
  OBVIOUS
<1>1. PICK b \in Bad : \A x \in Bad : ~ (x < b)
  <2>1. Bad \in SUBSET Nat
    OBVIOUS
  <2> HIDE DEF Bad
  <2> QED BY <2>1, LeastOf
<1>2. b # 0
  BY <1>1 DEF Doubling
<1>3. b - 1 \in Nat /\ b - 1 <= n /\ b - 1 <= m /\ b - 1 < b /\ b \in 1 .. n /\ b \in 1 .. m
  BY <1>1, <1>2
<1>4. g[b - 1] = h[b - 1]
  BY <1>1, <1>3
<1>5. g[b] = 2 * g[b - 1] /\ h[b] = 2 * h[b - 1]
  BY <1>3 DEF Doubling
<1> QED BY <1>1, <1>4, <1>5

(* so the recursive definition defines one. *)
LEMMA Halves ==
  /\ halving[0] = 1
  /\ \A n \in Nat \ {0} : halving[n] = 2 * halving[n - 1]
<1> DEFINE G(n) == CHOOSE g \in [0 .. n -> Nat] : Doubling(g, n)
           f == [n \in Nat |-> G(n)[n]]
           Body(p) == [n \in Nat |-> IF n = 0 THEN 1 ELSE 2 * p[n - 1]]
<1>1. \A n \in Nat : G(n) \in [0 .. n -> Nat] /\ Doubling(G(n), n)
  BY DoublingExists
<1>2. f[0] = 1
  BY <1>1 DEF Doubling
<1>3. ASSUME NEW n \in Nat, n # 0 PROVE f[n] = 2 * f[n - 1]
  <2>1. n - 1 \in Nat /\ n \in 1 .. n /\ n - 1 <= n /\ n - 1 <= n - 1
    BY <1>3
  <2>2. G(n)[n] = 2 * G(n)[n - 1]
    BY <1>1, <2>1 DEF Doubling
  <2>3. G(n)[n - 1] = G(n - 1)[n - 1]
    <3> HIDE DEF G
    <3> QED BY <1>1, <2>1, DoublingUnique
  <2>4. f[n] = G(n)[n] /\ f[n - 1] = G(n - 1)[n - 1]
    BY <2>1
  <2> QED BY <2>2, <2>3, <2>4
<1>4. f = Body(f)
  <2> HIDE DEF f
  <2>1. f = [n \in Nat |-> f[n]]
    BY DEF f
  <2> QED BY <1>2, <1>3, <2>1
<1>5. halving = Body(halving)
  <2> HIDE DEF f
  <2> QED BY <1>4 DEF halving
<1> QED
  <2>1. \A n \in Nat : halving[n] = Body(halving)[n]
    BY <1>5
  <2>2. \A n \in Nat : Body(halving)[n] = IF n = 0 THEN 1 ELSE 2 * halving[n - 1]
    OBVIOUS
  <2> HIDE DEF Body
  <2> QED BY <2>1, <2>2
(* From two weeks on, a quarter is left at most. *)
LEMMA Quartered ==
  ASSUME NEW n \in Nat
  PROVE  /\ halving[n] \in Nat /\ halving[n] >= 1
         /\ n >= 2 => halving[n] >= 4
<1> DEFINE Right(x) == /\ halving[x] \in Nat /\ halving[x] >= 1
                       /\ x >= 1 => halving[x] >= 2
                       /\ x >= 2 => halving[x] >= 4
           Bad == {x \in Nat : ~ Right(x)}
<1> SUFFICES ASSUME Bad # {} PROVE FALSE
  OBVIOUS
<1>1. PICK b \in Bad : \A x \in Bad : ~ (x < b)
  <2>1. Bad \in SUBSET Nat
    OBVIOUS
  <2> HIDE DEF Bad
  <2> QED BY <2>1, LeastOf
<1>2. CASE b = 0
  BY <1>1, <1>2, Halves
<1>3. CASE b # 0
  <2>1. b - 1 \in Nat /\ b - 1 < b /\ b \in Nat \ {0}
    BY <1>1, <1>3
  <2>2. Right(b - 1)
    BY <1>1, <2>1
  <2>3. halving[b] = 2 * halving[b - 1]
    BY <2>1, Halves
  <2>4. b >= 2 => b - 1 >= 1
    BY <2>1
  <2>5. Right(b)
    BY <2>1, <2>2, <2>3, <2>4
  <2> QED BY <1>1, <2>5
<1> QED BY <1>2, <1>3

(* Who is confident has succeeded within a week. *)
LEMMA ConfidentIsRecent ==
  ASSUME Tables, NEW d \in DOMAIN mapping, Confident(d)
  PROVE  week - mapping[d].lastSuccess <= 1
<1> DEFINE row == mapping[d]
           total == row.successes + row.failures
           age == week - row.lastSuccess
           halved == halving[age]
<1>1. /\ row.successes \in Nat /\ row.failures \in Nat /\ row.lastSuccess \in Nat
      /\ week \in Nat /\ row.lastSuccess <= week
  BY DEF Tables, Row
<1>2. age \in Nat
  BY <1>1
<1>3. halved \in Nat /\ (age >= 2 => halved >= 4)
  <2> HIDE DEF age
  <2> QED BY <1>2, Quartered
<1>4. IF total < 3 THEN 3 * halved <= 10 ELSE 10 * row.successes >= 3 * total * halved
  BY DEF Confident
<1> SUFFICES ASSUME age >= 2 PROVE FALSE
  BY <1>2
<1>5. CASE total < 3
  <2> HIDE DEF halved, total, age
  <2> QED BY <1>3, <1>4, <1>5
<1>6. CASE ~ (total < 3)
  <2> DEFINE a == row.successes
             b == 3 * total
  <2>1. a \in Nat /\ total \in Nat /\ a <= total /\ total >= 3
    BY <1>1, <1>6
  <2>2. 10 * a >= b * halved
    BY <1>4, <1>6
  <2>3. b \in Nat /\ b * 4 = 12 * total /\ b * 4 > 10 * a
    <3> HIDE DEF total, a
    <3> QED BY <2>1
  <2>4. b * halved >= b * 4
    <3> HIDE DEF halved, b, age
    <3>1. halved \in Nat /\ halved >= 4
      BY <1>3
    <3>2. b * (halved - 4) >= 0
      BY <2>3, <3>1
    <3> QED BY <2>3, <3>1, <3>2
  <2> HIDE DEF halved, a, b
  <2>5. b * halved \in Nat /\ b * 4 \in Nat /\ 10 * a \in Nat
    BY <1>3, <2>1, <2>3
  <2> QED BY <2>2, <2>3, <2>4, <2>5
<1> QED BY <1>5, <1>6

-----------------------------------------------------------------------------
(* Names and tables.                                                        *)

(* A name that is not shared is made for one strategy. *)
LEMMA MadeOnce ==
  ASSUME NEW m \in Made, NEW n \in Made, m.name = n.name, ~ SharedName(m.name)
  PROVE  m = n
<1> SUFFICES ASSUME m # n PROVE FALSE
  OBVIOUS
<1>1. n \in Made \ {m}
  OBVIOUS
<1>2. m \in {x \in Made : \E y \in Made \ {x} : y.name = x.name}
  BY <1>1
<1> QED BY <1>2 DEF SharedName, SharedNames

(* In the tables a name that is not shared stands for what belongs to it, *)
LEMMA KnownIsStored ==
  ASSUME Tables, NEW name \in DOMAIN strategies, NEW techniques,
         Known(name, techniques), ~ SharedName(name)
  PROVE  strategies[name] = techniques
BY DEF Tables, Telling, Known, SharedName

(* and what they hold belongs together. *)
LEMMA StoredIsKnown ==
  ASSUME Tables, NEW name \in DOMAIN strategies
  PROVE  Known(name, strategies[name])
<1>1. CASE SharedName(name)
  BY <1>1 DEF Known
<1>2. CASE ~ SharedName(name)
  BY <1>2 DEF Known, Tables, Telling, SharedName
<1> QED BY <1>1, <1>2

(* A best that may be made belongs together. *)
LEMMA MadeIsKnown ==
  ASSUME NEW x, IsMade(x)
  PROVE  Known(x.name, x.techniques)
BY DEF IsMade, Known

-----------------------------------------------------------------------------
(* What a step of some search does to the tables.                           *)

(* Within a week, nothing that was learned gets lost. *)
StrategiesGrow ==
  \A name \in DOMAIN strategies :
    /\ name \in DOMAIN strategies'
    /\ ~ SharedName(name) => strategies'[name] = strategies[name]

MappingGrows ==
  \A d \in DOMAIN mapping :
    d \in DOMAIN mapping' /\ mapping'[d].lastSuccess >= mapping[d].lastSuccess

ConfirmedGrows ==
  \A d \in Domains : \A x \in DOMAIN confirmed[d] :
    x \in DOMAIN confirmed'[d] /\ confirmed'[d][x] >= confirmed[d][x]

Learns == week' = week /\ StrategiesGrow /\ MappingGrows /\ ConfirmedGrows

(* A step that leaves the tables alone keeps what is said of them. *)
LEMMA LearnsNothing ==
  ASSUME Tables, UNCHANGED <<strategies, mapping, week, confirmed>>
  PROVE  Learns /\ Tables' /\ (MappedIsConfirmed => MappedIsConfirmed')
<1>1. Learns
  <2>1. \A d \in DOMAIN mapping : mapping[d].lastSuccess \in Nat
    BY DEF Tables, Row
  <2>2. \A d \in Domains : \A x \in DOMAIN confirmed[d] : confirmed[d][x] \in Nat
    BY DEF Tables
  <2> QED BY <2>1, <2>2 DEF Learns, StrategiesGrow, MappingGrows, ConfirmedGrows
<1>2. Tables'
  BY DEF Tables, Telling
<1>3. MappedIsConfirmed => MappedIsConfirmed'
  BY DEF MappedIsConfirmed, ConfirmedFor
<1> QED BY <1>1, <1>2, <1>3

(* What stays known, recent and fresh. *)
LEMMA KnownStays ==
  ASSUME Learns, NEW name, NEW techniques, Known(name, techniques)
  PROVE  Known(name, techniques)'
BY DEF Learns, StrategiesGrow, Known

(* What came later is as recent. *)
LEMMA LaterIsRecent ==
  ASSUME NEW w \in Nat, NEW x \in Nat, NEW y \in Nat, w - x <= 1, y >= x
  PROVE  w - y <= 1
OBVIOUS

(* What was confirmed recently still is after a step that is no week's. *)
LEMMA RecentStays ==
  ASSUME Tables, Tables', Learns, NEW x, Recent(x)
  PROVE  Recent(x)'
<1>1. PICK d \in Domains : x \in DOMAIN confirmed[d] /\ week - confirmed[d][x] <= 1
  BY DEF Recent
<1>2. /\ x \in DOMAIN confirmed'[d] /\ confirmed'[d][x] >= confirmed[d][x]
      /\ confirmed[d][x] \in Nat /\ confirmed'[d][x] \in Nat
      /\ week \in Nat /\ week' = week
  BY <1>1 DEF Learns, ConfirmedGrows, Tables
<1>3. week' - confirmed'[d][x] <= 1
  BY <1>1, <1>2
<1> QED BY <1>2, <1>3 DEF Recent

(* So is what was confirmed this week, *)
LEMMA FreshStays ==
  ASSUME Tables, Tables', Learns, NEW t, t.domain \in Domains, Fresh(t)
  PROVE  Fresh(t)'
<1> DEFINE d == t.domain
           x == t.best.techniques
<1>1. /\ x \in DOMAIN confirmed'[d] /\ confirmed'[d][x] >= confirmed[d][x]
      /\ confirmed[d][x] \in Nat /\ confirmed'[d][x] \in Nat /\ confirmed'[d][x] <= week'
      /\ week' = week /\ confirmed[d][x] = week
  BY DEF Fresh, Learns, ConfirmedGrows, Tables
<1>2. confirmed'[d][x] = week'
  BY <1>1
<1> QED BY <1>1, <1>2 DEF Fresh

(* The candidates of a search. *)
Held(cs) ==
  \A k \in 1 .. Len(cs) :
    Known(cs[k].name, cs[k].techniques) /\ (SharedName(cs[k].name) \/ Recent(cs[k].techniques))

(* and what a search holds is still right. *)
LEMMA HeldStays ==
  ASSUME Tables, Tables', Learns, NEW cs, Held(cs)
  PROVE  Held(cs)'
BY KnownStays, RecentStays DEF Held

(* So what a search holds stays sound while another one moves. *)
LEMMA SoundStays ==
  ASSUME Tables, Tables', Learns, NEW t, t.domain \in Domains, Sound(t)
  PROVE  Sound(t)'
<1>1. Held(t.candidates)'
  BY HeldStays DEF Sound, Held
<1>2. t.at = "read best" =>
        t.domain \in DOMAIN mapping' /\ week' - mapping'[t.domain].lastSuccess <= 1
  <2> SUFFICES ASSUME t.at = "read best"
               PROVE  t.domain \in DOMAIN mapping' /\ week' - mapping'[t.domain].lastSuccess <= 1
    OBVIOUS
  <2>1. t.domain \in DOMAIN mapping /\ week - mapping[t.domain].lastSuccess <= 1
    BY DEF Sound
  <2>2. /\ t.domain \in DOMAIN mapping'
        /\ mapping'[t.domain].lastSuccess >= mapping[t.domain].lastSuccess
    BY <2>1 DEF Learns, MappingGrows
  <2>3. mapping[t.domain].lastSuccess \in Nat /\ mapping'[t.domain].lastSuccess \in Nat
    BY <2>1, <2>2 DEF Tables, Row
  <2>4. week \in Nat /\ week' = week
    BY DEF Tables, Learns
  <2>5. week - mapping'[t.domain].lastSuccess <= 1
    BY <2>1, <2>2, <2>3, <2>4, LaterIsRecent
  <2> QED BY <2>2, <2>4, <2>5
<1>3. Fresh(t) => Fresh(t)'
  BY FreshStays
<1>4. Known(t.best.name, t.best.techniques) => Known(t.best.name, t.best.techniques)'
  BY KnownStays
<1>5. t.best.name \in DOMAIN strategies => t.best.name \in DOMAIN strategies'
  BY DEF Learns, StrategiesGrow
<1> QED BY <1>1, <1>2, <1>3, <1>4, <1>5 DEF Sound, Held

(* Only counts change. *)
RowsStay ==
  /\ DOMAIN mapping' = DOMAIN mapping
  /\ \A d \in DOMAIN mapping :
       /\ mapping'[d] \in Row(DOMAIN strategies)
       /\ mapping'[d].strategy = mapping[d].strategy
       /\ mapping'[d].lastSuccess = mapping[d].lastSuccess

(* A failure counted changes no strategy and no week of success. *)
LEMMA CountsOnly ==
  ASSUME Tables, NEW d \in Domains, CountFailure(d)
  PROVE  RowsStay /\ UNCHANGED <<strategies, week>>
<1>1. UNCHANGED <<strategies, week>>
  BY DEF CountFailure
<1>2. CASE d \notin DOMAIN mapping
  BY <1>2 DEF CountFailure, Mapped, RowsStay, Tables
<1>3. CASE d \in DOMAIN mapping
  <2>1. mapping' = [mapping EXCEPT ![d] = [mapping[d] EXCEPT !.failures = mapping[d].failures + 1]]
    BY <1>3 DEF CountFailure, Mapped
  <2> DEFINE row == [mapping[d] EXCEPT !.failures = mapping[d].failures + 1]
  <2>2. mapping[d] \in Row(DOMAIN strategies)
    BY <1>3 DEF Tables
  <2>3. /\ row \in Row(DOMAIN strategies)
        /\ row.strategy = mapping[d].strategy /\ row.lastSuccess = mapping[d].lastSuccess
    BY <2>2 DEF Row
  <2>4. /\ DOMAIN mapping' = DOMAIN mapping /\ mapping'[d] = row
        /\ \A e \in DOMAIN mapping : e # d => mapping'[e] = mapping[e]
    <3> HIDE DEF row
    <3> QED BY <1>3, <2>1 DEF row
  <2> HIDE DEF row
  <2> QED BY <1>1, <2>3, <2>4 DEF RowsStay, Tables
<1> QED BY <1>1, <1>2, <1>3

(* Rows that are unchanged stay. *)
LEMMA RowsUnchanged ==
  ASSUME Tables, mapping' = mapping
  PROVE  RowsStay
BY DEF Tables, RowsStay

(* What a confirmation adds. *)
LEMMA ConfirmedAdds ==
  ASSUME Tables, NEW t, t.domain \in Domains, NEW ok \in BOOLEAN, Confirmed(t, ok)
  PROVE  /\ DOMAIN confirmed' = Domains
         /\ ConfirmedGrows
         /\ \A d \in Domains : \A x \in DOMAIN confirmed'[d] :
              confirmed'[d][x] \in Nat /\ confirmed'[d][x] <= week
         /\ ok => /\ t.best.techniques \in DOMAIN confirmed'[t.domain]
                  /\ confirmed'[t.domain][t.best.techniques] = week
<1> DEFINE c == confirmed[t.domain]
           x == t.best.techniques
           new == Upsert(c, x, week)
<1>0. /\ DOMAIN confirmed = Domains /\ week \in Nat
      /\ \A d \in Domains : \A y \in DOMAIN confirmed[d] :
           confirmed[d][y] \in Nat /\ confirmed[d][y] <= week
  BY DEF Tables
<1>1. CASE ~ ok
  BY <1>0, <1>1 DEF Confirmed, ConfirmedGrows
<1>2. CASE ok
  <2>1. confirmed' = [confirmed EXCEPT ![t.domain] = new]
    BY <1>2 DEF Confirmed
  <2>2. /\ DOMAIN new = DOMAIN c \cup {x} /\ new[x] = week
        /\ \A z \in DOMAIN c : z # x => new[z] = c[z]
    BY DEF Upsert
  <2>3. /\ DOMAIN confirmed' = Domains /\ confirmed'[t.domain] = new
        /\ \A e \in Domains : e # t.domain => confirmed'[e] = confirmed[e]
    <3> HIDE DEF new
    <3> QED BY <1>0, <2>1
  <2>4. \A z \in DOMAIN c : c[z] \in Nat /\ c[z] <= week
    BY <1>0
  <2>5. \A z \in DOMAIN new : new[z] \in Nat /\ new[z] <= week
    <3> HIDE DEF new, c
    <3> QED BY <1>0, <2>2, <2>4
  <2>6. \A z \in DOMAIN c : z \in DOMAIN new /\ new[z] >= c[z]
    <3> HIDE DEF new, c
    <3> QED BY <1>0, <2>2, <2>4
  <2>7. ConfirmedGrows
    <3> SUFFICES ASSUME NEW d \in Domains, NEW z \in DOMAIN confirmed[d]
                 PROVE  z \in DOMAIN confirmed'[d] /\ confirmed'[d][z] >= confirmed[d][z]
      BY DEF ConfirmedGrows
    <3>1. CASE d = t.domain
      <4> HIDE DEF new
      <4> QED BY <2>3, <2>6, <3>1
    <3>2. CASE d # t.domain
      <4> HIDE DEF new
      <4> QED BY <1>0, <2>3, <3>2
    <3> QED BY <3>1, <3>2
  <2> HIDE DEF new
  <2> QED BY <1>0, <1>2, <2>2, <2>3, <2>5, <2>7
<1> QED BY <1>1, <1>2

(* A step that changes counts and confirmations alone. *)
LEMMA CountsLearn ==
  ASSUME Tables, MappedIsConfirmed, RowsStay, UNCHANGED <<strategies, week>>,
         DOMAIN confirmed' = Domains, ConfirmedGrows,
         \A d \in Domains : \A x \in DOMAIN confirmed'[d] :
           confirmed'[d][x] \in Nat /\ confirmed'[d][x] <= week
  PROVE  Learns /\ Tables' /\ MappedIsConfirmed'
<1>1. Learns
  <2>1. \A d \in DOMAIN mapping : mapping[d].lastSuccess \in Nat
    BY DEF Tables, Row
  <2> QED BY <2>1 DEF Learns, StrategiesGrow, MappingGrows, RowsStay
<1>2. Tables'
  BY DEF Tables, Telling, RowsStay
<1>3. MappedIsConfirmed'
  <2> SUFFICES ASSUME NEW d \in DOMAIN mapping', ~ SharedName(mapping'[d].strategy)
               PROVE  ConfirmedFor(d)'
    BY DEF MappedIsConfirmed, SharedName
  <2> DEFINE x == strategies[mapping[d].strategy]
             y == mapping[d].lastSuccess
  <2>1. /\ d \in DOMAIN mapping /\ d \in Domains /\ mapping'[d].strategy = mapping[d].strategy
        /\ mapping'[d].lastSuccess = y /\ y \in Nat
    BY DEF RowsStay, Tables, Row
  <2>2. x \in DOMAIN confirmed[d] /\ confirmed[d][x] >= y /\ confirmed[d][x] \in Nat
    BY <2>1 DEF MappedIsConfirmed, ConfirmedFor, Tables, SharedName
  <2>3. /\ x \in DOMAIN confirmed'[d] /\ confirmed'[d][x] >= confirmed[d][x]
        /\ confirmed'[d][x] \in Nat
    BY <2>1, <2>2 DEF ConfirmedGrows
  <2>4. confirmed'[d][x] >= y
    <3> HIDE DEF x, y
    <3> QED BY <2>1, <2>2, <2>3
  <2> QED BY <2>1, <2>3, <2>4 DEF ConfirmedFor
<1> QED BY <1>1, <1>2, <1>3

(* A confirmation probe, with or without a failure counted, keeps what is said of the tables. *)
LEMMA ConfirmLearns ==
  ASSUME Tables, MappedIsConfirmed, RowsStay, UNCHANGED <<strategies, week>>,
         NEW t, t.domain \in Domains, NEW ok \in BOOLEAN, Confirmed(t, ok)
  PROVE  /\ Learns /\ Tables' /\ MappedIsConfirmed'
         /\ ok => Fresh(t)'
<1>1. Learns /\ Tables' /\ MappedIsConfirmed'
  BY ConfirmedAdds, CountsLearn
<1>2. ok => Fresh(t)'
  BY ConfirmedAdds DEF Fresh
<1> QED BY <1>1, <1>2

(* So does a failure counted. *)
LEMMA CountLearns ==
  ASSUME Tables, MappedIsConfirmed, RowsStay, UNCHANGED <<strategies, week, confirmed>>
  PROVE  Learns /\ Tables' /\ MappedIsConfirmed'
<1>1. /\ DOMAIN confirmed' = Domains /\ ConfirmedGrows
      /\ \A d \in Domains : \A x \in DOMAIN confirmed'[d] :
           confirmed'[d][x] \in Nat /\ confirmed'[d][x] <= week
  BY DEF Tables, ConfirmedGrows
<1> QED BY <1>1, CountsLearn

(* save_strategy of what belongs together changes no strategy of a name that *)
(* is not shared.                                                            *)
LEMMA PutLearns ==
  ASSUME Tables, MappedIsConfirmed, NEW name \in Names, NEW techniques \in Techniques,
         Known(name, techniques), PutStrategy(name, techniques), UNCHANGED confirmed
  PROVE  Learns /\ Tables' /\ MappedIsConfirmed' /\ name \in DOMAIN strategies'
<1>0. /\ strategies' = Upsert(strategies, name, techniques)
      /\ UNCHANGED <<mapping, week, confirmed>>
  BY DEF PutStrategy
<1>1. /\ DOMAIN strategies' = DOMAIN strategies \cup {name} /\ strategies'[name] = techniques
      /\ \A z \in DOMAIN strategies : z # name => strategies'[z] = strategies[z]
  BY <1>0 DEF Upsert
<1>2. \A z \in DOMAIN strategies : ~ SharedName(z) => strategies'[z] = strategies[z]
  BY <1>1, KnownIsStored
<1>3. Learns
  <2>1. \A d \in DOMAIN mapping : mapping[d].lastSuccess \in Nat
    BY DEF Tables, Row
  <2>2. ConfirmedGrows
    BY <1>0 DEF Tables, ConfirmedGrows
  <2> QED BY <1>0, <1>1, <1>2, <2>1, <2>2 DEF Learns, StrategiesGrow, MappingGrows
<1>4. Telling'
  <2> SUFFICES ASSUME NEW z \in DOMAIN strategies', ~ SharedName(z), NEW m \in Made, m.name = z
               PROVE  strategies'[z] = m.techniques
    BY DEF Telling, SharedName
  <2>1. CASE z \in DOMAIN strategies
    BY <1>2, <2>1 DEF Tables, Telling, SharedName
  <2>2. CASE z \notin DOMAIN strategies
    <3>1. z = name
      BY <1>1, <2>2
    <3>2. PICK n \in Made : n.name = name /\ n.techniques = techniques
      BY <2>2, <3>1 DEF Known, SharedName
    <3>3. m = n
      BY <3>1, <3>2, MadeOnce
    <3> QED BY <1>1, <3>1, <3>2, <3>3
  <2> QED BY <2>1, <2>2
<1>5. Tables'
  <2>1. \A d \in DOMAIN mapping' :
          mapping'[d] \in Row(DOMAIN strategies') /\ mapping'[d].lastSuccess <= week'
    <3> SUFFICES ASSUME NEW d \in DOMAIN mapping
                 PROVE  mapping[d] \in Row(DOMAIN strategies') /\ mapping[d].lastSuccess <= week
      BY <1>0
    <3>1. mapping[d] \in Row(DOMAIN strategies) /\ mapping[d].lastSuccess <= week
      BY DEF Tables
    <3>2. DOMAIN strategies \subseteq DOMAIN strategies'
      BY <1>1
    <3> QED BY <3>1, <3>2 DEF Row
  <2>2. \A z \in DOMAIN strategies' : z \in Names /\ strategies'[z] \in Techniques
    BY <1>1 DEF Tables
  <2> QED BY <1>0, <1>4, <2>1, <2>2 DEF Tables
<1>6. MappedIsConfirmed'
  <2> SUFFICES ASSUME NEW d \in DOMAIN mapping, ~ SharedName(mapping[d].strategy)
               PROVE  ConfirmedFor(d)'
    BY <1>0 DEF MappedIsConfirmed, SharedName
  <2>1. mapping[d].strategy \in DOMAIN strategies
    BY DEF Tables, Row
  <2>2. ConfirmedFor(d)
    BY DEF MappedIsConfirmed
  <2> QED BY <1>0, <1>2, <2>1, <2>2 DEF ConfirmedFor
<1> QED BY <1>1, <1>3, <1>5, <1>6

(* update_domain_strategy after the confirmations. *)
LEMMA MapLearns ==
  ASSUME Tables, MappedIsConfirmed, NEW t, t.domain \in Domains, t.best.score \in Nat,
         Known(t.best.name, t.best.techniques), SharedName(t.best.name) \/ Fresh(t),
         t.best.name \in DOMAIN strategies,
         PutMapping(t.domain, t.best.name, t.best.score), UNCHANGED confirmed
  PROVE  Learns /\ Tables' /\ MappedIsConfirmed'
<1> DEFINE d == t.domain
           n == IF Mapped(d) THEN mapping[d].successes + 1 ELSE 1
           row == [strategy |-> t.best.name, score |-> t.best.score, lastSuccess |-> week,
                   failures |-> 0, successes |-> n]
<1>0. mapping' = Upsert(mapping, d, row) /\ UNCHANGED <<strategies, week, confirmed>>
  BY DEF PutMapping
<1>1. /\ DOMAIN mapping' = DOMAIN mapping \cup {d} /\ mapping'[d] = row
      /\ \A e \in DOMAIN mapping : e # d => mapping'[e] = mapping[e]
  <2> HIDE DEF row
  <2> QED BY <1>0 DEF Upsert
<1>2. n \in Nat
  BY DEF Tables, Row, Mapped
<1>3. /\ row \in Row(DOMAIN strategies) /\ row.lastSuccess = week
      /\ row.strategy = t.best.name
  <2> HIDE DEF n
  <2> QED BY <1>2 DEF Row, Tables
<1>4. /\ week \in Nat /\ \A e \in DOMAIN mapping : mapping[e].lastSuccess \in Nat
      /\ \A e \in DOMAIN mapping : mapping[e].lastSuccess <= week
  BY DEF Tables, Row
<1> HIDE DEF row
<1>5. Learns
  <2>1. ConfirmedGrows
    BY <1>0 DEF Tables, ConfirmedGrows
  <2>2. MappingGrows
    BY <1>1, <1>3, <1>4 DEF MappingGrows
  <2> QED BY <1>0, <2>1, <2>2 DEF Learns, StrategiesGrow
<1>6. Tables'
  <2>1. DOMAIN mapping' \subseteq Domains
    BY <1>1 DEF Tables
  <2>2. \A e \in DOMAIN mapping' :
          mapping'[e] \in Row(DOMAIN strategies) /\ mapping'[e].lastSuccess <= week
    BY <1>1, <1>3, <1>4 DEF Tables
  <2> QED BY <1>0, <2>1, <2>2 DEF Tables, Telling
<1>7. MappedIsConfirmed'
  <2> SUFFICES ASSUME NEW e \in DOMAIN mapping', ~ SharedName(mapping'[e].strategy)
               PROVE  ConfirmedFor(e)'
    BY DEF MappedIsConfirmed, SharedName
  <2>1. CASE e = d
    <3>1. mapping'[e].strategy = t.best.name /\ mapping'[e].lastSuccess = week
      BY <1>1, <1>3, <2>1
    <3>2. strategies[t.best.name] = t.best.techniques
      BY <3>1, KnownIsStored
    <3>3. Fresh(t)
      BY <3>1 DEF SharedName
    <3> QED BY <1>0, <1>4, <2>1, <3>1, <3>2, <3>3 DEF Fresh, ConfirmedFor
  <2>2. CASE e # d
    <3>1. e \in DOMAIN mapping /\ mapping'[e] = mapping[e]
      BY <1>1, <2>2
    <3> QED BY <1>0, <3>1 DEF MappedIsConfirmed, ConfirmedFor, SharedName
  <2> QED BY <2>1, <2>2
<1> QED BY <1>5, <1>6, <1>7

-----------------------------------------------------------------------------
(* What a search writes into its variables.                                 *)

(* The types of the constants. *)
LEMMA Constants ==
  /\ Sweep \in Seq(STRING) /\ Len(Sweep) \in Nat \ {0}
  /\ Positions \in Seq(STRING) /\ Len(Positions) \in Nat \ {0}
  /\ Stealth \in Seq(STRING \X STRING) /\ Len(Stealth) \in Nat \ {0}
  /\ Sni \in STRING /\ MaxProbes \in Nat
  /\ Outcomes \subseteq Nat
  /\ Cardinality(Diagnostics) \in Nat
<1>1. Cardinality(Diagnostics) \in Nat
  <2>1. IsFiniteSet({}) /\ IsFiniteSet({"tls_record_frag"})
    BY FS_EmptySet, FS_AddElement
  <2>2. IsFiniteSet({} \cup {"tls_record_frag"})
    BY <2>1, FS_AddElement
  <2>3. IsFiniteSet(({} \cup {"tls_record_frag"}) \cup {"tcp_split"})
    BY <2>2, FS_AddElement
  <2>4. IsFiniteSet((({} \cup {"tls_record_frag"}) \cup {"tcp_split"}) \cup {"sni_manip"})
    BY <2>3, FS_AddElement
  <2>5. IsFiniteSet(((({} \cup {"tls_record_frag"}) \cup {"tcp_split"}) \cup {"sni_manip"})
                      \cup {"disorder"})
    BY <2>4, FS_AddElement
  <2>6. Diagnostics = ((({} \cup {"tls_record_frag"}) \cup {"tcp_split"}) \cup {"sni_manip"})
                        \cup {"disorder"}
    BY DEF Diagnostics
  <2> QED BY <2>5, <2>6, FS_CardinalityType
<1>2. Outcomes \subseteq Nat
  BY StoreAssumption DEF Outcomes
<1>3. Len(Sweep) \in Nat \ {0}
  BY SearchAssumption, LenProperties
<1>4. Len(Positions) \in Nat \ {0}
  BY SearchAssumption, LenProperties
<1>5. Len(Stealth) \in Nat \ {0}
  BY SearchAssumption, LenProperties
<1>6. Sweep \in Seq(STRING)
  BY SearchAssumption
<1>7. Sni \in STRING /\ MaxProbes \in Nat
  BY SearchAssumption
<1> QED BY <1>1, <1>2, <1>3, <1>4, <1>5, <1>6, <1>7, SearchAssumption

(* The entries of the lists, by their place. *)
LEMMA Elements ==
  /\ \A k \in 1 .. Len(Sweep) : Sweep[k] \in Range(Sweep) /\ Sweep[k] \in STRING
  /\ \A k \in 1 .. Len(Positions) : Positions[k] \in Range(Positions) /\ Positions[k] \in STRING
  /\ \A k \in 1 .. Len(Stealth) : Stealth[k] \in Range(Stealth)
BY Constants, LenProperties, ElementOfSeq DEF Range

(* The name and techniques of a strategy that a search makes are typed. *)
LEMMA MadeIsTyped ==
  ASSUME NEW x, IsMade(x)
  PROVE  x.name \in Names /\ x.techniques \in Techniques
BY DEF IsMade, Names, Techniques

(* So is the strategy that stands for none. *)
LEMMA NoneIsTyped == NoStrategy \in Best /\ NoStrategy.score = 0
BY DEF NoStrategy, Best, Names, Techniques

(* The strategies made, by who makes them. *)
Winners == {Winner(d, l, 0) : d \in Domains, l \in Range(Sweep)}
Variations == {Variation(l, p, 0) : l \in Range(Sweep), p \in Range(Positions)}
Stealthies == {Stealthy(pair, 0) : pair \in Range(Stealth)}
Plain(l, p) == Morph(l, p, FALSE, 0)
Morphs == {Plain(l, p) : l \in Labels, p \in Range(Positions)}
MorphsAtSni == {Morph(l, Sni, stealth, 0) : l \in Labels, stealth \in BOOLEAN}

(* The strategies that searches make, by kind, *)
LEMMA MadeAre == Made = Winners \cup Variations \cup Stealthies \cup Morphs \cup MorphsAtSni
BY DEF Made, Winners, Variations, Stealthies, Plain, Morphs, MorphsAtSni

(* and what each kind has. *)
LEMMA MadeHas ==
  /\ \A d \in Domains, l \in Range(Sweep) : Winner(d, l, 0) \in Made
  /\ \A l \in Range(Sweep), p \in Range(Positions) : Variation(l, p, 0) \in Made
  /\ \A pair \in Range(Stealth) : Stealthy(pair, 0) \in Made
  /\ \A l \in Labels, p \in Range(Positions) : Morph(l, p, FALSE, 0) \in Made
  /\ \A l \in Labels, stealth \in BOOLEAN : Morph(l, Sni, stealth, 0) \in Made
<1>1. \A d \in Domains, l \in Range(Sweep) : Winner(d, l, 0) \in Winners
  BY DEF Winners
<1>2. \A l \in Range(Sweep), p \in Range(Positions) : Variation(l, p, 0) \in Variations
  BY DEF Variations
<1>3. \A pair \in Range(Stealth) : Stealthy(pair, 0) \in Stealthies
  BY DEF Stealthies
<1>4. \A l \in Labels, p \in Range(Positions) : Plain(l, p) \in Morphs
  BY DEF Morphs
<1>5. \A l \in Labels, stealth \in BOOLEAN : Morph(l, Sni, stealth, 0) \in MorphsAtSni
  BY DEF MorphsAtSni, Morph
<1> QED BY <1>1, <1>2, <1>3, <1>4, <1>5, MadeAre DEF Plain

(* No strategy that is made is none. *)
LEMMA NoneIsNotMade ==
  ASSUME NEW x, IsMade(x)
  PROVE  x # NoStrategy
<1> SUFFICES ASSUME x = NoStrategy PROVE FALSE
  OBVIOUS
<1>1. PICK m \in Made : m.name = <<"none">>
  BY DEF IsMade, NoStrategy
<1>0. \A a, b, c : <<"none">> # <<a, b, c>> /\ <<"none">> # <<a, b>>
  OBVIOUS
<1>2. m \notin Winners
  <2>1. \A d, l : Winner(d, l, 0).name # <<"none">>
    BY <1>0 DEF Winner
  <2> QED BY <1>1, <2>1 DEF Winners
<1>3. m \notin Variations
  <2>1. \A l, p : Variation(l, p, 0).name # <<"none">>
    BY <1>0 DEF Variation
  <2> QED BY <1>1, <2>1 DEF Variations
<1>4. m \notin Stealthies
  <2>1. \A pair : Stealthy(pair, 0).name # <<"none">>
    BY <1>0 DEF Stealthy
  <2> QED BY <1>1, <2>1 DEF Stealthies
<1>5. m \notin Morphs
  <2>1. \A l, p : Plain(l, p).name # <<"none">>
    BY <1>0 DEF Plain, Morph
  <2> QED BY <1>1, <2>1 DEF Morphs
<1>6. m \notin MorphsAtSni
  <2>1. \A l, stealth : Morph(l, Sni, stealth, 0).name # <<"none">>
    BY <1>0 DEF Morph
  <2> QED BY <1>1, <2>1 DEF MorphsAtSni
<1> QED BY <1>2, <1>3, <1>4, <1>5, <1>6, MadeAre

(* The constructors make them: the technique that won the sweep, *)
LEMMA WinnerIsMade ==
  ASSUME NEW d \in Domains, NEW l \in Range(Sweep), NEW score \in Nat
  PROVE  Winner(d, l, score) \in Best /\ IsMade(Winner(d, l, score))
<1> DEFINE m == Winner(d, l, 0)
<1>1. m \in Made
  BY MadeHas
<1>2. m.name = Winner(d, l, score).name /\ m.techniques = Winner(d, l, score).techniques
  BY DEF Winner
<1>3. IsMade(Winner(d, l, score))
  BY <1>1, <1>2 DEF IsMade
<1> QED BY <1>3, MadeIsTyped DEF Best, Winner

(* one at another position, *)
LEMMA VariationIsMade ==
  ASSUME NEW l \in Range(Sweep), NEW p \in Range(Positions), NEW score \in Nat
  PROVE  Variation(l, p, score) \in Best /\ IsMade(Variation(l, p, score))
<1> DEFINE m == Variation(l, p, 0)
<1>1. m \in Made
  BY MadeHas
<1>2. m.name = Variation(l, p, score).name /\ m.techniques = Variation(l, p, score).techniques
  BY DEF Variation
<1>3. IsMade(Variation(l, p, score))
  BY <1>1, <1>2 DEF IsMade
<1> QED BY <1>3, MadeIsTyped DEF Best, Variation

(* one with stealth, *)
LEMMA StealthyIsMade ==
  ASSUME NEW pair \in Range(Stealth), NEW score \in Nat
  PROVE  Stealthy(pair, score) \in Best /\ IsMade(Stealthy(pair, score))
<1> DEFINE m == Stealthy(pair, 0)
<1>1. m \in Made
  BY MadeHas
<1>2. m.name = Stealthy(pair, score).name /\ m.techniques = Stealthy(pair, score).techniques
  BY DEF Stealthy
<1>3. IsMade(Stealthy(pair, score))
  BY <1>1, <1>2 DEF IsMade
<1> QED BY <1>3, MadeIsTyped DEF Best, Stealthy

(* and one of morphing_search. *)
LEMMA MorphIsMade ==
  ASSUME NEW l \in Labels, NEW p, NEW stealth \in BOOLEAN, NEW score \in Nat,
         p = Sni \/ (p \in Range(Positions) /\ ~ stealth)
  PROVE  Morph(l, p, stealth, score) \in Best /\ IsMade(Morph(l, p, stealth, score))
<1> DEFINE m == Morph(l, p, stealth, 0)
<1>1. m \in Made
  <2>1. CASE p = Sni
    BY <2>1, MadeHas
  <2>2. CASE p \in Range(Positions) /\ ~ stealth
    BY <2>2, MadeHas
  <2> QED BY <2>1, <2>2
<1>2. /\ m.name = Morph(l, p, stealth, score).name
      /\ m.techniques = Morph(l, p, stealth, score).techniques
  BY DEF Morph
<1>3. IsMade(Morph(l, p, stealth, score))
  BY <1>1, <1>2 DEF IsMade
<1> QED BY <1>3, MadeIsTyped DEF Best, Morph

(* morph names do not tell stealth. *)
LEMMA MorphIsShared ==
  ASSUME NEW l \in Labels
  PROVE  SharedName(<<"morph", l, Sni>>)
<1> DEFINE m == Morph(l, Sni, TRUE, 0)
           n == Morph(l, Sni, FALSE, 0)
<1>1. m \in Made /\ n \in Made
  BY MadeHas
<1>2. m.name = <<"morph", l, Sni>> /\ n.name = <<"morph", l, Sni>> /\ m # n
  BY DEF Morph, Single
<1> QED BY <1>1, <1>2 DEF SharedName, SharedNames

(* The better of two is one of them. *)
LEMMA BetterIs ==
  ASSUME NEW best \in Best, NEW probed \in Best
  PROVE  Better(best, probed) \in Best /\ Better(best, probed) \in {best, probed}
BY DEF Better

-----------------------------------------------------------------------------
(* The steps of one search.                                                 *)

(* What a step of s has to show: where it leaves s, the rest follows. *)
Went(s) == \E u \in Task : Become(s, u) /\ Local(u) /\ Counted(u) /\ Sound(u)'

Good(t) == t \in Task /\ Local(t) /\ Counted(t) /\ Sound(t)

(* What the invariant says of one search. *)
LEMMA Holds ==
  ASSUME Inv, NEW s \in Searchers
  PROVE  Good(task[s]) /\ Tables /\ MappedIsConfirmed
BY DEF Inv, Typed, Good

(* A search that is idle holds nothing. *)
LEMMA NothingHeld ==
  ASSUME NEW t, t.at = "idle", t.candidates = <<>>
  PROVE  Sound(t)'
BY DEF Sound, Saving

(* A step of one search: it is enough that its task is right, and that the tables kept what the others rely on. *)
LEMMA StepKeeps ==
  ASSUME Inv, NEW s \in Searchers, Went(s), Learns, Tables', MappedIsConfirmed'
  PROVE  Inv'
<1>1. PICK u \in Task : Become(s, u) /\ Local(u) /\ Counted(u) /\ Sound(u)'
  BY DEF Went
<1>2. /\ task \in [Searchers -> Task] /\ Tables
      /\ \A r \in Searchers : Good(task[r])
  BY Holds DEF Inv, Typed
<1>3. /\ task' \in [Searchers -> Task] /\ task'[s] = u
      /\ \A r \in Searchers : r # s => task'[r] = task[r]
  BY <1>1, <1>2 DEF Become
<1>4. \A r \in Searchers : Local(task[r])' /\ Counted(task[r])'
  <2> TAKE r \in Searchers
  <2>1. CASE r = s
    <3>1. Local(task'[r]) /\ Counted(task'[r])
      BY <1>1, <1>3, <2>1
    <3> QED BY <3>1 DEF Local, Counted, IsMade, MadeOrNone, Most, Unchecked, Diagnosed, MorphMost
  <2>2. CASE r # s
    <3>1. Local(task'[r]) /\ Counted(task'[r])
      BY <1>2, <1>3, <2>2 DEF Good
    <3> QED BY <3>1 DEF Local, Counted, IsMade, MadeOrNone, Most, Unchecked, Diagnosed, MorphMost
  <2> QED BY <2>1, <2>2
<1>5. \A r \in Searchers : Sound(task[r])'
  <2> TAKE r \in Searchers
  <2>1. PICK t : t = task'[r]
    OBVIOUS
  <2>2. Sound(t)'
    <3>1. CASE r = s
      BY <1>1, <1>3, <2>1, <3>1
    <3>2. CASE r # s
      <4>1. Good(t)
        BY <1>2, <1>3, <2>1, <3>2
      <4>2. CASE t.at = "idle"
        BY <4>1, <4>2, NothingHeld DEF Good, Local
      <4>3. CASE t.at # "idle"
        BY <1>2, <4>1, <4>3, SoundStays DEF Good, Local
      <4> QED BY <4>2, <4>3
    <3> QED BY <3>1, <3>2
  <2> QED BY <2>1, <2>2 DEF Sound, Known, Recent, Fresh, SharedName
<1> QED BY <1>3, <1>4, <1>5 DEF Inv, Typed

(* Where a search is about to do something that needs no more. *)
LEMMA SoundPlain ==
  ASSUME Tables, Tables', Learns, NEW u \in Task, Held(u.candidates),
         u.at \notin Saving, u.at # "read best",
         u.at \in {"guess again", "confirm", "morph confirm"} => ~ (u.oks > 0)
  PROVE  Sound(u)'
<1>1. Held(u.candidates)'
  BY HeldStays
<1>2. u.at # "map" /\ u.at # "map again"
  BY DEF Saving
<1> QED BY <1>1, <1>2 DEF Sound, Held

(* A probe counts and changes nothing else. *)
LEMMA ProbedIs ==
  ASSUME NEW t \in Task
  PROVE  /\ Probed(t) \in Task /\ Probed(t).probes = t.probes + 1 /\ Probed(t).at = t.at
         /\ Probed(t).domain = t.domain /\ Probed(t).candidates = t.candidates
         /\ Probed(t).i = t.i /\ Probed(t).j = t.j /\ Probed(t).winners = t.winners
         /\ Probed(t).best = t.best /\ Probed(t).oks = t.oks
BY DEF Probed, Task

(* The fields of an idle task. *)
LEMMA IdleIs ==
  /\ Idle \in Task /\ Idle.at = "idle" /\ Idle.domain = "none" /\ Idle.candidates = <<>>
  /\ Idle.i = 1 /\ Idle.j = 1 /\ Idle.probes = 0 /\ Idle.winners = <<>>
  /\ Idle.best = NoStrategy /\ Idle.oks = 0
<1>1. <<>> \in Seq(Candidate) /\ <<>> \in Seq(Won)
  BY EmptySeq
<1>2. NoStrategy \in Best
  BY NoneIsTyped
<1> HIDE DEF NoStrategy
<1> QED BY <1>1, <1>2 DEF Idle, Task, Places

(* An empty list holds nothing wrong. *)
LEMMA NothingIsHeld == Held(<<>>)
BY DEF Held

(* A search that ended is right. *)
LEMMA IdleWent ==
  ASSUME NEW s \in Searchers, Become(s, Idle)
  PROVE  Went(s)
<1>1. Local(Idle)
  <2> HIDE DEF Idle
  <2> QED BY IdleIs DEF Local
<1>2. Counted(Idle)
  <2> HIDE DEF Idle
  <2> QED BY IdleIs DEF Counted
<1>3. Sound(Idle)'
  <2>1. PICK u : u = Idle
    OBVIOUS
  <2>2. Sound(u)'
    BY <2>1, IdleIs, NothingHeld
  <2> QED BY <2>1, <2>2
<1> QED BY <1>1, <1>2, <1>3, IdleIs DEF Went

(* What every step of a search does. *)
Keeps(s) == Went(s) /\ Learns /\ Tables' /\ MappedIsConfirmed'

(* A step that leaves the tables alone and goes on with u, *)
LEMMA ReadKeeps ==
  ASSUME Tables, MappedIsConfirmed, UNCHANGED <<strategies, mapping, week, confirmed>>,
         NEW s \in Searchers, NEW u \in Task, Become(s, u),
         Local(u), Counted(u), u.domain \in Domains, Sound(u)
  PROVE  Keeps(s)
<1>1. Learns /\ Tables' /\ MappedIsConfirmed'
  BY LearnsNothing
<1>2. Sound(u)'
  BY <1>1, SoundStays
<1> QED BY <1>1, <1>2 DEF Keeps, Went

(* or ends the search. *)
LEMMA EndKeeps ==
  ASSUME Tables, MappedIsConfirmed, UNCHANGED <<strategies, mapping, week, confirmed>>,
         NEW s \in Searchers, Become(s, Idle)
  PROVE  Keeps(s)
BY LearnsNothing, IdleWent DEF Keeps

(* A search at the beginning, at a place where nothing has been found. *)
Begun(d, place) == [Idle EXCEPT !.domain = d, !.at = place]

(* So is one that begins. *)
LEMMA BegunIs ==
  ASSUME NEW u, NEW d \in Domains, NEW place, place \in {"read best", "read any", "classify"},
         u = Begun(d, place)
  PROVE  /\ u \in Task /\ u.at = place /\ u.domain = d /\ u.candidates = <<>> /\ u.probes = 0
         /\ Local(u) /\ Counted(u)
<1>1. place \in Places /\ d \in Domains \cup {"none"}
  BY DEF Places
<1> HIDE DEF Idle, NoStrategy
<1>2. /\ u \in Task /\ u.at = place /\ u.domain = d /\ u.candidates = <<>> /\ u.probes = 0
      /\ u.i = 1 /\ u.best = NoStrategy
      /\ u.winners = <<>> /\ u.oks = 0
  BY <1>1, IdleIs DEF Task, Begun
<1>3. Local(u)
  BY <1>2 DEF Local
<1>4. Counted(u)
  BY <1>2 DEF Counted
<1> QED BY <1>2, <1>3, <1>4

(* The step FindBest. *)
LEMMA FindBestKeeps ==
  ASSUME Inv, NEW s \in Searchers, NEW d \in Domains, FindBest(s, d), UNCHANGED confirmed
  PROVE  Keeps(s)
<1>1. Tables /\ MappedIsConfirmed
  BY DEF Inv
<1>2. UNCHANGED <<strategies, mapping, week, confirmed>>
  BY DEF FindBest, storeVars, Fails
<1>3. PICK place \in {"read best", "read any"} :
        /\ Become(s, [Idle EXCEPT !.domain = d, !.at = place])
        /\ place = "read best" => Mapped(d) /\ Confident(d)
  BY DEF FindBest
<1>4. PICK u : u = Begun(d, place)
  OBVIOUS
<1>5. /\ u \in Task /\ u.at = place /\ u.domain = d /\ u.candidates = <<>>
      /\ Local(u) /\ Counted(u)
  <2>1. CASE place = "read best"
    BY <1>4, <2>1, BegunIs
  <2>2. CASE place = "read any"
    BY <1>4, <2>2, BegunIs
  <2> QED BY <2>1, <2>2
<1>6. Become(s, u)
  BY <1>3, <1>4 DEF Begun
<1>7. Sound(u)
  <2>1. place = "read best" => d \in DOMAIN mapping /\ week - mapping[d].lastSuccess <= 1
    BY <1>1, <1>3, ConfidentIsRecent DEF Mapped
  <2>2. Held(u.candidates)
    BY <1>5, NothingIsHeld
  <2> QED BY <1>3, <1>5, <2>1, <2>2 DEF Sound, Held, Saving
<1> QED BY <1>1, <1>2, <1>5, <1>6, <1>7, ReadKeeps

(* The step Start. *)
LEMMA StartKeeps ==
  ASSUME Inv, NEW s \in Searchers, NEW d \in Domains, Start(s, d)
  PROVE  Keeps(s)
BY FindBestKeeps DEF Start

(* The step FallBack. *)
LEMMA FallBackKeeps ==
  ASSUME Inv, NEW s \in Searchers, FallBack(s)
  PROVE  Keeps(s)
<1>1. PICK d : d = task[s].domain
  OBVIOUS
<1>2. d \in Domains /\ FindBest(s, d) /\ UNCHANGED confirmed
  BY <1>1, Holds DEF FallBack, Good, Local
<1> QED BY <1>2, FindBestKeeps

(* The step StartMorphing. *)
LEMMA StartMorphingKeeps ==
  ASSUME Inv, NEW s \in Searchers, NEW d \in Domains, StartMorphing(s, d)
  PROVE  Keeps(s)
<1>1. Tables /\ MappedIsConfirmed
  BY DEF Inv
<1>2. UNCHANGED <<strategies, mapping, week, confirmed>>
  BY DEF StartMorphing, storeVars
<1>3. PICK u : u = Begun(d, "classify")
  OBVIOUS
<1>4. /\ u \in Task /\ u.at = "classify" /\ u.domain = d /\ u.candidates = <<>>
      /\ Local(u) /\ Counted(u)
  BY <1>3, BegunIs
<1>5. Become(s, u)
  BY <1>3 DEF StartMorphing, Begun
<1>6. Sound(u)
  BY <1>4 DEF Sound, Saving
<1> QED BY <1>1, <1>2, <1>4, <1>5, <1>6, ReadKeeps

(* What a search reads of a domain that is confident is sound. *)
LEMMA StrategyOfIs ==
  ASSUME Tables, MappedIsConfirmed, NEW d \in DOMAIN mapping,
         week - mapping[d].lastSuccess <= 1
  PROVE  StrategyOf(d) \in Candidate /\ Held(<<StrategyOf(d)>>)
<1> DEFINE name == mapping[d].strategy
           x == strategies[name]
<1>1. /\ name \in DOMAIN strategies /\ name \in Names /\ x \in Techniques
      /\ mapping[d].lastSuccess \in Nat /\ d \in Domains /\ week \in Nat
  BY DEF Tables, Row
<1>2. StrategyOf(d) \in Candidate /\ StrategyOf(d).name = name /\ StrategyOf(d).techniques = x
  <2> HIDE DEF name, x
  <2> QED BY <1>1 DEF StrategyOf, Candidate, name, x
<1>3. Known(name, x)
  BY <1>1, StoredIsKnown
<1>4. SharedName(name) \/ Recent(x)
  <2> SUFFICES ASSUME ~ SharedName(name) PROVE Recent(x)
    OBVIOUS
  <2>1. x \in DOMAIN confirmed[d] /\ confirmed[d][x] >= mapping[d].lastSuccess
    BY DEF MappedIsConfirmed, ConfirmedFor
  <2>2. confirmed[d][x] \in Nat
    BY <1>1, <2>1 DEF Tables
  <2>3. week - confirmed[d][x] <= 1
    BY <1>1, <2>1, <2>2, LaterIsRecent
  <2> QED BY <1>1, <2>1, <2>3 DEF Recent
<1> HIDE DEF name, x
<1>5. Len(<<StrategyOf(d)>>) = 1 /\ <<StrategyOf(d)>>[1] = StrategyOf(d)
  OBVIOUS
<1>6. \A k \in 1 .. 1 : k = 1
  OBVIOUS
<1> QED BY <1>2, <1>3, <1>4, <1>5, <1>6 DEF Held

(* A right candidate more. *)
LEMMA HeldAppend ==
  ASSUME NEW cs \in Seq(Candidate), NEW c \in Candidate, Held(cs), Held(<<c>>)
  PROVE  Append(cs, c) \in Seq(Candidate) /\ Held(Append(cs, c))
<1>1. /\ Append(cs, c) \in Seq(Candidate) /\ Len(Append(cs, c)) = Len(cs) + 1
      /\ \A k \in 1 .. Len(cs) : Append(cs, c)[k] = cs[k]
      /\ Append(cs, c)[Len(cs) + 1] = c
  BY AppendProperties
<1>2. Known(c.name, c.techniques) /\ (SharedName(c.name) \/ Recent(c.techniques))
  <2>1. Len(<<c>>) = 1 /\ <<c>>[1] = c /\ 1 \in 1 .. 1
    OBVIOUS
  <2> QED BY <2>1 DEF Held
<1>3. Len(cs) \in Nat
  BY LenProperties
<1>4. \A k \in 1 .. Len(cs) + 1 : k \in 1 .. Len(cs) \/ k = Len(cs) + 1
  BY <1>3
<1> HIDE DEF Candidate
<1> QED BY <1>1, <1>2, <1>4 DEF Held

(* The step ReadBest. *)
LEMMA ReadBestKeeps ==
  ASSUME Inv, NEW s \in Searchers, ReadBest(s)
  PROVE  Keeps(s)
<1>1. PICK t : t = task[s]
  OBVIOUS
<1>2. Good(t) /\ Tables /\ MappedIsConfirmed /\ t.at = "read best"
  BY <1>1, Holds DEF ReadBest
<1>3. /\ t \in Task /\ t.domain \in DOMAIN mapping /\ t.domain \in Domains
      /\ week - mapping[t.domain].lastSuccess <= 1
      /\ t.candidates = <<>> /\ t.winners = <<>> /\ t.best = NoStrategy /\ t.i = 1 /\ t.probes = 0
  BY <1>2 DEF Good, Local, Counted, Sound
<1>4. UNCHANGED <<strategies, mapping, week, confirmed>>
  BY DEF ReadBest, storeVars, Fails
<1>5. PICK cs : /\ cs = <<>> \/ cs = <<StrategyOf(t.domain)>>
                /\ Become(s, [t EXCEPT !.at = "read any", !.candidates = cs])
  <2>1. CASE Become(s, [t EXCEPT !.at = "read any", !.candidates = <<StrategyOf(t.domain)>>])
    BY <2>1
  <2>2. CASE Become(s, [t EXCEPT !.at = "read any"])
    <3>1. [t EXCEPT !.at = "read any"] = [t EXCEPT !.at = "read any", !.candidates = <<>>]
      BY <1>3 DEF Task
    <3> QED BY <2>2, <3>1
  <2> QED BY <1>1, <2>1, <2>2 DEF ReadBest
<1>6. cs \in Seq(Candidate) /\ Held(cs)
  <2>1. CASE cs = <<>>
    BY <2>1, NothingIsHeld, EmptySeq
  <2>2. CASE cs = <<StrategyOf(t.domain)>>
    <3>1. StrategyOf(t.domain) \in Candidate /\ Held(<<StrategyOf(t.domain)>>)
      BY <1>2, <1>3, StrategyOfIs
    <3> HIDE DEF Candidate
    <3> QED BY <2>2, <3>1
  <2> QED BY <1>5, <2>1, <2>2
<1>7. PICK u : u = [t EXCEPT !.at = "read any", !.candidates = cs]
  OBVIOUS
<1>8. /\ u \in Task /\ u.at = "read any" /\ u.candidates = cs /\ u.domain = t.domain
      /\ u.best = t.best /\ u.winners = t.winners /\ u.i = t.i /\ u.probes = t.probes
  BY <1>3, <1>6, <1>7 DEF Task, Places
<1>9. Local(u)
  BY <1>3, <1>8 DEF Local
<1>10. Counted(u)
  BY <1>3, <1>8 DEF Counted
<1>11. Sound(u)
  BY <1>6, <1>8 DEF Sound, Held, Saving
<1> QED BY <1>2, <1>3, <1>4, <1>5, <1>7, <1>8, <1>9, <1>10, <1>11, ReadKeeps

(* The step ReadAny. *)
LEMMA ReadAnyKeeps ==
  ASSUME Inv, NEW s \in Searchers, ReadAny(s)
  PROVE  Keeps(s)
<1>1. PICK t : t = task[s]
  OBVIOUS
<1>2. Good(t) /\ Tables /\ MappedIsConfirmed /\ t.at = "read any"
  BY <1>1, Holds DEF ReadAny
<1>3. /\ t \in Task /\ t.domain \in Domains /\ t.candidates \in Seq(Candidate)
      /\ t.winners = <<>> /\ t.best = NoStrategy /\ t.i = 1 /\ t.probes = 0 /\ Held(t.candidates)
  BY <1>2 DEF Good, Task, Local, Counted, Sound, Held
<1>4. UNCHANGED <<strategies, mapping, week, confirmed>>
  BY DEF ReadAny, storeVars, Fails
<1> DEFINE Then(cs) ==
      [t EXCEPT !.candidates = cs, !.at = IF cs = <<>> THEN "baseline" ELSE "guess"]
<1>5. \/ Become(s, Then(t.candidates))
      \/ \E d \in MostConfident : Become(s, Then(Append(t.candidates, StrategyOf(d))))
  BY <1>1 DEF ReadAny
<1>6. \A d \in MostConfident : StrategyOf(d) \in Candidate /\ Held(<<StrategyOf(d)>>)
  <2> TAKE d \in MostConfident
  <2>1. d \in DOMAIN mapping /\ Confident(d)
    BY DEF MostConfident
  <2> QED BY <1>2, <2>1, ConfidentIsRecent, StrategyOfIs
<1>7. PICK cs \in Seq(Candidate) : Held(cs) /\ Become(s, Then(cs))
  <2> HIDE DEF Then, Candidate
  <2> QED BY <1>3, <1>5, <1>6, HeldAppend
<1>8. PICK u : u = Then(cs)
  OBVIOUS
<1>9. /\ u \in Task /\ u.at = (IF cs = <<>> THEN "baseline" ELSE "guess")
      /\ u.candidates = cs /\ u.domain = t.domain
      /\ u.best = t.best /\ u.winners = t.winners /\ u.i = t.i /\ u.probes = t.probes
  BY <1>3, <1>7, <1>8 DEF Task, Places
<1>10. Len(cs) \in Nat /\ (cs # <<>> => 1 \in 1 .. Len(cs))
  BY <1>7, LenProperties, EmptySeq
<1>11. Local(u)
  BY <1>3, <1>9, <1>10 DEF Local
<1>12. Counted(u)
  BY <1>3, <1>9, <1>10 DEF Counted
<1>13. Sound(u)
  BY <1>7, <1>9 DEF Sound, Held, Saving
<1> QED BY <1>2, <1>3, <1>4, <1>7, <1>8, <1>9, <1>11, <1>12, <1>13, ReadKeeps

(* A probe that leaves the tables alone: the search goes on to another probe, *)
(* with the same candidates.                                                *)
LEMMA ProbeKeeps ==
  ASSUME Tables, MappedIsConfirmed, UNCHANGED <<strategies, mapping, week, confirmed>>,
         NEW s \in Searchers, NEW t, Sound(t), t.domain \in Domains,
         NEW u \in Task, Become(s, u), Local(u), Counted(u),
         u.domain = t.domain, u.candidates = t.candidates,
         u.at \notin Saving, u.at # "read best", u.at # "guess again",
         u.at \in {"confirm", "morph confirm"} => ~ (u.oks > 0)
  PROVE  Keeps(s)
<1>1. Sound(u)
  <2>1. Held(u.candidates)
    BY DEF Sound, Held
  <2>2. u.at # "map" /\ u.at # "map again"
    BY DEF Saving
  <2> QED BY <2>1, <2>2 DEF Sound, Held
<1> QED BY <1>1, ReadKeeps

(* The step Baseline. *)
LEMMA BaselineKeeps ==
  ASSUME Inv, NEW s \in Searchers, Baseline(s)
  PROVE  Keeps(s)
<1>1. PICK t : t = task[s]
  OBVIOUS
<1>2. Good(t) /\ Tables /\ MappedIsConfirmed /\ t.at = "baseline"
  BY <1>1, Holds DEF Baseline, Probed
<1>3. /\ t \in Task /\ t.domain \in Domains /\ Sound(t)
      /\ t.best = NoStrategy /\ t.i = 1 /\ t.winners = <<>>
      /\ t.probes <= 3 * Len(t.candidates) /\ t.candidates \in Seq(Candidate)
  BY <1>2 DEF Good, Local, Counted, Task
<1>4. UNCHANGED <<strategies, mapping, week, confirmed>>
  BY DEF Baseline, storeVars
<1>5. CASE Become(s, Idle)
  BY <1>2, <1>4, <1>5, EndKeeps
<1>6. CASE Become(s, [Probed(t) EXCEPT !.at = "sweep"])
  <2>1. PICK p : p = Probed(t)
    OBVIOUS
  <2>2. /\ p \in Task /\ p.probes = t.probes + 1 /\ p.domain = t.domain
        /\ p.candidates = t.candidates /\ p.i = t.i /\ p.winners = t.winners /\ p.best = t.best
    BY <1>3, <2>1, ProbedIs
  <2>3. PICK u : u = [p EXCEPT !.at = "sweep"]
    OBVIOUS
  <2>4. /\ u \in Task /\ u.at = "sweep" /\ u.domain = p.domain /\ u.candidates = p.candidates
        /\ u.i = p.i /\ u.winners = p.winners /\ u.best = p.best /\ u.probes = p.probes
    BY <2>2, <2>3 DEF Task, Places
  <2>5. Local(u)
    <3>1. Len(u.winners) = 0 /\ 1 \in 1 .. Len(Sweep)
      BY <1>3, <2>2, <2>4, EmptySeq, Constants
    <3> QED BY <1>3, <2>2, <2>4, <3>1 DEF Local
  <2>6. Counted(u)
    <3>1. Len(t.candidates) \in Nat /\ t.probes \in Nat
      BY <1>3, LenProperties DEF Task
    <3>2. u.probes <= 3 * Len(u.candidates) + u.i
      BY <1>3, <2>2, <2>4, <3>1
    <3> QED BY <2>4, <3>2 DEF Counted
  <2>7. Become(s, u)
    BY <1>6, <2>1, <2>3
  <2>8. u.domain = t.domain /\ u.candidates = t.candidates /\ u.at \notin Saving
    BY <2>2, <2>4 DEF Saving
  <2> QED BY <1>2, <1>3, <1>4, <2>4, <2>5, <2>6, <2>7, <2>8, ProbeKeeps
<1> QED BY <1>1, <1>5, <1>6 DEF Baseline

(* A winner more. *)
LEMMA WonAppend ==
  ASSUME NEW ws \in Seq(Won), NEW w \in Won, NEW L, w.label \in L,
         \A k \in 1 .. Len(ws) : ws[k].label \in L
  PROVE  /\ Append(ws, w) \in Seq(Won) /\ Append(ws, w) # <<>>
         /\ \A k \in 1 .. Len(Append(ws, w)) : Append(ws, w)[k].label \in L
<1>1. /\ Append(ws, w) \in Seq(Won) /\ Len(Append(ws, w)) = Len(ws) + 1
      /\ \A k \in 1 .. Len(ws) : Append(ws, w)[k] = ws[k]
      /\ Append(ws, w)[Len(ws) + 1] = w /\ Append(ws, w) # <<>>
  BY AppendProperties
<1>2. Len(ws) \in Nat
  BY LenProperties
<1>3. \A k \in 1 .. Len(ws) + 1 : k \in 1 .. Len(ws) \/ k = Len(ws) + 1
  BY <1>2
<1> HIDE DEF Won
<1> QED BY <1>1, <1>3

(* The probes of the sweep. *)
LEMMA SweptCount ==
  ASSUME NEW probes \in Nat, NEW len \in Nat, NEW i \in Nat, NEW n \in Nat, i <= n,
         probes <= 3 * len + i
  PROVE  /\ probes + 1 <= 3 * len + (i + 1)
         /\ probes + 1 < len * (1 + 2) + 1 + n + 1
OBVIOUS

(* The bound of find_best_strategy is a number. *)
LEMMA MostIs ==
  ASSUME NEW t, Len(t.candidates) \in Nat
  PROVE  Most(t) \in Nat /\ Most(t) >= Unchecked(t) /\ Most(t) >= MaxProbes
<1>1. Len(Sweep) \in Nat /\ MaxProbes \in Nat
  BY Constants
<1>2. Unchecked(t) \in Nat
  BY <1>1 DEF Unchecked, FastGuessConfirms
<1> QED BY <1>1, <1>2 DEF Most

(* The step SweepOne. *)
LEMMA SweepOneKeeps ==
  ASSUME Inv, NEW s \in Searchers, SweepOne(s)
  PROVE  Keeps(s)
<1>1. PICK t : t = task[s]
  OBVIOUS
<1>2. Good(t) /\ Tables /\ MappedIsConfirmed /\ t.at = "sweep"
  BY <1>1, Holds DEF SweepOne, Probed
<1>3. /\ t \in Task /\ t.domain \in Domains /\ Sound(t)
      /\ t.best = NoStrategy /\ t.i \in 1 .. Len(Sweep) /\ t.winners \in Seq(Won)
      /\ \A k \in 1 .. Len(t.winners) : t.winners[k].label \in Range(Sweep)
      /\ t.probes <= 3 * Len(t.candidates) + t.i /\ t.candidates \in Seq(Candidate)
  BY <1>2 DEF Good, Local, Counted, Task
<1>4. UNCHANGED <<strategies, mapping, week, confirmed>>
  BY DEF SweepOne, storeVars
<1>5. PICK p : p = Probed(t)
  OBVIOUS
<1>6. /\ p \in Task /\ p.probes = t.probes + 1 /\ p.domain = t.domain
      /\ p.candidates = t.candidates /\ p.i = t.i /\ p.winners = t.winners /\ p.best = t.best
      /\ p.at = "sweep"
  BY <1>2, <1>3, <1>5, ProbedIs
<1> DEFINE Then(ws) ==
      IF p.i < Len(Sweep) THEN [p EXCEPT !.i = p.i + 1, !.winners = ws]
      ELSE [p EXCEPT !.i = 1, !.j = 1, !.winners = ws,
                     !.at = IF ws = <<>> THEN "stealth" ELSE "vary"]
<1>7. PICK outcome \in Outcomes :
        Become(s, Then(IF outcome = 0 THEN p.winners
                       ELSE Append(p.winners, [label |-> Sweep[p.i], score |-> outcome])))
  BY <1>1, <1>5 DEF SweepOne
<1>8. PICK ws : /\ ws \in Seq(Won) /\ Become(s, Then(ws))
                /\ \A k \in 1 .. Len(ws) : ws[k].label \in Range(Sweep)
  <2>1. CASE outcome = 0
    BY <1>3, <1>6, <1>7, <2>1
  <2>2. CASE outcome # 0
    <3> DEFINE w == [label |-> Sweep[p.i], score |-> outcome]
    <3>1. w \in Won /\ w.label \in Range(Sweep)
      BY <1>3, <1>6, Constants, Elements DEF Won
    <3> HIDE DEF w, Then
    <3>2. /\ Append(p.winners, w) \in Seq(Won)
          /\ \A k \in 1 .. Len(Append(p.winners, w)) :
               Append(p.winners, w)[k].label \in Range(Sweep)
      BY <1>3, <1>6, <3>1, WonAppend
    <3> QED BY <1>7, <2>2, <3>2 DEF w
  <2> QED BY <2>1, <2>2
<1>9. Len(t.candidates) \in Nat /\ t.probes \in Nat /\ t.i \in Nat /\ Len(Sweep) \in Nat
  BY <1>3, LenProperties, Constants DEF Task
<1>10. CASE p.i < Len(Sweep)
  <2>1. PICK u : u = [p EXCEPT !.i = p.i + 1, !.winners = ws]
    OBVIOUS
  <2>2. /\ u \in Task /\ u.at = "sweep" /\ u.domain = p.domain /\ u.candidates = p.candidates
        /\ u.i = p.i + 1 /\ u.winners = ws /\ u.best = p.best /\ u.probes = p.probes
    <3>1. p \in Task /\ p.at = "sweep" /\ p.i + 1 \in Nat /\ ws \in Seq(Won)
      BY <1>3, <1>6, <1>8
    <3> QED BY <2>1, <3>1 DEF Task
  <2>3. Local(u)
    <3>1. u.i \in 1 .. Len(Sweep)
      BY <1>6, <1>9, <1>10, <2>2
    <3> QED BY <1>3, <1>6, <1>8, <2>2, <3>1 DEF Local
  <2>4. Counted(u)
    <3>1. u.probes <= 3 * Len(u.candidates) + u.i
      BY <1>3, <1>6, <1>9, <2>2, SweptCount
    <3> QED BY <2>2, <3>1 DEF Counted
  <2>5. Become(s, u)
    BY <1>8, <1>10, <2>1
  <2>6. u.domain = t.domain /\ u.candidates = t.candidates /\ u.at \notin Saving
    BY <1>6, <2>2 DEF Saving
  <2> QED BY <1>2, <1>3, <1>4, <2>2, <2>3, <2>4, <2>5, <2>6, ProbeKeeps
<1>11. CASE ~ (p.i < Len(Sweep))
  <2>1. PICK place : place = IF ws = <<>> THEN "stealth" ELSE "vary"
    OBVIOUS
  <2>2. PICK u : u = [p EXCEPT !.i = 1, !.j = 1, !.winners = ws, !.at = place]
    OBVIOUS
  <2>3. /\ u \in Task /\ u.at = place /\ u.domain = p.domain /\ u.candidates = p.candidates
        /\ u.i = 1 /\ u.j = 1 /\ u.winners = ws /\ u.best = p.best /\ u.probes = p.probes
    BY <1>6, <1>8, <2>1, <2>2 DEF Task, Places
  <2>4. Local(u)
    <3>1. /\ 1 \in 1 .. Len(Positions) /\ 1 \in 1 .. Len(Stealth)
          /\ (ws # <<>> => 1 \in 1 .. Len(ws))
      BY <1>8, Constants, LenProperties, EmptySeq
    <3> QED BY <1>3, <1>6, <1>8, <2>1, <2>3, <3>1 DEF Local, MadeOrNone
  <2>5. Counted(u)
    <3>1. u.probes < Unchecked(u)
      BY <1>3, <1>6, <1>9, <2>3, SweptCount DEF Unchecked, FastGuessConfirms
    <3>2. Unchecked(u) \in Nat /\ u.probes \in Nat
      BY <1>6, <1>9, <2>3, Constants DEF Unchecked, FastGuessConfirms
    <3>3. Len(u.candidates) \in Nat
      BY <1>6, <1>9, <2>3
    <3>4. u.probes < Most(u)
      BY <3>1, <3>2, <3>3, MostIs
    <3> QED BY <2>1, <2>3, <3>4 DEF Counted
  <2>6. Become(s, u)
    BY <1>8, <1>11, <2>1, <2>2
  <2>7. u.domain = t.domain /\ u.candidates = t.candidates /\ u.at \in {"stealth", "vary"}
    BY <1>6, <2>1, <2>3
  <2>8. u.at \notin Saving /\ u.at # "read best" /\ u.at # "guess again"
        /\ u.at \notin {"confirm", "morph confirm"}
    BY <2>7 DEF Saving
  <2> QED BY <1>2, <1>3, <1>4, <2>3, <2>4, <2>5, <2>6, <2>7, <2>8, ProbeKeeps
<1> QED BY <1>10, <1>11

(* A search that takes up the best it has found, to confirm it. *)
LEMMA ToConfirmIs ==
  ASSUME NEW p \in Task, p.domain \in Domains, NEW best \in Best, IsMade(best),
         p.probes < Most(p) + 1, NEW u, u = ToConfirm(p, best)
  PROVE  /\ u \in Task /\ Local(u) /\ Counted(u) /\ u.at = "confirm" /\ u.oks = 0
         /\ u.domain = p.domain /\ u.candidates = p.candidates
<1>1. <<>> \in Seq(Won) /\ "confirm" \in Places
  BY EmptySeq DEF Places
<1>2. PICK v : v = [p EXCEPT !.at = "confirm", !.best = best, !.i = 1]
  OBVIOUS
<1>3. /\ v \in Task /\ v.at = "confirm" /\ v.best = best
      /\ v.domain = p.domain /\ v.candidates = p.candidates /\ v.probes = p.probes
  BY <1>1, <1>2 DEF Task
<1>4. PICK w : w = [v EXCEPT !.j = 1, !.oks = 0]
  OBVIOUS
<1>5. /\ u \in Task /\ u.at = "confirm" /\ u.best = best /\ u.j = 1 /\ u.oks = 0
      /\ u.domain = p.domain /\ u.candidates = p.candidates /\ u.probes = p.probes
  <2>1. /\ w \in Task /\ w.at = "confirm" /\ w.best = best /\ w.j = 1 /\ w.oks = 0
        /\ w.domain = p.domain /\ w.candidates = p.candidates /\ w.probes = p.probes
    BY <1>3, <1>4 DEF Task
  <2>2. u = [w EXCEPT !.winners = <<>>]
    BY <1>2, <1>4 DEF ToConfirm
  <2> QED BY <1>1, <2>1, <2>2 DEF Task
<1>6. Local(u)
  BY <1>5 DEF Local
<1>7. Counted(u)
  <2>1. Most(u) = Most(p)
    BY <1>5 DEF Most, Unchecked
  <2> QED BY <1>5, <2>1 DEF Counted
<1> QED BY <1>5, <1>6, <1>7

(* The next entry of a list is in it. *)
LEMMA NextProbe ==
  ASSUME NEW i \in Nat, NEW n \in Nat, i \in 1 .. n, i # n
  PROVE  i + 1 \in 1 .. n
OBVIOUS

(* The step Vary. *)
LEMMA VaryKeeps ==
  ASSUME Inv, NEW s \in Searchers, Vary(s)
  PROVE  Keeps(s)
<1>1. PICK t : t = task[s]
  OBVIOUS
<1>2. Good(t) /\ Tables /\ MappedIsConfirmed /\ t.at = "vary"
  BY <1>1, Holds DEF Vary, Probed
<1>3. /\ t \in Task /\ t.domain \in Domains /\ Sound(t) /\ t.best \in Best /\ MadeOrNone(t.best)
      /\ t.winners \in Seq(Won) /\ t.i \in 1 .. Len(t.winners) /\ t.j \in 1 .. Len(Positions)
      /\ \A k \in 1 .. Len(t.winners) : t.winners[k].label \in Range(Sweep)
      /\ t.probes < Most(t) /\ t.candidates \in Seq(Candidate)
  BY <1>2 DEF Good, Local, Counted, Task
<1>4. UNCHANGED <<strategies, mapping, week, confirmed>>
  BY DEF Vary, storeVars
<1>5. PICK p : p = Probed(t)
  OBVIOUS
<1>6. /\ p \in Task /\ p.probes = t.probes + 1 /\ p.domain = t.domain
      /\ p.candidates = t.candidates /\ p.i = t.i /\ p.j = t.j
      /\ p.winners = t.winners /\ p.best = t.best /\ p.at = "vary"
  BY <1>2, <1>3, <1>5, ProbedIs
<1> DEFINE First == Winner(p.domain, p.winners[1].label, p.winners[1].score)
           Then(best) ==
             IF OverBudget(p) \/ (p.i = Len(p.winners) /\ p.j = Len(Positions))
             THEN ToConfirm(p, IF best = NoStrategy THEN First ELSE best)
             ELSE IF p.j < Len(Positions) THEN [p EXCEPT !.best = best, !.j = p.j + 1]
             ELSE [p EXCEPT !.best = best, !.i = p.i + 1, !.j = 1]
<1>7. PICK outcome \in Outcomes :
        Become(s, Then(Better(p.best, Variation(p.winners[p.i].label, Positions[p.j], outcome))))
  BY <1>1, <1>5 DEF Vary
<1>8. First \in Best /\ IsMade(First)
  <2>1. Len(p.winners) \in Nat /\ 1 \in 1 .. Len(p.winners)
    BY <1>3, <1>6, LenProperties
  <2>2. p.winners[1] \in Won
    BY <1>3, <1>6, <2>1, ElementOfSeq
  <2>3. p.winners[1].label \in Range(Sweep) /\ p.winners[1].score \in Nat
    BY <1>3, <1>6, <2>1, <2>2 DEF Won
  <2> QED BY <1>3, <1>6, <2>3, WinnerIsMade
<1>9. PICK best \in Best : MadeOrNone(best) /\ Become(s, Then(best))
  <2>1. PICK x : x = Variation(p.winners[p.i].label, Positions[p.j], outcome)
    OBVIOUS
  <2>2. x \in Best /\ IsMade(x)
    <3>1. p.winners[p.i].label \in Range(Sweep) /\ Positions[p.j] \in Range(Positions)
      BY <1>3, <1>6, Elements
    <3> QED BY <2>1, <3>1, Constants, VariationIsMade
  <2>3. Better(p.best, x) \in Best /\ MadeOrNone(Better(p.best, x))
    BY <1>3, <1>6, <2>2, BetterIs DEF MadeOrNone
  <2> HIDE DEF Then
  <2> QED BY <1>7, <2>1, <2>3
<1>10. /\ Len(t.candidates) \in Nat /\ t.probes \in Nat /\ Most(t) \in Nat /\ Most(t) >= MaxProbes
       /\ MaxProbes \in Nat /\ Len(p.winners) \in Nat /\ Len(Positions) \in Nat
       /\ t.i \in Nat /\ t.j \in Nat
  <2>1. Len(t.candidates) \in Nat
    BY <1>3, LenProperties
  <2>2. Len(p.winners) \in Nat
    BY <1>3, <1>6, LenProperties
  <2> QED BY <1>3, <2>1, <2>2, MostIs, Constants DEF Task
<1>11. Most(p) = Most(t) /\ p.probes < Most(p) + 1
  <2>1. Most(p) = Most(t)
    BY <1>6 DEF Most, Unchecked
  <2> QED BY <1>3, <1>6, <1>10, <2>1
<1>12. CASE OverBudget(p) \/ (p.i = Len(p.winners) /\ p.j = Len(Positions))
  <2>1. PICK x : x = IF best = NoStrategy THEN First ELSE best
    OBVIOUS
  <2>2. x \in Best /\ IsMade(x)
    <3> HIDE DEF First
    <3> QED BY <1>8, <1>9, <2>1 DEF MadeOrNone
  <2>3. PICK u : u = ToConfirm(p, x)
    OBVIOUS
  <2>4. /\ u \in Task /\ Local(u) /\ Counted(u) /\ u.at = "confirm" /\ u.oks = 0
        /\ u.domain = p.domain /\ u.candidates = p.candidates
    BY <1>3, <1>6, <1>11, <2>2, <2>3, ToConfirmIs
  <2>5. Become(s, u)
    BY <1>9, <1>12, <2>1, <2>3
  <2>6. ~ (u.oks > 0) /\ u.at \notin Saving
    BY <2>4 DEF Saving
  <2>7. u.domain = t.domain /\ u.candidates = t.candidates
    BY <1>6, <2>4
  <2> QED BY <1>2, <1>3, <1>4, <2>4, <2>5, <2>6, <2>7, ProbeKeeps
<1>13. CASE ~ (OverBudget(p) \/ (p.i = Len(p.winners) /\ p.j = Len(Positions)))
  <2>1. p.probes < MaxProbes
    BY <1>6, <1>10, <1>13 DEF OverBudget
  <2>2. PICK i, j :
          /\ Become(s, [p EXCEPT !.best = best, !.i = i, !.j = j])
          /\ i \in 1 .. Len(p.winners) /\ j \in 1 .. Len(Positions)
    <3>1. CASE p.j < Len(Positions)
      <4>1. p.j + 1 \in 1 .. Len(Positions)
        BY <1>3, <1>6, <1>10, <3>1, NextProbe
      <4>2. [p EXCEPT !.best = best, !.j = p.j + 1]
              = [p EXCEPT !.best = best, !.i = p.i, !.j = p.j + 1]
        BY <1>6 DEF Task
      <4> QED BY <1>3, <1>6, <1>9, <1>13, <3>1, <4>1, <4>2
    <3>2. CASE ~ (p.j < Len(Positions))
      <4>1. p.j = Len(Positions)
        BY <1>3, <1>6, <1>10, <3>2
      <4>2. p.i + 1 \in 1 .. Len(p.winners)
        BY <1>3, <1>6, <1>10, <1>13, <4>1, NextProbe
      <4>3. 1 \in 1 .. Len(Positions)
        BY Constants
      <4> QED BY <1>9, <1>13, <3>2, <4>2, <4>3
    <3> QED BY <3>1, <3>2
  <2>3. PICK u : u = [p EXCEPT !.best = best, !.i = i, !.j = j]
    OBVIOUS
  <2>4. i \in Nat /\ j \in Nat
    BY <1>10, <2>2
  <2>5. /\ u \in Task /\ u.at = "vary" /\ u.domain = p.domain /\ u.candidates = p.candidates
        /\ u.i = i /\ u.j = j /\ u.best = best /\ u.winners = p.winners /\ u.probes = p.probes
    BY <1>6, <1>9, <2>3, <2>4 DEF Task
  <2>6. Local(u)
    BY <1>3, <1>6, <1>9, <2>2, <2>5 DEF Local
  <2>7. Counted(u)
    <3>1. Most(u) = Most(p)
      BY <2>5 DEF Most, Unchecked
    <3>2. u.probes < Most(u)
      BY <1>6, <1>10, <1>11, <2>1, <2>5, <3>1
    <3> QED BY <2>5, <3>2 DEF Counted
  <2>8. Become(s, u)
    BY <2>2, <2>3
  <2>9. u.domain = t.domain /\ u.candidates = t.candidates /\ u.at \notin Saving
    BY <1>6, <2>5 DEF Saving
  <2> QED BY <1>2, <1>3, <1>4, <2>5, <2>6, <2>7, <2>8, <2>9, ProbeKeeps
<1> QED BY <1>12, <1>13

(* The step StealthOne. *)
LEMMA StealthOneKeeps ==
  ASSUME Inv, NEW s \in Searchers, StealthOne(s)
  PROVE  Keeps(s)
<1>1. PICK t : t = task[s]
  OBVIOUS
<1>2. Good(t) /\ Tables /\ MappedIsConfirmed /\ t.at = "stealth"
  BY <1>1, Holds DEF StealthOne, Probed
<1>3. /\ t \in Task /\ t.domain \in Domains /\ Sound(t) /\ t.best \in Best /\ MadeOrNone(t.best)
      /\ t.i \in 1 .. Len(Stealth)
      /\ t.probes < Most(t) /\ t.candidates \in Seq(Candidate)
  BY <1>2 DEF Good, Local, Counted, Task
<1>4. UNCHANGED <<strategies, mapping, week, confirmed>>
  BY DEF StealthOne, storeVars
<1>5. PICK p : p = Probed(t)
  OBVIOUS
<1>6. /\ p \in Task /\ p.probes = t.probes + 1 /\ p.domain = t.domain
      /\ p.candidates = t.candidates /\ p.i = t.i /\ p.best = t.best /\ p.at = "stealth"
  BY <1>2, <1>3, <1>5, ProbedIs
<1> DEFINE Then(best) ==
             IF ~ OverBudget(p) /\ p.i < Len(Stealth)
             THEN [p EXCEPT !.i = p.i + 1, !.best = best]
             ELSE IF best = NoStrategy THEN Idle ELSE ToConfirm(p, best)
<1>7. PICK outcome \in Outcomes :
        Become(s, Then(Better(p.best, Stealthy(Stealth[p.i], outcome))))
  BY <1>1, <1>5 DEF StealthOne
<1>8. PICK best \in Best : MadeOrNone(best) /\ Become(s, Then(best))
  <2>1. PICK x : x = Stealthy(Stealth[p.i], outcome)
    OBVIOUS
  <2>2. x \in Best /\ IsMade(x)
    BY <1>3, <1>6, <2>1, Elements, Constants, StealthyIsMade
  <2>3. Better(p.best, x) \in Best /\ MadeOrNone(Better(p.best, x))
    BY <1>3, <1>6, <2>2, BetterIs DEF MadeOrNone
  <2> HIDE DEF Then
  <2> QED BY <1>7, <2>1, <2>3
<1>9. /\ Len(t.candidates) \in Nat /\ t.probes \in Nat /\ Most(t) \in Nat /\ Most(t) >= MaxProbes
      /\ MaxProbes \in Nat /\ Len(Stealth) \in Nat /\ t.i \in Nat
  <2>1. Len(t.candidates) \in Nat
    BY <1>3, LenProperties
  <2> QED BY <1>3, <2>1, MostIs, Constants DEF Task
<1>10. Most(p) = Most(t) /\ p.probes < Most(p) + 1
  <2>1. Most(p) = Most(t)
    BY <1>6 DEF Most, Unchecked
  <2> QED BY <1>3, <1>6, <1>9, <2>1
<1>11. CASE ~ OverBudget(p) /\ p.i < Len(Stealth)
  <2>1. p.probes < MaxProbes
    BY <1>6, <1>9, <1>11 DEF OverBudget
  <2>2. PICK u : u = [p EXCEPT !.i = p.i + 1, !.best = best]
    OBVIOUS
  <2>3. /\ u \in Task /\ u.at = "stealth" /\ u.domain = p.domain /\ u.candidates = p.candidates
        /\ u.i = p.i + 1 /\ u.best = best /\ u.probes = p.probes
    <3>1. p.i + 1 \in Nat
      BY <1>6, <1>9
    <3> QED BY <1>6, <1>8, <2>2, <3>1 DEF Task
  <2>4. Local(u)
    <3>1. u.i \in 1 .. Len(Stealth)
      BY <1>3, <1>6, <1>9, <1>11, <2>3
    <3> QED BY <1>3, <1>6, <1>8, <2>3, <3>1 DEF Local
  <2>5. Counted(u)
    <3>1. Most(u) = Most(p)
      BY <2>3 DEF Most, Unchecked
    <3>2. u.probes < Most(u)
      BY <1>6, <1>9, <1>10, <2>1, <2>3, <3>1
    <3> QED BY <2>3, <3>2 DEF Counted
  <2>6. Become(s, u)
    BY <1>8, <1>11, <2>2
  <2>7. u.domain = t.domain /\ u.candidates = t.candidates /\ u.at \notin Saving
    BY <1>6, <2>3 DEF Saving
  <2> QED BY <1>2, <1>3, <1>4, <2>3, <2>4, <2>5, <2>6, <2>7, ProbeKeeps
<1>12. CASE ~ (~ OverBudget(p) /\ p.i < Len(Stealth)) /\ best = NoStrategy
  <2>1. Become(s, Idle)
    BY <1>8, <1>12
  <2> QED BY <1>2, <1>4, <2>1, EndKeeps
<1>13. CASE ~ (~ OverBudget(p) /\ p.i < Len(Stealth)) /\ best # NoStrategy
  <2>1. PICK u : u = ToConfirm(p, best)
    OBVIOUS
  <2>2. IsMade(best)
    BY <1>8, <1>13 DEF MadeOrNone
  <2>3. /\ u \in Task /\ Local(u) /\ Counted(u) /\ u.at = "confirm" /\ u.oks = 0
        /\ u.domain = p.domain /\ u.candidates = p.candidates
    BY <1>3, <1>6, <1>8, <1>10, <2>1, <2>2, ToConfirmIs
  <2>4. Become(s, u)
    BY <1>8, <1>13, <2>1
  <2>5. ~ (u.oks > 0) /\ u.at \notin Saving
    BY <2>3 DEF Saving
  <2>6. u.domain = t.domain /\ u.candidates = t.candidates
    BY <1>6, <2>3
  <2> QED BY <1>2, <1>3, <1>4, <2>3, <2>4, <2>5, <2>6, ProbeKeeps
<1> QED BY <1>11, <1>12, <1>13

(* What the classification recommends is never empty. *)
LEMMA RecommendedIs ==
  ASSUME NEW works \in SUBSET Diagnostics, works # {},
         NEW ranking \in Seq(Diagnostics), Range(ranking) = works
  PROVE  Recommended(works, ranking) \in Seq(Labels) /\ Len(Recommended(works, ranking)) > 0
<1> DEFINE Also(label) == IF label \in works THEN <<label>> ELSE <<>>
           tls == "tls_record_frag" \in works
           tcp == "tcp_split" \in works
           two == <<"multi_stream_frag", "tls_record_frag">>
<1>1. /\ "multi_stream_frag" \in Labels /\ Diagnostics \subseteq Labels
      /\ "tls_record_frag" \in Labels /\ "tcp_split" \in Labels
      /\ "disorder" \in Labels /\ "sni_manip" \in Labels
  BY DEF Labels, Diagnostics
<1>2. Also("disorder") \in Seq(Labels) /\ Also("sni_manip") \in Seq(Labels)
  BY <1>1
<1>3. two \in Seq(Labels) /\ Len(two) = 2
  BY <1>1
<1>5. CASE tls /\ ~ tcp
  <2>1. Recommended(works, ranking) = (two \o Also("disorder")) \o Also("sni_manip")
    BY <1>5 DEF Recommended
  <2>2. PICK a \in Seq(Labels), b \in Seq(Labels) : a = Also("disorder") /\ b = Also("sni_manip")
    BY <1>2
  <2>3. Recommended(works, ranking) = (two \o a) \o b
    BY <2>1, <2>2
  <2>4. PICK x \in Seq(Labels) : x = two /\ Len(x) = 2
    BY <1>3
  <2>5. PICK y \in Seq(Labels) : y = x \o a /\ Len(y) = Len(x) + Len(a)
    BY ConcatProperties
  <2>6. y \o b \in Seq(Labels) /\ Len(y \o b) = Len(y) + Len(b)
    BY ConcatProperties
  <2>7. Len(a) \in Nat /\ Len(b) \in Nat
    BY LenProperties
  <2>8. Recommended(works, ranking) = y \o b
    BY <2>3, <2>4, <2>5
  <2>9. Len(y \o b) > 0
    BY <2>4, <2>5, <2>6, <2>7
  <2> QED BY <2>6, <2>8, <2>9
<1>6. CASE tcp /\ ~ tls
  <2>1. Recommended(works, ranking) = <<"tcp_split">> \o Also("disorder")
    BY <1>6 DEF Recommended
  <2>2. PICK a \in Seq(Labels) : a = Also("disorder")
    BY <1>2
  <2>3. <<"tcp_split">> \in Seq(Labels) /\ Len(<<"tcp_split">>) = 1
    BY <1>1
  <2>4. <<"tcp_split">> \o a \in Seq(Labels) /\ Len(<<"tcp_split">> \o a) = 1 + Len(a)
    BY <2>3, ConcatProperties
  <2>5. Len(a) \in Nat
    BY LenProperties
  <2> QED BY <2>1, <2>2, <2>4, <2>5
<1>7. CASE (tls <=> tcp) /\ ~ tcp /\ "disorder" \in works
  <2>1. Recommended(works, ranking) = <<"disorder">>
    BY <1>7 DEF Recommended
  <2> QED BY <1>1, <2>1
<1>8. CASE (tls <=> tcp) /\ ~ (~ tcp /\ "disorder" \in works)
  <2>1. Recommended(works, ranking) = ranking
    BY <1>8 DEF Recommended
  <2>2. ranking # <<>>
    BY DEF Range
  <2>3. ranking \in Seq(Labels)
    BY <1>1
  <2>4. Len(ranking) \in Nat /\ Len(ranking) # 0
    BY <2>2, LenProperties, EmptySeq
  <2> QED BY <2>1, <2>3, <2>4
<1> QED BY <1>5, <1>6, <1>7, <1>8

(* The bound of morphing_search is a number. *)
LEMMA MorphMostIs ==
  /\ Diagnosed \in Nat /\ Diagnosed = 1 + Cardinality(Diagnostics) + 1
  /\ MorphMost \in Nat /\ MorphMost >= Diagnosed /\ MorphMost >= MaxProbes /\ MaxProbes \in Nat
<1>1. Cardinality(Diagnostics) \in Nat /\ MaxProbes \in Nat
  BY Constants
<1>2. Diagnosed \in Nat /\ Diagnosed = 1 + Cardinality(Diagnostics) + 1
  BY <1>1 DEF Diagnosed
<1> QED BY <1>1, <1>2 DEF MorphMost

(* The techniques recommended, as the search lists them. *)
LEMMA ListedIs ==
  ASSUME NEW rec \in Seq(Labels), Len(rec) > 0,
         NEW ws, ws = [i \in DOMAIN rec |-> [label |-> rec[i], score |-> 0]]
  PROVE  /\ ws \in Seq(Won) /\ 1 \in 1 .. Len(ws)
         /\ \A k \in 1 .. Len(ws) : ws[k].label \in Labels
<1>1. Len(rec) \in Nat /\ DOMAIN rec = 1 .. Len(rec)
  BY LenProperties
<1>2. \A i \in 1 .. Len(rec) : rec[i] \in Labels
  BY ElementOfSeq
<1>3. \A i \in 1 .. Len(rec) : [label |-> rec[i], score |-> 0] \in Won
  BY <1>2 DEF Won
<1>4. ws = [i \in 1 .. Len(rec) |-> [label |-> rec[i], score |-> 0]]
  BY <1>1
<1>5. ws \in [1 .. Len(rec) -> Won]
  <2> HIDE DEF Won
  <2> QED BY <1>3, <1>4
<1>6. ws \in Seq(Won) /\ Len(ws) = Len(rec)
  BY <1>1, <1>5, IsASeq, LenProperties
<1>7. \A k \in 1 .. Len(rec) : ws[k].label = rec[k]
  BY <1>4
<1> QED BY <1>1, <1>2, <1>6, <1>7

(* The step Classify. *)
LEMMA ClassifyKeeps ==
  ASSUME Inv, NEW s \in Searchers, Classify(s)
  PROVE  Keeps(s)
<1>1. PICK t : t = task[s]
  OBVIOUS
<1>2. Good(t) /\ Tables /\ MappedIsConfirmed /\ t.at = "classify"
  BY <1>1, Holds DEF Classify
<1>3. /\ t \in Task /\ t.domain \in Domains /\ Sound(t)
      /\ t.i = 1 /\ t.oks = 0 /\ t.best = NoStrategy
  BY <1>2 DEF Good, Local
<1>4. UNCHANGED <<strategies, mapping, week, confirmed>>
  BY DEF Classify, storeVars
<1>5. CASE Become(s, Idle)
  BY <1>2, <1>4, <1>5, EndKeeps
<1>6. CASE Become(s, [t EXCEPT !.at = "fall back"])
  <2>1. PICK u : u = [t EXCEPT !.at = "fall back"]
    OBVIOUS
  <2>2. /\ u \in Task /\ u.at = "fall back" /\ u.domain = t.domain
        /\ u.candidates = t.candidates
    BY <1>3, <2>1 DEF Task, Places
  <2>3. Local(u)
    BY <1>3, <2>2 DEF Local
  <2>4. Counted(u)
    BY <2>2 DEF Counted
  <2>5. Become(s, u) /\ u.at \notin Saving
    BY <1>6, <2>1, <2>2 DEF Saving
  <2> QED BY <1>2, <1>3, <1>4, <2>2, <2>3, <2>4, <2>5, ProbeKeeps
<1>7. ASSUME NEW works \in Networks \ {{}}, NEW ranking \in Rankings, Sorts(ranking, works),
             NEW rec, rec = Recommended(works, ranking),
             Become(s, [t EXCEPT !.at = "morph", !.j = 0,
                          !.probes = 1 + Cardinality(Diagnostics),
                          !.winners = [i \in DOMAIN rec |-> [label |-> rec[i], score |-> 0]]])
      PROVE  Keeps(s)
  <2>1. rec \in Seq(Labels) /\ Len(rec) > 0
    <3>1. works \in SUBSET Diagnostics /\ works # {} /\ ranking \in Seq(Diagnostics)
      BY SearchAssumption
    <3>2. Range(ranking) = works
      BY <1>7 DEF Sorts
    <3> QED BY <1>7, <3>1, <3>2, RecommendedIs
  <2>2. PICK ws : ws = [i \in DOMAIN rec |-> [label |-> rec[i], score |-> 0]]
    OBVIOUS
  <2>3. /\ ws \in Seq(Won) /\ 1 \in 1 .. Len(ws)
        /\ \A k \in 1 .. Len(ws) : ws[k].label \in Labels
    BY <2>1, <2>2, ListedIs
  <2>4. PICK n \in Nat : n = 1 + Cardinality(Diagnostics)
    BY Constants
  <2>5. PICK v : v = [t EXCEPT !.at = "morph", !.j = 0]
    OBVIOUS
  <2>6. /\ v \in Task /\ v.at = "morph" /\ v.domain = t.domain /\ v.candidates = t.candidates
        /\ v.i = 1 /\ v.j = 0 /\ v.oks = 0 /\ v.best = NoStrategy
    BY <1>3, <2>5 DEF Task, Places
  <2>7. PICK u : u = [v EXCEPT !.probes = n, !.winners = ws]
    OBVIOUS
  <2>8. /\ u \in Task /\ u.at = "morph" /\ u.domain = t.domain /\ u.candidates = t.candidates
        /\ u.i = 1 /\ u.j = 0 /\ u.oks = 0 /\ u.best = NoStrategy /\ u.probes = n
        /\ u.winners = ws
    BY <2>3, <2>6, <2>7 DEF Task
  <2>9. Local(u)
    <3>1. 0 \in 0 .. Len(Positions)
      BY Constants
    <3> QED BY <1>3, <2>3, <2>8, <3>1 DEF Local, MadeOrNone
  <2>10. Counted(u)
    <3>1. n < MorphMost
      BY <2>4, MorphMostIs, Constants
    <3> QED BY <2>8, <3>1, MorphMostIs DEF Counted
  <2>11. Become(s, u)
    <3>1. u = [t EXCEPT !.at = "morph", !.j = 0, !.probes = n, !.winners = ws]
      BY <2>5, <2>7
    <3> QED BY <1>7, <2>2, <2>4, <3>1
  <2>12. u.at \notin Saving
    BY <2>8 DEF Saving
  <2> QED BY <1>2, <1>3, <1>4, <2>8, <2>9, <2>10, <2>11, <2>12, ProbeKeeps
<1> QED BY <1>1, <1>5, <1>6, <1>7 DEF Classify

(* Where morphing goes on to. *)
MorphNext(p, place, best, j) ==
  /\ place = "morph stealth" => best = NoStrategy
  /\ place = "morph confirm" => best # NoStrategy /\ j = 1
  /\ place = "morph" => p.probes < MorphMost + (IF j = 0 THEN 0 ELSE 1)

(* The step MorphVary. *)
LEMMA MorphVaryKeeps ==
  ASSUME Inv, NEW s \in Searchers, MorphVary(s)
  PROVE  Keeps(s)
<1>1. PICK t : t = task[s]
  OBVIOUS
<1>2. Good(t) /\ Tables /\ MappedIsConfirmed /\ t.at = "morph"
  BY <1>1, Holds DEF MorphVary, Probed
<1>3. /\ t \in Task /\ t.domain \in Domains /\ Sound(t) /\ t.best \in Best /\ MadeOrNone(t.best)
      /\ t.winners \in Seq(Won) /\ t.i \in 1 .. Len(t.winners) /\ t.j \in 0 .. Len(Positions)
      /\ \A k \in 1 .. Len(t.winners) : t.winners[k].label \in Labels
      /\ t.oks = 0 /\ t.probes < MorphMost + (IF t.j = 0 THEN 0 ELSE 1)
  BY <1>2 DEF Good, Local, Counted, Task
<1>4. UNCHANGED <<strategies, mapping, week, confirmed>>
  BY DEF MorphVary, storeVars
<1>5. PICK p : p = Probed(t)
  OBVIOUS
<1>6. /\ p \in Task /\ p.probes = t.probes + 1 /\ p.domain = t.domain
      /\ p.candidates = t.candidates /\ p.i = t.i /\ p.j = t.j /\ p.oks = t.oks
      /\ p.winners = t.winners /\ p.best = t.best /\ p.at = "morph"
  BY <1>2, <1>3, <1>5, ProbedIs
<1> DEFINE Position == IF p.j = 0 THEN Sni ELSE Positions[p.j]
           Then(best) ==
             IF p.j < Len(Positions) /\ ~ (p.j > 0 /\ OverBudget(p))
             THEN [p EXCEPT !.best = best, !.j = p.j + 1]
             ELSE IF ~ OverBudget(p) /\ best.score < Excellent /\ p.i < Len(p.winners)
             THEN [p EXCEPT !.best = best, !.i = p.i + 1, !.j = 0]
             ELSE [p EXCEPT !.best = best, !.i = 1, !.j = 1,
                            !.at = IF best = NoStrategy THEN "morph stealth" ELSE "morph confirm"]
           To(best, i, j, place) == [p EXCEPT !.best = best, !.i = i, !.j = j, !.at = place]
<1>7. PICK outcome \in Outcomes :
        Become(s, Then(Better(p.best, Morph(p.winners[p.i].label, Position, FALSE, outcome))))
  BY <1>1, <1>5 DEF MorphVary
<1>8. PICK best \in Best : MadeOrNone(best) /\ Become(s, Then(best))
  <2>1. PICK x : x = Morph(p.winners[p.i].label, Position, FALSE, outcome)
    OBVIOUS
  <2>2. x \in Best /\ IsMade(x)
    <3>1. p.winners[p.i].label \in Labels
      BY <1>3, <1>6
    <3>2. Position = Sni \/ Position \in Range(Positions)
      <4>1. Len(Positions) \in Nat
        BY Constants
      <4>2. p.j # 0 => p.j \in 1 .. Len(Positions)
        BY <1>3, <1>6, <4>1
      <4> QED BY <4>2, Elements
    <3>3. outcome \in Nat
      BY Constants
    <3> HIDE DEF Position
    <3> QED BY <2>1, <3>1, <3>2, <3>3, MorphIsMade
  <2>3. Better(p.best, x) \in Best /\ MadeOrNone(Better(p.best, x))
    BY <1>3, <1>6, <2>2, BetterIs DEF MadeOrNone
  <2> HIDE DEF Then
  <2> QED BY <1>7, <2>1, <2>3
<1>9. /\ t.probes \in Nat /\ Len(p.winners) \in Nat /\ Len(Positions) \in Nat
      /\ t.i \in Nat /\ t.j \in Nat
  <2>1. Len(p.winners) \in Nat
    BY <1>3, <1>6, LenProperties
  <2> QED BY <1>3, <2>1, Constants DEF Task
<1>10. p.probes <= MorphMost + 1 /\ (p.j = 0 => p.probes <= MorphMost)
  BY <1>3, <1>6, <1>9, MorphMostIs
<1>11. ~ OverBudget(p) => p.probes < MorphMost
  BY <1>6, <1>9, MorphMostIs DEF OverBudget
<1>12. ASSUME NEW place, NEW i, NEW j,
              /\ place \in {"morph", "morph stealth", "morph confirm"}
              /\ i \in 1 .. Len(p.winners) /\ j \in 0 .. Len(Positions),
              Become(s, To(best, i, j, place)),
              MorphNext(p, place, best, j)
       PROVE  Keeps(s)
  <2>1. PICK u : u = To(best, i, j, place)
    OBVIOUS
  <2>2. /\ u \in Task /\ u.at = place /\ u.domain = p.domain /\ u.candidates = p.candidates
        /\ u.i = i /\ u.j = j /\ u.best = best /\ u.winners = p.winners /\ u.probes = p.probes
        /\ u.oks = p.oks
    <3>1. i \in Nat /\ j \in Nat
      <4>1. i \in 1 .. Len(p.winners) /\ j \in 0 .. Len(Positions)
        BY <1>12
      <4> QED BY <1>9, <4>1
    <3>2. place \in Places
      BY <1>12 DEF Places
    <3> QED BY <1>6, <1>8, <2>1, <3>1, <3>2 DEF Task
  <2>3. Local(u)
    <3>1. place = "morph confirm" => best # NoStrategy /\ j = 1
      BY <1>12 DEF MorphNext
    <3>2. place = "morph stealth" => best = NoStrategy
      BY <1>12 DEF MorphNext
    <3>3. u.oks = 0 /\ 1 \in 1 .. 2 /\ 0 < 1
      BY <1>3, <1>6, <2>2
    <3> QED BY <1>3, <1>6, <1>8, <1>12, <2>2, <3>1, <3>2, <3>3 DEF Local, MadeOrNone
  <2>4. Counted(u)
    <3>1. p.probes <= MorphMost + 3
      BY <1>6, <1>9, <1>10, MorphMostIs
    <3>2. place = "morph" => p.probes < MorphMost + (IF j = 0 THEN 0 ELSE 1)
      BY <1>12 DEF MorphNext
    <3>3. place = "morph confirm" => j = 1
      BY <1>12 DEF MorphNext
    <3> QED BY <1>10, <1>12, <2>2, <3>1, <3>2, <3>3 DEF Counted
  <2>5. Become(s, u)
    BY <1>12, <2>1
  <2>6. u.domain = t.domain /\ u.candidates = t.candidates
    BY <1>6, <2>2
  <2>7. u.at \notin Saving /\ u.at # "read best" /\ u.at # "guess again"
    BY <1>12, <2>2 DEF Saving
  <2>8. ~ (u.oks > 0)
    BY <1>3, <1>6, <2>2
  <2> QED BY <1>2, <1>3, <1>4, <1>12, <2>2, <2>3, <2>4, <2>5, <2>6, <2>7, <2>8, ProbeKeeps
<1>13. CASE p.j < Len(Positions) /\ ~ (p.j > 0 /\ OverBudget(p))
  <2>1. [p EXCEPT !.best = best, !.j = p.j + 1]
          = To(best, p.i, p.j + 1, "morph")
    BY <1>6 DEF Task
  <2>2. Become(s, To(best, p.i, p.j + 1, "morph"))
    BY <1>8, <1>13, <2>1
  <2>3. p.j + 1 \in 0 .. Len(Positions) /\ p.j + 1 # 0
    BY <1>3, <1>6, <1>9, <1>13
  <2>4. p.probes < MorphMost + 1
    BY <1>3, <1>6, <1>9, <1>10, <1>11, <1>13, MorphMostIs
  <2>5. p.i \in 1 .. Len(p.winners)
    BY <1>3, <1>6
  <2>6. MorphNext(p, "morph", best, p.j + 1)
    BY <2>3, <2>4 DEF MorphNext
  <2> HIDE DEF To, Then
  <2> QED BY <1>12, <2>2, <2>3, <2>5, <2>6
<1>14. CASE /\ ~ (p.j < Len(Positions) /\ ~ (p.j > 0 /\ OverBudget(p)))
            /\ ~ OverBudget(p) /\ best.score < Excellent /\ p.i < Len(p.winners)
  <2>1. [p EXCEPT !.best = best, !.i = p.i + 1, !.j = 0]
          = To(best, p.i + 1, 0, "morph")
    BY <1>6 DEF Task
  <2>2. Become(s, To(best, p.i + 1, 0, "morph"))
    BY <1>8, <1>14, <2>1
  <2>3. p.i + 1 \in 1 .. Len(p.winners) /\ 0 \in 0 .. Len(Positions)
    BY <1>3, <1>6, <1>9, <1>14
  <2>4. p.probes < MorphMost + 0
    BY <1>11, <1>14, MorphMostIs
  <2>5. MorphNext(p, "morph", best, 0)
    BY <2>4 DEF MorphNext
  <2> HIDE DEF To, Then
  <2> QED BY <1>12, <2>2, <2>3, <2>5
<1>15. CASE /\ ~ (p.j < Len(Positions) /\ ~ (p.j > 0 /\ OverBudget(p)))
            /\ ~ (~ OverBudget(p) /\ best.score < Excellent /\ p.i < Len(p.winners))
  <2>1. PICK place : place = IF best = NoStrategy THEN "morph stealth" ELSE "morph confirm"
    OBVIOUS
  <2>2. Become(s, To(best, 1, 1, place))
    BY <1>8, <1>15, <2>1
  <2>3. 1 \in 1 .. Len(p.winners) /\ 1 \in 0 .. Len(Positions)
    <3>1. p.i \in 1 .. Len(p.winners)
      BY <1>3, <1>6
    <3>2. Len(Positions) \in Nat /\ Len(Positions) >= 1
      BY Constants
    <3> QED BY <1>9, <3>1, <3>2
  <2>4. MorphNext(p, place, best, 1) /\ place \in {"morph", "morph stealth", "morph confirm"}
    BY <2>1 DEF MorphNext
  <2> HIDE DEF To, Then
  <2> QED BY <1>12, <2>2, <2>3, <2>4
<1> QED BY <1>13, <1>14, <1>15

(* What is left of a search that saves what it found. *)
LEMMA ToSaveIs ==
  ASSUME NEW p \in Task, p.domain \in Domains, NEW score \in Nat, NEW u, u = ToSave(p, score)
  PROVE  /\ u \in Task /\ Local(u) /\ Counted(u) /\ u.at = "save"
         /\ u.domain = p.domain /\ u.candidates = <<>>
         /\ u.best.name = p.best.name /\ u.best.techniques = p.best.techniques
<1>1. p.best \in Best /\ "save" \in Places
  BY DEF Task, Places
<1>2. PICK b : b = [p.best EXCEPT !.score = score]
  OBVIOUS
<1>3. b \in Best /\ b.name = p.best.name /\ b.techniques = p.best.techniques
  BY <1>1, <1>2 DEF Best
<1>4. u = [Idle EXCEPT !.at = "save", !.domain = p.domain, !.best = b]
  BY <1>2 DEF ToSave
<1>5. /\ u \in Task /\ u.at = "save" /\ u.domain = p.domain /\ u.candidates = <<>>
      /\ u.best = b
  <2> HIDE DEF Idle
  <2> QED BY <1>1, <1>3, <1>4, IdleIs DEF Task
<1>6. Local(u) /\ Counted(u)
  BY <1>5 DEF Local, Counted
<1> QED BY <1>3, <1>5, <1>6

(* What makes a search right that is about to save. *)
LEMMA SavesSoundly ==
  ASSUME NEW u, u.at = "save", u.candidates = <<>>,
         Known(u.best.name, u.best.techniques)', SharedName(u.best.name) \/ Fresh(u)'
  PROVE  Sound(u)'
BY DEF Sound, Saving

(* One more confirmation. *)
LEMMA FreshAfter ==
  ASSUME Tables, Tables', Learns, NEW t, t.domain \in Domains, t.oks \in Nat, NEW ok \in BOOLEAN,
         ok => Fresh(t)', t.oks > 0 => Fresh(t), t.oks + (IF ok THEN 1 ELSE 0) > 0
  PROVE  Fresh(t)'
<1>1. CASE ok
  BY <1>1
<1>2. CASE ~ ok
  <2>1. t.oks > 0
    BY <1>2
  <2> QED BY <2>1, FreshStays
<1> QED BY <1>1, <1>2

(* A score in proportion. *)
LEMMA Proportion ==
  ASSUME NEW score \in Nat, NEW oks \in Nat, oks # 0, oks <= 2
  PROVE  (score * oks) \div ConfirmCount \in Nat
<1>1. ConfirmCount = 2
  BY DEF ConfirmCount
<1>2. CASE oks = 1
  <2>1. score * oks = score
    BY <1>2
  <2> QED BY <1>1, <2>1
<1>3. CASE oks = 2
  <2>1. PICK x \in Nat : x = score * oks
    BY <1>3
  <2> QED BY <1>1, <2>1
<1> QED BY <1>2, <1>3

(* The count of the confirmations that succeeded. *)
LEMMA OksAre ==
  ASSUME NEW t, t.oks \in Nat, NEW ok \in BOOLEAN, NEW j \in 1 .. 2, t.oks < j,
         NEW oks, oks = t.oks + (IF ok THEN 1 ELSE 0)
  PROVE  oks \in Nat /\ oks <= j /\ oks < j + 1 /\ oks <= 2
OBVIOUS

(* A confirmation after which another is made. *)
LEMMA ConfirmsOn ==
  ASSUME Tables, Tables', Learns, MappedIsConfirmed', NEW s \in Searchers,
         NEW t \in Task, t.domain \in Domains, Sound(t),
         t.at \in {"guess again", "confirm", "morph confirm"}, NEW ok \in BOOLEAN, ok => Fresh(t)',
         NEW oks, oks = t.oks + (IF ok THEN 1 ELSE 0),
         NEW u \in Task, Become(s, u), Local(u), Counted(u),
         u.at = t.at, u.domain = t.domain, u.candidates = t.candidates,
         u.best = t.best, u.oks = oks
  PROVE  Keeps(s)
<1>1. Held(u.candidates)'
  <2>1. Held(t.candidates)
    BY DEF Sound, Held
  <2> QED BY <2>1, HeldStays
<1>2. u.oks > 0 => Fresh(u)'
  <2>1. t.oks > 0 => Fresh(t)
    BY DEF Sound
  <2>2. t.oks \in Nat
    BY DEF Task
  <2>3. u.oks > 0 => Fresh(t)'
    BY <2>1, <2>2, FreshAfter
  <2> QED BY <2>3 DEF Fresh
<1>3. Sound(u)'
  <2>1. u.at # "read best" /\ u.at \notin Saving
    BY DEF Saving
  <2>2. u.at # "map" /\ u.at # "map again"
    OBVIOUS
  <2> QED BY <1>1, <1>2, <2>1, <2>2 DEF Sound, Held
<1> QED BY <1>3 DEF Keeps, Went

(* A search that is done and saves what was confirmed. *)
LEMMA ConfirmsDone ==
  ASSUME Tables, Tables', Learns, MappedIsConfirmed', NEW s \in Searchers,
         NEW t \in Task, t.domain \in Domains, Sound(t), Known(t.best.name, t.best.techniques),
         t.at \in {"guess again", "confirm", "morph confirm"}, NEW ok \in BOOLEAN, ok => Fresh(t)',
         NEW oks, oks = t.oks + (IF ok THEN 1 ELSE 0), oks > 0,
         NEW p \in Task, p.domain = t.domain, p.best = t.best,
         NEW score \in Nat, Become(s, ToSave(p, score))
  PROVE  Keeps(s)
<1>1. PICK u : u = ToSave(p, score)
  OBVIOUS
<1>2. p.domain \in Domains
  OBVIOUS
<1>3. /\ u \in Task /\ Local(u) /\ Counted(u) /\ u.at = "save" /\ u.candidates = <<>>
      /\ u.domain = t.domain
      /\ u.best.name = t.best.name /\ u.best.techniques = t.best.techniques
  <2>1. /\ u \in Task /\ Local(u) /\ Counted(u) /\ u.at = "save"
        /\ u.domain = p.domain /\ u.candidates = <<>>
        /\ u.best.name = p.best.name /\ u.best.techniques = p.best.techniques
    BY <1>1, <1>2, ToSaveIs
  <2> QED BY <2>1
<1>4. Fresh(t)'
  <2>1. t.oks > 0 => Fresh(t)
    BY DEF Sound
  <2>2. t.oks \in Nat
    BY DEF Task
  <2> QED BY <2>1, <2>2, FreshAfter
<1>5. Fresh(u)'
  BY <1>3, <1>4 DEF Fresh
<1>6. Known(u.best.name, u.best.techniques)'
  <2>1. Known(t.best.name, t.best.techniques)'
    BY KnownStays
  <2> QED BY <1>3, <2>1
<1>7. Sound(u)'
  BY <1>3, <1>5, <1>6, SavesSoundly
<1>8. Become(s, u)
  BY <1>1
<1> QED BY <1>3, <1>7, <1>8 DEF Keeps, Went

(* One confirmation more, counted. *)
Again(p, oks) == [p EXCEPT !.j = p.j + 1, !.oks = oks]

(* The next confirmation. *)
LEMMA OneMore ==
  ASSUME NEW p \in Task, NEW oks \in Nat, NEW u, u = Again(p, oks)
  PROVE  /\ u \in Task /\ u.at = p.at /\ u.domain = p.domain /\ u.candidates = p.candidates
         /\ u.i = p.i /\ u.j = p.j + 1 /\ u.best = p.best /\ u.winners = p.winners
         /\ u.probes = p.probes /\ u.oks = oks
<1>1. PICK j \in Nat : j = p.j + 1
  BY DEF Task
<1>2. u = [p EXCEPT !.j = j, !.oks = oks]
  BY <1>1 DEF Again
<1>3. /\ u \in Task /\ u.at = p.at /\ u.domain = p.domain /\ u.candidates = p.candidates
      /\ u.i = p.i /\ u.j = j /\ u.best = p.best /\ u.winners = p.winners
      /\ u.probes = p.probes /\ u.oks = oks
  BY <1>2 DEF Task
<1> QED BY <1>1, <1>3

(* The step Confirm. *)
LEMMA ConfirmKeeps ==
  ASSUME Inv, NEW s \in Searchers, Confirm(s)
  PROVE  Keeps(s)
<1>1. PICK t : t = task[s]
  OBVIOUS
<1>2. Good(t) /\ Tables /\ MappedIsConfirmed /\ t.at = "confirm"
  BY <1>1, Holds DEF Confirm, Probed
<1>3. /\ t \in Task /\ t.domain \in Domains /\ Sound(t) /\ t.best \in Best /\ IsMade(t.best)
      /\ t.j \in 1 .. 2 /\ t.oks \in Nat /\ t.oks < t.j
      /\ t.probes < Most(t) + t.j /\ t.candidates \in Seq(Candidate)
  BY <1>2 DEF Good, Local, Counted, Task
<1>4. PICK p : p = Probed(t)
  OBVIOUS
<1>5. /\ p \in Task /\ p.probes = t.probes + 1 /\ p.domain = t.domain
      /\ p.candidates = t.candidates /\ p.j = t.j /\ p.oks = t.oks
      /\ p.best = t.best /\ p.at = "confirm"
  BY <1>2, <1>3, <1>4, ProbedIs
<1>6. PICK ok \in BOOLEAN :
        /\ Confirmed(p, ok)
        /\ Become(s, IF p.j < ConfirmCount
                     THEN [p EXCEPT !.j = p.j + 1, !.oks = p.oks + (IF ok THEN 1 ELSE 0)]
                     ELSE AfterConfirms(p, p.oks + (IF ok THEN 1 ELSE 0)))
  BY <1>1, <1>4 DEF Confirm
<1>7. PICK oks : oks = t.oks + (IF ok THEN 1 ELSE 0)
  OBVIOUS
<1>8. oks \in Nat /\ oks <= t.j /\ oks < t.j + 1 /\ oks <= 2
  BY <1>3, <1>7, OksAre
<1>9. UNCHANGED <<strategies, mapping, week>>
  BY DEF Confirm, storeVars
<1>10. Learns /\ Tables' /\ MappedIsConfirmed' /\ (ok => Fresh(t)')
  <2>1. Confirmed(t, ok)
    BY <1>5, <1>6 DEF Confirmed
  <2> QED BY <1>2, <1>3, <1>9, <2>1, RowsUnchanged, ConfirmLearns
<1>11. Len(t.candidates) \in Nat /\ t.probes \in Nat /\ Most(t) \in Nat
  <2>1. Len(t.candidates) \in Nat
    BY <1>3, LenProperties
  <2> QED BY <1>3, <2>1, MostIs DEF Task
<1>12. CASE p.j < ConfirmCount
  <2>1. t.j = 1
    BY <1>3, <1>5, <1>12 DEF ConfirmCount
  <2>2. PICK u : u = Again(p, oks)
    OBVIOUS
  <2>3. /\ u \in Task /\ u.at = "confirm" /\ u.domain = t.domain /\ u.candidates = t.candidates
        /\ u.j = t.j + 1 /\ u.best = t.best /\ u.probes = p.probes /\ u.oks = oks
    <3>1. /\ u \in Task /\ u.at = p.at /\ u.domain = p.domain /\ u.candidates = p.candidates
          /\ u.j = p.j + 1 /\ u.best = p.best /\ u.probes = p.probes /\ u.oks = oks
      <4>1. p \in Task /\ oks \in Nat
        BY <1>5, <1>8
      <4> QED BY <2>2, <4>1, OneMore
    <3> QED BY <1>5, <3>1
  <2>4. Local(u)
    <3>1. u.j \in 1 .. 2 /\ u.oks < u.j
      BY <1>8, <2>1, <2>3
    <3> QED BY <1>3, <2>3, <3>1 DEF Local
  <2>5. Counted(u)
    <3>1. Most(u) = Most(t)
      BY <2>3 DEF Most, Unchecked
    <3>2. u.probes < Most(u) + u.j
      BY <1>3, <1>5, <1>11, <2>1, <2>3, <3>1
    <3> QED BY <2>3, <3>2 DEF Counted
  <2>6. Become(s, u)
    BY <1>5, <1>6, <1>7, <1>12, <2>2 DEF Again
  <2> QED BY <1>2, <1>3, <1>7, <1>10, <2>3, <2>4, <2>5, <2>6, ConfirmsOn
<1>13. CASE ~ (p.j < ConfirmCount) /\ oks = 0
  <2>1. Become(s, Idle)
    BY <1>5, <1>6, <1>7, <1>13 DEF AfterConfirms
  <2> QED BY <1>10, <2>1, IdleWent DEF Keeps
<1>14. CASE ~ (p.j < ConfirmCount) /\ oks # 0
  <2>1. PICK score : score = (p.best.score * oks) \div ConfirmCount
    OBVIOUS
  <2>2. score \in Nat
    <3>1. p.best.score \in Nat
      BY <1>3, <1>5 DEF Best
    <3> QED BY <1>8, <1>14, <2>1, <3>1, Proportion
  <2>3. Become(s, ToSave(p, score))
    BY <1>5, <1>6, <1>7, <1>14, <2>1 DEF AfterConfirms
  <2>4. Known(t.best.name, t.best.techniques)
    BY <1>3, MadeIsKnown
  <2>5. oks > 0
    BY <1>8, <1>14
  <2> QED BY <1>2, <1>3, <1>5, <1>7, <1>10, <2>2, <2>3, <2>4, <2>5, ConfirmsDone
<1> QED BY <1>12, <1>13, <1>14

(* The step MorphConfirm. *)
LEMMA MorphConfirmKeeps ==
  ASSUME Inv, NEW s \in Searchers, MorphConfirm(s)
  PROVE  Keeps(s)
<1>1. PICK t : t = task[s]
  OBVIOUS
<1>2. Good(t) /\ Tables /\ MappedIsConfirmed /\ t.at = "morph confirm"
  <2>1. Good(t) /\ Tables /\ MappedIsConfirmed /\ t \in Task
    BY <1>1, Holds DEF Good
  <2>2. Probed(t).at = "morph confirm"
    BY <1>1 DEF MorphConfirm
  <2> QED BY <2>1, <2>2, ProbedIs
<1>3. /\ t \in Task /\ t.domain \in Domains /\ Sound(t) /\ t.best \in Best /\ IsMade(t.best)
      /\ t.i \in 1 .. Len(t.winners)
      /\ \A k \in 1 .. Len(t.winners) : t.winners[k].label \in Labels
  BY <1>2 DEF Good, Local, Task
<1>0. /\ t.j \in 1 .. 2 /\ t.oks \in Nat /\ t.oks < t.j
      /\ t.probes <= MorphMost + t.j /\ t.probes \in Nat
  BY <1>2 DEF Good, Local, Counted, Task
<1>4. PICK p : p = Probed(t)
  OBVIOUS
<1>5. /\ p \in Task /\ p.probes = t.probes + 1 /\ p.domain = t.domain
      /\ p.candidates = t.candidates /\ p.i = t.i /\ p.j = t.j /\ p.oks = t.oks
      /\ p.winners = t.winners /\ p.best = t.best /\ p.at = "morph confirm"
  BY <1>2, <1>3, <1>4, ProbedIs
<1>6. PICK ok \in BOOLEAN :
        /\ Confirmed(p, ok)
        /\ Become(s, IF p.j < ConfirmCount
                     THEN [p EXCEPT !.j = p.j + 1, !.oks = p.oks + (IF ok THEN 1 ELSE 0)]
                     ELSE IF p.oks + (IF ok THEN 1 ELSE 0) = 0
                     THEN [p EXCEPT !.at = "morph stealth", !.best = NoStrategy, !.j = 1]
                     ELSE ToSave(p, (p.best.score * (p.oks + (IF ok THEN 1 ELSE 0)))
                                      \div ConfirmCount))
  BY <1>1, <1>4 DEF MorphConfirm
<1>7. PICK oks : oks = t.oks + (IF ok THEN 1 ELSE 0)
  OBVIOUS
<1>8. oks \in Nat /\ oks <= t.j /\ oks < t.j + 1 /\ oks <= 2
  BY <1>0, <1>7, OksAre
<1>9. UNCHANGED <<strategies, mapping, week>>
  BY DEF MorphConfirm, storeVars
<1>10. Learns /\ Tables' /\ MappedIsConfirmed' /\ (ok => Fresh(t)')
  <2>1. Confirmed(t, ok)
    BY <1>5, <1>6 DEF Confirmed
  <2> QED BY <1>2, <1>3, <1>9, <2>1, RowsUnchanged, ConfirmLearns
<1>11. p.j = t.j /\ p.probes = t.probes + 1
  BY <1>5
<1>12. CASE p.j < ConfirmCount
  <2>1. t.j = 1
    BY <1>0, <1>11, <1>12 DEF ConfirmCount
  <2>2. PICK u : u = Again(p, oks)
    OBVIOUS
  <2>3. /\ u \in Task /\ u.at = "morph confirm" /\ u.domain = t.domain
        /\ u.candidates = t.candidates /\ u.i = t.i /\ u.winners = t.winners
        /\ u.j = t.j + 1 /\ u.best = t.best /\ u.probes = p.probes /\ u.oks = oks
    <3>1. /\ u \in Task /\ u.at = p.at /\ u.domain = p.domain /\ u.candidates = p.candidates
          /\ u.i = p.i /\ u.winners = p.winners
          /\ u.j = p.j + 1 /\ u.best = p.best /\ u.probes = p.probes /\ u.oks = oks
      <4>1. p \in Task /\ oks \in Nat
        BY <1>5, <1>8
      <4> QED BY <2>2, <4>1, OneMore
    <3> QED BY <1>5, <3>1
  <2>4. Local(u)
    <3>1. u.j = t.j + 1 /\ u.oks = oks
      BY <2>3
    <3>2. u.j \in 1 .. 2 /\ u.oks < u.j
      BY <1>8, <2>1, <3>1
    <3> QED BY <1>3, <2>3, <3>2 DEF Local
  <2>5. Counted(u)
    <3>1. u.j = t.j + 1 /\ u.probes = p.probes
      BY <2>3
    <3>2. u.probes <= MorphMost + u.j
      BY <1>0, <1>11, <3>1, MorphMostIs
    <3> QED BY <2>3, <3>2 DEF Counted
  <2>6. Become(s, u)
    BY <1>5, <1>6, <1>7, <1>12, <2>2 DEF Again
  <2> QED BY <1>2, <1>3, <1>7, <1>10, <2>3, <2>4, <2>5, <2>6, ConfirmsOn
<1>13. CASE ~ (p.j < ConfirmCount) /\ oks = 0
  <2>1. PICK u : u = [p EXCEPT !.at = "morph stealth", !.best = NoStrategy, !.j = 1]
    OBVIOUS
  <2>2. /\ u \in Task /\ u.at = "morph stealth" /\ u.domain = t.domain
        /\ u.candidates = t.candidates /\ u.i = t.i /\ u.winners = t.winners
        /\ u.best = NoStrategy /\ u.probes = p.probes
    <3>1. NoStrategy \in Best /\ "morph stealth" \in Places
      BY NoneIsTyped DEF Places
    <3> QED BY <1>5, <2>1, <3>1 DEF Task
  <2>3. Local(u)
    BY <1>3, <2>2 DEF Local
  <2>4. Counted(u)
    <3>1. u.probes = p.probes
      BY <2>2
    <3>2. u.probes <= MorphMost + 3
      BY <1>0, <1>11, <3>1, MorphMostIs
    <3> QED BY <2>2, <3>2 DEF Counted
  <2>5. Become(s, u)
    BY <1>5, <1>6, <1>7, <1>13, <2>1
  <2>6. Held(u.candidates)
    BY <1>3, <2>2 DEF Sound, Held
  <2>7. u.at \notin Saving /\ u.at \notin {"guess again", "confirm", "morph confirm"}
        /\ u.at # "read best"
    BY <2>2 DEF Saving
  <2>8. Sound(u)'
    BY <1>2, <1>10, <2>2, <2>6, <2>7, SoundPlain
  <2> QED BY <1>10, <2>2, <2>3, <2>4, <2>5, <2>8 DEF Keeps, Went
<1>14. CASE ~ (p.j < ConfirmCount) /\ oks # 0
  <2>1. PICK score : score = (p.best.score * oks) \div ConfirmCount
    OBVIOUS
  <2>2. score \in Nat
    <3>1. p.best.score \in Nat
      BY <1>3, <1>5 DEF Best
    <3> QED BY <1>8, <1>14, <2>1, <3>1, Proportion
  <2>3. Become(s, ToSave(p, score))
    <3>1. p.oks + (IF ok THEN 1 ELSE 0) = oks
      BY <1>5, <1>7
    <3> QED BY <1>6, <1>14, <2>1, <3>1
  <2>4. Known(t.best.name, t.best.techniques)
    BY <1>3, MadeIsKnown
  <2>5. oks > 0
    BY <1>8, <1>14
  <2> QED BY <1>2, <1>3, <1>5, <1>7, <1>10, <2>2, <2>3, <2>4, <2>5, ConfirmsDone
<1> QED BY <1>12, <1>13, <1>14

(* The step MorphStealth. *)
LEMMA MorphStealthKeeps ==
  ASSUME Inv, NEW s \in Searchers, MorphStealth(s)
  PROVE  Keeps(s)
<1>1. PICK t : t = task[s]
  OBVIOUS
<1>2. Good(t) /\ Tables /\ MappedIsConfirmed /\ t.at = "morph stealth"
  <2>1. Good(t) /\ Tables /\ MappedIsConfirmed /\ t \in Task
    BY <1>1, Holds DEF Good
  <2>2. Probed(t).at = "morph stealth"
    BY <1>1 DEF MorphStealth
  <2> QED BY <2>1, <2>2, ProbedIs
<1>3. /\ t \in Task /\ t.domain \in Domains /\ Sound(t) /\ t.best \in Best
      /\ t.best = NoStrategy \/ SharedName(t.best.name)
      /\ t.winners \in Seq(Won) /\ t.i \in 1 .. Len(t.winners)
      /\ \A k \in 1 .. Len(t.winners) : t.winners[k].label \in Labels
      /\ t.probes <= MorphMost + 3
  BY <1>2 DEF Good, Local, Counted, Task
<1>4. UNCHANGED <<strategies, mapping, week, confirmed>>
  BY DEF MorphStealth, storeVars
<1>5. PICK p : p = Probed(t)
  OBVIOUS
<1>6. /\ p \in Task /\ p.probes = t.probes + 1 /\ p.domain = t.domain
      /\ p.candidates = t.candidates /\ p.i = t.i
      /\ p.winners = t.winners /\ p.best = t.best /\ p.at = "morph stealth"
  BY <1>2, <1>3, <1>5, ProbedIs
<1> DEFINE Then(best) ==
             IF ~ OverBudget(p) /\ p.i < Len(p.winners)
             THEN [p EXCEPT !.i = p.i + 1, !.best = best]
             ELSE IF best = NoStrategy THEN Idle
             ELSE ToSave([p EXCEPT !.best = best], best.score)
<1>7. PICK outcome \in Outcomes :
        Become(s, Then(Better(p.best, Morph(p.winners[p.i].label, Sni, TRUE, outcome))))
  BY <1>1, <1>5 DEF MorphStealth
<1>8. PICK best \in Best :
        (best = NoStrategy \/ SharedName(best.name)) /\ Become(s, Then(best))
  <2>1. PICK x : x = Morph(p.winners[p.i].label, Sni, TRUE, outcome)
    OBVIOUS
  <2>2. p.winners[p.i].label \in Labels /\ outcome \in Nat
    BY <1>3, <1>6, Constants
  <2>3. x \in Best
    BY <2>1, <2>2, MorphIsMade
  <2>4. SharedName(x.name)
    <3>1. x.name = <<"morph", p.winners[p.i].label, Sni>>
      BY <2>1 DEF Morph
    <3> QED BY <2>2, <3>1, MorphIsShared
  <2>5. /\ Better(p.best, x) \in Best
        /\ Better(p.best, x) = NoStrategy \/ SharedName(Better(p.best, x).name)
    BY <1>3, <1>6, <2>3, <2>4, BetterIs
  <2> HIDE DEF Then
  <2> QED BY <1>7, <2>1, <2>5
<1>9. /\ p.probes \in Nat /\ Len(p.winners) \in Nat /\ p.i \in Nat
      /\ p.i >= 1 /\ p.i <= Len(p.winners)
  <2>1. Len(p.winners) \in Nat
    BY <1>3, <1>6, LenProperties
  <2>2. p.i \in 1 .. Len(p.winners)
    BY <1>3, <1>6
  <2>3. p.i \in Nat /\ p.probes \in Nat
    BY <1>6 DEF Task
  <2> QED BY <2>1, <2>2, <2>3
<1>10. CASE ~ OverBudget(p) /\ p.i < Len(p.winners)
  <2>1. p.probes < MaxProbes
    BY <1>9, <1>10, Constants DEF OverBudget
  <2>2. PICK u : u = [p EXCEPT !.i = p.i + 1, !.best = best]
    OBVIOUS
  <2>3. /\ u \in Task /\ u.at = "morph stealth" /\ u.domain = p.domain
        /\ u.candidates = p.candidates /\ u.winners = p.winners
        /\ u.i = p.i + 1 /\ u.best = best /\ u.probes = p.probes
    <3>1. p.i + 1 \in Nat
      BY <1>9
    <3> QED BY <1>6, <1>8, <2>2, <3>1 DEF Task
  <2>4. Local(u)
    <3>1. u.i = p.i + 1 /\ u.winners = p.winners
      BY <2>3
    <3>2. u.i \in 1 .. Len(u.winners)
      BY <1>9, <1>10, <3>1
    <3> QED BY <1>3, <1>6, <1>8, <2>3, <3>2 DEF Local
  <2>5. Counted(u)
    <3>1. u.probes = p.probes
      BY <2>3
    <3>2. u.probes <= MorphMost + 3
      BY <1>9, <2>1, <3>1, MorphMostIs
    <3> QED BY <2>3, <3>2 DEF Counted
  <2>6. Become(s, u)
    BY <1>8, <1>10, <2>2
  <2>7. u.domain = t.domain /\ u.candidates = t.candidates /\ u.at \notin Saving
    BY <1>6, <2>3 DEF Saving
  <2> QED BY <1>2, <1>3, <1>4, <2>3, <2>4, <2>5, <2>6, <2>7, ProbeKeeps
<1>11. CASE ~ (~ OverBudget(p) /\ p.i < Len(p.winners)) /\ best = NoStrategy
  <2>1. Become(s, Idle)
    BY <1>8, <1>11
  <2> QED BY <1>2, <1>4, <2>1, EndKeeps
<1>12. CASE ~ (~ OverBudget(p) /\ p.i < Len(p.winners)) /\ best # NoStrategy
  <2>1. PICK q : q = [p EXCEPT !.best = best]
    OBVIOUS
  <2>2. q \in Task /\ q.domain = t.domain /\ q.best = best
    BY <1>6, <1>8, <2>1 DEF Task
  <2>3. PICK score \in Nat : score = best.score
    BY <1>8 DEF Best
  <2>4. PICK u : u = ToSave(q, score)
    OBVIOUS
  <2>5. /\ u \in Task /\ Local(u) /\ Counted(u) /\ u.at = "save"
        /\ u.domain = q.domain /\ u.candidates = <<>>
        /\ u.best.name = q.best.name /\ u.best.techniques = q.best.techniques
    BY <1>3, <2>2, <2>4, ToSaveIs
  <2>6. SharedName(u.best.name)
    BY <1>8, <1>12, <2>2, <2>5
  <2>7. Learns /\ Tables' /\ MappedIsConfirmed'
    BY <1>2, <1>4, LearnsNothing
  <2>8. Known(u.best.name, u.best.techniques)'
    BY <2>6 DEF Known
  <2>9. Sound(u)'
    BY <2>5, <2>6, <2>8, SavesSoundly
  <2>10. Become(s, u)
    BY <1>8, <1>12, <2>1, <2>3, <2>4
  <2> QED BY <2>5, <2>7, <2>9, <2>10 DEF Keeps, Went
<1> QED BY <1>10, <1>11, <1>12

(* The next candidate, or the baseline. *)
LEMMA NextCandidateIs ==
  ASSUME NEW p \in Task, p.domain \in Domains, p.i \in 1 .. Len(p.candidates),
         p.probes <= 3 * p.i, p.winners = <<>>, NEW u, u = NextCandidate(p)
  PROVE  /\ u \in Task /\ Local(u) /\ Counted(u) /\ u.at \in {"guess", "baseline"}
         /\ u.domain = p.domain /\ u.candidates = p.candidates
<1>1. /\ p.candidates \in Seq(Candidate) /\ p.i \in Nat /\ p.probes \in Nat
      /\ NoStrategy \in Best
  BY NoneIsTyped DEF Task
<1>2. Len(p.candidates) \in Nat
  BY <1>1, LenProperties
<1>3. CASE p.i < Len(p.candidates)
  <2>1. PICK i \in Nat : i = p.i + 1
    BY <1>1
  <2>2. u = [p EXCEPT !.i = i, !.at = "guess", !.best = NoStrategy]
    BY <1>3, <2>1 DEF NextCandidate
  <2>3. /\ u \in Task /\ u.at = "guess" /\ u.domain = p.domain /\ u.candidates = p.candidates
        /\ u.i = i /\ u.best = NoStrategy /\ u.probes = p.probes /\ u.winners = p.winners
    <3>1. "guess" \in Places
      BY DEF Places
    <3> QED BY <1>1, <2>2, <3>1 DEF Task
  <2>4. i \in 1 .. Len(p.candidates)
    BY <1>1, <1>2, <1>3, <2>1
  <2>5. p.probes <= 3 * (i - 1)
    BY <1>1, <2>1
  <2>6. Local(u)
    BY <2>3, <2>4 DEF Local
  <2>7. Counted(u)
    BY <2>3, <2>5 DEF Counted
  <2> QED BY <2>3, <2>6, <2>7
<1>4. CASE ~ (p.i < Len(p.candidates))
  <2>1. u = [p EXCEPT !.i = 1, !.at = "baseline", !.best = NoStrategy]
    BY <1>4 DEF NextCandidate
  <2>2. /\ u \in Task /\ u.at = "baseline" /\ u.domain = p.domain /\ u.candidates = p.candidates
        /\ u.i = 1 /\ u.best = NoStrategy /\ u.probes = p.probes /\ u.winners = p.winners
    <3>1. "baseline" \in Places /\ 1 \in Nat /\ p \in Task /\ NoStrategy \in Best
      BY NoneIsTyped DEF Places
    <3> HIDE DEF NoStrategy
    <3> QED BY <2>1, <3>1 DEF Task
  <2>3. p.probes <= 3 * Len(p.candidates)
    BY <1>1, <1>2, <1>4
  <2>4. Local(u)
    BY <2>2 DEF Local
  <2>5. Counted(u)
    BY <2>2, <2>3 DEF Counted
  <2> QED BY <2>2, <2>4, <2>5
<1> QED BY <1>3, <1>4

(* A failure counted, or not, changes no strategy and no week of success. *)
LEMMA ChargeIs ==
  ASSUME Tables, NEW d \in Domains, ChargeFailure(d)
  PROVE  RowsStay /\ UNCHANGED <<strategies, week>>
BY CountsOnly, RowsUnchanged DEF ChargeFailure, Fails

(* A candidate that is given up. *)
LEMMA GivesUp ==
  ASSUME Tables, Tables', Learns, MappedIsConfirmed', NEW s \in Searchers,
         NEW p \in Task, p.domain \in Domains, Held(p.candidates),
         p.i \in 1 .. Len(p.candidates), p.probes <= 3 * p.i, p.winners = <<>>,
         Become(s, NextCandidate(p))
  PROVE  Keeps(s)
<1>1. PICK u : u = NextCandidate(p)
  OBVIOUS
<1>2. /\ u \in Task /\ Local(u) /\ Counted(u) /\ u.at \in {"guess", "baseline"}
      /\ u.domain = p.domain /\ u.candidates = p.candidates
  BY <1>1, NextCandidateIs
<1>3. /\ u.at \notin Saving /\ u.at # "read best"
      /\ u.at \notin {"guess again", "confirm", "morph confirm"}
  BY <1>2 DEF Saving
<1>4. Held(u.candidates)
  BY <1>2
<1>5. Sound(u)'
  BY <1>2, <1>3, <1>4, SoundPlain
<1>6. Become(s, u)
  BY <1>1
<1> QED BY <1>2, <1>5, <1>6 DEF Keeps, Went

(* The probes of the candidates. *)
LEMMA GuessCount ==
  ASSUME NEW probes \in Nat, NEW i \in Nat, NEW j \in 1 .. 2
  PROVE  /\ probes <= 3 * (i - 1) => probes + 1 <= 3 * i /\ probes + 1 <= 3 * (i - 1) + 1
         /\ probes <= 3 * (i - 1) + j => probes + 1 <= 3 * i /\ probes + 1 <= 3 * (i - 1) + (j + 1)
OBVIOUS

(* The step Guess. *)
LEMMA GuessKeeps ==
  ASSUME Inv, NEW s \in Searchers, Guess(s)
  PROVE  Keeps(s)
<1>1. PICK t : t = task[s]
  OBVIOUS
<1>2. Good(t) /\ Tables /\ MappedIsConfirmed /\ t.at = "guess"
  <2>1. Good(t) /\ Tables /\ MappedIsConfirmed /\ t \in Task
    BY <1>1, Holds DEF Good
  <2>2. Probed(t).at = "guess"
    BY <1>1 DEF Guess
  <2> QED BY <2>1, <2>2, ProbedIs
<1>3. /\ t \in Task /\ t.domain \in Domains /\ Sound(t) /\ t.candidates \in Seq(Candidate)
      /\ t.winners = <<>>
  BY <1>2 DEF Good, Local, Task
<1>4. /\ t.i \in 1 .. Len(t.candidates) /\ t.i \in Nat
      /\ t.probes <= 3 * (t.i - 1) /\ t.probes \in Nat
  BY <1>2 DEF Good, Local, Counted, Task
<1>5. PICK p : p = Probed(t)
  OBVIOUS
<1>6. /\ p \in Task /\ p.probes = t.probes + 1 /\ p.domain = t.domain
      /\ p.candidates = t.candidates /\ p.i = t.i /\ p.winners = t.winners
  BY <1>3, <1>5, ProbedIs
<1> DEFINE candidate == p.candidates[p.i]
           best(score) == [name |-> candidate.name, techniques |-> candidate.techniques,
                           score |-> score]
<1>7. UNCHANGED confirmed
  BY DEF Guess
<1>8. PICK outcome \in Outcomes :
        IF outcome = 0 THEN ChargeFailure(p.domain) /\ Become(s, NextCandidate(p))
        ELSE /\ Become(s, [p EXCEPT !.at = "guess again", !.j = 1, !.oks = 0,
                                    !.best = best(outcome)])
             /\ UNCHANGED storeVars
  BY <1>1, <1>5 DEF Guess
<1>9. Held(t.candidates)
  BY <1>3 DEF Sound, Held
<1>10. p.probes <= 3 * p.i /\ p.probes <= 3 * (p.i - 1) + 1
  BY <1>4, <1>6, GuessCount
<1>11. CASE outcome = 0
  <2>1. ChargeFailure(p.domain) /\ Become(s, NextCandidate(p))
    BY <1>8, <1>11
  <2>2. Learns /\ Tables' /\ MappedIsConfirmed'
    BY <1>2, <1>3, <1>6, <1>7, <2>1, ChargeIs, CountLearns
  <2>3. p.i \in 1 .. Len(p.candidates) /\ p.domain \in Domains /\ p.winners = <<>>
        /\ Held(p.candidates)
    BY <1>3, <1>4, <1>6, <1>9
  <2> QED BY <1>2, <1>6, <1>10, <2>1, <2>2, <2>3, GivesUp
<1>12. CASE outcome # 0
  <2>1. PICK b : b = best(outcome)
    OBVIOUS
  <2>2. candidate \in Candidate
    BY <1>3, <1>4, <1>6, ElementOfSeq
  <2>3. outcome \in Nat
    BY Constants
  <2>4. b \in Best /\ b.name = candidate.name /\ b.techniques = candidate.techniques
    <3> HIDE DEF candidate
    <3> QED BY <2>1, <2>2, <2>3 DEF Best, Candidate
  <2>5. PICK v : v = [p EXCEPT !.at = "guess again", !.j = 1]
    OBVIOUS
  <2>6. /\ v \in Task /\ v.at = "guess again" /\ v.domain = t.domain
        /\ v.candidates = t.candidates /\ v.i = t.i /\ v.j = 1 /\ v.winners = <<>>
        /\ v.probes = p.probes
    BY <1>3, <1>6, <2>5 DEF Task, Places
  <2>7. PICK u : u = [v EXCEPT !.oks = 0, !.best = b]
    OBVIOUS
  <2>8. /\ u \in Task /\ u.at = "guess again" /\ u.domain = t.domain
        /\ u.candidates = t.candidates /\ u.i = t.i /\ u.j = 1 /\ u.winners = <<>>
        /\ u.probes = p.probes /\ u.oks = 0 /\ u.best = b
    BY <2>4, <2>6, <2>7 DEF Task
  <2>9. Local(u)
    <3>1. b.name = u.candidates[u.i].name /\ b.techniques = u.candidates[u.i].techniques
      BY <1>6, <2>4, <2>8
    <3>2. u.i \in 1 .. Len(u.candidates)
      BY <1>4, <2>8
    <3>3. u.j \in 1 .. 2 /\ u.oks < u.j
      <4>1. u.j = 1 /\ u.oks = 0
        BY <2>8
      <4> QED BY <4>1
    <3> HIDE DEF candidate
    <3> QED BY <1>3, <2>8, <3>1, <3>2, <3>3 DEF Local
  <2>10. Counted(u)
    <3>1. u.probes <= 3 * (u.i - 1) + u.j
      BY <1>6, <1>10, <2>8
    <3> QED BY <2>8, <3>1 DEF Counted
  <2>11. Become(s, u)
    <3>1. u = [p EXCEPT !.at = "guess again", !.j = 1, !.oks = 0, !.best = b]
      BY <2>5, <2>7
    <3> QED BY <1>8, <1>12, <2>1, <3>1
  <2>12. Learns /\ Tables' /\ MappedIsConfirmed'
    <3>1. UNCHANGED <<strategies, mapping, week, confirmed>>
      BY <1>7, <1>8, <1>12 DEF storeVars
    <3> QED BY <1>2, <3>1, LearnsNothing
  <2>13. /\ u.at \notin Saving /\ u.at # "read best" /\ Held(u.candidates)
    BY <1>9, <2>8 DEF Saving
  <2>14. ~ (u.oks > 0)
    <3>1. u.oks = 0
      BY <2>8
    <3> QED BY <3>1
  <2>15. Sound(u)'
    BY <1>2, <2>8, <2>12, <2>13, <2>14, SoundPlain
  <2> QED BY <2>8, <2>9, <2>10, <2>11, <2>12, <2>15 DEF Keeps, Went
<1> QED BY <1>11, <1>12

(* The step GuessAgain. *)
LEMMA GuessAgainKeeps ==
  ASSUME Inv, NEW s \in Searchers, GuessAgain(s)
  PROVE  Keeps(s)
<1>1. PICK t : t = task[s]
  OBVIOUS
<1>2. Good(t) /\ Tables /\ MappedIsConfirmed /\ t.at = "guess again"
  <2>1. Good(t) /\ Tables /\ MappedIsConfirmed /\ t \in Task
    BY <1>1, Holds DEF Good
  <2>2. Probed(t).at = "guess again"
    BY <1>1 DEF GuessAgain
  <2> QED BY <2>1, <2>2, ProbedIs
<1>3. /\ t \in Task /\ t.domain \in Domains /\ Sound(t) /\ t.candidates \in Seq(Candidate)
      /\ t.winners = <<>> /\ t.best \in Best
      /\ t.best.name = t.candidates[t.i].name
      /\ t.best.techniques = t.candidates[t.i].techniques
  BY <1>2 DEF Good, Local, Task
<1>4. /\ t.i \in 1 .. Len(t.candidates) /\ t.i \in Nat /\ t.j \in 1 .. 2 /\ t.oks < t.j
      /\ t.probes <= 3 * (t.i - 1) + t.j /\ t.probes \in Nat /\ t.oks \in Nat
  BY <1>2 DEF Good, Local, Counted, Task
<1>5. PICK p : p = Probed(t)
  OBVIOUS
<1>6. /\ p \in Task /\ p.probes = t.probes + 1 /\ p.domain = t.domain /\ p.at = "guess again"
      /\ p.candidates = t.candidates /\ p.i = t.i /\ p.j = t.j /\ p.winners = t.winners
      /\ p.best = t.best /\ p.oks = t.oks
  BY <1>2, <1>3, <1>5, ProbedIs
<1>7. PICK ok \in BOOLEAN :
        /\ Confirmed(p, ok)
        /\ IF p.j < FastGuessConfirms
           THEN /\ Become(s, [p EXCEPT !.j = p.j + 1, !.oks = p.oks + (IF ok THEN 1 ELSE 0)])
                /\ UNCHANGED storeVars
           ELSE IF p.oks + (IF ok THEN 1 ELSE 0) = FastGuessConfirms
           THEN Become(s, ToSave(p, p.best.score)) /\ UNCHANGED storeVars
           ELSE ChargeFailure(p.domain) /\ Become(s, NextCandidate(p))
  BY <1>1, <1>5 DEF GuessAgain
<1>8. PICK oks : oks = t.oks + (IF ok THEN 1 ELSE 0)
  OBVIOUS
<1>9. oks \in Nat /\ oks <= t.j /\ oks < t.j + 1 /\ oks <= 2
  BY <1>4, <1>8, OksAre
<1>10. Held(t.candidates) /\ Known(t.best.name, t.best.techniques)
  BY <1>3, <1>4 DEF Sound, Held
<1>11. p.probes <= 3 * p.i /\ p.probes <= 3 * (p.i - 1) + (p.j + 1)
  BY <1>4, <1>6, GuessCount
<1>12. RowsStay /\ UNCHANGED <<strategies, week>>
  <2>1. CASE UNCHANGED storeVars
    BY <1>2, <2>1, RowsUnchanged DEF storeVars
  <2>2. CASE ChargeFailure(p.domain)
    BY <1>2, <1>3, <1>6, <2>2, ChargeIs
  <2> QED BY <1>7, <2>1, <2>2
<1>13. Learns /\ Tables' /\ MappedIsConfirmed' /\ (ok => Fresh(t)')
  <2>1. Confirmed(t, ok)
    BY <1>6, <1>7 DEF Confirmed
  <2> QED BY <1>2, <1>3, <1>12, <2>1, ConfirmLearns
<1>14. p.oks + (IF ok THEN 1 ELSE 0) = oks
  BY <1>6, <1>8
<1>15. CASE p.j < FastGuessConfirms
  <2>1. t.j = 1
    <3>1. p.j = t.j
      BY <1>6
    <3> QED BY <1>4, <1>15, <3>1 DEF FastGuessConfirms
  <2>2. PICK u : u = Again(p, oks)
    OBVIOUS
  <2>3. /\ u \in Task /\ u.at = "guess again" /\ u.domain = t.domain
        /\ u.candidates = t.candidates /\ u.i = t.i /\ u.winners = t.winners
        /\ u.j = t.j + 1 /\ u.best = t.best /\ u.probes = p.probes /\ u.oks = oks
    <3>1. /\ u \in Task /\ u.at = p.at /\ u.domain = p.domain /\ u.candidates = p.candidates
          /\ u.i = p.i /\ u.winners = p.winners
          /\ u.j = p.j + 1 /\ u.best = p.best /\ u.probes = p.probes /\ u.oks = oks
      <4>1. p \in Task /\ oks \in Nat
        BY <1>6, <1>9
      <4> QED BY <2>2, <4>1, OneMore
    <3> QED BY <1>6, <3>1
  <2>4. Local(u)
    <3>1. u.j = t.j + 1 /\ u.oks = oks
      BY <2>3
    <3>2. u.j \in 1 .. 2 /\ u.oks < u.j
      BY <1>9, <2>1, <3>1
    <3>3. u.i \in 1 .. Len(u.candidates)
      BY <1>4, <2>3
    <3> QED BY <1>3, <2>3, <3>2, <3>3 DEF Local
  <2>5. Counted(u)
    <3>1. u.probes <= 3 * (u.i - 1) + u.j
      BY <1>6, <1>11, <2>3
    <3> QED BY <2>3, <3>1 DEF Counted
  <2>6. Become(s, u)
    BY <1>7, <1>14, <1>15, <2>2 DEF Again
  <2> QED BY <1>2, <1>3, <1>8, <1>13, <2>3, <2>4, <2>5, <2>6, ConfirmsOn
<1>16. CASE ~ (p.j < FastGuessConfirms) /\ oks = FastGuessConfirms
  <2>1. PICK score \in Nat : score = p.best.score
    BY <1>3, <1>6 DEF Best
  <2>2. Become(s, ToSave(p, score))
    BY <1>7, <1>14, <1>16, <2>1
  <2>3. oks > 0
    BY <1>16 DEF FastGuessConfirms
  <2> QED BY <1>2, <1>3, <1>6, <1>8, <1>10, <1>13, <2>2, <2>3, ConfirmsDone
<1>17. CASE ~ (p.j < FastGuessConfirms) /\ oks # FastGuessConfirms
  <2>1. Become(s, NextCandidate(p))
    BY <1>7, <1>14, <1>17
  <2>2. p.i \in 1 .. Len(p.candidates) /\ p.domain \in Domains /\ p.winners = <<>>
        /\ Held(p.candidates)
    BY <1>3, <1>4, <1>6, <1>10
  <2> QED BY <1>2, <1>6, <1>11, <1>13, <2>1, <2>2, GivesUp
<1> QED BY <1>15, <1>16, <1>17

(* From one write of a search to the next. *)
LEMMA SavesOn ==
  ASSUME Tables, Tables', Learns, NEW t \in Task, t.domain \in Domains, Sound(t),
         t.at \in Saving, NEW place \in Saving, NEW u, u = [t EXCEPT !.at = place],
         place \in {"map", "map again"} => t.best.name \in DOMAIN strategies'
  PROVE  u \in Task /\ Local(u) /\ Counted(u) /\ Sound(u)'
<1>1. place \in Places
  BY DEF Places, Saving
<1>2. /\ u \in Task /\ u.at = place /\ u.domain = t.domain
      /\ u.candidates = t.candidates /\ u.best = t.best
  BY <1>1 DEF Task
<1>3. Local(u)
  BY <1>2 DEF Local, Saving
<1>4. Counted(u)
  BY <1>2 DEF Counted, Saving
<1>5. Held(u.candidates)'
  <2>1. Held(t.candidates)
    BY DEF Sound, Held
  <2> QED BY <1>2, <2>1, HeldStays
<1>6. Known(u.best.name, u.best.techniques)'
  <2>1. Known(t.best.name, t.best.techniques)
    BY DEF Sound
  <2> QED BY <1>2, <2>1, KnownStays
<1>7. SharedName(u.best.name) \/ Fresh(u)'
  <2>1. SharedName(t.best.name) \/ Fresh(t)
    BY DEF Sound
  <2>2. Fresh(t) => Fresh(t)'
    BY FreshStays
  <2> QED BY <1>2, <2>1, <2>2 DEF Fresh
<1>8. Sound(u)'
  <2>1. /\ u.at \in Saving /\ u.at # "read best"
        /\ u.at \notin {"guess again", "confirm", "morph confirm"}
    BY <1>2 DEF Saving
  <2> QED BY <1>2, <1>5, <1>6, <1>7, <2>1 DEF Sound, Held
<1> QED BY <1>2, <1>3, <1>4, <1>8

(* The caller may have it saved once more. *)
LEMMA ReturnWent ==
  ASSUME Tables, Tables', Learns, NEW s \in Searchers, NEW t, t = task[s],
         t \in Task, t.domain \in Domains, Sound(t), t.at \in Saving, Return(s)
  PROVE  Went(s)
<1>1. CASE Become(s, Idle)
  BY <1>1, IdleWent
<1>2. CASE Become(s, [t EXCEPT !.at = "save again"])
  <2>1. PICK u : u = [t EXCEPT !.at = "save again"]
    OBVIOUS
  <2>2. "save again" \in Saving /\ "save again" \notin {"map", "map again"}
    BY DEF Saving
  <2>3. u \in Task /\ Local(u) /\ Counted(u) /\ Sound(u)'
    BY <2>1, <2>2, SavesOn
  <2> QED BY <1>2, <2>1, <2>3 DEF Went
<1> QED BY <1>1, <1>2 DEF Return

(* The step Save. *)
LEMMA SaveKeeps ==
  ASSUME Inv, NEW s \in Searchers, Save(s)
  PROVE  Keeps(s)
<1>1. PICK t : t = task[s]
  OBVIOUS
<1>2. /\ Good(t) /\ Tables /\ MappedIsConfirmed /\ t.at \in {"save", "save again"}
      /\ t.at \in Saving
  BY <1>1, Holds DEF Save, Saving
<1>3. /\ t \in Task /\ t.domain \in Domains /\ Sound(t) /\ t.best \in Best
      /\ Known(t.best.name, t.best.techniques)
  BY <1>2 DEF Good, Local, Sound, Task
<1>4. UNCHANGED confirmed
  BY DEF Save
<1>5. CASE Fails /\ Return(s)
  <2>1. Learns /\ Tables' /\ MappedIsConfirmed'
    <3>1. UNCHANGED <<strategies, mapping, week, confirmed>>
      BY <1>4, <1>5 DEF Fails
    <3> QED BY <1>2, <3>1, LearnsNothing
  <2> QED BY <1>1, <1>2, <1>3, <1>5, <2>1, ReturnWent DEF Keeps
<1>6. CASE /\ PutStrategy(t.best.name, t.best.techniques)
           /\ Become(s, [t EXCEPT !.at = IF t.at = "save" THEN "map" ELSE "map again"])
  <2>1. t.best.name \in Names /\ t.best.techniques \in Techniques
    BY <1>3 DEF Best
  <2>2. Learns /\ Tables' /\ MappedIsConfirmed' /\ t.best.name \in DOMAIN strategies'
    BY <1>2, <1>3, <1>4, <1>6, <2>1, PutLearns
  <2>3. PICK place \in Saving : place = IF t.at = "save" THEN "map" ELSE "map again"
    BY DEF Saving
  <2>4. PICK u : u = [t EXCEPT !.at = place]
    OBVIOUS
  <2>5. u \in Task /\ Local(u) /\ Counted(u) /\ Sound(u)'
    BY <1>2, <1>3, <2>2, <2>4, SavesOn
  <2>6. Become(s, u)
    BY <1>6, <2>3, <2>4
  <2> QED BY <2>2, <2>5, <2>6 DEF Keeps, Went
<1> QED BY <1>1, <1>5, <1>6 DEF Save

(* The step Map. *)
LEMMA MapKeeps ==
  ASSUME Inv, NEW s \in Searchers, Map(s)
  PROVE  Keeps(s)
<1>1. PICK t : t = task[s]
  OBVIOUS
<1>2. /\ Good(t) /\ Tables /\ MappedIsConfirmed /\ t.at \in {"map", "map again"}
      /\ t.at \in Saving
  BY <1>1, Holds DEF Map, Saving
<1>3. /\ t \in Task /\ t.domain \in Domains /\ Sound(t) /\ t.best \in Best
      /\ Known(t.best.name, t.best.techniques)
      /\ SharedName(t.best.name) \/ Fresh(t)
      /\ t.best.name \in DOMAIN strategies
  BY <1>2 DEF Good, Local, Sound, Task
<1>4. UNCHANGED confirmed
  BY DEF Map
<1>5. Learns /\ Tables' /\ MappedIsConfirmed'
  <2>1. CASE Fails
    <3>1. UNCHANGED <<strategies, mapping, week, confirmed>>
      BY <1>4, <2>1 DEF Fails
    <3> QED BY <1>2, <3>1, LearnsNothing
  <2>2. CASE PutMapping(t.domain, t.best.name, t.best.score)
    <3>1. t.best.score \in Nat
      BY <1>3 DEF Best
    <3> QED BY <1>2, <1>3, <1>4, <2>2, <3>1, MapLearns
  <2> QED BY <1>1, <2>1, <2>2 DEF Map
<1>6. Return(s)
  BY DEF Map
<1> QED BY <1>1, <1>2, <1>3, <1>5, <1>6, ReturnWent DEF Keeps
-----------------------------------------------------------------------------
(* The steps of the specification.                                          *)

(* At the beginning of the weeks what is stored counts as confirmed. *)
LEMMA InvInit == Init => Inv
<1> SUFFICES ASSUME Init PROVE Inv
  OBVIOUS
<1>1. PICK tables \in Found : strategies = tables.strategies /\ mapping = tables.mapping
  BY DEF Init, StoreInit
<1>2. week = 0 /\ task = [s \in Searchers |-> Idle]
  BY DEF Init, StoreInit
<1>3. \A s \in Searchers : task[s] = Idle
  BY <1>2
<1>4. Typed /\ \A s \in Searchers : Counted(task[s]) /\ Sound(task[s])
  <2>1. Local(Idle)
    <3> HIDE DEF Idle
    <3> QED BY IdleIs DEF Local
  <2>2. Counted(Idle)
    <3> HIDE DEF Idle
    <3> QED BY IdleIs DEF Counted
  <2>3. Sound(Idle)
    <3>1. PICK u : u = Idle
      OBVIOUS
    <3>2. Held(u.candidates) /\ u.at = "idle"
      BY <3>1, IdleIs, NothingIsHeld
    <3>3. Sound(u)
      BY <3>2 DEF Sound, Held, Saving
    <3> QED BY <3>1, <3>3
  <2>4. task \in [Searchers -> Task]
    <3> HIDE DEF Idle
    <3> QED BY <1>2, IdleIs
  <2> HIDE DEF Idle
  <2> QED BY <1>3, <2>1, <2>2, <2>3, <2>4 DEF Typed
<1>5. WellFormed(tables)
  BY StoreAssumption
<1>6. \A d \in DOMAIN mapping :
        /\ d \in Domains /\ mapping[d] \in Row(DOMAIN strategies) /\ mapping[d].lastSuccess = 0
  <2>1. DOMAIN mapping \subseteq Domains
    BY <1>1, <1>5 DEF WellFormed
  <2>2. \A d \in DOMAIN mapping : mapping[d] \in
          [strategy : DOMAIN strategies, score : Nat, lastSuccess : {0},
           successes : 0 .. MaxCount, failures : 0 .. MaxCount]
    BY <1>1, <1>5 DEF WellFormed
  <2>3. \A n \in 0 .. MaxCount : n \in Nat
    BY StoreAssumption
  <2> QED BY <2>1, <2>2, <2>3 DEF Row
<1>7. \A d \in Domains :
        confirmed[d] = IF Mapped(d)
                       THEN Upsert(<<>>, strategies[mapping[d].strategy], mapping[d].lastSuccess)
                       ELSE <<>>
  BY DEF Init
<1>8. \A d \in DOMAIN mapping :
        /\ DOMAIN confirmed[d] = {strategies[mapping[d].strategy]}
        /\ confirmed[d][strategies[mapping[d].strategy]] = 0
  <2> TAKE d \in DOMAIN mapping
  <2> DEFINE x == strategies[mapping[d].strategy]
  <2>1. confirmed[d] = Upsert(<<>>, x, 0)
    BY <1>6, <1>7 DEF Mapped
  <2>2. DOMAIN Upsert(<<>>, x, 0) = {x} /\ Upsert(<<>>, x, 0)[x] = 0
    <3> HIDE DEF x
    <3>1. DOMAIN <<>> = {}
      OBVIOUS
    <3> QED BY <3>1 DEF Upsert
  <2> HIDE DEF x
  <2> QED BY <2>1, <2>2 DEF x
<1>9. \A d \in Domains \ DOMAIN mapping : DOMAIN confirmed[d] = {}
  <2> TAKE d \in Domains \ DOMAIN mapping
  <2>1. confirmed[d] = <<>>
    BY <1>7 DEF Mapped
  <2>2. DOMAIN <<>> = {}
    OBVIOUS
  <2> QED BY <2>1, <2>2
<1>10. Tables
  <2>1. \A name \in DOMAIN strategies : name \in Names /\ strategies[name] \in Techniques
    BY <1>1 DEF Names, Techniques, Range
  <2>2. Telling
    BY <1>1, FoundAssumption DEF Telling
  <2>3. DOMAIN confirmed = Domains
    BY DEF Init
  <2>4. \A d \in Domains : \A x \in DOMAIN confirmed[d] : confirmed[d][x] = 0
    BY <1>8, <1>9
  <2> QED BY <1>2, <1>6, <2>1, <2>2, <2>3, <2>4 DEF Tables
<1>11. MappedIsConfirmed
  BY <1>6, <1>8 DEF MappedIsConfirmed, ConfirmedFor
<1> QED BY <1>4, <1>10, <1>11 DEF Inv

(* Every step of a search keeps it right, and the tables. *)
LEMMA StepHolds ==
  ASSUME Inv, NEW s \in Searchers, Step(s)
  PROVE  Keeps(s)
BY ReadBestKeeps, ReadAnyKeeps, GuessKeeps, GuessAgainKeeps, BaselineKeeps, SweepOneKeeps,
   VaryKeeps, StealthOneKeeps, ConfirmKeeps, SaveKeeps, MapKeeps, ClassifyKeeps, FallBackKeeps,
   MorphVaryKeeps, MorphConfirmKeeps, MorphStealthKeeps DEF Step

(* What the searches hold of their own stays what it is. *)
LEMMA StaysTyped ==
  ASSUME Typed, \A s \in Searchers : Counted(task[s]), UNCHANGED task
  PROVE  Typed' /\ \A s \in Searchers : Counted(task[s])'
<1>1. task' \in [Searchers -> Task]
  BY DEF Typed
<1>2. \A s \in Searchers : Local(task[s])'
  <2> TAKE s \in Searchers
  <2>1. Local(task'[s])
    BY DEF Typed
  <2> QED BY <2>1 DEF Local
<1>3. \A s \in Searchers : Counted(task[s])'
  <2> TAKE s \in Searchers
  <2>1. Counted(task[s])
    OBVIOUS
  <2> QED BY <2>1 DEF Counted, Most, Unchecked, Diagnosed, MorphMost
<1> QED BY <1>1, <1>2, <1>3 DEF Typed

(* Nobody searches from one week to the next. *)
LEMMA WaitHolds ==
  ASSUME Inv, Wait
  PROVE  Inv'
<1>1. /\ UNCHANGED <<strategies, mapping, confirmed, task>> /\ week' = week + 1
      /\ \A s \in Searchers : task[s].at = "idle"
  BY DEF Wait, WeekPasses
<1>2. Tables /\ MappedIsConfirmed /\ Typed /\ \A s \in Searchers : Counted(task[s])
  BY DEF Inv
<1>3. Tables'
  <2>1. week \in Nat /\ \A n \in Nat : n <= week => n <= week + 1
    BY <1>2 DEF Tables
  <2>2. \A d \in DOMAIN mapping : mapping[d].lastSuccess \in Nat
    BY <1>2 DEF Tables, Row
  <2>3. \A d \in DOMAIN mapping : mapping[d].lastSuccess <= week + 1
    BY <1>2, <2>1, <2>2 DEF Tables
  <2>4. \A d \in Domains : \A x \in DOMAIN confirmed[d] : confirmed[d][x] <= week + 1
    BY <1>2, <2>1 DEF Tables
  <2>5. week + 1 \in Nat
    BY <2>1
  <2> QED BY <1>1, <1>2, <2>3, <2>4, <2>5 DEF Tables, Telling
<1>4. MappedIsConfirmed'
  BY <1>1, <1>2 DEF MappedIsConfirmed, ConfirmedFor
<1>5. Typed' /\ \A s \in Searchers : Counted(task[s])'
  BY <1>1, <1>2, StaysTyped
<1>6. \A s \in Searchers : Sound(task[s])'
  <2> TAKE s \in Searchers
  <2>1. PICK t : t = task[s]
    OBVIOUS
  <2>2. t.at = "idle" /\ t.candidates = <<>>
    BY <1>1, <1>2, <2>1 DEF Typed, Local
  <2>3. Sound(t)'
    BY <2>2, NothingHeld
  <2> QED BY <1>1, <2>1, <2>3 DEF Sound, Known, Recent, Fresh, SharedName
<1> QED BY <1>3, <1>4, <1>5, <1>6 DEF Inv

(* Every step preserves the invariant. *)
LEMMA InvNext == Inv /\ [Next]_vars => Inv'
<1> SUFFICES ASSUME Inv, [Next]_vars PROVE Inv'
  OBVIOUS
<1>1. ASSUME NEW s \in Searchers, Keeps(s) PROVE Inv'
  BY <1>1, StepKeeps DEF Keeps
<1>2. CASE Wait
  BY <1>2, WaitHolds
<1>3. ASSUME NEW s \in Searchers, Step(s) PROVE Inv'
  BY <1>1, <1>3, StepHolds
<1>4. ASSUME NEW s \in Searchers, NEW d \in Domains, Start(s, d) PROVE Inv'
  BY <1>1, <1>4, StartKeeps
<1>5. ASSUME NEW s \in Searchers, NEW d \in Domains, StartMorphing(s, d) PROVE Inv'
  BY <1>1, <1>5, StartMorphingKeeps
<1>6. CASE UNCHANGED vars
  <2>1. UNCHANGED <<strategies, mapping, week, confirmed, task>>
    BY <1>6 DEF vars, storeVars
  <2>2. Tables /\ MappedIsConfirmed /\ Typed /\ \A s \in Searchers : Counted(task[s])
    BY DEF Inv
  <2>3. Tables' /\ MappedIsConfirmed'
    BY <2>1, <2>2, LearnsNothing
  <2>4. Typed'
    BY <2>1, <2>2, StaysTyped
  <2>5. \A s \in Searchers : Counted(task[s])' /\ Sound(task[s])'
    <3> TAKE s \in Searchers
    <3>1. Sound(task[s])
      BY DEF Inv
    <3>2. Counted(task[s])'
      BY <2>1, <2>2, StaysTyped
    <3>3. Sound(task[s])'
      BY <2>1, <3>1 DEF Sound, Known, Fresh, Recent
    <3> QED BY <3>2, <3>3
  <2> QED BY <2>3, <2>4, <2>5 DEF Inv
<1> QED BY <1>2, <1>3, <1>4, <1>5, <1>6 DEF Next

(* The inductive invariant: what a search holds, what it has counted, and    *)
(* what the tables say belong together in every state.                      *)
THEOREM Invariance == Spec => []Inv
<1> QED BY InvInit, InvNext, PTL DEF Spec

(* What the store says works for a domain (desyncd-store/src/queries.rs) was *)
(* confirmed for that very domain, and not before last_success, however many *)
(* searches run at the same time and whichever statements fail.              *)
THEOREM Confirmations == Spec => []MappedIsConfirmed
<1>1. Inv => MappedIsConfirmed
  BY DEF Inv
<1> QED BY <1>1, Invariance, PTL

(* A candidate of the fast guess of find_best_strategy was confirmed, for    *)
(* some domain, within the last week.                                       *)
THEOREM Guesses == Spec => []GuessIsRecent
<1>1. Inv => GuessIsRecent
  <2> SUFFICES ASSUME Inv, NEW s \in Searchers, NEW i \in DOMAIN task[s].candidates,
                      ~ SharedName(task[s].candidates[i].name)
               PROVE  Recent(task[s].candidates[i].techniques)
    BY DEF GuessIsRecent, Recent
  <2>1. task[s] \in Task /\ Sound(task[s])
    BY Holds DEF Good
  <2>2. task[s].candidates \in Seq(Candidate)
    BY <2>1 DEF Task
  <2>3. i \in 1 .. Len(task[s].candidates)
    BY <2>2, LenProperties
  <2> QED BY <2>1, <2>3 DEF Sound
<1> QED BY <1>1, Invariance, PTL

(* A search makes at most two probes more than max_probes, or than its fast  *)
(* guesses, the baseline, the sweep and one variation take; morphing_search  *)
(* at most four more.                                                        *)
THEOREM Budget == Spec => []ProbesBounded
<1>1. Inv => ProbesBounded
  <2> SUFFICES ASSUME Inv, NEW s \in Searchers
               PROVE  /\ task[s].at \in Probing => task[s].probes < Most(task[s]) + ConfirmCount
                      /\ task[s].at \in MorphProbing =>
                           task[s].probes < MorphMost + ConfirmCount + 2
    BY DEF ProbesBounded, Most, Unchecked, MorphMost, Diagnosed
  <2>1. PICK t : t = task[s]
    OBVIOUS
  <2>2. t \in Task /\ Local(t) /\ Counted(t)
    BY <2>1, Holds DEF Good
  <2>3. t.candidates \in Seq(Candidate) /\ t.probes \in Nat
    BY <2>2 DEF Task
  <2>4. /\ Len(t.candidates) \in Nat /\ Len(Sweep) \in Nat /\ MaxProbes \in Nat
        /\ Most(t) \in Nat /\ Most(t) >= Unchecked(t)
        /\ Unchecked(t) = Len(t.candidates) * (1 + 2) + 1 + Len(Sweep) + 1
    <3>1. Len(t.candidates) \in Nat
      BY <2>3, LenProperties
    <3> QED BY <3>1, MostIs, Constants DEF Unchecked, FastGuessConfirms
  <2>5. ConfirmCount = 2
    BY DEF ConfirmCount
  <2>6. CASE t.at \in {"guess", "guess again"}
    <3>1. t.i \in 1 .. Len(t.candidates) /\ t.probes <= 3 * (t.i - 1) + 2
      <4>1. t.i \in 1 .. Len(t.candidates) /\ t.i \in Nat
        BY <2>2, <2>6 DEF Local, Task
      <4>2. CASE t.at = "guess"
        <5>1. t.probes <= 3 * (t.i - 1)
          BY <2>2, <4>2 DEF Counted
        <5> QED BY <2>3, <4>1, <5>1
      <4>3. CASE t.at = "guess again"
        <5>1. t.probes <= 3 * (t.i - 1) + t.j /\ t.j \in 1 .. 2
          BY <2>2, <4>3 DEF Local, Counted
        <5> QED BY <2>3, <4>1, <5>1
      <4> QED BY <2>6, <4>2, <4>3
    <3>2. t.probes < Most(t) + 2
      BY <2>3, <2>4, <3>1
    <3> QED BY <2>1, <2>5, <2>6, <3>2 DEF MorphProbing
  <2>7. CASE t.at = "baseline"
    <3>1. t.probes <= 3 * Len(t.candidates)
      BY <2>2, <2>7 DEF Counted
    <3>2. t.probes < Most(t) + 2
      BY <2>3, <2>4, <3>1
    <3> QED BY <2>1, <2>5, <2>7, <3>2 DEF MorphProbing
  <2>8. CASE t.at = "sweep"
    <3>1. t.probes <= 3 * Len(t.candidates) + t.i /\ t.i \in 1 .. Len(Sweep)
      BY <2>2, <2>8 DEF Local, Counted
    <3>2. t.probes < Most(t) + 2
      BY <2>3, <2>4, <3>1
    <3> QED BY <2>1, <2>5, <2>8, <3>2 DEF MorphProbing
  <2>9. CASE t.at \in {"vary", "stealth"}
    <3>1. t.probes < Most(t)
      BY <2>2, <2>9 DEF Counted
    <3>2. t.probes < Most(t) + 2
      BY <2>3, <2>4, <3>1
    <3> QED BY <2>1, <2>5, <2>9, <3>2 DEF MorphProbing
  <2>10. CASE t.at = "confirm"
    <3>1. t.probes < Most(t) + t.j /\ t.j \in 1 .. 2
      BY <2>2, <2>10 DEF Local, Counted
    <3>2. t.probes < Most(t) + 2
      BY <2>3, <2>4, <3>1
    <3> QED BY <2>1, <2>5, <2>10, <3>2 DEF MorphProbing
  <2>11. CASE t.at = "morph"
    <3>1. t.probes < MorphMost + (IF t.j = 0 THEN 0 ELSE 1)
      BY <2>2, <2>11 DEF Counted
    <3>2. t.probes < MorphMost + 2 + 2
      BY <2>3, <3>1, MorphMostIs
    <3> QED BY <2>1, <2>5, <2>11, <3>2 DEF Probing
  <2>12. CASE t.at = "morph confirm"
    <3>1. t.probes <= MorphMost + t.j /\ t.j \in 1 .. 2
      BY <2>2, <2>12 DEF Local, Counted
    <3>2. t.probes < MorphMost + 2 + 2
      BY <2>3, <3>1, MorphMostIs
    <3> QED BY <2>1, <2>5, <2>12, <3>2 DEF Probing
  <2>13. CASE t.at = "morph stealth"
    <3>1. t.probes <= MorphMost + 3
      BY <2>2, <2>13 DEF Counted
    <3>2. t.probes < MorphMost + 2 + 2
      BY <2>3, <3>1, MorphMostIs
    <3> QED BY <2>1, <2>5, <2>13, <3>2 DEF Probing
  <2>14. CASE t.at \notin Probing \cup MorphProbing
    BY <2>1, <2>14
  <2> QED BY <2>6, <2>7, <2>8, <2>9, <2>10, <2>11, <2>12, <2>13, <2>14 DEF Probing, MorphProbing
<1> QED BY <1>1, Invariance, PTL
=============================================================================
