---------------------------- MODULE RelayProofs ----------------------------
(***************************************************************************)
(* Proofs about Relay, for any connections, rules, strategies, fallback     *)
(* chain and bounds.  The argument is one inductive invariant in layers,    *)
(* each of which uses the ones before it:                                   *)
(*   Typed    types, and where a task is says how many attempts it opened;  *)
(*   Holding  until a task settles on an attempt it has read nothing of any *)
(*            of them and no more of the client than the first message;     *)
(*   Telling  an attempt that is being watched was sent that message whole; *)
(* and the properties themselves, of which the learned set, the hot start   *)
(* and the two streams are inductive on top of these layers; and, at the end, *)
(* that the relay implements Tunnel.                                        *)
(***************************************************************************)
EXTENDS Relay, SequenceTheorems, WellFoundedInduction, TLAPS

-----------------------------------------------------------------------------
(* The order on Nat as a set of pairs, for the theorems on well-founded relations. *)
Below == {ss \in Nat \X Nat : ss[1] < ss[2]}

(* The order of the natural numbers, as a set of pairs, is well founded. *)
LEMMA BelowWellFounded == IsWellFoundedOn(Below, Nat)
BY Zenon, NatLessThanWellFounded DEF Below, OpToRel

(* The minimum of a nonempty set of numbers is one of them. *)
LEMMA MinIn ==
  ASSUME NEW S \in SUBSET Nat, S # {}
  PROVE  Min(S) \in S
<1>1. PICK x \in S : \A y \in S : ~(<<y, x>> \in Below)
  BY WFMin, BelowWellFounded
<1>2. \A a, b \in Nat : <<a, b>> \notin Below => b <= a
  BY DEF Below
<1>3. \A y \in S : x <= y
  BY <1>1, <1>2
<1> QED BY <1>3 DEF Min

(* Strategy::apply returns one of the actions, whatever its techniques. *)
LEMMA StrategyApplyType ==
  ASSUME NEW techs \in Seq(Technique), NEW proto
  PROVE  StrategyApply(techs, proto) \in Actions
<1> DEFINE usable == {i \in DOMAIN techs : Applicable(techs[i], proto)}
<1>1. CASE usable = {}
  BY <1>1 DEF StrategyApply, Actions
<1>2. CASE usable # {}
  <2>1. Min(usable) \in DOMAIN techs
    BY <1>2, MinIn
  <2>2. techs[Min(usable)] \in Technique
    BY <2>1
  <2> QED BY <1>2, <2>2 DEF StrategyApply, Actions, Technique
<1> QED BY <1>1, <1>2

(* Selector::apply returns one of the actions, whatever the rules say and   *)
(* whatever has been learned.                                               *)
LEMMA SelectorApplyType ==
  ASSUME NEW proto, NEW known
  PROVE  SelectorApply(proto, known) \in Actions
<1>1. Select(proto.domain) \in Seq(Technique)
  BY SelectorAssumption DEF Select
<1>2. Primary(proto) \in Actions
  BY <1>1, StrategyApplyType DEF Primary
<1>3. ASSUME Fallback # <<>>
      PROVE  StrategyApply(<<Fallback[1]>>, proto) \in Actions
  <2>1. Fallback[1] \in Technique
    BY <1>3, SelectorAssumption
  <2>2. <<Fallback[1]>> \in Seq(Technique)
    BY <2>1
  <2> QED BY <2>2, StrategyApplyType
<1> QED BY <1>2, <1>3 DEF SelectorApply

(* A run of pieces is a sequence of numbers. *)
LEMMA PiecesType ==
  ASSUME NEW i \in Nat, NEW j \in Nat
  PROVE  Pieces(i, j) \in Seq(Nat)
BY DEF Pieces

(* Every action writes a sequence of pieces. *)
LEMMA WireType ==
  ASSUME NEW action, NEW k \in Nat, NEW size \in Nat
  PROVE  Wire(action, k, size) \in Seq(Nat)
<1>1. Pieces(1, k) \in Seq(Nat) /\ Pieces(1, size) \in Seq(Nat) /\ Pieces(2, k) \in Seq(Nat)
  BY PiecesType
<1>2. <<0>> \in Seq(Nat) /\ <<1>> \in Seq(Nat)
  OBVIOUS
<1>3. Pieces(1, IF k < size THEN k ELSE size) \in Seq(Nat)
  BY <1>1
<1>4. Pieces(2, k) \o <<1>> \in Seq(Nat) /\ <<0>> \o Pieces(1, k) \in Seq(Nat)
  BY <1>1, <1>2, ConcatProperties
<1> QED BY <1>1, <1>3, <1>4 DEF Wire

(* Replacing one element of one sequence in a function to sequences. *)
LEMMA SeqUpdate ==
  ASSUME NEW C, NEW S, NEW f \in [C -> Seq(S)], NEW c \in C, NEW i \in DOMAIN f[c], NEW v \in S,
         NEW g, g = [f EXCEPT ![c][i] = v]
  PROVE  /\ g \in [C -> Seq(S)]
         /\ \A d \in C : DOMAIN g[d] = DOMAIN f[d] /\ Len(g[d]) = Len(f[d])
         /\ \A d \in C \ {c} : g[d] = f[d]
         /\ \A j \in DOMAIN f[c] : g[c][j] = IF j = i THEN v ELSE f[c][j]
<1>1. [f[c] EXCEPT ![i] = v] \in Seq(S) /\ Len([f[c] EXCEPT ![i] = v]) = Len(f[c])
  BY ExceptSeq
<1>2. g = [f EXCEPT ![c] = [f[c] EXCEPT ![i] = v]]
  OBVIOUS
<1> QED BY <1>1, <1>2

(* Appending one element to one sequence in a function to sequences. *)
LEMMA SeqAppend ==
  ASSUME NEW C, NEW S, NEW f \in [C -> Seq(S)], NEW c \in C, NEW v \in S,
         NEW g, g = [f EXCEPT ![c] = Append(@, v)]
  PROVE  /\ g \in [C -> Seq(S)]
         /\ \A d \in C \ {c} : g[d] = f[d]
         /\ Len(g[c]) = Len(f[c]) + 1
         /\ g[c][Len(f[c]) + 1] = v
         /\ \A j \in DOMAIN f[c] : g[c][j] = f[c][j]
OBVIOUS

-----------------------------------------------------------------------------
(* The places of a task that has not yet settled on an attempt. *)
SetUp == {"begin", "start", "reassemble", "apply", "early", "connect", "probe"}

(* What a task's place says of its attempts: how many it has opened, and    *)
(* that it still goes by the first.                                         *)
Place(c) ==
  /\ pc[c] \in {"begin", "start", "reassemble", "apply"} => att[c][1].act = "none"
  /\ pc[c] \in {"begin", "start", "reassemble", "apply", "early"} => Len(att[c]) = 1
  /\ pc[c] = "early" => Fallback # <<>>
  /\ pc[c] \in {"connect", "probe"} => fb[c] \in 1..Len(Fallback)
  /\ pc[c] = "connect" => Len(att[c]) = fb[c]
  /\ pc[c] = "probe" => Len(att[c]) = fb[c] + 1
  /\ pc[c] \in SetUp => cur[c] = 1

Typed == TypeOK /\ \A c \in Conns : Place(c)

(* The typing invariant holds at the start. *)
LEMMA TypedInit == Init => Typed
<1> SUFFICES ASSUME Init PROVE Typed
  OBVIOUS
<1>1. Fresh("none", <<>>) \in Attempt
  BY DEF Fresh, Attempt, Ends
<1>2. <<Fresh("none", <<>>)>> \in Seq(Attempt) /\ Len(<<Fresh("none", <<>>)>>) = 1
  BY <1>1
<1>3. TypeOK
  BY <1>2, SelectorAssumption DEF Init, TypeOK, Ends, PCs
<1>4. \A c \in Conns : Place(c)
  BY <1>2 DEF Init, Place, Fresh, SetUp
<1> QED BY <1>3, <1>4 DEF Typed

(* The empty buffer has the type of each buffer. *)
LEMMA Empty == <<>> \in Seq(Nat) /\ <<>> \in Seq(Nat \X Nat)
OBVIOUS

(* What any action writes of a connection's first message is well typed. *)
LEMMA FirstWireType ==
  ASSUME TypeOK, NEW c \in Conns, NEW action
  PROVE  FirstWire(c, action) \in Seq(Nat)
<1>1. first[c] \in Nat /\ hello[c].size \in Nat
  BY RelayAssumption DEF TypeOK
<1> QED BY <1>1, WireType DEF FirstWire

(* A run of pieces of one attempt is well typed. *)
LEMMA PiecesOfType ==
  ASSUME NEW i \in Nat, NEW n \in Nat
  PROVE  PiecesOf(i, n) \in Seq(Nat \X Nat)
BY DEF PiecesOf

(* Returning, wherever the task does it. *)
LEMMA TypedFinish ==
  ASSUME Typed, NEW c \in Conns, Finish(c),
         UNCHANGED <<peer, read, got, att, first, fb, cur, state, learned>>
  PROVE  Typed'
<1>1. TypeOK'
  BY Empty DEF Typed, TypeOK, Finish, Goto, PCs, peer, state
<1>2. \A d \in Conns : Place(d)'
  BY DEF Typed, TypeOK, Place, Finish, Goto, SetUp
<1> QED BY <1>1, <1>2 DEF Typed

(* A step that only moves the task on. *)
LEMMA TypedGoto ==
  ASSUME Typed, NEW c \in Conns, NEW p \in {"start", "apply", "relay"}, Goto(c, p),
         p = "start" => pc[c] = "begin", p = "apply" => pc[c] = "reassemble",
         UNCHANGED <<peer, read, got, att, first, fb, cur, seed, bufs, state, learned>>
  PROVE  Typed'
<1>1. TypeOK'
  BY DEF Typed, TypeOK, Goto, PCs, peer, bufs, state
<1>2. \A d \in Conns : Place(d)'
  BY DEF Typed, TypeOK, Place, Goto, SetUp
<1> QED BY <1>1, <1>2 DEF Typed

(* A step that moves no task. *)
LEMMA PlaceKept ==
  ASSUME Typed, UNCHANGED <<pc, fb, cur>>,
         \A d \in Conns : Len(att'[d]) = Len(att[d]) /\ att'[d][1].act = att[d][1].act
  PROVE  \A d \in Conns : Place(d)'
BY DEF Typed, Place

(* A step on one attempt that keeps its type, with the task's place as it is. *)
LEMMA TypedAttempt ==
  ASSUME Typed, NEW c \in Conns, NEW i \in DOMAIN att[c], NEW a \in Attempt,
         a.act = att[c][i].act, att' = [att EXCEPT ![c][i] = a]
  PROVE  /\ att' \in [Conns -> Seq(Attempt)]
         /\ \A d \in Conns : Len(att'[d]) = Len(att[d]) /\ att'[d][1].act = att[d][1].act
<1>1. att \in [Conns -> Seq(Attempt)]
  BY DEF Typed, TypeOK
<1>2. ASSUME NEW d \in Conns
      PROVE  1 \in DOMAIN att[d]
  <2>1. att[d] \in Seq(Attempt)
    BY <1>1
  <2>2. Len(att[d]) \in 1..(1 + Len(Fallback)) /\ Len(Fallback) \in Nat
    BY SelectorAssumption DEF Typed, TypeOK
  <2> QED BY <2>1, <2>2
<1>3. /\ att' \in [Conns -> Seq(Attempt)]
      /\ \A d \in Conns : Len(att'[d]) = Len(att[d])
      /\ \A d \in Conns \ {c} : att'[d] = att[d]
      /\ \A j \in DOMAIN att[c] : att'[c][j] = IF j = i THEN a ELSE att[c][j]
  BY <1>1, SeqUpdate
<1> QED BY <1>2, <1>3

(* Whatever the peers and the network do keeps the typing invariant. *)
LEMMA TypedEnvironment ==
  ASSUME Typed, NEW c \in Conns, Environment(c)
  PROVE  Typed'
<1>1. CASE ClientSends(c)
  <2>1. sent' \in [Conns -> Nat]
    BY <1>1 DEF Typed, TypeOK, ClientSends
  <2>2. TypeOK'
    BY <1>1, <2>1 DEF Typed, TypeOK, ClientSends, bufs, state
  <2> QED BY <1>1, <2>2, PlaceKept DEF Typed, ClientSends
<1>2. CASE ClientEnds(c)
  <2>1. TypeOK'
    BY <1>2 DEF Typed, TypeOK, ClientEnds, Ends, bufs, state
  <2> QED BY <1>2, <2>1, PlaceKept DEF Typed, ClientEnds
<1>3. CASE UpstreamSends(c)
  <2>1. PICK i \in DOMAIN att[c] : att' = [att EXCEPT ![c][i].sent = @ + 1]
    BY <1>3 DEF UpstreamSends, Live
  <2> DEFINE a == [att[c][i] EXCEPT !.sent = @ + 1]
  <2>2. att[c][i] \in Attempt
    BY DEF Typed, TypeOK
  <2>3. a \in Attempt /\ a.act = att[c][i].act
    BY <2>2 DEF Attempt
  <2>4. att' = [att EXCEPT ![c][i] = a]
    BY <2>1
  <2>5. /\ att' \in [Conns -> Seq(Attempt)]
        /\ \A d \in Conns : Len(att'[d]) = Len(att[d]) /\ att'[d][1].act = att[d][1].act
    BY <2>3, <2>4, TypedAttempt
  <2>6. TypeOK'
    BY <1>3, <2>5 DEF Typed, TypeOK, UpstreamSends, peer, bufs, state
  <2> QED BY <1>3, <2>5, <2>6, PlaceKept DEF Typed, UpstreamSends
<1>4. CASE UpstreamEnds(c)
  <2>1. PICK i \in DOMAIN att[c], e \in Ends : att' = [att EXCEPT ![c][i].end = e]
    BY <1>4 DEF UpstreamEnds, Live
  <2> DEFINE a == [att[c][i] EXCEPT !.end = e]
  <2>2. att[c][i] \in Attempt
    BY DEF Typed, TypeOK
  <2>3. a \in Attempt /\ a.act = att[c][i].act
    BY <2>2 DEF Attempt
  <2>4. att' = [att EXCEPT ![c][i] = a]
    BY <2>1
  <2>5. /\ att' \in [Conns -> Seq(Attempt)]
        /\ \A d \in Conns : Len(att'[d]) = Len(att[d]) /\ att'[d][1].act = att[d][1].act
    BY <2>3, <2>4, TypedAttempt
  <2>6. TypeOK'
    BY <1>4, <2>5 DEF Typed, TypeOK, UpstreamEnds, peer, bufs, state
  <2> QED BY <1>4, <2>5, <2>6, PlaceKept DEF Typed, UpstreamEnds
<1> QED BY <1>1, <1>2, <1>3, <1>4 DEF Environment

(* Reading the first message keeps the typing invariant. *)
LEMMA TypedFirstMessage ==
  ASSUME Typed, NEW c \in Conns, FirstMessage(c)
  PROVE  Typed'
<1>1. CASE Begin(c)
  <2>1. CASE Goto(c, "start") /\ UNCHANGED <<seed, bufs>>
    BY <1>1, <2>1, TypedGoto DEF Begin
  <2>2. CASE Finish(c)
    BY <1>1, <2>2, TypedFinish DEF Begin
  <2> QED BY <1>1, <2>1, <2>2 DEF Begin
<1>2. CASE NoFirstMessage(c)
  BY <1>2, TypedFinish DEF NoFirstMessage
<1>3. CASE ReadFirst(c) \/ ReadMore(c)
  <2>1. PICK n \in Nat : Gather(c, n)
    BY <1>3, RelayAssumption DEF ReadFirst, ReadMore, Typed, TypeOK
  <2>2. /\ pc[c] \in {"start", "reassemble"}
        /\ UNCHANGED <<peer, got, att, fb, cur, seed, bufs, state, learned>>
    BY <1>3 DEF ReadFirst, ReadMore
  <2>3. TypeOK'
    BY <2>1, <2>2 DEF Typed, TypeOK, Gather, Goto, PCs, peer, bufs, state
  <2>4. \A d \in Conns : Place(d)'
    BY <2>1, <2>2 DEF Typed, TypeOK, Place, Gather, Goto, SetUp
  <2> QED BY <2>3, <2>4 DEF Typed
<1>4. CASE StopReassembly(c)
  BY <1>4, TypedGoto DEF StopReassembly
<1> QED BY <1>1, <1>2, <1>3, <1>4 DEF FirstMessage

(* An answer within a window keeps the typing invariant. *)
LEMMA TypedTakeSeed ==
  ASSUME Typed, NEW c \in Conns, NEW i \in DOMAIN att[c], NEW n \in Nat, TakeSeed(c, i, n),
         UNCHANGED <<peer, read, got, first, fb, bufs>>, learned' \subseteq Domains
  PROVE  Typed'
<1> DEFINE a == [att[c][i] EXCEPT !.read = n]
<1>1. att[c][i] \in Attempt /\ i \in 1..Len(att[c]) /\ i \in Nat
  BY DEF Typed, TypeOK
<1>2. a \in Attempt /\ a.act = att[c][i].act
  BY <1>1 DEF Attempt
<1>3. att' = [att EXCEPT ![c][i] = a]
  BY DEF TakeSeed
<1>4. /\ att' \in [Conns -> Seq(Attempt)]
      /\ \A d \in Conns : Len(att'[d]) = Len(att[d]) /\ att'[d][1].act = att[d][1].act
  BY <1>2, <1>3, TypedAttempt
<1>5. PiecesOf(i, n) \in Seq(Nat \X Nat)
  BY <1>1, PiecesOfType
<1>6. TypeOK'
  BY <1>1, <1>4, <1>5 DEF Typed, TypeOK, TakeSeed, Settle, Goto, PCs, peer, bufs
<1>7. \A d \in Conns : Place(d)'
  BY <1>4 DEF Typed, TypeOK, Place, TakeSeed, Settle, Goto, SetUp
<1> QED BY <1>6, <1>7 DEF Typed

(* The primary attempt keeps the typing invariant. *)
LEMMA TypedPrimaryAttempt ==
  ASSUME Typed, NEW c \in Conns, PrimaryAttempt(c)
  PROVE  Typed'
<1>1. CASE ApplyPrimary(c)
  <2> DEFINE a == [att[c][1] EXCEPT !.act = PrimaryAction(c), !.wire = FirstWire(c, PrimaryAction(c))]
  <2>1. att \in [Conns -> Seq(Attempt)] /\ 1 \in DOMAIN att[c] /\ att[c][1] \in Attempt
    BY DEF Typed, TypeOK
  <2>2. PrimaryAction(c) \in Actions /\ FirstWire(c, PrimaryAction(c)) \in Seq(Nat)
    BY SelectorApplyType, FirstWireType DEF PrimaryAction, Typed
  <2>3. a \in Attempt
    BY <2>1, <2>2 DEF Attempt
  <2>4. att' = [att EXCEPT ![c][1] = a]
    BY <1>1 DEF ApplyPrimary
  <2>5. /\ att' \in [Conns -> Seq(Attempt)]
        /\ \A d \in Conns : Len(att'[d]) = Len(att[d])
        /\ \A d \in Conns \ {c} : att'[d] = att[d]
    BY <2>1, <2>3, <2>4, SeqUpdate
  <2>6. TypeOK'
    BY <1>1, <2>5 DEF Typed, TypeOK, ApplyPrimary, Goto, PCs, peer, bufs
  <2>7. \A d \in Conns : Place(d)'
    BY SMTT(60), <1>1, <2>5 DEF Typed, TypeOK, Place, ApplyPrimary, Goto, SetUp
  <2> QED BY <2>6, <2>7 DEF Typed
<1>2. CASE PrimaryWriteFails(c)
  <2> DEFINE w == FirstWire(c, PrimaryAction(c))
  <2>1. att \in [Conns -> Seq(Attempt)] /\ 1 \in DOMAIN att[c] /\ att[c][1] \in Attempt
    BY DEF Typed, TypeOK
  <2>2. PrimaryAction(c) \in Actions /\ w \in Seq(Nat)
    BY SelectorApplyType, FirstWireType DEF PrimaryAction, Typed
  <2> HIDE DEF w
  <2>3. PICK n \in 0..(Len(w) - 1) :
               att' = [att EXCEPT ![c][1].act = PrimaryAction(c), ![c][1].wire = SubSeq(w, 1, n)]
    BY <1>2 DEF PrimaryWriteFails, w
  <2> DEFINE a == [att[c][1] EXCEPT !.act = PrimaryAction(c), !.wire = SubSeq(w, 1, n)]
  <2>4. SubSeq(w, 1, n) \in Seq(Nat)
    BY <2>2, SubSeqProperties
  <2>5. a \in Attempt
    BY <2>1, <2>2, <2>4 DEF Attempt
  <2>6. att' = [att EXCEPT ![c][1] = a]
    BY <2>3
  <2>7. /\ att' \in [Conns -> Seq(Attempt)]
        /\ \A d \in Conns : Len(att'[d]) = Len(att[d])
        /\ \A d \in Conns \ {c} : att'[d] = att[d]
    BY <2>1, <2>5, <2>6, SeqUpdate
  <2>8. TypeOK'
    BY <1>2, <2>7, Empty DEF Typed, TypeOK, PrimaryWriteFails, Finish, Goto, PCs, peer
  <2>9. \A d \in Conns : Place(d)'
    BY SMTT(60), <1>2, <2>7 DEF Typed, TypeOK, Place, PrimaryWriteFails, Finish, Goto, SetUp
  <2> QED BY <2>8, <2>9 DEF Typed
<1>3. CASE EarlyData(c)
  <2>1. 1 \in DOMAIN att[c]
    BY DEF Typed, TypeOK
  <2>2. PICK n \in 1..att[c][1].sent : TakeSeed(c, 1, n)
    BY <1>3 DEF EarlyData
  <2>3. learned' \subseteq Domains
    BY <1>3 DEF EarlyData, Typed, TypeOK
  <2> QED BY <1>3, <2>1, <2>2, <2>3, TypedTakeSeed DEF EarlyData
<1>4. CASE EarlyRetry(c)
  <2>1. TypeOK'
    BY <1>4 DEF Typed, TypeOK, EarlyRetry, EnterChain, Goto, PCs, peer, bufs, state
  <2>2. 1 \in 1..Len(Fallback)
    BY <1>4, SelectorAssumption DEF Typed, Place, EarlyRetry
  <2>3. \A d \in Conns : Place(d)'
    BY <1>4, <2>2 DEF Typed, TypeOK, Place, EarlyRetry, EnterChain, Goto, SetUp
  <2> QED BY <2>1, <2>3 DEF Typed
<1>5. CASE EarlyProceed(c)
  BY <1>5, TypedGoto DEF EarlyProceed
<1> QED BY <1>1, <1>2, <1>3, <1>4, <1>5 DEF PrimaryAttempt

(* Giving up on one fallback keeps the typing invariant: the next attempt   *)
(* stays within the chain.                                                  *)
LEMMA TypedNextFallback ==
  ASSUME Typed, NEW c \in Conns, NextFallback(c), pc[c] \in {"connect", "probe"},
         att' \in [Conns -> Seq(Attempt)], \A d \in Conns \ {c} : att'[d] = att[d],
         Len(att'[c]) = fb[c] + 1,
         UNCHANGED <<peer, read, got, first, cur, seed, bufs, state, learned>>
  PROVE  Typed'
<1>1. Len(Fallback) \in Nat
  BY SelectorAssumption
<1>2. fb[c] \in 1..Len(Fallback) /\ cur[c] = 1
  BY DEF Typed, Place, SetUp
<1>3. ASSUME NEW d \in Conns
      PROVE  Len(att'[d]) \in 1..(1 + Len(Fallback)) /\ cur'[d] \in 1..Len(att'[d])
  <2>1. CASE d = c
    <3>1. Len(att'[c]) \in 1..(1 + Len(Fallback)) /\ 1 \in 1..Len(att'[c])
      BY <1>1, <1>2
    <3> QED BY <1>2, <2>1, <3>1
  <2>2. CASE d # c
    BY <2>2 DEF Typed, TypeOK
  <2> QED BY <2>1, <2>2
<1>4. ASSUME fb' \in [Conns -> Nat], pc' \in [Conns -> PCs]
      PROVE  TypeOK'
  BY <1>3, <1>4 DEF Typed, TypeOK, peer, bufs, state
<1>5. CASE fb[c] < Len(Fallback) /\ fb' = [fb EXCEPT ![c] = @ + 1] /\ Goto(c, "connect")
  <2>1. fb' \in [Conns -> Nat] /\ pc' \in [Conns -> PCs]
    BY <1>5 DEF Typed, TypeOK, Goto, PCs
  <2>2. fb'[c] = fb[c] + 1 /\ pc'[c] = "connect" /\ fb'[c] \in 1..Len(Fallback)
    BY <1>1, <1>2, <1>5 DEF Typed, TypeOK, Goto
  <2>3. Place(c)'
    BY <1>2, <2>2 DEF Place, SetUp
  <2>4. \A d \in Conns \ {c} : Place(d)'
    BY <1>5 DEF Typed, TypeOK, Place, Goto, SetUp
  <2> QED BY <1>4, <2>1, <2>3, <2>4 DEF Typed
<1>6. CASE fb' = fb /\ Goto(c, "relay")
  <2>1. fb' \in [Conns -> Nat] /\ pc' \in [Conns -> PCs]
    BY <1>6 DEF Typed, TypeOK, Goto, PCs
  <2>2. \A d \in Conns : Place(d)'
    BY <1>2, <1>6 DEF Typed, TypeOK, Place, Goto, SetUp
  <2> QED BY <1>4, <2>1, <2>2 DEF Typed
<1> QED BY <1>5, <1>6 DEF NextFallback

(* What is learned is a domain. *)
LEMMA TypedLearn ==
  ASSUME Typed, NEW c \in Conns, Learn(c)
  PROVE  learned' \subseteq Domains
BY RelayAssumption DEF Typed, TypeOK, Learn

(* The fallback chain keeps the typing invariant: it opens one attempt for  *)
(* each of its techniques.                                                  *)
LEMMA TypedFallbackChain ==
  ASSUME Typed, NEW c \in Conns, FallbackChain(c)
  PROVE  Typed'
<1> DEFINE w == FirstWire(c, FallbackAction(c))
<1>1. ASSUME pc[c] = "connect"
      PROVE  FallbackAction(c) \in Actions /\ w \in Seq(Nat)
  <2>1. Fallback[fb[c]] \in Technique
    BY <1>1, SelectorAssumption DEF Typed, Place
  <2>2. <<Fallback[fb[c]]>> \in Seq(Technique)
    BY <2>1
  <2> QED BY <2>2, StrategyApplyType, FirstWireType DEF FallbackAction, Typed
<1>2. att \in [Conns -> Seq(Attempt)]
  BY DEF Typed, TypeOK
<1> HIDE DEF w
<1>3. CASE ReconnectFails(c)
  BY <1>3, TypedGoto DEF ReconnectFails
<1>4. CASE FallbackSent(c)
  <2>1. Fresh(FallbackAction(c), w) \in Attempt
    BY <1>1, <1>4 DEF Fresh, Attempt, Ends, FallbackSent
  <2>2. att' = [att EXCEPT ![c] = Append(@, Fresh(FallbackAction(c), w))]
    BY <1>4 DEF FallbackSent, Open, w
  <2>3. /\ att' \in [Conns -> Seq(Attempt)]
        /\ \A d \in Conns \ {c} : att'[d] = att[d]
        /\ Len(att'[c]) = Len(att[c]) + 1
    BY <1>2, <2>1, <2>2, SeqAppend
  <2>4. fb[c] \in 1..Len(Fallback) /\ Len(att[c]) = fb[c] /\ cur[c] = 1
    BY <1>4 DEF Typed, Place, SetUp, FallbackSent
  <2>5. Len(Fallback) \in Nat
    BY SelectorAssumption
  <2>6. ASSUME NEW d \in Conns
        PROVE  Len(att'[d]) \in 1..(1 + Len(Fallback)) /\ cur'[d] \in 1..Len(att'[d])
    <3>1. CASE d = c
      <4>1. Len(att'[c]) \in 1..(1 + Len(Fallback)) /\ 1 \in 1..Len(att'[c])
        BY <2>3, <2>4, <2>5
      <4> QED BY <1>4, <2>4, <3>1, <4>1 DEF FallbackSent
    <3>2. CASE d # c
      BY <1>4, <2>3, <3>2 DEF Typed, TypeOK, FallbackSent
    <3> QED BY <3>1, <3>2
  <2>7. TypeOK'
    BY <1>4, <2>3, <2>6 DEF Typed, TypeOK, FallbackSent, Goto, PCs, peer, bufs, state
  <2>8. \A d \in Conns : Place(d)'
    BY <1>4, <2>3 DEF Typed, TypeOK, Place, FallbackSent, Goto, SetUp
  <2> QED BY <2>7, <2>8 DEF Typed
<1>5. CASE FallbackWriteFails(c)
  <2>1. PICK n \in 0..(Len(w) - 1) :
               att' = [att EXCEPT ![c] = Append(@, Fresh(FallbackAction(c), SubSeq(w, 1, n)))]
    BY <1>5 DEF FallbackWriteFails, Open, w
  <2>2. SubSeq(w, 1, n) \in Seq(Nat)
    BY <1>1, <1>5, SubSeqProperties DEF FallbackWriteFails
  <2>3. Fresh(FallbackAction(c), SubSeq(w, 1, n)) \in Attempt
    BY <1>1, <1>5, <2>2 DEF Fresh, Attempt, Ends, FallbackWriteFails
  <2>4. /\ att' \in [Conns -> Seq(Attempt)]
        /\ \A d \in Conns \ {c} : att'[d] = att[d]
        /\ Len(att'[c]) = Len(att[c]) + 1
    BY <1>2, <2>1, <2>3, SeqAppend
  <2>5. Len(att'[c]) = fb[c] + 1
    BY <1>5, <2>4 DEF FallbackWriteFails, Typed, Place
  <2> QED BY <1>5, <2>4, <2>5, TypedNextFallback DEF FallbackWriteFails
<1>6. CASE FallbackFails(c)
  <2>1. Len(att'[c]) = fb[c] + 1
    BY <1>6 DEF FallbackFails, Typed, Place
  <2> QED BY <1>2, <1>6, <2>1, TypedNextFallback DEF FallbackFails
<1>7. CASE FallbackAnswers(c)
  <2>1. Len(att[c]) \in DOMAIN att[c]
    BY DEF Typed, TypeOK
  <2>2. PICK n \in 1..Probed(c).sent : TakeSeed(c, Len(att[c]), n)
    BY <1>7 DEF FallbackAnswers
  <2>3. learned' \subseteq Domains
    BY <1>7, TypedLearn DEF FallbackAnswers
  <2> QED BY <1>7, <2>1, <2>2, <2>3, TypedTakeSeed DEF FallbackAnswers
<1>8. CASE FallbackQuiet(c)
  <2>1. learned' \subseteq Domains
    BY <1>8, TypedLearn DEF FallbackQuiet
  <2>2. TypeOK'
    BY SMTT(60), <1>8, <2>1 DEF Typed, TypeOK, FallbackQuiet, Goto, PCs, peer, bufs
  <2>3. \A d \in Conns : Place(d)'
    BY <1>8 DEF Typed, TypeOK, Place, FallbackQuiet, Goto, SetUp
  <2> QED BY <2>2, <2>3 DEF Typed
<1> QED BY <1>3, <1>4, <1>5, <1>6, <1>7, <1>8 DEF FallbackChain

(* The flush and the two relay loops keep the typing invariant. *)
LEMMA TypedLoops ==
  ASSUME Typed, NEW c \in Conns,
         FlushSeed(c) \/ FlushFails(c) \/ UpLoop(c) \/ DownLoop(c)
  PROVE  Typed'
<1>1. CASE FlushSeed(c)
  <2>1. got[c] \o seed[c] \in Seq(Nat \X Nat)
    BY ConcatProperties DEF Typed, TypeOK
  <2>2. TypeOK'
    BY <1>1, <2>1, Empty DEF Typed, TypeOK, FlushSeed, Goto, PCs, peer, bufs, state
  <2>3. \A d \in Conns : Place(d)'
    BY <1>1 DEF Typed, TypeOK, Place, FlushSeed, Goto, SetUp
  <2> QED BY <2>2, <2>3 DEF Typed
<1>2. CASE FlushFails(c) \/ UpEnds(c) \/ DownEnds(c)
  BY <1>2, TypedFinish DEF FlushFails, UpEnds, DownEnds
<1>3. CASE UpRead(c)
  <2>1. <<read[c] + 1>> \in Seq(Nat)
    BY DEF Typed, TypeOK
  <2>2. TypeOK'
    BY SMTT(60), <1>3, <2>1 DEF Typed, TypeOK, UpRead, peer, state
  <2> QED BY <1>3, <2>2, PlaceKept DEF UpRead, Typed
<1>4. CASE UpWrite(c)
  <2> DEFINE a == [Upstream(c) EXCEPT !.wire = @ \o upBuf[c]]
  <2>1. cur[c] \in DOMAIN att[c] /\ Upstream(c) \in Attempt /\ upBuf[c] \in Seq(Nat)
    BY DEF Typed, TypeOK, Upstream
  <2>2. Upstream(c).wire \o upBuf[c] \in Seq(Nat)
    BY <2>1, ConcatProperties DEF Attempt
  <2>3. a \in Attempt /\ a.act = att[c][cur[c]].act
    BY <2>1, <2>2 DEF Attempt, Upstream
  <2>4. att' = [att EXCEPT ![c][cur[c]] = a]
    BY <1>4 DEF UpWrite, Upstream
  <2>5. /\ att' \in [Conns -> Seq(Attempt)]
        /\ \A d \in Conns : Len(att'[d]) = Len(att[d]) /\ att'[d][1].act = att[d][1].act
    BY <2>1, <2>3, <2>4, TypedAttempt
  <2>6. TypeOK'
    BY <1>4, <2>5, Empty DEF Typed, TypeOK, UpWrite, peer, state
  <2> QED BY <1>4, <2>5, <2>6, PlaceKept DEF UpWrite, Typed
<1>5. CASE DownRead(c)
  <2> DEFINE a == [Upstream(c) EXCEPT !.read = @ + 1]
  <2>1. cur[c] \in DOMAIN att[c] /\ Upstream(c) \in Attempt
    BY DEF Typed, TypeOK, Upstream
  <2>2. a \in Attempt /\ a.act = att[c][cur[c]].act
    BY <2>1 DEF Attempt, Upstream
  <2>3. att' = [att EXCEPT ![c][cur[c]] = a]
    BY <1>5 DEF DownRead, Upstream
  <2>4. /\ att' \in [Conns -> Seq(Attempt)]
        /\ \A d \in Conns : Len(att'[d]) = Len(att[d]) /\ att'[d][1].act = att[d][1].act
    BY <2>1, <2>2, <2>3, TypedAttempt
  <2>5. <<<<cur[c], Upstream(c).read + 1>>>> \in Seq(Nat \X Nat)
    <3>1. cur[c] \in Nat
      BY DEF Typed, TypeOK
    <3>2. Upstream(c).read + 1 \in Nat
      BY <2>1 DEF Attempt
    <3>3. <<cur[c], Upstream(c).read + 1>> \in Nat \X Nat
      BY <3>1, <3>2
    <3> QED BY <3>3
  <2>6. TypeOK'
    BY <1>5, <2>4, <2>5 DEF Typed, TypeOK, DownRead, peer
  <2> QED BY <1>5, <2>4, <2>6, PlaceKept DEF DownRead, Typed
<1>6. CASE DownWrite(c)
  <2>1. got[c] \o downBuf[c] \in Seq(Nat \X Nat)
    BY ConcatProperties DEF Typed, TypeOK
  <2>2. TypeOK'
    BY <1>6, <2>1, Empty DEF Typed, TypeOK, DownWrite, peer, state
  <2> QED BY <1>6, <2>2, PlaceKept DEF DownWrite, Typed
<1> QED BY <1>1, <1>2, <1>3, <1>4, <1>5, <1>6 DEF UpLoop, DownLoop

(* The typing invariant is inductive. *)
LEMMA TypedNext == Typed /\ [Next]_vars => Typed'
<1> SUFFICES ASSUME Typed, [Next]_vars PROVE Typed'
  OBVIOUS
<1>1. CASE UNCHANGED vars
  BY <1>1 DEF Typed, TypeOK, Place, vars, peer, bufs, state
<1>2. ASSUME NEW c \in Conns, Environment(c) \/ Setup(c) \/ UpLoop(c) \/ DownLoop(c)
      PROVE  Typed'
  BY <1>2, TypedEnvironment, TypedFirstMessage, TypedPrimaryAttempt, TypedFallbackChain, TypedLoops
  DEF Setup
<1> QED BY <1>1, <1>2 DEF Next, Terminated

(* At all times the variables have their types, and a connection has opened *)
(* no more attempts than one and the length of the fallback chain           *)
(* (relay_with_desync, try_fallback_chain).                                 *)
THEOREM Typing == Spec => []TypeOK
<1>1. Typed => TypeOK
  BY DEF Typed
<1> QED BY TypedInit, TypedNext, <1>1, PTL DEF Spec

-----------------------------------------------------------------------------
(* Any step of a connection. *)
Step(c) == Environment(c) \/ Setup(c) \/ UpLoop(c) \/ DownLoop(c)

(* Steps of a connection that leave all its attempts as they are. *)
NoAttempt(c) ==
  \/ ClientSends(c) \/ ClientEnds(c) \/ FirstMessage(c)
  \/ EarlyRetry(c) \/ EarlyProceed(c) \/ ReconnectFails(c) \/ FallbackFails(c)
  \/ FallbackQuiet(c) \/ FlushSeed(c) \/ FlushFails(c)
  \/ UpRead(c) \/ UpEnds(c) \/ DownWrite(c) \/ DownEnds(c)

(* A step of a connection either leaves the attempts as they are or is one  *)
(* of ten others.                                                           *)
LEMMA StepCases ==
  ASSUME NEW c \in Conns, Step(c)
  PROVE  \/ NoAttempt(c) \/ UpstreamSends(c) \/ UpstreamEnds(c)
         \/ ApplyPrimary(c) \/ PrimaryWriteFails(c) \/ EarlyData(c)
         \/ FallbackSent(c) \/ FallbackWriteFails(c) \/ FallbackAnswers(c)
         \/ UpWrite(c) \/ DownRead(c)
BY DEF Step, Environment, Setup, PrimaryAttempt, FallbackChain, UpLoop, DownLoop, NoAttempt

(* The former change no attempt. *)
LEMMA AttemptsKept ==
  ASSUME Typed, NEW c \in Conns, NoAttempt(c)
  PROVE  att' = att
BY DEF NoAttempt, ClientSends, ClientEnds, FirstMessage, Begin, NoFirstMessage, ReadFirst, ReadMore,
       StopReassembly, EarlyRetry, EarlyProceed, ReconnectFails, FallbackFails, FallbackQuiet,
       FlushSeed, FlushFails, UpRead, UpEnds, DownWrite, DownEnds

(* The attempts the actions speak of exist. *)
LEMMA Attempts ==
  ASSUME Typed, NEW c \in Conns
  PROVE  /\ att \in [Conns -> Seq(Attempt)]
         /\ 1 \in DOMAIN att[c] /\ cur[c] \in DOMAIN att[c]
         /\ Len(att[c]) \in DOMAIN att[c]
BY DEF Typed, TypeOK

(* What a step may do to the attempts: which action writes which field. *)
AttemptsStep(c) ==
  /\ \A d \in Conns \ {c} : att'[d] = att[d]
  /\ Len(att'[c]) >= Len(att[c])
  /\ Len(att'[c]) > Len(att[c]) => pc[c] = "connect" /\ (FallbackSent(c) \/ FallbackWriteFails(c))
  /\ \A j \in DOMAIN att'[c] \ DOMAIN att[c] : att'[c][j].read = 0
  /\ \A j \in DOMAIN att[c] :
       /\ \/ att'[c][j].act = att[c][j].act
          \/ j = 1 /\ (ApplyPrimary(c) \/ PrimaryWriteFails(c))
       /\ \/ att'[c][j].wire = att[c][j].wire
          \/ j = 1 /\ (ApplyPrimary(c) \/ PrimaryWriteFails(c))
          \/ j = cur[c] /\ UpWrite(c)
       /\ \/ att'[c][j].read = att[c][j].read
          \/ j = 1 /\ EarlyData(c)
          \/ j = Len(att[c]) /\ FallbackAnswers(c)
          \/ j = cur[c] /\ DownRead(c)

(* Every step of a connection changes the attempts as AttemptsStep says. *)
LEMMA AttemptsChange ==
  ASSUME Typed, NEW c \in Conns, Step(c)
  PROVE  AttemptsStep(c)
<1>1. /\ att \in [Conns -> Seq(Attempt)]
      /\ 1 \in DOMAIN att[c] /\ cur[c] \in DOMAIN att[c]
      /\ Len(att[c]) \in DOMAIN att[c]
  BY Attempts
<1>2. CASE NoAttempt(c)
  <2>1. att' = att
    BY <1>2, AttemptsKept
  <2> QED BY <1>1, <2>1 DEF AttemptsStep
<1>3. CASE UpstreamSends(c)
  <2>1. PICK i \in DOMAIN att[c] : att' = [att EXCEPT ![c][i].sent = @ + 1]
    BY <1>3 DEF UpstreamSends, Live
  <2>2. DOMAIN att'[c] = DOMAIN att[c] /\ Len(att'[c]) = Len(att[c])
    BY <1>1, <2>1
  <2>3. \A d \in Conns \ {c} : att'[d] = att[d]
    BY <1>1, <2>1
  <2>4. \A j \in DOMAIN att[c] :
          /\ att'[c][j].act = att[c][j].act /\ att'[c][j].wire = att[c][j].wire
          /\ att'[c][j].read = att[c][j].read
    BY SMTT(60), <1>1, <2>1 DEF Attempt
  <2>5. Len(att[c]) \in Nat
    BY <1>1
  <2> QED BY <2>2, <2>3, <2>4, <2>5 DEF AttemptsStep
<1>4. CASE UpstreamEnds(c)
  <2>1. PICK i \in DOMAIN att[c], e \in Ends : att' = [att EXCEPT ![c][i].end = e]
    BY <1>4 DEF UpstreamEnds, Live
  <2>2. DOMAIN att'[c] = DOMAIN att[c] /\ Len(att'[c]) = Len(att[c])
    BY <1>1, <2>1
  <2>3. \A d \in Conns \ {c} : att'[d] = att[d]
    BY <1>1, <2>1
  <2>4. \A j \in DOMAIN att[c] :
          /\ att'[c][j].act = att[c][j].act /\ att'[c][j].wire = att[c][j].wire
          /\ att'[c][j].read = att[c][j].read
    BY SMTT(60), <1>1, <2>1 DEF Attempt
  <2>5. Len(att[c]) \in Nat
    BY <1>1
  <2> QED BY <2>2, <2>3, <2>4, <2>5 DEF AttemptsStep
<1>5. CASE ApplyPrimary(c)
  BY <1>1, <1>5 DEF ApplyPrimary, AttemptsStep, Attempt
<1>6. CASE PrimaryWriteFails(c)
  <2>1. PICK n : att' = [att EXCEPT ![c][1].act = PrimaryAction(c),
                                   ![c][1].wire = SubSeq(FirstWire(c, PrimaryAction(c)), 1, n)]
    BY <1>6 DEF PrimaryWriteFails
  <2> QED BY <1>1, <1>6, <2>1 DEF AttemptsStep, Attempt
<1>7. CASE EarlyData(c)
  <2>1. PICK n : att' = [att EXCEPT ![c][1].read = n]
    BY <1>7 DEF EarlyData, TakeSeed
  <2> QED BY <1>1, <1>7, <2>1 DEF AttemptsStep, Attempt
<1>8. CASE FallbackSent(c)
  BY SMTT(60), <1>1, <1>8 DEF FallbackSent, Open, Fresh, AttemptsStep, Attempt
<1>9. CASE FallbackWriteFails(c)
  <2>1. PICK n : att' = [att EXCEPT ![c] =
                       Append(@, Fresh(FallbackAction(c), SubSeq(FirstWire(c, FallbackAction(c)), 1, n)))]
    BY <1>9 DEF FallbackWriteFails, Open
  <2> QED BY <1>1, <1>9, <2>1 DEF FallbackWriteFails, Fresh, AttemptsStep
<1>10. CASE FallbackAnswers(c)
  <2>1. PICK n : att' = [att EXCEPT ![c][Len(att[c])].read = n]
    BY <1>10 DEF FallbackAnswers, TakeSeed
  <2> QED BY <1>1, <1>10, <2>1 DEF AttemptsStep, Attempt
<1>11. CASE UpWrite(c)
  BY <1>1, <1>11 DEF UpWrite, AttemptsStep, Attempt
<1>12. CASE DownRead(c)
  BY <1>1, <1>12 DEF DownRead, AttemptsStep, Attempt
<1> QED BY <1>2, <1>3, <1>4, <1>5, <1>6, <1>7, <1>8, <1>9, <1>10, <1>11, <1>12, StepCases

-----------------------------------------------------------------------------
(* A step of connection c leaves the other tasks alone. *)
Others(c) ==
  \A d \in Conns \ {c} :
    /\ pc'[d] = pc[d] /\ first'[d] = first[d] /\ cur'[d] = cur[d] /\ read'[d] = read[d]
    /\ got'[d] = got[d] /\ seed'[d] = seed[d] /\ upBuf'[d] = upBuf[d] /\ downBuf'[d] = downBuf[d]
    /\ desynced'[d] = desynced[d] /\ responded'[d] = responded[d]

(* What a step may do to the task, and to the learned set. *)
TaskStep(c) ==
  /\ pc[c] # "done"
  /\ hello' = hello /\ target' = target
  /\ Others(c)
  /\ first'[c] = first[c] \/ pc[c] \in {"start", "reassemble"}
  /\ pc'[c] \in SetUp => pc[c] \in SetUp
  /\ \/ cur'[c] = cur[c] /\ learned' = learned
     \/ /\ cur'[c] > 1 /\ learned' = learned \cup ({target[c]} \ {None})
        /\ cur'[c] = Len(att[c]) /\ (FallbackAnswers(c) \/ FallbackQuiet(c))

(* Every step of a connection changes the tasks as TaskStep says. *)
LEMMA TaskChange ==
  ASSUME Typed, NEW c \in Conns, Step(c)
  PROVE  TaskStep(c)
<1> USE DEF Typed, TypeOK, Place, SetUp, TaskStep, Others, Goto, Finish, Gather,
            EnterChain, NextFallback, TakeSeed, Settle, Live, Learn, peer, bufs, state
<1>1. CASE ClientSends(c)
  BY <1>1 DEF ClientSends
<1>2. CASE ClientEnds(c)
  BY <1>2 DEF ClientEnds
<1>3. CASE UpstreamSends(c)
  BY <1>3 DEF UpstreamSends
<1>4. CASE UpstreamEnds(c)
  BY <1>4 DEF UpstreamEnds
<1>5. CASE Begin(c)
  BY SMTT(60), <1>5 DEF Begin
<1>6. CASE NoFirstMessage(c)
  BY <1>6 DEF NoFirstMessage
<1>7. CASE ReadFirst(c)
  BY <1>7 DEF ReadFirst
<1>8. CASE ReadMore(c)
  BY <1>8 DEF ReadMore
<1>9. CASE StopReassembly(c)
  BY <1>9 DEF StopReassembly
<1>10. CASE ApplyPrimary(c)
  BY <1>10 DEF ApplyPrimary
<1>11. CASE PrimaryWriteFails(c)
  BY <1>11 DEF PrimaryWriteFails
<1>12. CASE EarlyData(c)
  BY <1>12 DEF EarlyData
<1>13. CASE EarlyRetry(c)
  BY <1>13 DEF EarlyRetry
<1>14. CASE EarlyProceed(c)
  BY <1>14 DEF EarlyProceed
<1>15. CASE ReconnectFails(c)
  BY <1>15 DEF ReconnectFails
<1>16. CASE FallbackSent(c)
  BY <1>16 DEF FallbackSent
<1>17. CASE FallbackWriteFails(c)
  BY <1>17 DEF FallbackWriteFails
<1>18. CASE FallbackFails(c)
  BY <1>18 DEF FallbackFails
<1>19. CASE FallbackAnswers(c)
  <2>1. PICK n : TakeSeed(c, Len(att[c]), n)
    BY <1>19 DEF FallbackAnswers
  <2>2. cur'[c] = Len(att[c]) /\ Len(att[c]) > 1
    BY <1>19, <2>1 DEF FallbackAnswers
  <2>3. learned' = learned \cup ({target[c]} \ {None})
    BY <1>19 DEF FallbackAnswers
  <2>4. /\ pc[c] = "probe" /\ hello' = hello /\ target' = target /\ first' = first
        /\ Others(c) /\ pc'[c] = "flush"
    BY <1>19, <2>1 DEF FallbackAnswers
  <2> HIDE DEF TakeSeed, Settle, Others
  <2> QED BY <1>19, <2>2, <2>3, <2>4
<1>20. CASE FallbackQuiet(c)
  BY <1>20 DEF FallbackQuiet
<1>21. CASE FlushSeed(c)
  BY <1>21 DEF FlushSeed
<1>22. CASE FlushFails(c)
  BY <1>22 DEF FlushFails
<1>23. CASE UpRead(c)
  BY <1>23 DEF UpRead
<1>24. CASE UpWrite(c)
  BY <1>24 DEF UpWrite
<1>25. CASE UpEnds(c)
  BY <1>25 DEF UpEnds
<1>26. CASE DownRead(c)
  BY <1>26 DEF DownRead
<1>27. CASE DownWrite(c)
  BY <1>27 DEF DownWrite
<1>28. CASE DownEnds(c)
  BY <1>28 DEF DownEnds
<1> QED BY <1>1, <1>2, <1>3, <1>4, <1>5, <1>6, <1>7, <1>8, <1>9, <1>10, <1>11, <1>12, <1>13, <1>14,
           <1>15, <1>16, <1>17, <1>18, <1>19, <1>20, <1>21, <1>22, <1>23, <1>24, <1>25, <1>26, <1>27, <1>28
        DEF Step, Environment, Setup, FirstMessage, PrimaryAttempt, FallbackChain, UpLoop, DownLoop

-----------------------------------------------------------------------------
(* A connection that goes on with a fallback attempt always does. *)
LEMMA RetriedKept ==
  ASSUME Typed, Next, NEW d \in Conns, cur[d] > 1
  PROVE  cur'[d] > 1
BY TaskChange DEF Next, Terminated, vars, Step, TaskStep, Others, Typed, TypeOK

(* The soundness of the learned set is inductive. *)
LEMMA LearnedNext == Typed /\ LearnedSound /\ [Next]_vars => LearnedSound'
<1> SUFFICES ASSUME Typed, LearnedSound, [Next]_vars, NEW x \in learned'
             PROVE  \E c \in Conns : target'[c] = x /\ cur'[c] > 1
  BY DEF LearnedSound
<1>1. CASE UNCHANGED vars
  BY <1>1 DEF LearnedSound, vars, peer
<1>2. ASSUME NEW c \in Conns, Step(c)
      PROVE  \E d \in Conns : target'[d] = x /\ cur'[d] > 1
  <2>1. TaskStep(c) /\ Next
    BY <1>2, TaskChange DEF Next, Step
  <2>2. CASE x \in learned
    <3>1. PICK d \in Conns : target[d] = x /\ cur[d] > 1
      BY <2>2 DEF LearnedSound
    <3> QED BY <2>1, <3>1, RetriedKept DEF TaskStep
  <2>3. CASE x \notin learned
    BY <2>1, <2>3 DEF TaskStep
  <2> QED BY <2>2, <2>3
<1> QED BY <1>1, <1>2 DEF Next, Terminated, Step

(* Hostlist-auto is sound for any number of connections, any rules and any  *)
(* chain: a learned domain is one that some connection had to be retried    *)
(* for (the insert in relay_with_desync).                                   *)
THEOREM LearnedSoundness == Spec => []LearnedSound
<1>1. Init => LearnedSound
  BY DEF Init, LearnedSound
<1> QED BY <1>1, TypedInit, TypedNext, LearnedNext, PTL DEF Spec

(* Selector::apply departs from the rules only for a domain in the learned  *)
(* set.                                                                     *)
LEMMA HotStartCause ==
  ASSUME NEW proto, NEW known, SelectorApply(proto, known) # Primary(proto)
  PROVE  proto.domain \in known /\ proto.domain # None
BY DEF SelectorApply

(* That hot starts are justified is inductive, given that the learned set   *)
(* is sound.                                                                *)
LEMMA HotStartNext ==
  Typed /\ LearnedSound /\ HotStartJustified /\ [Next]_vars => HotStartJustified'
<1> SUFFICES ASSUME Typed, LearnedSound, HotStartJustified, [Next]_vars, NEW d \in Conns,
                    att'[d][1].act \notin {"none", Primary(Detected(d, first[d])')}
             PROVE  \E e \in Conns : target'[e] = hello'[d].domain /\ cur'[e] > 1
  BY DEF HotStartJustified
<1>1. CASE UNCHANGED vars
  BY <1>1 DEF HotStartJustified, Detected, vars, peer
<1>2. ASSUME NEW c \in Conns, Step(c)
      PROVE  \E e \in Conns : target'[e] = hello'[d].domain /\ cur'[e] > 1
  <2>1. TaskStep(c) /\ AttemptsStep(c) /\ Next /\ hello' = hello /\ target' = target
    BY <1>2, TaskChange, AttemptsChange DEF Next, Step, TaskStep
  <2>2. 1 \in DOMAIN att[c]
    BY Attempts
  <2>3. CASE att'[d][1].act = att[d][1].act
    <3>1. first'[d] = first[d]
      BY <2>1, <2>3 DEF TaskStep, Others, Typed, Place
    <3>2. Detected(d, first[d])' = Detected(d, first[d])
      BY <2>1, <3>1 DEF Detected
    <3>3. PICK e \in Conns : target[e] = hello[d].domain /\ cur[e] > 1
      BY <2>3, <3>2 DEF HotStartJustified
    <3> QED BY <2>1, <3>3, RetriedKept
  <2>4. CASE att'[d][1].act # att[d][1].act
    <3>1. d = c /\ (ApplyPrimary(c) \/ PrimaryWriteFails(c))
      BY <2>1, <2>2, <2>4 DEF AttemptsStep
    <3>2. first'[c] = first[c] /\ att'[c][1].act = PrimaryAction(c)
      <4>1. CASE ApplyPrimary(c)
        BY <2>2, <4>1 DEF ApplyPrimary, Typed, TypeOK, Attempt
      <4>2. CASE PrimaryWriteFails(c)
        BY <2>2, <4>2 DEF PrimaryWriteFails, Typed, TypeOK, Attempt
      <4> QED BY <3>1, <4>1, <4>2
    <3>3. Detected(c, first[c])' = Detected(c, first[c])
      BY <2>1, <3>2 DEF Detected
    <3>4. /\ Detected(c, first[c]).domain \in learned
          /\ Detected(c, first[c]).domain # None
      BY <3>1, <3>2, <3>3, HotStartCause DEF PrimaryAction
    <3>5. Detected(c, first[c]).domain = hello[c].domain
      BY <3>4 DEF Detected
    <3>6. PICK e \in Conns : target[e] = hello[c].domain /\ cur[e] > 1
      BY <3>4, <3>5 DEF LearnedSound
    <3> QED BY <2>1, <3>1, <3>6, RetriedKept
  <2> QED BY <2>3, <2>4
<1> QED BY <1>1, <1>2 DEF Next, Terminated, Step

(* Selector::apply departs from the operator's rules only for a domain an   *)
(* earlier connection was retried for, however the connections interleave.  *)
THEOREM HotStarts == Spec => []HotStartJustified
<1>1. Init => LearnedSound /\ HotStartJustified
  BY DEF Init, LearnedSound, HotStartJustified, Fresh
<1> QED BY <1>1, TypedInit, TypedNext, LearnedNext, HotStartNext, PTL DEF Spec

-----------------------------------------------------------------------------
(* What the task holds: nothing but the first message while it is being set *)
(* up, and a seed only while it is being flushed.                           *)
Held(c) ==
  /\ pc[c] \in SetUp \cup {"flush"} =>
       got[c] = <<>> /\ upBuf[c] = <<>> /\ downBuf[c] = <<>> /\ read[c] = first[c]
  /\ pc[c] # "flush" => seed[c] = <<>>
  /\ read[c] >= first[c]

(* Nothing was read of an attempt before the task settles. *)
Unread(c) == pc[c] \in SetUp => \A i \in DOMAIN att[c] : att[c][i].read = 0

Holding == \A c \in Conns : Held(c) /\ Unread(c)

(* A connection's own step keeps Held. *)
LEMMA HeldStep ==
  ASSUME Typed, NEW c \in Conns, Held(c), Step(c)
  PROVE  Held(c)'
<1> USE DEF Typed, TypeOK, SetUp, Held, Goto, Finish, Gather, EnterChain, NextFallback,
            TakeSeed, Settle, peer, bufs, state
<1>1. CASE ClientSends(c)
  BY <1>1 DEF ClientSends
<1>2. CASE ClientEnds(c)
  BY <1>2 DEF ClientEnds
<1>3. CASE UpstreamSends(c)
  BY <1>3 DEF UpstreamSends
<1>4. CASE UpstreamEnds(c)
  BY <1>4 DEF UpstreamEnds
<1>5. CASE Begin(c)
  BY <1>5 DEF Begin
<1>6. CASE NoFirstMessage(c)
  BY <1>6 DEF NoFirstMessage
<1>7. CASE ReadFirst(c)
  BY <1>7 DEF ReadFirst
<1>8. CASE ReadMore(c)
  BY <1>8 DEF ReadMore
<1>9. CASE StopReassembly(c)
  BY <1>9 DEF StopReassembly
<1>10. CASE ApplyPrimary(c)
  BY <1>10 DEF ApplyPrimary
<1>11. CASE PrimaryWriteFails(c)
  BY <1>11 DEF PrimaryWriteFails
<1>12. CASE EarlyData(c)
  BY <1>12 DEF EarlyData
<1>13. CASE EarlyRetry(c)
  BY <1>13 DEF EarlyRetry
<1>14. CASE EarlyProceed(c)
  BY <1>14 DEF EarlyProceed
<1>15. CASE ReconnectFails(c)
  BY <1>15 DEF ReconnectFails
<1>16. CASE FallbackSent(c)
  BY <1>16 DEF FallbackSent
<1>17. CASE FallbackWriteFails(c)
  BY <1>17 DEF FallbackWriteFails
<1>18. CASE FallbackFails(c)
  BY <1>18 DEF FallbackFails
<1>19. CASE FallbackAnswers(c)
  BY <1>19 DEF FallbackAnswers
<1>20. CASE FallbackQuiet(c)
  BY <1>20 DEF FallbackQuiet
<1>21. CASE FlushSeed(c)
  BY <1>21 DEF FlushSeed
<1>22. CASE FlushFails(c)
  BY <1>22 DEF FlushFails
<1>23. CASE UpRead(c)
  BY <1>23 DEF UpRead
<1>24. CASE UpWrite(c)
  BY <1>24 DEF UpWrite
<1>25. CASE UpEnds(c)
  BY <1>25 DEF UpEnds
<1>26. CASE DownRead(c)
  BY <1>26 DEF DownRead
<1>27. CASE DownWrite(c)
  BY <1>27 DEF DownWrite
<1>28. CASE DownEnds(c)
  BY <1>28 DEF DownEnds
<1> QED BY <1>1, <1>2, <1>3, <1>4, <1>5, <1>6, <1>7, <1>8, <1>9, <1>10, <1>11, <1>12, <1>13, <1>14,
           <1>15, <1>16, <1>17, <1>18, <1>19, <1>20, <1>21, <1>22, <1>23, <1>24, <1>25, <1>26, <1>27, <1>28
        DEF Step, Environment, Setup, FirstMessage, PrimaryAttempt, FallbackChain, UpLoop, DownLoop

(* A connection's own step keeps Unread. *)
LEMMA UnreadStep ==
  ASSUME Typed, NEW c \in Conns, Unread(c), Step(c)
  PROVE  Unread(c)'
<1> SUFFICES ASSUME pc'[c] \in SetUp, NEW i \in DOMAIN att'[c]
             PROVE  att'[c][i].read = 0
  BY DEF Unread
<1>1. ~EarlyData(c) /\ ~FallbackAnswers(c) /\ ~DownRead(c) /\ pc[c] \in SetUp
  <2>1. pc[c] \in SetUp
    BY TaskChange DEF TaskStep
  <2> QED BY <2>1 DEF EarlyData, FallbackAnswers, DownRead, TakeSeed, Settle, Goto, SetUp, Typed, TypeOK, PCs
<1>2. AttemptsStep(c)
  BY AttemptsChange
<1>3. CASE i \in DOMAIN att[c]
  BY <1>1, <1>2, <1>3 DEF AttemptsStep, Unread
<1>4. CASE i \notin DOMAIN att[c]
  BY <1>2, <1>4 DEF AttemptsStep
<1> QED BY <1>3, <1>4

(* Holding is inductive. *)
LEMMA HoldingNext == Typed /\ Typed' /\ Holding /\ [Next]_vars => Holding'
<1> SUFFICES ASSUME Typed, Typed', Holding, [Next]_vars, NEW d \in Conns
             PROVE  Held(d)' /\ Unread(d)'
  BY DEF Holding
<1>1. CASE UNCHANGED vars
  BY <1>1 DEF Holding, Held, Unread, vars, bufs
<1>2. ASSUME NEW c \in Conns, Step(c)
      PROVE  Held(d)' /\ Unread(d)'
  <2>1. CASE d = c
    BY <1>2, <2>1, HeldStep, UnreadStep DEF Holding
  <2>2. CASE d # c
    BY <1>2, <2>2, TaskChange, AttemptsChange DEF Holding, Held, Unread, TaskStep, Others, AttemptsStep
  <2> QED BY <2>1, <2>2
<1> QED BY <1>1, <1>2 DEF Next, Terminated, Step

(* Holding holds at the start. *)
LEMMA HoldingInit == Init => Holding
BY DEF Init, Holding, Held, Unread, Fresh, SetUp

(* No attempt is opened once the relay has read a byte of the upstream or a *)
(* byte of the client beyond the first message: the retry of                *)
(* try_fallback_chain stays invisible to the client.                        *)
THEOREM Transparency == Spec => NoRetryAfterData
<1>1. Typed /\ Holding /\ [Next]_vars =>
        [\A c \in Conns :
           Len(att'[c]) > Len(att[c]) =>
             /\ \A i \in DOMAIN att[c] : att[c][i].read = 0
             /\ read[c] = first[c]]_vars
  <2> SUFFICES ASSUME Typed, Holding, Next, NEW d \in Conns, Len(att'[d]) > Len(att[d])
               PROVE  (\A i \in DOMAIN att[d] : att[d][i].read = 0) /\ read[d] = first[d]
    OBVIOUS
  <2>1. Len(att[d]) \in Nat
    BY Attempts
  <2>2. PICK c \in Conns : Step(c)
    BY <2>1 DEF Next, Terminated, vars, Step
  <2>3. AttemptsStep(c)
    BY <2>2, AttemptsChange
  <2>4. d = c
    BY <2>1, <2>3 DEF AttemptsStep
  <2>5. pc[c] = "connect"
    BY <2>3, <2>4 DEF AttemptsStep
  <2> QED BY <2>4, <2>5 DEF Holding, Held, Unread, SetUp
<1> QED BY <1>1, TypedInit, TypedNext, HoldingInit, HoldingNext, PTL DEF Spec, NoRetryAfterData

-----------------------------------------------------------------------------
(* Runs of an attempt's pieces: their length, the empty one, and one piece  *)
(* more.                                                                    *)
LEMMA PiecesOfExtend ==
  ASSUME NEW i \in Nat, NEW n \in Nat
  PROVE  /\ Len(PiecesOf(i, n)) = n
         /\ PiecesOf(i, 0) = <<>>
         /\ PiecesOf(i, n) \o <<<<i, n + 1>>>> = PiecesOf(i, n + 1)
<1>1. PiecesOf(i, n) \in Seq(Nat \X Nat) /\ Len(PiecesOf(i, n)) = n
  BY PiecesOfType DEF PiecesOf
<1>2. PiecesOf(i, 0) = <<>>
  BY DEF PiecesOf
<1>3. PiecesOf(i, n) \o <<<<i, n + 1>>>> = PiecesOf(i, n + 1)
  BY <1>1 DEF PiecesOf
<1> QED BY <1>1, <1>2, <1>3

(* The empty sequence is neutral. *)
LEMMA EmptyConcat ==
  ASSUME NEW S, NEW s \in Seq(S)
  PROVE  s \o <<>> = s /\ <<>> \o s = s
OBVIOUS

(* A run of the client's pieces and one piece more. *)
LEMMA PiecesExtend ==
  ASSUME NEW i \in Nat, NEW n \in Nat, i <= n + 1
  PROVE  Pieces(i, n) \o <<n + 1>> = Pieces(i, n + 1)
<1>1. Pieces(i, n) \in Seq(Nat) /\ Len(Pieces(i, n)) = n + 1 - i
  BY PiecesType DEF Pieces
<1>2. Len(Pieces(i, n + 1)) = n + 2 - i
  BY DEF Pieces
<1> QED BY <1>1, <1>2 DEF Pieces

(* DownstreamStream of one connection. *)
Downward(c) ==
  /\ pc[c] # "done" => got[c] \o seed[c] \o downBuf[c] = PiecesOf(cur[c], Upstream(c).read)
  /\ got[c] = PiecesOf(cur[c], Len(got[c]))
  /\ \A i \in DOMAIN att[c] \ {cur[c]} : att[c][i].read = 0

(* A step of one connection keeps Downward of another. *)
LEMMA DownwardOther ==
  ASSUME Typed, NEW c \in Conns, NEW d \in Conns \ {c}, Step(c), Downward(d)
  PROVE  Downward(d)'
<1>1. TaskStep(c) /\ AttemptsStep(c)
  BY TaskChange, AttemptsChange
<1>2. att'[d] = att[d]
  BY <1>1 DEF AttemptsStep
<1>3. pc'[d] = pc[d] /\ cur'[d] = cur[d] /\ got'[d] = got[d] /\ seed'[d] = seed[d] /\ downBuf'[d] = downBuf[d]
  BY <1>1 DEF TaskStep, Others
<1> QED BY <1>2, <1>3 DEF Downward, Upstream

(* A step that reads nothing of the upstream and delivers nothing keeps     *)
(* Downward.                                                                *)
LEMMA DownwardKept ==
  ASSUME Typed, Typed', NEW c \in Conns, Step(c), Downward(c),
         ~EarlyData(c), ~FallbackAnswers(c), ~DownRead(c),
         cur'[c] = cur[c], got'[c] = got[c],
         pc'[c] = "done" \/ (seed'[c] = seed[c] /\ downBuf'[c] = downBuf[c])
  PROVE  Downward(c)'
<1>1. pc[c] # "done" /\ AttemptsStep(c)
  BY TaskChange, AttemptsChange DEF TaskStep
<1>2. cur[c] \in DOMAIN att[c] /\ \A j \in DOMAIN att[c] : att'[c][j].read = att[c][j].read
  BY <1>1, Attempts DEF AttemptsStep
<1>3. ASSUME NEW i \in DOMAIN att'[c] \ {cur[c]}
      PROVE  att'[c][i].read = 0
  BY <1>1, <1>2 DEF Downward, AttemptsStep
<1> QED BY <1>1, <1>2, <1>3 DEF Downward, Upstream

(* So does an answer within a window: nothing had been read of any attempt. *)
LEMMA DownwardSeed ==
  ASSUME Typed, Typed', NEW c \in Conns, Step(c), Held(c), Unread(c), Downward(c), pc[c] \in SetUp,
         NEW i \in DOMAIN att[c], NEW n \in Nat, TakeSeed(c, i, n),
         UNCHANGED <<got, downBuf>>
  PROVE  Downward(c)'
<1>1. att \in [Conns -> Seq(Attempt)] /\ i \in Nat
  BY Attempts
<1>2. /\ att'[c][i].read = n
      /\ \A j \in DOMAIN att'[c] \ {i} : att'[c][j].read = 0
  BY <1>1 DEF TakeSeed, Unread, Attempt
<1>3. cur'[c] = i /\ seed'[c] = PiecesOf(i, n) /\ got'[c] = <<>> /\ downBuf'[c] = <<>>
  BY DEF TakeSeed, Settle, Held, Typed, TypeOK
<1>4. PiecesOf(i, n) \in Seq(Nat \X Nat)
  BY <1>1, PiecesOfType
<1>5. got'[c] \o seed'[c] \o downBuf'[c] = PiecesOf(i, n)
  BY <1>3, <1>4, EmptyConcat
<1>6. got'[c] = PiecesOf(i, Len(got'[c]))
  BY <1>1, <1>3, PiecesOfExtend
<1> QED BY <1>2, <1>3, <1>5, <1>6 DEF Downward, Upstream

(* A connection's own step keeps Downward. *)
LEMMA DownwardStep ==
  ASSUME Typed, Typed', NEW c \in Conns, Step(c), Held(c), Unread(c), Downward(c)
  PROVE  Downward(c)'
<1>0. /\ att \in [Conns -> Seq(Attempt)] /\ Len(att[c]) \in DOMAIN att[c] /\ 1 \in DOMAIN att[c]
      /\ cur[c] \in Nat /\ Upstream(c).read \in Nat
      /\ cur[c] \in DOMAIN att[c] /\ Len(att[c]) \in Nat
  <2>1. /\ att \in [Conns -> Seq(Attempt)] /\ Len(att[c]) \in DOMAIN att[c] /\ 1 \in DOMAIN att[c]
        /\ cur[c] \in DOMAIN att[c]
    BY Attempts
  <2>2. Upstream(c) \in Attempt /\ cur[c] \in Nat /\ Len(att[c]) \in Nat
    BY <2>1 DEF Upstream
  <2>3. Upstream(c).read \in Nat
    BY <2>2 DEF Attempt
  <2> QED BY <2>1, <2>2, <2>3
<1>1. CASE EarlyData(c)
  BY <1>0, <1>1, DownwardSeed DEF EarlyData, SetUp, bufs
<1>2. CASE FallbackAnswers(c)
  BY <1>0, <1>2, DownwardSeed DEF FallbackAnswers, SetUp, bufs
<1>3. CASE FallbackQuiet(c)
  <2>1. att' = att /\ cur'[c] = Len(att[c]) /\ got'[c] = <<>> /\ seed'[c] = <<>> /\ downBuf'[c] = <<>>
    BY <1>3 DEF FallbackQuiet, Held, SetUp, Typed, TypeOK, bufs
  <2>2. \A j \in DOMAIN att[c] : att[c][j].read = 0
    BY <1>3 DEF FallbackQuiet, Unread, SetUp
  <2>3. PiecesOf(Len(att[c]), 0) = <<>>
    BY <1>0, PiecesOfExtend
  <2>4. Len(got'[c]) = 0 /\ got'[c] \o seed'[c] \o downBuf'[c] = <<>>
    BY <2>1
  <2> QED BY <1>0, <2>1, <2>2, <2>3, <2>4 DEF Downward, Upstream
<1>4. CASE FlushSeed(c)
  <2>1. att' = att /\ cur' = cur /\ pc[c] = "flush"
    BY <1>4 DEF FlushSeed
  <2>2. got'[c] = got[c] \o seed[c] /\ seed'[c] = <<>> /\ downBuf'[c] = <<>> /\ downBuf[c] = <<>>
    BY <1>4 DEF FlushSeed, Held, Typed, TypeOK, bufs
  <2>3. got[c] \o seed[c] \in Seq(Nat \X Nat)
    BY ConcatProperties DEF Typed, TypeOK
  <2>4. got'[c] = PiecesOf(cur[c], Upstream(c).read)
    BY <2>1, <2>2, <2>3, EmptyConcat DEF Downward
  <2>5. got'[c] \o seed'[c] \o downBuf'[c] = got'[c]
    BY <2>2, <2>3, EmptyConcat
  <2>6. got'[c] = PiecesOf(cur[c], Len(got'[c]))
    BY ZenonT(60), <1>0, <2>4, PiecesOfExtend
  <2> QED BY <2>1, <2>4, <2>5, <2>6 DEF Downward, Upstream
<1>5. CASE DownRead(c)
  <2> DEFINE r == Upstream(c).read
  <2>1. /\ cur' = cur /\ got' = got /\ seed'[c] = <<>> /\ seed[c] = <<>> /\ downBuf[c] = <<>>
        /\ downBuf'[c] = <<<<cur[c], r + 1>>>>
    BY <1>5 DEF DownRead, Held, Typed, TypeOK
  <2>2. att'[c][cur[c]].read = r + 1 /\ \A j \in DOMAIN att'[c] \ {cur[c]} : att'[c][j].read = 0
    BY <1>0, <1>5 DEF DownRead, Upstream, Downward, Attempt
  <2>3. got[c] \in Seq(Nat \X Nat)
    BY DEF Typed, TypeOK
  <2>4. got[c] = PiecesOf(cur[c], r)
    BY <1>5, <2>1, <2>3, EmptyConcat DEF Downward, DownRead
  <2>5. got'[c] \o seed'[c] \o downBuf'[c] = PiecesOf(cur[c], r + 1)
    <3>1. got'[c] \o seed'[c] = got[c]
      BY <2>1, <2>3, EmptyConcat
    <3>2. PiecesOf(cur[c], r) \o <<<<cur[c], r + 1>>>> = PiecesOf(cur[c], r + 1)
      BY <1>0, PiecesOfExtend
    <3> QED BY <2>1, <2>4, <3>1, <3>2
  <2> QED BY <2>1, <2>2, <2>5 DEF Downward, Upstream
<1>6. CASE DownWrite(c)
  <2>1. att' = att /\ cur' = cur /\ pc[c] = "relay"
    BY <1>6 DEF DownWrite
  <2>2. got'[c] = got[c] \o downBuf[c] /\ seed'[c] = <<>> /\ downBuf'[c] = <<>> /\ seed[c] = <<>>
    BY <1>6 DEF DownWrite, Held, Typed, TypeOK
  <2>3. got[c] \in Seq(Nat \X Nat) /\ got[c] \o downBuf[c] \in Seq(Nat \X Nat)
    BY ConcatProperties DEF Typed, TypeOK
  <2>4. got'[c] = PiecesOf(cur[c], Upstream(c).read)
    BY <2>1, <2>2, <2>3, EmptyConcat DEF Downward
  <2>5. got'[c] \o seed'[c] \o downBuf'[c] = got'[c]
    BY <2>2, <2>3, EmptyConcat
  <2>6. got'[c] = PiecesOf(cur[c], Len(got'[c]))
    BY ZenonT(60), <1>0, <2>4, PiecesOfExtend
  <2> QED BY <2>1, <2>4, <2>5, <2>6 DEF Downward, Upstream
<1>7. CASE /\ ~EarlyData(c) /\ ~FallbackAnswers(c) /\ ~FallbackQuiet(c)
           /\ ~FlushSeed(c) /\ ~DownRead(c) /\ ~DownWrite(c)
  <2>1. /\ cur'[c] = cur[c] /\ got'[c] = got[c]
        /\ pc'[c] = "done" \/ (seed'[c] = seed[c] /\ downBuf'[c] = downBuf[c])
    BY <1>7 DEF Step, Environment, Setup, FirstMessage, PrimaryAttempt, FallbackChain, UpLoop, DownLoop,
         ClientSends, ClientEnds, UpstreamSends, UpstreamEnds, Begin, NoFirstMessage, ReadFirst, ReadMore,
         StopReassembly, ApplyPrimary, PrimaryWriteFails, EarlyRetry, EarlyProceed, ReconnectFails,
         FallbackSent, FallbackWriteFails, FallbackFails, FlushFails, UpRead, UpWrite, UpEnds, DownEnds,
         Goto, Finish, Gather, EnterChain, NextFallback, bufs, Typed, TypeOK
  <2> QED BY <1>7, <2>1, DownwardKept
<1> QED BY <1>1, <1>2, <1>3, <1>4, <1>5, <1>6, <1>7

(* The integrity of the downstream is inductive. *)
LEMMA DownwardNext ==
  Typed /\ Typed' /\ Holding /\ DownstreamStream /\ [Next]_vars => DownstreamStream'
<1> SUFFICES ASSUME Typed, Typed', Holding, \A d \in Conns : Downward(d), [Next]_vars, NEW d \in Conns
             PROVE  Downward(d)'
  BY DEF DownstreamStream, Downward
<1>1. CASE UNCHANGED vars
  BY <1>1 DEF Downward, Upstream, vars, bufs
<1>2. ASSUME NEW c \in Conns, Step(c)
      PROVE  Downward(d)'
  BY <1>2, DownwardStep, DownwardOther DEF Holding
<1> QED BY <1>1, <1>2 DEF Next, Terminated, Step

(* The client receives, in order and without gap or duplicate, the bytes of *)
(* the one upstream connection the relay settled on, the seed of the early  *)
(* window first.                                                            *)
THEOREM Downstream == Spec => []DownstreamStream
<1>1. Init => DownstreamStream
  <2> SUFFICES ASSUME Init, NEW c \in Conns PROVE Downward(c)
    BY DEF DownstreamStream, Downward
  <2>1. PiecesOf(1, 0) = <<>>
    BY PiecesOfExtend
  <2> QED BY <2>1 DEF Init, Downward, Upstream, Fresh
<1> QED BY <1>1, TypedInit, TypedNext, HoldingInit, HoldingNext, DownwardNext, PTL DEF Spec

-----------------------------------------------------------------------------
(* The places in which the first message has been sent and is not answered. *)
Awaiting == {"early", "connect", "probe"}

(* UpstreamStream of one connection. *)
Upward(c) ==
  pc[c] \in {"flush", "relay"} =>
    Upstream(c).wire \o upBuf[c]
      = FirstWire(c, Upstream(c).act) \o Pieces(first[c] + 1, read[c])

(* The attempts the task may yet settle on were sent the first message whole. *)
Introduced(c) ==
  /\ pc[c] \in Awaiting => att[c][1].wire = FirstWire(c, att[c][1].act)
  /\ pc[c] = "probe" => Probed(c).wire = FirstWire(c, Probed(c).act)

Telling == \A c \in Conns : Introduced(c) /\ Upward(c)

(* Nothing follows a first message that was only just sent. *)
LEMMA NothingBeyond ==
  ASSUME NEW w \in Seq(Nat), NEW n \in Nat
  PROVE  w \o <<>> = w \o Pieces(n + 1, n)
<1>1. Pieces(n + 1, n) = <<>>
  BY DEF Pieces
<1> QED BY <1>1

(* A step of one connection keeps Introduced and Upward of another. *)
LEMMA TellingOther ==
  ASSUME Typed, NEW c \in Conns, NEW d \in Conns \ {c}, Step(c), Introduced(d), Upward(d)
  PROVE  Introduced(d)' /\ Upward(d)'
<1>1. TaskStep(c) /\ AttemptsStep(c)
  BY TaskChange, AttemptsChange
<1>2. att'[d] = att[d]
  BY <1>1 DEF AttemptsStep
<1>3. /\ pc'[d] = pc[d] /\ cur'[d] = cur[d] /\ first'[d] = first[d] /\ read'[d] = read[d]
      /\ upBuf'[d] = upBuf[d] /\ hello' = hello
  BY <1>1 DEF TaskStep, Others
<1> QED BY <1>2, <1>3 DEF Introduced, Upward, Upstream, Probed, FirstWire

(* Steps that write nothing of the client's to an upstream connection the    *)
(* task may go on with.                                                      *)
Writeless(c) ==
  /\ Step(c)
  /\ ~ApplyPrimary(c) /\ ~PrimaryWriteFails(c) /\ ~FallbackSent(c) /\ ~UpRead(c) /\ ~UpWrite(c)

(* Where the task is after such a step, and what it goes on with. *)
LEMMA WritelessTask ==
  ASSUME Typed, Holding, NEW c \in Conns, Writeless(c)
  PROVE  \/ pc'[c] \in PCs \ (Awaiting \cup {"flush", "relay"})
         \/ /\ first'[c] = first[c] /\ read'[c] = read[c] /\ upBuf'[c] = upBuf[c]
            /\ \/ pc'[c] \in Awaiting /\ pc[c] \in Awaiting
                 /\ (pc'[c] = "probe" => pc[c] = "probe" /\ Len(att'[c]) = Len(att[c]))
               \/ pc'[c] \in {"flush", "relay"} /\ pc[c] \in {"flush", "relay"} /\ cur'[c] = cur[c]
               \/ pc'[c] \in {"flush", "relay"} /\ pc[c] \in Awaiting /\ cur'[c] = 1
               \/ pc'[c] \in {"flush", "relay"} /\ pc[c] = "probe" /\ cur'[c] = Len(att[c])
<1> USE DEF Typed, TypeOK, Place, SetUp, Awaiting, PCs, Goto, Finish, Gather, EnterChain,
            NextFallback, TakeSeed, Settle, Live, Attempt, peer, bufs, state
<1>1. CASE ClientSends(c)
  BY <1>1 DEF ClientSends
<1>2. CASE ClientEnds(c)
  BY <1>2 DEF ClientEnds
<1>3. CASE UpstreamSends(c)
  BY <1>3 DEF UpstreamSends
<1>4. CASE UpstreamEnds(c)
  BY <1>4 DEF UpstreamEnds
<1>5. CASE Begin(c)
  BY <1>5 DEF Begin
<1>6. CASE NoFirstMessage(c)
  BY <1>6 DEF NoFirstMessage
<1>7. CASE ReadFirst(c)
  BY <1>7 DEF ReadFirst
<1>8. CASE ReadMore(c)
  BY <1>8 DEF ReadMore
<1>9. CASE StopReassembly(c)
  BY <1>9 DEF StopReassembly
<1>10. CASE EarlyData(c)
  BY <1>10 DEF EarlyData
<1>11. CASE EarlyRetry(c)
  BY <1>11 DEF EarlyRetry
<1>12. CASE EarlyProceed(c)
  BY <1>12 DEF EarlyProceed
<1>13. CASE ReconnectFails(c)
  BY <1>13 DEF ReconnectFails
<1>14. CASE FallbackWriteFails(c)
  BY <1>14 DEF FallbackWriteFails
<1>15. CASE FallbackFails(c)
  BY <1>15 DEF FallbackFails
<1>16. CASE FallbackAnswers(c)
  BY <1>16 DEF FallbackAnswers
<1>17. CASE FallbackQuiet(c)
  BY <1>17 DEF FallbackQuiet
<1>18. CASE FlushSeed(c)
  BY <1>18 DEF FlushSeed
<1>19. CASE FlushFails(c)
  BY <1>19 DEF FlushFails
<1>20. CASE UpEnds(c)
  BY <1>20 DEF UpEnds
<1>21. CASE DownRead(c)
  BY <1>21 DEF DownRead
<1>22. CASE DownWrite(c)
  BY <1>22 DEF DownWrite
<1>23. CASE DownEnds(c)
  BY <1>23 DEF DownEnds
<1> QED BY <1>1, <1>2, <1>3, <1>4, <1>5, <1>6, <1>7, <1>8, <1>9, <1>10, <1>11, <1>12, <1>13, <1>14,
           <1>15, <1>16, <1>17, <1>18, <1>19, <1>20, <1>21, <1>22, <1>23
        DEF Writeless, Step, Environment, Setup, FirstMessage, PrimaryAttempt, FallbackChain, UpLoop, DownLoop

(* Such a step keeps Introduced and Upward. *)
LEMMA TellingWriteless ==
  ASSUME Typed, Typed', Holding, NEW c \in Conns, Writeless(c), Introduced(c), Upward(c)
  PROVE  Introduced(c)' /\ Upward(c)'
<1>1. /\ TaskStep(c) /\ AttemptsStep(c) /\ hello' = hello
      /\ cur[c] \in DOMAIN att[c] /\ 1 \in DOMAIN att[c] /\ Len(att[c]) \in DOMAIN att[c]
  BY TaskChange, AttemptsChange, Attempts DEF Writeless, TaskStep
<1>2. \A j \in DOMAIN att[c] : att'[c][j].act = att[c][j].act /\ att'[c][j].wire = att[c][j].wire
  BY <1>1 DEF AttemptsStep, Writeless
<1>3. CASE pc'[c] \in PCs \ (Awaiting \cup {"flush", "relay"})
  BY <1>3 DEF Introduced, Upward, Awaiting
<1>4. CASE first'[c] = first[c] /\ read'[c] = read[c] /\ upBuf'[c] = upBuf[c]
  <2>1. \A a : FirstWire(c, a)' = FirstWire(c, a)
    BY <1>1, <1>4 DEF FirstWire
  <2>2. CASE /\ pc'[c] \in Awaiting /\ pc[c] \in Awaiting
             /\ pc'[c] = "probe" => pc[c] = "probe" /\ Len(att'[c]) = Len(att[c])
    BY <1>1, <1>2, <2>1, <2>2 DEF Introduced, Upward, Probed, Awaiting, FirstWire
  <2>3. CASE pc'[c] \in {"flush", "relay"} /\ pc[c] \in {"flush", "relay"} /\ cur'[c] = cur[c]
    BY <1>1, <1>2, <1>4, <2>1, <2>3 DEF Introduced, Upward, Upstream, Awaiting, FirstWire
  <2>4. ASSUME pc'[c] \in {"flush", "relay"}, pc[c] \in Awaiting,
               cur'[c] = 1 \/ (pc[c] = "probe" /\ cur'[c] = Len(att[c]))
        PROVE  Introduced(c)' /\ Upward(c)'
    <3> DEFINE a == att[c][cur'[c]]
    <3>1. a.wire = FirstWire(c, a.act) /\ cur'[c] \in DOMAIN att[c]
      BY <1>1, <2>4 DEF Introduced, Probed
    <3>2. upBuf[c] = <<>> /\ read[c] = first[c] /\ first[c] \in Nat
      BY <2>4 DEF Holding, Held, SetUp, Awaiting, Typed, TypeOK
    <3>3. FirstWire(c, a.act) \in Seq(Nat)
      BY FirstWireType DEF Typed
    <3>4. a.wire \o upBuf[c] = FirstWire(c, a.act) \o Pieces(first[c] + 1, read[c])
      BY <3>1, <3>2, <3>3, NothingBeyond
    <3>5. Upstream(c)'.wire = a.wire /\ Upstream(c)'.act = a.act
      BY <1>2, <3>1 DEF Upstream
    <3>6. Upward(c)'
      BY <1>1, <1>4, <3>4, <3>5 DEF Upward, FirstWire
    <3>7. Introduced(c)'
      BY <2>4 DEF Introduced, Awaiting
    <3> QED BY <3>6, <3>7
  <2>5. CASE pc'[c] \in PCs \ (Awaiting \cup {"flush", "relay"})
    BY <1>3, <2>5
  <2> QED BY <2>2, <2>3, <2>4, <2>5, WritelessTask DEF Awaiting
<1> QED BY <1>3, <1>4, WritelessTask

(* A connection's own step keeps Introduced and Upward. *)
LEMMA TellingStep ==
  ASSUME Typed, Typed', Holding, NEW c \in Conns, Step(c), Introduced(c), Upward(c)
  PROVE  Introduced(c)' /\ Upward(c)'
<1>1. /\ att \in [Conns -> Seq(Attempt)] /\ first[c] \in Nat /\ read[c] \in Nat
      /\ cur[c] \in DOMAIN att[c] /\ 1 \in DOMAIN att[c]
  BY Attempts DEF Typed, TypeOK
<1>2. CASE Writeless(c)
  BY <1>2, TellingWriteless
<1>3. CASE ApplyPrimary(c)
  <2>1. PICK a, w : /\ w = FirstWire(c, a)
                    /\ att' = [att EXCEPT ![c][1].act = a, ![c][1].wire = w]
    BY <1>3 DEF ApplyPrimary
  <2>2. /\ att'[c][1].act = a /\ att'[c][1].wire = w
        /\ DOMAIN att'[c] = DOMAIN att[c]
    BY <1>1, <2>1 DEF Attempt
  <2>3. /\ pc'[c] \in {"early", "relay"} /\ cur'[c] = 1
        /\ first' = first /\ read' = read /\ hello' = hello
        /\ upBuf'[c] = <<>> /\ read[c] = first[c]
    BY <1>3 DEF ApplyPrimary, Goto, Typed, TypeOK, Place, SetUp, Holding, Held, peer, bufs
  <2>4. w \in Seq(Nat) /\ w = FirstWire(c, a)'
    BY <2>1, <2>3, FirstWireType DEF Typed, FirstWire
  <2>5. w \o upBuf'[c] = w \o Pieces(first'[c] + 1, read'[c])
    BY <1>1, <2>3, <2>4, NothingBeyond
  <2>6. Upward(c)'
    BY <2>2, <2>3, <2>4, <2>5 DEF Upward, Upstream, FirstWire
  <2>7. Introduced(c)'
    BY <2>2, <2>3, <2>4 DEF Introduced, FirstWire
  <2> QED BY <2>6, <2>7
<1>4. CASE PrimaryWriteFails(c)
  BY <1>4 DEF PrimaryWriteFails, Finish, Goto, Introduced, Upward, Awaiting, Typed, TypeOK
<1>5. CASE FallbackSent(c)
  <2>1. PICK a, w : w = FirstWire(c, a) /\ att' = [att EXCEPT ![c] = Append(@, Fresh(a, w))]
    BY <1>5 DEF FallbackSent, Open
  <2>2. /\ pc[c] = "connect" /\ pc'[c] = "probe" /\ first' = first /\ hello' = hello
    BY <1>5 DEF FallbackSent, Goto, Typed, TypeOK, peer
  <2>3. att'[c][1] = att[c][1] /\ att'[c][Len(att'[c])] = Fresh(a, w)
    BY <1>1, <2>1
  <2> QED BY <2>1, <2>2, <2>3 DEF Introduced, Upward, Probed, Fresh, FirstWire, Awaiting
<1>6. CASE UpRead(c)
  <2>1. /\ att' = att /\ cur' = cur /\ pc' = pc /\ first' = first /\ hello' = hello /\ pc[c] = "relay"
        /\ read'[c] = read[c] + 1 /\ upBuf'[c] = <<read[c] + 1>> /\ upBuf[c] = <<>>
    BY <1>6 DEF UpRead, Typed, TypeOK, peer
  <2> DEFINE w == Upstream(c).wire
             f == FirstWire(c, Upstream(c).act)
             p == Pieces(first[c] + 1, read[c])
  <2>2. w \in Seq(Nat) /\ f \in Seq(Nat) /\ p \in Seq(Nat)
    <3>1. Upstream(c) \in Attempt /\ first[c] + 1 \in Nat
      BY <1>1 DEF Upstream
    <3>2. w \in Seq(Nat)
      BY <3>1 DEF Attempt
    <3> QED BY <1>1, <3>1, <3>2, FirstWireType, PiecesType DEF Typed
  <2> HIDE DEF f, p
  <2>3. w = f \o p
    BY <2>1, <2>2, EmptyConcat DEF Upward, f, p
  <2>4. p \o <<read[c] + 1>> = Pieces(first[c] + 1, read[c] + 1)
    <3>1. first[c] + 1 <= read[c] + 1 /\ first[c] + 1 \in Nat
      BY <1>1 DEF Holding, Held
    <3> QED BY <1>1, <3>1, PiecesExtend DEF p
  <2>5. w \o <<read[c] + 1>> = f \o Pieces(first[c] + 1, read[c] + 1)
    <3>1. <<read[c] + 1>> \in Seq(Nat)
      BY <1>1
    <3>2. (f \o p) \o <<read[c] + 1>> = f \o (p \o <<read[c] + 1>>)
      BY <2>2, <3>1
    <3> QED BY <2>3, <2>4, <3>2
  <2> QED BY <2>1, <2>5 DEF f, Upward, Introduced, Upstream, FirstWire, Awaiting
<1>7. CASE UpWrite(c)
  <2>1. /\ cur' = cur /\ pc' = pc /\ first' = first /\ hello' = hello /\ read' = read /\ pc[c] = "relay"
        /\ upBuf'[c] = <<>>
        /\ att'[c][cur[c]].wire = Upstream(c).wire \o upBuf[c]
        /\ att'[c][cur[c]].act = Upstream(c).act
    <3>1. att[c][cur[c]] \in Attempt
      BY <1>1
    <3>2. att' = [att EXCEPT ![c][cur[c]].wire = Upstream(c).wire \o upBuf[c]]
      BY <1>7 DEF UpWrite, Upstream
    <3>3. /\ att'[c][cur[c]].wire = Upstream(c).wire \o upBuf[c]
          /\ att'[c][cur[c]].act = Upstream(c).act
      BY <1>1, <3>1, <3>2 DEF Upstream, Attempt
    <3> QED BY <1>7, <3>3 DEF UpWrite, Typed, TypeOK, peer
  <2>2. Upstream(c).wire \o upBuf[c] \in Seq(Nat)
    <3>1. Upstream(c) \in Attempt
      BY <1>1 DEF Upstream
    <3>2. Upstream(c).wire \in Seq(Nat)
      BY <3>1 DEF Attempt
    <3>3. upBuf[c] \in Seq(Nat)
      BY DEF Typed, TypeOK
    <3> QED BY <3>2, <3>3, ConcatProperties
  <2> QED BY <2>1, <2>2, EmptyConcat DEF Upward, Introduced, Upstream, FirstWire, Awaiting
<1> QED BY <1>2, <1>3, <1>4, <1>5, <1>6, <1>7 DEF Writeless

(* Telling is inductive. *)
LEMMA TellingNext ==
  Typed /\ Typed' /\ Holding /\ Telling /\ [Next]_vars => Telling'
<1> SUFFICES ASSUME Typed, Typed', Holding, Telling, [Next]_vars, NEW d \in Conns
             PROVE  Introduced(d)' /\ Upward(d)'
  BY DEF Telling
<1>1. CASE UNCHANGED vars
  BY <1>1 DEF Telling, Introduced, Upward, Upstream, Probed, FirstWire, vars, peer, bufs
<1>2. ASSUME NEW c \in Conns, Step(c)
      PROVE  Introduced(d)' /\ Upward(d)'
  BY <1>2, TellingStep, TellingOther DEF Telling
<1> QED BY <1>1, <1>2 DEF Next, Terminated, Step

(* The upstream connection the relay settled on was sent the whole first    *)
(* message once and then every later piece of the client in order.          *)
THEOREM UpstreamIntegrity == Spec => []UpstreamStream
<1>1. Init => Telling
  BY DEF Init, Telling, Introduced, Upward, Awaiting
<1>2. Telling => UpstreamStream
  BY DEF Telling, Upward, UpstreamStream
<1> QED BY <1>1, <1>2, TypedInit, TypedNext, HoldingInit, HoldingNext, TellingNext, PTL DEF Spec

-----------------------------------------------------------------------------
(* TelemetryExact of one connection. *)
Telemetry(c) ==
  /\ responded[c] <=> (\E i \in DOMAIN att[c] : att[c][i].read > 0)
  /\ desynced[c] <=> (Upstream(c).act \notin {"none", "PassThrough"} \/ cur[c] > 1)

(* The steps that touch ConnState. *)
Reporting(c) ==
  \/ ApplyPrimary(c) \/ PrimaryWriteFails(c) \/ EarlyData(c)
  \/ FallbackAnswers(c) \/ FallbackQuiet(c) \/ DownRead(c)

(* Any other step leaves ConnState and what it reports as they are. *)
LEMMA TelemetryKept ==
  ASSUME Typed, NEW c \in Conns, Step(c), ~Reporting(c), Telemetry(c)
  PROVE  Telemetry(c)'
<1>1. AttemptsStep(c) /\ cur[c] \in DOMAIN att[c] /\ DOMAIN att[c] = 1..Len(att[c]) /\ Len(att[c]) \in Nat
  BY AttemptsChange, Attempts
<1>2. UNCHANGED <<desynced, responded, cur>>
  BY DEF Reporting, Step, Environment, Setup, FirstMessage, PrimaryAttempt, FallbackChain, UpLoop, DownLoop,
         ClientSends, ClientEnds, UpstreamSends, UpstreamEnds, Begin, NoFirstMessage, ReadFirst, ReadMore,
         StopReassembly, EarlyRetry, EarlyProceed, ReconnectFails,
         FallbackSent, FallbackWriteFails, FallbackFails, FlushSeed, FlushFails, UpRead, UpWrite, UpEnds,
         DownWrite, DownEnds, state
<1>3. /\ \A j \in DOMAIN att[c] : att'[c][j].act = att[c][j].act /\ att'[c][j].read = att[c][j].read
      /\ \A j \in DOMAIN att'[c] \ DOMAIN att[c] : att'[c][j].read = 0
  BY <1>1 DEF AttemptsStep, Reporting
<1>4. DOMAIN att[c] \subseteq DOMAIN att'[c]
  <2>1. Len(att'[c]) >= Len(att[c]) /\ att'[c] \in Seq(Attempt)
    BY <1>1, TypedNext DEF AttemptsStep, Typed, TypeOK, Next, Step
  <2> QED BY <1>1, <2>1
<1> QED BY <1>1, <1>2, <1>3, <1>4 DEF Telemetry, Upstream

(* A window's answer is what ConnState reports. *)
LEMMA TelemetrySeed ==
  ASSUME Typed, NEW c \in Conns, Telemetry(c), pc[c] \in SetUp,
         NEW i \in DOMAIN att[c], NEW n \in Nat, n > 0, TakeSeed(c, i, n)
  PROVE  Telemetry(c)'
<1>1. /\ att \in [Conns -> Seq(Attempt)] /\ cur[c] = 1 /\ i \in Nat /\ i >= 1
      /\ cur'[c] = i /\ responded'[c] = TRUE /\ desynced'[c] = (desynced[c] \/ i # 1)
  BY DEF Typed, TypeOK, Place, TakeSeed, Settle
<1>2. att'[c][i].read = n /\ att'[c][i].act = att[c][i].act /\ i \in DOMAIN att'[c]
  BY <1>1 DEF TakeSeed, Attempt
<1>3. \E j \in DOMAIN att'[c] : att'[c][j].read > 0
  BY <1>2
<1>4. att'[c][i].act \notin {"none", "PassThrough"} \/ i > 1 <=> desynced'[c]
  <2>1. CASE i = 1
    BY <1>1, <1>2, <2>1 DEF Telemetry, Upstream
  <2>2. CASE i # 1
    <3>1. i > 1
      BY <1>1, <2>2
    <3>2. desynced'[c] = TRUE
      BY <1>1, <2>2
    <3> QED BY <3>1, <3>2
  <2> QED BY <2>1, <2>2
<1> QED BY <1>1, <1>3, <1>4 DEF Telemetry, Upstream

(* A connection's own step keeps Telemetry. *)
LEMMA TelemetryStep ==
  ASSUME Typed, NEW c \in Conns, Step(c), Telemetry(c)
  PROVE  Telemetry(c)'
<1>0. /\ att \in [Conns -> Seq(Attempt)] /\ Len(att[c]) \in DOMAIN att[c] /\ 1 \in DOMAIN att[c]
      /\ cur[c] \in DOMAIN att[c] /\ cur[c] \in Nat
      /\ desynced \in [Conns -> BOOLEAN] /\ responded \in [Conns -> BOOLEAN]
  BY Attempts DEF Typed, TypeOK
<1>1. ASSUME NEW a \in Actions, NEW w, att' = [att EXCEPT ![c][1].act = a, ![c][1].wire = w],
             desynced' = [desynced EXCEPT ![c] = a # "PassThrough"], UNCHANGED <<cur, responded>>,
             pc[c] \in SetUp
      PROVE  Telemetry(c)'
  <2>1. /\ DOMAIN att'[c] = DOMAIN att[c] /\ att'[c][1].act = a
        /\ \A j \in DOMAIN att[c] : att'[c][j].read = att[c][j].read
    BY <1>0, <1>1 DEF Attempt
  <2>2. cur[c] = 1 /\ desynced'[c] = (a # "PassThrough") /\ a # "none"
    BY <1>0, <1>1 DEF Typed, Place, Actions, Effects
  <2>3. Upstream(c)'.act = a /\ cur'[c] = 1 /\ responded'[c] = responded[c]
    BY <1>1, <2>1, <2>2 DEF Upstream
  <2>4. (\E j \in DOMAIN att'[c] : att'[c][j].read > 0) <=> responded[c]
    BY <2>1 DEF Telemetry
  <2>5. desynced'[c] <=> (Upstream(c)'.act \notin {"none", "PassThrough"} \/ cur'[c] > 1)
    <3>1. ~(cur'[c] > 1)
      BY <2>3
    <3> QED BY <2>2, <2>3, <3>1
  <2>6. responded'[c] <=> (\E j \in DOMAIN att'[c] : att'[c][j].read > 0)
    BY <2>3, <2>4
  <2> QED BY <2>5, <2>6 DEF Telemetry
<1>2. PrimaryAction(c) \in Actions
  BY SelectorApplyType DEF PrimaryAction
<1>3. CASE ApplyPrimary(c)
  BY <1>1, <1>2, <1>3 DEF ApplyPrimary, SetUp
<1>4. CASE PrimaryWriteFails(c)
  BY <1>1, <1>2, <1>4 DEF PrimaryWriteFails, SetUp
<1>5. CASE EarlyData(c)
  <2>1. PICK n \in 1..att[c][1].sent : TakeSeed(c, 1, n)
    BY <1>5 DEF EarlyData
  <2> QED BY <1>0, <1>5, <2>1, TelemetrySeed DEF EarlyData, SetUp
<1>6. CASE FallbackAnswers(c)
  <2>1. PICK n \in 1..Probed(c).sent : TakeSeed(c, Len(att[c]), n)
    BY <1>6 DEF FallbackAnswers
  <2> QED BY <1>0, <1>6, <2>1, TelemetrySeed DEF FallbackAnswers, SetUp
<1>7. CASE FallbackQuiet(c)
  <2>1. Len(att[c]) > 1
    BY <1>7 DEF FallbackQuiet, Typed, Place
  <2>2. att' = att /\ cur'[c] = Len(att[c]) /\ desynced'[c] = TRUE /\ responded'[c] = responded[c]
    BY <1>0, <1>7 DEF FallbackQuiet, Typed, TypeOK
  <2>3. (\E j \in DOMAIN att'[c] : att'[c][j].read > 0) <=> responded'[c]
    BY <2>2 DEF Telemetry
  <2> QED BY <2>1, <2>2, <2>3 DEF Telemetry
<1>8. CASE DownRead(c)
  <2>1. Upstream(c).read \in Nat
    <3>1. Upstream(c) \in Attempt
      BY <1>0 DEF Upstream
    <3> QED BY <3>1 DEF Attempt
  <2>2. /\ cur'[c] = cur[c] /\ desynced' = desynced /\ responded'[c] = TRUE
        /\ att'[c][cur[c]].read = Upstream(c).read + 1 /\ att'[c][cur[c]].act = Upstream(c).act
        /\ cur[c] \in DOMAIN att'[c]
    BY <1>0, <1>8 DEF DownRead, Upstream, Attempt
  <2> QED BY <2>1, <2>2 DEF Telemetry, Upstream
<1> QED BY <1>3, <1>4, <1>5, <1>6, <1>7, <1>8, TelemetryKept DEF Reporting

(* What ConnState reports is inductive. *)
LEMMA TelemetryNext == Typed /\ TelemetryExact /\ [Next]_vars => TelemetryExact'
<1> SUFFICES ASSUME Typed, \A d \in Conns : Telemetry(d), [Next]_vars, NEW d \in Conns
             PROVE  Telemetry(d)'
  BY DEF TelemetryExact, Telemetry
<1>1. CASE UNCHANGED vars
  BY <1>1 DEF Telemetry, Upstream, vars, state
<1>2. ASSUME NEW c \in Conns, Step(c) PROVE Telemetry(d)'
  <2>1. CASE d = c
    BY <1>2, <2>1, TelemetryStep
  <2>2. CASE d # c
    BY <1>2, <2>2, TaskChange, AttemptsChange DEF Telemetry, Upstream, TaskStep, Others, AttemptsStep
  <2> QED BY <2>1, <2>2
<1> QED BY <1>1, <1>2 DEF Next, Terminated, Step

(* ConnState::is_failed is exact: it reports that the upstream answered if and *)
(* only if a byte of it was read, and that a desync was applied if and only if *)
(* the message went out under a technique.                                   *)
THEOREM Telemetric == Spec => []TelemetryExact
<1>1. Init => TelemetryExact
  <2> SUFFICES ASSUME Init, NEW c \in Conns PROVE Telemetry(c)
    BY DEF TelemetryExact, Telemetry
  <2>1. att[c] = <<Fresh("none", <<>>)>> /\ cur[c] = 1 /\ ~responded[c] /\ ~desynced[c]
    BY DEF Init
  <2>2. DOMAIN att[c] = {1} /\ att[c][1].read = 0 /\ att[c][1].act = "none"
    BY <2>1 DEF Fresh
  <2> QED BY <2>1, <2>2 DEF Telemetry, Upstream
<1> QED BY <1>1, TypedInit, TypedNext, TelemetryNext, PTL DEF Spec
-----------------------------------------------------------------------------
(* The relay implements the abstract tunnel, for any connections, rules,      *)
(* strategies, fallback chain and bounds: an initial state maps to an initial *)
(* state, and every step of a connection maps to Introduce, Forward, Answer   *)
(* or End, or shows nothing.  The mapping leans on the layers above and on    *)
(* one more, Carried: what a loop holds is the client's latest piece, an      *)
(* attempt in use was sent by some action, and nothing is read that was not   *)
(* sent.                                                                      *)

(* A read of the client that is not yet written is its latest piece. *)
UpHeld(c) == upBuf[c] = <<>> \/ (upBuf[c] = <<read[c]>> /\ read[c] > first[c])

(* Past the first message every attempt was sent by some action. *)
Acted(c) ==
  pc[c] \in Awaiting \cup {"flush", "relay"} => \A i \in DOMAIN att[c] : att[c][i].act # "none"

(* Nothing is read that was not sent. *)
Bounded(c) == \A i \in DOMAIN att[c] : att[c][i].read <= att[c][i].sent /\ att[c][i].sent <= MaxDown

(* The seed that is being flushed is not empty. *)
Answered(c) == pc[c] = "flush" => Upstream(c).read > 0

Carries(c) == UpHeld(c) /\ Acted(c) /\ Bounded(c) /\ Answered(c)

(* A connection's own step keeps UpHeld. *)
LEMMA UpHeldStep ==
  ASSUME Typed, NEW c \in Conns, Held(c), UpHeld(c), Step(c)
  PROVE  UpHeld(c)'
<1>1. CASE UpRead(c)
  BY <1>1 DEF UpRead, UpHeld, Held, Typed, TypeOK
<1>2. CASE ~UpRead(c)
  <2>1. \/ upBuf'[c] = <<>>
        \/ upBuf'[c] = upBuf[c] /\ read'[c] = read[c] /\ first'[c] = first[c]
    BY SMTT(60), <1>2 DEF Step, Environment, Setup, FirstMessage, PrimaryAttempt, FallbackChain, UpLoop, DownLoop,
         ClientSends, ClientEnds, UpstreamSends, UpstreamEnds, Begin, NoFirstMessage, ReadFirst, ReadMore,
         StopReassembly, ApplyPrimary, PrimaryWriteFails, EarlyData, EarlyRetry, EarlyProceed, ReconnectFails,
         FallbackSent, FallbackWriteFails, FallbackFails, FallbackAnswers, FallbackQuiet, FlushSeed, FlushFails,
         UpWrite, UpEnds, DownRead, DownWrite, DownEnds, Finish, Gather, Held, SetUp, bufs, Typed, TypeOK
  <2> QED BY <2>1 DEF UpHeld
<1> QED BY <1>1, <1>2

(* What a fallback technique does is one of the actions. *)
LEMMA FallbackActionType ==
  ASSUME Typed, NEW c \in Conns, pc[c] = "connect"
  PROVE  FallbackAction(c) \in Actions
<1>1. Fallback[fb[c]] \in Technique
  BY SelectorAssumption DEF Typed, Place
<1>2. <<Fallback[fb[c]]>> \in Seq(Technique)
  BY <1>1
<1> QED BY <1>2, StrategyApplyType DEF FallbackAction

(* A connection's own step keeps Acted. *)
LEMMA ActedStep ==
  ASSUME Typed, Typed', Holding, NEW c \in Conns, Acted(c), Step(c)
  PROVE  Acted(c)'
<1> SUFFICES ASSUME pc'[c] \in Awaiting \cup {"flush", "relay"}, NEW i \in DOMAIN att'[c]
             PROVE  att'[c][i].act # "none"
  BY DEF Acted
<1>1. /\ AttemptsStep(c) /\ att \in [Conns -> Seq(Attempt)] /\ 1 \in DOMAIN att[c]
      /\ DOMAIN att[c] = 1..Len(att[c]) /\ Len(att[c]) \in Nat
  BY AttemptsChange, Attempts
<1>2. "none" \notin Actions
  BY DEF Actions, Effects
<1>3. CASE ApplyPrimary(c)
  <2>1. PrimaryAction(c) \in Actions
    BY SelectorApplyType DEF PrimaryAction
  <2>2. Len(att[c]) = 1
    BY <1>3 DEF ApplyPrimary, Typed, Place
  <2>3. att'[c][1].act = PrimaryAction(c) /\ DOMAIN att'[c] = DOMAIN att[c]
    BY <1>1, <1>3 DEF ApplyPrimary, Attempt
  <2>4. i = 1
    <3>1. DOMAIN att[c] = {1}
      BY <1>1, <2>2
    <3> QED BY <2>3, <3>1
  <2> QED BY <1>2, <2>1, <2>3, <2>4
<1>4. CASE ~ApplyPrimary(c)
  <2>1. pc[c] \in Awaiting \cup {"flush", "relay"}
    <3>1. CASE Writeless(c)
      BY <3>1, WritelessTask DEF Awaiting
    <3>2. CASE PrimaryWriteFails(c)
      BY <3>2 DEF PrimaryWriteFails, Finish, Goto, Awaiting, Typed, TypeOK
    <3>3. CASE FallbackSent(c)
      BY <3>3 DEF FallbackSent, Awaiting
    <3>4. CASE UpRead(c) \/ UpWrite(c)
      BY <3>4 DEF UpRead, UpWrite
    <3> QED BY <1>4, <3>1, <3>2, <3>3, <3>4 DEF Writeless
  <2>2. CASE i \in DOMAIN att[c]
    <3>1. ~PrimaryWriteFails(c)
      BY DEF PrimaryWriteFails, Finish, Goto, Awaiting, Typed, TypeOK
    <3>2. att'[c][i].act = att[c][i].act
      BY <1>1, <1>4, <2>2, <3>1 DEF AttemptsStep
    <3> QED BY <2>1, <2>2, <3>2 DEF Acted
  <2>3. CASE i \notin DOMAIN att[c]
    <3>1. Len(att'[c]) \in Nat /\ DOMAIN att'[c] = 1..Len(att'[c])
      BY DEF Typed, TypeOK
    <3>2. Len(att'[c]) > Len(att[c])
      BY <1>1, <2>3, <3>1
    <3>3. FallbackSent(c) \/ FallbackWriteFails(c)
      BY <1>1, <3>2 DEF AttemptsStep
    <3>4. PICK w : att' = [att EXCEPT ![c] = Append(@, Fresh(FallbackAction(c), w))]
      BY <3>3 DEF FallbackSent, FallbackWriteFails, Open
    <3>5. att'[c][i] = Fresh(FallbackAction(c), w)
      BY <1>1, <2>3, <3>4
    <3>6. FallbackAction(c) \in Actions
      BY <3>3, FallbackActionType DEF FallbackSent, FallbackWriteFails
    <3> QED BY <1>2, <3>5, <3>6 DEF Fresh
  <2> QED BY <2>2, <2>3
<1> QED BY <1>3, <1>4

(* A connection's own step keeps Bounded. *)
LEMMA BoundedStep ==
  ASSUME Typed, NEW c \in Conns, Bounded(c), Step(c)
  PROVE  Bounded(c)'
<1>1. /\ att \in [Conns -> Seq(Attempt)]
      /\ 1 \in DOMAIN att[c] /\ cur[c] \in DOMAIN att[c]
      /\ Len(att[c]) \in DOMAIN att[c]
  BY Attempts
<1>2. MaxDown \in Nat
  BY RelayAssumption
<1>3. \A j \in DOMAIN att[c] : att[c][j] \in Attempt /\ att[c][j].read \in Nat /\ att[c][j].sent \in Nat
  <2>1. \A j \in DOMAIN att[c] : att[c][j] \in Attempt
    BY <1>1
  <2> QED BY <2>1 DEF Attempt
<1>4. ASSUME NEW i \in DOMAIN att[c], NEW a, att' = [att EXCEPT ![c][i] = a], a.read <= a.sent, a.sent <= MaxDown
      PROVE  Bounded(c)'
  BY <1>1, <1>4 DEF Bounded
<1>5. ASSUME NEW a, att' = [att EXCEPT ![c] = Append(@, a)], a.read <= a.sent, a.sent <= MaxDown
      PROVE  Bounded(c)'
  BY <1>1, <1>5 DEF Bounded
<1>6. CASE NoAttempt(c)
  BY <1>6, AttemptsKept DEF Bounded
<1>7. CASE UpstreamSends(c)
  <2>1. PICK i \in DOMAIN att[c] : att[c][i].sent < MaxDown /\ att' = [att EXCEPT ![c][i].sent = @ + 1]
    BY <1>7 DEF UpstreamSends, Live
  <2> DEFINE a == [att[c][i] EXCEPT !.sent = @ + 1]
  <2>2. a.read = att[c][i].read /\ a.sent = att[c][i].sent + 1
    BY <1>3 DEF Attempt
  <2>3. a.read <= a.sent /\ a.sent <= MaxDown
    BY <1>2, <1>3, <2>1, <2>2 DEF Bounded
  <2>4. att' = [att EXCEPT ![c][i] = a]
    BY <2>1
  <2> QED BY <1>4, <2>3, <2>4
<1>8. CASE UpstreamEnds(c)
  <2>1. PICK i \in DOMAIN att[c], e \in Ends : att' = [att EXCEPT ![c][i].end = e]
    BY <1>8 DEF UpstreamEnds, Live
  <2> DEFINE a == [att[c][i] EXCEPT !.end = e]
  <2>2. a.read = att[c][i].read /\ a.sent = att[c][i].sent
    BY <1>3 DEF Attempt
  <2>3. att' = [att EXCEPT ![c][i] = a]
    BY <2>1
  <2> QED BY <1>4, <2>2, <2>3 DEF Bounded
<1>9. ASSUME NEW b, NEW w, att' = [att EXCEPT ![c][1].act = b, ![c][1].wire = w]
      PROVE  Bounded(c)'
  <2> DEFINE a == [att[c][1] EXCEPT !.act = b, !.wire = w]
  <2>1. a.read = att[c][1].read /\ a.sent = att[c][1].sent
    BY <1>1, <1>3 DEF Attempt
  <2>2. att' = [att EXCEPT ![c][1] = a]
    BY <1>9
  <2> QED BY <1>1, <1>4, <2>1, <2>2 DEF Bounded
<1>10. CASE ApplyPrimary(c) \/ PrimaryWriteFails(c)
  BY <1>9, <1>10 DEF ApplyPrimary, PrimaryWriteFails
<1>11. ASSUME NEW i \in DOMAIN att[c], NEW n \in 1..att[c][i].sent, att' = [att EXCEPT ![c][i].read = n]
       PROVE  Bounded(c)'
  <2> DEFINE a == [att[c][i] EXCEPT !.read = n]
  <2>1. a.read = n /\ a.sent = att[c][i].sent
    BY <1>3 DEF Attempt
  <2>2. a.read <= a.sent /\ a.sent <= MaxDown
    BY <1>3, <2>1 DEF Bounded
  <2>3. att' = [att EXCEPT ![c][i] = a]
    BY <1>11
  <2> QED BY <1>4, <2>2, <2>3
<1>12. CASE EarlyData(c) \/ FallbackAnswers(c)
  BY <1>1, <1>11, <1>12 DEF EarlyData, FallbackAnswers, Probed, TakeSeed
<1>13. CASE FallbackSent(c) \/ FallbackWriteFails(c)
  <2>1. PICK w : att' = [att EXCEPT ![c] = Append(@, Fresh(FallbackAction(c), w))]
    BY <1>13 DEF FallbackSent, FallbackWriteFails, Open
  <2> DEFINE a == Fresh(FallbackAction(c), w)
  <2>2. a.read <= a.sent /\ a.sent <= MaxDown
    BY <1>2 DEF Fresh
  <2> HIDE DEF a
  <2> QED BY <1>5, <2>1, <2>2 DEF a
<1>14. CASE UpWrite(c)
  <2> DEFINE a == [att[c][cur[c]] EXCEPT !.wire = @ \o upBuf[c]]
  <2>1. a.read = att[c][cur[c]].read /\ a.sent = att[c][cur[c]].sent
    BY <1>1, <1>3 DEF Attempt
  <2>2. att' = [att EXCEPT ![c][cur[c]] = a]
    BY <1>14 DEF UpWrite
  <2> QED BY <1>1, <1>4, <2>1, <2>2 DEF Bounded
<1>15. CASE DownRead(c)
  <2>1. att[c][cur[c]].read + 1 \in 1..att[c][cur[c]].sent
    BY <1>1, <1>3, <1>15 DEF DownRead, Available, Upstream
  <2>2. att' = [att EXCEPT ![c][cur[c]].read = att[c][cur[c]].read + 1]
    BY <1>15 DEF DownRead
  <2> QED BY <1>1, <1>11, <2>1, <2>2
<1> QED BY <1>6, <1>7, <1>8, <1>10, <1>12, <1>13, <1>14, <1>15, StepCases

(* A connection's own step keeps Answered. *)
LEMMA AnsweredStep ==
  ASSUME Typed, Typed', NEW c \in Conns, Answered(c), Step(c)
  PROVE  Answered(c)'
<1>1. /\ AttemptsStep(c) /\ att \in [Conns -> Seq(Attempt)] /\ 1 \in DOMAIN att[c]
      /\ cur[c] \in DOMAIN att[c] /\ Len(att[c]) \in DOMAIN att[c]
  BY AttemptsChange, Attempts
<1>2. ASSUME NEW i \in DOMAIN att[c], NEW n \in Nat, n > 0, TakeSeed(c, i, n)
      PROVE  Answered(c)'
  BY <1>1, <1>2 DEF TakeSeed, Settle, Answered, Upstream, Attempt, Typed, TypeOK
<1>3. CASE EarlyData(c) \/ FallbackAnswers(c)
  BY <1>1, <1>2, <1>3 DEF EarlyData, FallbackAnswers
<1>4. CASE ~EarlyData(c) /\ ~FallbackAnswers(c)
  <2>1. pc'[c] = "flush" => pc[c] = "flush" /\ cur'[c] = cur[c] /\ ~DownRead(c)
    BY SMTT(60), <1>4 DEF Step, Environment, Setup, FirstMessage, PrimaryAttempt, FallbackChain, UpLoop, DownLoop,
         ClientSends, ClientEnds, UpstreamSends, UpstreamEnds, Begin, NoFirstMessage, ReadFirst, ReadMore,
         StopReassembly, ApplyPrimary, PrimaryWriteFails, EarlyRetry, EarlyProceed, ReconnectFails,
         FallbackSent, FallbackWriteFails, FallbackFails, FallbackQuiet, FlushSeed, FlushFails,
         UpRead, UpWrite, UpEnds, DownRead, DownWrite, DownEnds, Finish, Gather, Goto, EnterChain, NextFallback,
         Typed, TypeOK
  <2>2. att'[c][cur[c]].read = att[c][cur[c]].read \/ DownRead(c)
    BY <1>1, <1>4 DEF AttemptsStep
  <2> QED BY <2>1, <2>2 DEF Answered, Upstream
<1> QED BY <1>3, <1>4

Carried == \A c \in Conns : Carries(c)

(* Carried holds at the start. *)
LEMMA CarriedInit == Init => Carried
<1> SUFFICES ASSUME Init, NEW c \in Conns PROVE Carries(c)
  BY DEF Carried
<1>1. att[c] = <<Fresh("none", <<>>)>> /\ pc[c] = "begin" /\ upBuf[c] = <<>> /\ MaxDown \in Nat
  BY RelayAssumption DEF Init
<1>2. DOMAIN att[c] = {1} /\ att[c][1].read = 0 /\ att[c][1].sent = 0
  BY <1>1 DEF Fresh
<1> QED BY <1>1, <1>2 DEF Carries, UpHeld, Acted, Bounded, Answered, Awaiting

(* Carried is inductive. *)
LEMMA CarriedNext == Typed /\ Typed' /\ Holding /\ Carried /\ [Next]_vars => Carried'
<1> SUFFICES ASSUME Typed, Typed', Holding, Carried, [Next]_vars, NEW d \in Conns
             PROVE  Carries(d)'
  BY DEF Carried
<1>1. CASE UNCHANGED vars
  BY <1>1 DEF Carried, Carries, UpHeld, Acted, Bounded, Answered, Upstream, vars, bufs
<1>2. ASSUME NEW c \in Conns, Step(c)
      PROVE  Carries(d)'
  <2>1. CASE d = c
    BY <1>2, <2>1, UpHeldStep, ActedStep, BoundedStep, AnsweredStep DEF Carried, Carries, Holding
  <2>2. CASE d # c
    <3>1. /\ att'[d] = att[d] /\ pc'[d] = pc[d] /\ first'[d] = first[d] /\ cur'[d] = cur[d]
          /\ read'[d] = read[d] /\ upBuf'[d] = upBuf[d]
      BY <1>2, <2>2, TaskChange, AttemptsChange DEF TaskStep, Others, AttemptsStep
    <3> QED BY <3>1 DEF Carried, Carries, UpHeld, Acted, Bounded, Answered, Upstream
  <2> QED BY <2>1, <2>2
<1> QED BY <1>1, <1>2 DEF Next, Terminated, Step

-----------------------------------------------------------------------------
(* The attempts of a connection as the abstract tunnel sees them. *)
Heard(c) == {i \in DOMAIN att[c] : Whole(c, i)}
Ups(c)   == [n \in DOMAIN Beyond(c, cur[c]) |-> <<cur[c], Beyond(c, cur[c])[n] - first[c]>>]
Seen(c)  == <<Heard(c), Ups(c), got[c], pc[c] = "done">>

(* What follows a first message w that reached a connection whole, and then *)
(* the client's pieces up to the m-th.                                      *)
LEMMA WireBeyond ==
  ASSUME NEW w \in Seq(Nat), NEW f \in Nat, NEW m \in Nat, f <= m,
         NEW x, x = w \o Pieces(f + 1, m)
  PROVE  Len(w) <= Len(x) /\ SubSeq(x, Len(w) + 1, Len(x)) = Pieces(f + 1, m)
<1> DEFINE p == Pieces(f + 1, m)
<1>1. p \in Seq(Nat)
  BY PiecesType
<1> HIDE DEF p
<1>2. Len(x) = Len(w) + Len(p) /\ x \in Seq(Nat) /\ Len(p) \in Nat /\ Len(w) \in Nat
  BY <1>1 DEF p
<1>3. \A n \in 1..Len(p) : x[Len(w) + n] = p[n]
  BY <1>1 DEF p
<1> DEFINE y == SubSeq(x, Len(w) + 1, Len(x))
<1>4. /\ y \in Seq(Nat) /\ Len(y) = Len(p)
      /\ \A n \in 1..Len(p) : y[n] = x[Len(w) + n]
  <2> DEFINE a == Len(w) + 1
             b == Len(x)
  <2>1. a \in 1..(Len(x) + 1) /\ b \in (a - 1)..Len(x) /\ b - a + 1 = Len(p)
    BY <1>2
  <2> HIDE DEF a, b
  <2>2. /\ y \in Seq(Nat) /\ Len(y) = b - a + 1
        /\ \A n \in 1..(b - a + 1) : y[n] = x[a + n - 1]
    BY <1>2, <2>1, SubSeqProperties DEF y, a, b
  <2>3. \A n \in 1..Len(p) : a + n - 1 = Len(w) + n
    BY <1>2 DEF a
  <2> QED BY <2>1, <2>2, <2>3
<1> HIDE DEF y
<1>5. y = p
  <2>1. \A n \in 1..Len(y) : y[n] = p[n]
    BY <1>3, <1>4
  <2> QED BY <1>1, <1>4, <2>1, SeqEqual
<1> QED BY <1>2, <1>5 DEF p, y

(* The client's later pieces, counted from the first message on. *)
LEMMA BeyondPieces ==
  ASSUME NEW i \in Nat, NEW f \in Nat, NEW m \in Nat, f <= m, NEW p, p = Pieces(f + 1, m)
  PROVE  [n \in DOMAIN p |-> <<i, p[n] - f>>] = PiecesOf(i, m - f)
<1>1. DOMAIN p = 1..(m - f) /\ \A n \in 1..(m - f) : p[n] = f + n
  BY DEF Pieces
<1>2. \A n \in 1..(m - f) : p[n] - f = n
  BY <1>1
<1> QED BY <1>1, <1>2 DEF PiecesOf

(* A longer run of an attempt's pieces continues a shorter one. *)
LEMMA PiecesOfMore ==
  ASSUME NEW i \in Nat, NEW j \in Nat, NEW m \in Nat, j <= m
  PROVE  PiecesOf(i, m) = PiecesOf(i, j) \o [k \in 1..(m - j) |-> <<i, j + k>>]
<1> DEFINE t == [k \in 1..(m - j) |-> <<i, j + k>>]
           u == PiecesOf(i, j)
           v == PiecesOf(i, m)
<1>1. u \in Seq(Nat \X Nat) /\ v \in Seq(Nat \X Nat) /\ t \in Seq(Nat \X Nat)
  <2>1. m - j \in Nat
    OBVIOUS
  <2>2. \A k \in 1..(m - j) : <<i, j + k>> \in Nat \X Nat
    OBVIOUS
  <2>3. t \in Seq(Nat \X Nat)
    BY <2>1, <2>2
  <2> QED BY <2>3, PiecesOfType
<1>2. Len(u) = j /\ Len(v) = m /\ Len(t) = m - j
  BY DEF PiecesOf
<1>3. /\ \A k \in 1..j : u[k] = <<i, k>>
      /\ \A k \in 1..m : v[k] = <<i, k>>
      /\ \A k \in 1..(m - j) : t[k] = <<i, j + k>>
  BY DEF PiecesOf
<1> HIDE DEF t, u, v
<1>4. u \o t \in Seq(Nat \X Nat) /\ Len(u \o t) = m
  <2>1. u \o t \in Seq(Nat \X Nat) /\ Len(u \o t) = Len(u) + Len(t)
    BY <1>1, ConcatProperties
  <2>2. j + (m - j) = m
    OBVIOUS
  <2> QED BY <1>2, <2>1, <2>2
<1>5. \A k \in 1..m : (u \o t)[k] = <<i, k>>
  <2> SUFFICES ASSUME NEW k \in 1..m PROVE (u \o t)[k] = <<i, k>>
    OBVIOUS
  <2>1. CASE k <= j
    BY <1>1, <1>2, <1>3, <2>1
  <2>2. CASE k > j
    <3>1. (u \o t)[k] = t[k - j] /\ k - j \in 1..(m - j)
      <4>1. k - j \in 1..(m - j) /\ k \in 1..(j + (m - j)) /\ ~(k <= j)
        BY <2>2
      <4>2. (u \o t)[k] = IF k <= Len(u) THEN u[k] ELSE t[k - Len(u)]
        <5>1. k \in 1..(Len(u) + Len(t))
          BY <1>2, <4>1
        <5> QED BY <1>1, <5>1, ConcatProperties
      <4> QED BY <1>2, <4>1, <4>2
    <3>2. t[k - j] = <<i, j + (k - j)>>
      BY <1>3, <3>1
    <3>3. (u \o t)[k] = <<i, j + (k - j)>>
      BY <3>1, <3>2
    <3> DEFINE l == j + (k - j)
    <3>4. l = k
      OBVIOUS
    <3>5. (u \o t)[k] = <<i, l>>
      BY <3>3
    <3> HIDE DEF l
    <3> QED BY <3>4, <3>5
  <2>3. k <= j \/ k > j
    OBVIOUS
  <2> HIDE DEF u, t
  <2> QED BY <2>1, <2>2, <2>3
<1>6. u \o t = v
  <2>1. \A k \in 1..Len(v) : (u \o t)[k] = v[k]
    BY <1>2, <1>3, <1>5
  <2> QED BY <1>1, <1>2, <1>4, <2>1, SeqEqual
<1> QED BY <1>6 DEF t, u, v

-----------------------------------------------------------------------------
(* A connection that another's step leaves alone looks the same. *)
LEMMA SeenOther ==
  ASSUME Typed, NEW c \in Conns, NEW d \in Conns \ {c}, Step(c)
  PROVE  Seen(d)' = Seen(d)
<1>1. TaskStep(c) /\ AttemptsStep(c)
  BY TaskChange, AttemptsChange
<1>2. att'[d] = att[d] /\ hello' = hello
  BY <1>1 DEF AttemptsStep, TaskStep
<1>3. pc'[d] = pc[d] /\ cur'[d] = cur[d] /\ first'[d] = first[d] /\ got'[d] = got[d]
  BY <1>1 DEF TaskStep, Others
<1>4. \A i : Whole(d, i)' = Whole(d, i)
  BY <1>2, <1>3 DEF Whole, FirstWire
<1>5. Beyond(d, cur[d])' = Beyond(d, cur[d])
  BY <1>2, <1>3, <1>4 DEF Beyond, FirstWire
<1> QED BY <1>2, <1>3, <1>4, <1>5 DEF Seen, Heard, Ups

(* Nothing was forwarded on an attempt that was sent just its first message *)
(* or not even that.                                                        *)
LEMMA NothingForwarded ==
  ASSUME Typed, NEW c \in Conns,
         \/ Upstream(c).act = "none"
         \/ Upstream(c).wire = FirstWire(c, Upstream(c).act)
  PROVE  Ups(c) = <<>>
<1>1. Beyond(c, cur[c]) = <<>>
  <2>1. CASE Upstream(c).act = "none"
    BY <2>1 DEF Beyond, Whole, Upstream
  <2>2. CASE Upstream(c).wire = FirstWire(c, Upstream(c).act)
    <3> DEFINE w == Upstream(c).wire
    <3>1. w \in Seq(Nat)
      BY <2>2, FirstWireType DEF Typed
    <3> HIDE DEF w
    <3>2. SubSeq(w, Len(w) + 1, Len(w)) = <<>>
      BY <3>1
    <3> QED BY <2>2, <3>2 DEF Beyond, Upstream, w
  <2> QED BY <2>1, <2>2
<1> QED BY <1>1 DEF Ups

(* What an attempt in use has been forwarded, and that it was told the first *)
(* message.                                                                  *)
LEMMA Forwarded ==
  ASSUME Typed, Holding, Telling, Carried, NEW c \in Conns, pc[c] \in {"flush", "relay"}
  PROVE  /\ cur[c] \in Heard(c)
         /\ upBuf[c] = <<>> => Ups(c) = PiecesOf(cur[c], read[c] - first[c])
         /\ upBuf[c] # <<>> => Ups(c) = PiecesOf(cur[c], read[c] - 1 - first[c])
<1> DEFINE w == Upstream(c).wire
           f == FirstWire(c, Upstream(c).act)
           m == IF upBuf[c] = <<>> THEN read[c] ELSE read[c] - 1
<1>1. /\ att \in [Conns -> Seq(Attempt)] /\ cur[c] \in DOMAIN att[c] /\ cur[c] \in Nat
      /\ first[c] \in Nat /\ read[c] \in Nat /\ read[c] >= first[c]
  BY Attempts DEF Typed, TypeOK, Holding, Held
<1>2. w \in Seq(Nat) /\ f \in Seq(Nat)
  <2>1. Upstream(c) \in Attempt
    BY <1>1 DEF Upstream
  <2> QED BY <2>1, FirstWireType DEF Attempt, Typed
<1>3. Upstream(c).act # "none"
  BY <1>1 DEF Carried, Carries, Acted, Upstream
<1>4. m \in Nat /\ first[c] <= m
  BY <1>1 DEF Carried, Carries, UpHeld
<1>5. w = f \o Pieces(first[c] + 1, m)
  <2> DEFINE p == Pieces(first[c] + 1, m)
  <2>1. p \in Seq(Nat)
    <3>1. first[c] + 1 \in Nat
      BY <1>1
    <3> HIDE DEF m
    <3> QED BY <1>4, <3>1, PiecesType
  <2>2. w \o upBuf[c] = f \o Pieces(first[c] + 1, read[c])
    BY DEF Telling, Upward
  <2>3. CASE upBuf[c] = <<>>
    BY <1>2, <2>2, <2>3, EmptyConcat
  <2>4. CASE upBuf[c] # <<>>
    <3>1. upBuf[c] = <<read[c]>> /\ m + 1 = read[c] /\ m = read[c] - 1
      BY <1>1, <2>4 DEF Carried, Carries, UpHeld
    <3>2. p \o <<read[c]>> = Pieces(first[c] + 1, read[c])
      <4> HIDE DEF m
      <4>1. first[c] + 1 \in Nat /\ first[c] + 1 <= m + 1
        BY <1>1, <1>4
      <4> QED BY <1>4, <3>1, <4>1, PiecesExtend DEF p
    <3> HIDE DEF w, f, p, m
    <3>3. w \o <<read[c]>> = (f \o p) \o <<read[c]>>
      <4>1. <<read[c]>> \in Seq(Nat)
        BY <1>1
      <4>2. (f \o p) \o <<read[c]>> = f \o (p \o <<read[c]>>)
        BY <1>2, <2>1, <4>1
      <4> QED BY <2>2, <3>1, <3>2, <4>2
    <3>4. f \o p \in Seq(Nat)
      BY <1>2, <2>1
    <3> DEFINE g == f \o p
    <3>5. g \in Seq(Nat) /\ w \o <<read[c]>> = g \o <<read[c]>>
      BY <3>3, <3>4
    <3> HIDE DEF g
    <3>6. Len(w) + 1 = Len(g) + 1
      BY <1>1, <1>2, <3>5
    <3>7. Len(w) = Len(g)
      BY <1>2, <3>5, <3>6
    <3>8. \A k \in 1..Len(w) : w[k] = g[k]
      <4>1. \A k \in 1..Len(w) : (w \o <<read[c]>>)[k] = w[k]
        BY <1>2
      <4>2. \A k \in 1..Len(g) : (g \o <<read[c]>>)[k] = g[k]
        BY <3>5
      <4> QED BY <3>5, <3>7, <4>1, <4>2
    <3>9. w = g
      BY <1>2, <3>5, <3>7, <3>8, SeqEqual
    <3> QED BY <3>9 DEF g, p
  <2> QED BY <2>3, <2>4
<1> HIDE DEF w, f, m
<1>6. /\ Len(f) <= Len(w)
      /\ SubSeq(w, Len(f) + 1, Len(w)) = Pieces(first[c] + 1, m)
  BY <1>1, <1>2, <1>4, <1>5, WireBeyond
<1>7. Whole(c, cur[c]) /\ Beyond(c, cur[c]) = Pieces(first[c] + 1, m)
  BY <1>3, <1>6 DEF Whole, Beyond, Upstream, w, f
<1>8. Ups(c) = PiecesOf(cur[c], m - first[c])
  BY <1>1, <1>4, <1>7, BeyondPieces DEF Ups
<1> QED BY <1>1, <1>7, <1>8 DEF Heard, m

-----------------------------------------------------------------------------
(* Only a first message that went out whole makes an attempt heard. *)
LEMMA HeardKept ==
  ASSUME Typed, Typed', NEW c \in Conns, Step(c), ~ApplyPrimary(c), ~FallbackSent(c), ~UpWrite(c)
  PROVE  Heard(c)' = Heard(c)
<1>1. /\ TaskStep(c) /\ AttemptsStep(c) /\ hello' = hello
      /\ att \in [Conns -> Seq(Attempt)] /\ 1 \in DOMAIN att[c] /\ first[c] \in Nat
      /\ DOMAIN att[c] = 1..Len(att[c]) /\ Len(att[c]) \in Nat
      /\ DOMAIN att'[c] = 1..Len(att'[c]) /\ Len(att'[c]) \in Nat
  <2>1. /\ TaskStep(c) /\ AttemptsStep(c) /\ hello' = hello
        /\ att \in [Conns -> Seq(Attempt)] /\ 1 \in DOMAIN att[c]
    BY TaskChange, AttemptsChange, Attempts DEF TaskStep
  <2>2. att' \in [Conns -> Seq(Attempt)] /\ first[c] \in Nat
    BY DEF Typed, TypeOK
  <2> QED BY <2>1, <2>2
<1>2. CASE pc[c] \in {"start", "reassemble"}
  <2>1. Len(att[c]) = 1 /\ att[c][1].act = "none"
    BY <1>2 DEF Typed, Place
  <2>2. Len(att'[c]) = 1 /\ att'[c][1].act = "none"
    <3>1. ~(Len(att'[c]) > Len(att[c])) /\ Len(att'[c]) >= Len(att[c])
      BY <1>1, <1>2 DEF AttemptsStep
    <3>2. att'[c][1].act = att[c][1].act
      BY <1>1, <1>2 DEF AttemptsStep, PrimaryWriteFails
    <3>3. Len(att'[c]) = Len(att[c])
      <4> DEFINE m == Len(att'[c])
                 n == Len(att[c])
      <4>1. m \in Nat /\ n \in Nat /\ ~(m > n) /\ m >= n
        BY <1>1, <3>1
      <4> HIDE DEF m, n
      <4>2. m = n
        BY <4>1
      <4> QED BY <4>2 DEF m, n
    <3> QED BY <2>1, <3>2, <3>3
  <2>3. Heard(c) = {}
    BY <1>1, <2>1 DEF Heard, Whole
  <2>4. Heard(c)' = {}
    BY <1>1, <2>2 DEF Heard, Whole
  <2> QED BY <2>3, <2>4
<1>3. CASE pc[c] \notin {"start", "reassemble"}
  <2>1. \A a : FirstWire(c, a)' = FirstWire(c, a)
    BY <1>1, <1>3 DEF TaskStep, FirstWire
  <2>2. CASE PrimaryWriteFails(c)
    <3>1. Len(att[c]) = 1 /\ att[c][1].act = "none"
      BY <2>2 DEF PrimaryWriteFails, Typed, Place
    <3>2. PICK b, f, n :
             /\ f = FirstWire(c, b) /\ n \in 0..(Len(f) - 1)
             /\ att' = [att EXCEPT ![c][1].act = b, ![c][1].wire = SubSeq(f, 1, n)]
      <4>1. PICK n \in 0..(Len(FirstWire(c, PrimaryAction(c))) - 1) :
              att' = [att EXCEPT ![c][1].act = PrimaryAction(c),
                                 ![c][1].wire = SubSeq(FirstWire(c, PrimaryAction(c)), 1, n)]
        BY <2>2 DEF PrimaryWriteFails
      <4> QED BY <4>1
    <3>3. f \in Seq(Nat)
      BY <3>2, FirstWireType DEF Typed
    <3>4. Len(SubSeq(f, 1, n)) < Len(f)
      BY <3>2, <3>3, SubSeqProperties
    <3>5. DOMAIN att[c] = {1} /\ DOMAIN att'[c] = DOMAIN att[c]
      BY <1>1, <3>1, <3>2
    <3>6. att'[c][1].act = b /\ att'[c][1].wire = SubSeq(f, 1, n)
      BY <1>1, <3>2 DEF Attempt
    <3>7. Heard(c) = {}
      BY <3>1, <3>5 DEF Heard, Whole
    <3>8. FirstWire(c, b)' = f
      BY <2>1, <3>2
    <3>9. ~(Len(f) <= Len(SubSeq(f, 1, n)))
      BY <3>2, <3>3, <3>4
    <3>10. ~Whole(c, 1)'
      BY <3>6, <3>8, <3>9 DEF Whole
    <3>11. Heard(c)' = {}
      BY <3>5, <3>10 DEF Heard
    <3> QED BY <3>7, <3>11
  <2>3. CASE FallbackWriteFails(c)
    <3>1. PICK b, f, n :
             /\ f = FirstWire(c, b) /\ n \in 0..(Len(f) - 1)
             /\ att' = [att EXCEPT ![c] = Append(@, Fresh(b, SubSeq(f, 1, n)))]
      <4>1. PICK n \in 0..(Len(FirstWire(c, FallbackAction(c))) - 1) :
              att' = [att EXCEPT ![c] =
                       Append(@, Fresh(FallbackAction(c), SubSeq(FirstWire(c, FallbackAction(c)), 1, n)))]
        BY <2>3 DEF FallbackWriteFails, Open
      <4> QED BY <4>1
    <3>2. f \in Seq(Nat)
      BY <3>1, FirstWireType DEF Typed
    <3>3. Len(SubSeq(f, 1, n)) < Len(f)
      BY <3>1, <3>2, SubSeqProperties
    <3>4. PICK k \in Nat : k = Len(att[c]) + 1
      BY <1>1
    <3>5. /\ DOMAIN att'[c] = DOMAIN att[c] \cup {k}
          /\ att'[c][k] = Fresh(b, SubSeq(f, 1, n))
          /\ \A j \in DOMAIN att[c] : att'[c][j] = att[c][j]
      BY <1>1, <3>1, <3>4
    <3>6. \A j \in DOMAIN att[c] : Whole(c, j)' = Whole(c, j)
      BY <2>1, <3>5 DEF Whole
    <3>7. FirstWire(c, b)' = f
      BY <2>1, <3>1
    <3>8. ~(Len(f) <= Len(SubSeq(f, 1, n)))
      BY <3>1, <3>2, <3>3
    <3>9. ~Whole(c, k)'
      <4>1. Fresh(b, SubSeq(f, 1, n)).act = b /\ Fresh(b, SubSeq(f, 1, n)).wire = SubSeq(f, 1, n)
        BY DEF Fresh
      <4>2. att'[c][k].act = b /\ att'[c][k].wire = SubSeq(f, 1, n)
        BY <3>5, <4>1
      <4> QED BY <3>7, <3>8, <4>2 DEF Whole
    <3> QED BY <3>5, <3>6, <3>9 DEF Heard
  <2>4. CASE ~PrimaryWriteFails(c) /\ ~FallbackWriteFails(c)
    <3>1. DOMAIN att'[c] = DOMAIN att[c]
      BY <1>1, <2>4 DEF AttemptsStep
    <3>2. \A j \in DOMAIN att[c] : att'[c][j].act = att[c][j].act /\ att'[c][j].wire = att[c][j].wire
      BY <1>1, <2>4 DEF AttemptsStep
    <3>3. \A j \in DOMAIN att[c] : Whole(c, j)' = Whole(c, j)
      BY <2>1, <3>2 DEF Whole
    <3> QED BY <3>1, <3>3 DEF Heard
  <2> QED BY <2>2, <2>3, <2>4
<1> QED BY <1>2, <1>3

(* Only a write of the up loop forwards anything. *)
LEMMA UpsKept ==
  ASSUME Typed, Typed', Telling, NEW c \in Conns, Step(c), ~UpWrite(c)
  PROVE  Ups(c)' = Ups(c)
<1>1. /\ TaskStep(c) /\ AttemptsStep(c) /\ hello' = hello
      /\ att \in [Conns -> Seq(Attempt)] /\ 1 \in DOMAIN att[c] /\ cur[c] \in DOMAIN att[c]
      /\ Len(att[c]) \in DOMAIN att[c]
  BY TaskChange, AttemptsChange, Attempts DEF TaskStep
<1>2. ASSUME NEW a, a = att'[c][cur'[c]],
             a.act = "none" \/ a.wire = FirstWire(c, a.act)' \/ Len(a.wire) < Len(FirstWire(c, a.act)')
      PROVE  Ups(c)' = <<>>
  <2>1. a \in Attempt
    <3>1. att' \in [Conns -> Seq(Attempt)] /\ cur'[c] \in 1..Len(att'[c])
      BY DEF Typed, TypeOK
    <3>2. att'[c] \in Seq(Attempt)
      BY <3>1
    <3> QED BY <1>2, <3>1, <3>2
  <2>2. a.wire \in Seq(Nat) /\ Len(a.wire) \in Nat
    BY <2>1 DEF Attempt
  <2>3. SubSeq(a.wire, Len(a.wire) + 1, Len(a.wire)) = <<>>
    BY <2>2
  <2>4. CASE a.act = "none" \/ Len(a.wire) < Len(FirstWire(c, a.act)')
    <3>1. ~Whole(c, cur[c])'
      <4>1. CASE a.act = "none"
        BY <1>2, <4>1 DEF Whole
      <4>2. CASE Len(a.wire) < Len(FirstWire(c, a.act)')
        <5>1. FirstWire(c, a.act)' \in Seq(Nat)
          <6>1. first'[c] \in Nat /\ hello'[c].size \in Nat
            BY RelayAssumption DEF Typed, TypeOK
          <6> QED BY <6>1, WireType DEF FirstWire
        <5>2. Len(FirstWire(c, a.act)') \in Nat
          BY <5>1
        <5>3. ~(Len(FirstWire(c, a.act)') <= Len(a.wire))
          BY <2>2, <4>2, <5>2
        <5> QED BY <1>2, <5>3 DEF Whole
      <4> QED BY <2>4, <4>1, <4>2
    <3> QED BY <3>1 DEF Ups, Beyond
  <2>5. CASE a.wire = FirstWire(c, a.act)'
    <3>1. Beyond(c, cur[c])' = <<>>
      BY <1>2, <2>3, <2>5 DEF Beyond
    <3> QED BY <3>1 DEF Ups
  <2> QED BY <1>2, <2>4, <2>5
<1>3. CASE ApplyPrimary(c) \/ PrimaryWriteFails(c)
  <2>1. pc[c] = "apply" /\ Len(att[c]) = 1 /\ cur[c] = 1 /\ att[c][1].act = "none"
    BY <1>3 DEF ApplyPrimary, PrimaryWriteFails, Typed, Place, SetUp
  <2>2. Ups(c) = <<>>
    BY <2>1, NothingForwarded DEF Upstream
  <2>3. cur'[c] = 1 /\ first' = first
    BY <1>3, <2>1 DEF ApplyPrimary, PrimaryWriteFails
  <2>4. \A a : FirstWire(c, a)' = FirstWire(c, a)
    BY <1>1, <2>3 DEF FirstWire
  <2>5. CASE ApplyPrimary(c)
    <3>1. PICK b, w : /\ w = FirstWire(c, b)
                      /\ att' = [att EXCEPT ![c][1].act = b, ![c][1].wire = w]
      BY <2>5 DEF ApplyPrimary
    <3>2. att'[c][1].act = b /\ att'[c][1].wire = w
      BY <1>1, <3>1 DEF Attempt
    <3>3. w = FirstWire(c, b)'
      BY <2>4, <3>1
    <3>4. PICK a : a = att'[c][1]
      OBVIOUS
    <3>5. a.wire = FirstWire(c, a.act)'
      BY <3>2, <3>3, <3>4
    <3> QED BY <1>2, <2>2, <2>3, <3>4, <3>5
  <2>6. CASE PrimaryWriteFails(c)
    <3>1. PICK b, f, n :
             /\ f = FirstWire(c, b) /\ n \in 0..(Len(f) - 1)
             /\ att' = [att EXCEPT ![c][1].act = b, ![c][1].wire = SubSeq(f, 1, n)]
      <4>1. PICK n \in 0..(Len(FirstWire(c, PrimaryAction(c))) - 1) :
              att' = [att EXCEPT ![c][1].act = PrimaryAction(c),
                                 ![c][1].wire = SubSeq(FirstWire(c, PrimaryAction(c)), 1, n)]
        BY <2>6 DEF PrimaryWriteFails
      <4> QED BY <4>1
    <3>2. f \in Seq(Nat)
      BY <3>1, FirstWireType DEF Typed
    <3>3. Len(SubSeq(f, 1, n)) < Len(f)
      BY <3>1, <3>2, SubSeqProperties
    <3>4. att'[c][1].act = b /\ att'[c][1].wire = SubSeq(f, 1, n)
      BY <1>1, <3>1 DEF Attempt
    <3>5. f = FirstWire(c, b)'
      BY <2>4, <3>1
    <3>6. PICK a : a = att'[c][1]
      OBVIOUS
    <3>7. Len(a.wire) < Len(FirstWire(c, a.act)')
      BY <3>3, <3>4, <3>5, <3>6
    <3> QED BY <1>2, <2>2, <2>3, <3>6, <3>7
  <2> QED BY <1>3, <2>5, <2>6
<1>4. CASE cur'[c] # cur[c]
  <2>1. cur'[c] = Len(att[c]) /\ (FallbackAnswers(c) \/ FallbackQuiet(c))
    BY <1>1, <1>4 DEF TaskStep
  <2>2. pc[c] = "probe" /\ cur[c] = 1
    BY <2>1 DEF FallbackAnswers, FallbackQuiet, Typed, Place, SetUp
  <2>3. Ups(c) = <<>>
    BY <2>2, NothingForwarded DEF Upstream, Telling, Introduced, Awaiting
  <2>4. \A b : FirstWire(c, b)' = FirstWire(c, b)
    BY <1>1, <2>2 DEF TaskStep, FirstWire
  <2>5. Probed(c).wire = FirstWire(c, Probed(c).act)
    BY <2>2 DEF Telling, Introduced
  <2>6. PICK a : a = att'[c][cur'[c]]
    OBVIOUS
  <2>7. a.act = Probed(c).act /\ a.wire = Probed(c).wire
    <3>1. ~ApplyPrimary(c) /\ ~PrimaryWriteFails(c)
      BY <2>2 DEF ApplyPrimary, PrimaryWriteFails
    <3> QED BY <1>1, <2>1, <2>6, <3>1 DEF AttemptsStep, Probed
  <2>8. a.wire = FirstWire(c, a.act)'
    BY <2>4, <2>5, <2>7
  <2> QED BY <1>2, <2>3, <2>6, <2>8
<1>5. CASE pc[c] \in {"start", "reassemble"}
  <2>1. Len(att[c]) = 1 /\ cur[c] = 1 /\ att[c][1].act = "none"
    BY <1>5 DEF Typed, Place, SetUp
  <2>2. Ups(c) = <<>>
    BY <2>1, NothingForwarded DEF Upstream
  <2>3. att'[c][1].act = "none"
    BY <1>1, <1>5, <2>1 DEF AttemptsStep, ApplyPrimary, PrimaryWriteFails
  <2>4. cur'[c] = 1
    BY <1>1, <1>5, <2>1 DEF TaskStep, FallbackAnswers, FallbackQuiet
  <2> QED BY <1>2, <2>2, <2>3, <2>4
<1>6. CASE /\ ~ApplyPrimary(c) /\ ~PrimaryWriteFails(c) /\ cur'[c] = cur[c]
           /\ pc[c] \notin {"start", "reassemble"}
  <2>1. \A a : FirstWire(c, a)' = FirstWire(c, a)
    BY <1>1, <1>6 DEF TaskStep, FirstWire
  <2>2. Upstream(c)'.act = Upstream(c).act /\ Upstream(c)'.wire = Upstream(c).wire
    BY <1>1, <1>6 DEF AttemptsStep, Upstream
  <2> DEFINE B == Beyond(c, cur[c])
  <2>3. B' = B
    BY <1>6, <2>1, <2>2 DEF Beyond, Whole, Upstream
  <2>4. first'[c] = first[c]
    BY <1>1, <1>6 DEF TaskStep
  <2> QED BY <1>6, <2>3, <2>4 DEF Ups
<1> QED BY <1>3, <1>4, <1>5, <1>6

(* Only the flush and the down loop's writes reach the client. *)
LEMMA GotKept ==
  ASSUME Typed, NEW c \in Conns, Step(c), ~FlushSeed(c), ~DownWrite(c)
  PROVE  got' = got
BY DEF Step, Environment, Setup, FirstMessage, PrimaryAttempt, FallbackChain, UpLoop, DownLoop,
       ClientSends, ClientEnds, UpstreamSends, UpstreamEnds, Begin, NoFirstMessage, ReadFirst, ReadMore,
       StopReassembly, ApplyPrimary, PrimaryWriteFails, EarlyData, EarlyRetry, EarlyProceed, ReconnectFails,
       FallbackSent, FallbackWriteFails, FallbackFails, FallbackAnswers, FallbackQuiet, FlushFails,
       UpRead, UpWrite, UpEnds, DownRead, DownEnds

-----------------------------------------------------------------------------
(* The connections other than c look as before. *)
OthersSeen(c) == \A d \in Conns \ {c} : Seen(d)' = Seen(d)

(* A connection uses only the session the relay goes on with. *)
LEMMA UsedCurrent ==
  ASSUME Typed, DownstreamStream, NEW c \in Conns
  PROVE  /\ Tunnels!Used(c) \subseteq {cur[c]}
         /\ Ups(c) = <<>> /\ got[c] = <<>> => Tunnels!Used(c) = {}
<1>1. Tunnels!Used(c) = {Ups(c)[n][1] : n \in DOMAIN Ups(c)} \cup {got[c][n][1] : n \in DOMAIN got[c]}
  BY DEF Tunnels!Used, Ups
<1>2. \A n \in DOMAIN Ups(c) : Ups(c)[n][1] = cur[c]
  BY DEF Ups
<1>3. \A n \in DOMAIN got[c] : got[c][n][1] = cur[c]
  <2>1. got[c] = PiecesOf(cur[c], Len(got[c]))
    BY DEF DownstreamStream
  <2> QED BY <2>1 DEF PiecesOf
<1> QED BY <1>1, <1>2, <1>3

(* A task that returns ends the tunnel. *)
LEMMA StepEnd ==
  ASSUME Typed, Typed', NEW c \in Conns, OthersSeen(c),
         Heard(c)' = Heard(c), Ups(c)' = Ups(c), got'[c] = got[c], pc[c] # "done", pc'[c] = "done"
  PROVE  Tunnels!Next
<1>1. got \in [Conns -> Seq(Nat \X Nat)] /\ got' \in [Conns -> Seq(Nat \X Nat)]
  BY DEF Typed, TypeOK
<1>2. [d \in Conns |-> Heard(d)]' = [d \in Conns |-> Heard(d)]
  BY DEF OthersSeen, Seen
<1>3. [d \in Conns |-> Ups(d)]' = [d \in Conns |-> Ups(d)]
  BY DEF OthersSeen, Seen
<1>4. got' = got
  BY <1>1 DEF OthersSeen, Seen
<1>5. [d \in Conns |-> pc[d] = "done"]' = [[d \in Conns |-> pc[d] = "done"] EXCEPT ![c] = TRUE]
  BY DEF OthersSeen, Seen
<1> QED BY <1>2, <1>3, <1>4, <1>5 DEF Tunnels!Next, Tunnels!End, Heard, Ups

(* A step of the relay that shows the client and the upstream nothing. *)
LEMMA StepUnseen ==
  ASSUME Typed, Typed', NEW c \in Conns, OthersSeen(c),
         Heard(c)' = Heard(c), Ups(c)' = Ups(c), got'[c] = got[c], pc[c] # "done", pc'[c] # "done"
  PROVE  UNCHANGED Tunnels!vars
<1>1. got \in [Conns -> Seq(Nat \X Nat)] /\ got' \in [Conns -> Seq(Nat \X Nat)]
  BY DEF Typed, TypeOK
<1>2. [d \in Conns |-> Heard(d)]' = [d \in Conns |-> Heard(d)]
  BY DEF OthersSeen, Seen
<1>3. [d \in Conns |-> Ups(d)]' = [d \in Conns |-> Ups(d)]
  BY DEF OthersSeen, Seen
<1>4. got' = got
  BY <1>1 DEF OthersSeen, Seen
<1>5. [d \in Conns |-> pc[d] = "done"]' = [d \in Conns |-> pc[d] = "done"]
  BY DEF OthersSeen, Seen
<1> QED BY <1>2, <1>3, <1>4, <1>5 DEF Tunnels!vars, Heard, Ups

(* A first message that goes out whole introduces the client to a session. *)
LEMMA StepIntroduce ==
  ASSUME Typed, Typed', DownstreamStream, NEW c \in Conns, OthersSeen(c),
         NEW s \in (1..(1 + Len(Fallback))) \ Heard(c), Heard(c)' = Heard(c) \cup {s},
         Ups(c) = <<>>, Ups(c)' = Ups(c), got[c] = <<>>, got'[c] = got[c], pc[c] # "done", pc'[c] # "done"
  PROVE  Tunnels!Next
<1>1. got \in [Conns -> Seq(Nat \X Nat)] /\ got' \in [Conns -> Seq(Nat \X Nat)]
  BY DEF Typed, TypeOK
<1>2. [d \in Conns |-> Heard(d)]' = [[d \in Conns |-> Heard(d)] EXCEPT ![c] = @ \cup {s}]
  BY DEF OthersSeen, Seen
<1>3. [d \in Conns |-> Ups(d)]' = [d \in Conns |-> Ups(d)]
  BY DEF OthersSeen, Seen
<1>4. got' = got
  BY <1>1 DEF OthersSeen, Seen
<1>5. [d \in Conns |-> pc[d] = "done"]' = [d \in Conns |-> pc[d] = "done"]
  BY DEF OthersSeen, Seen
<1>6. Tunnels!Used(c) = {}
  BY UsedCurrent
<1>7. Tunnels!Introduce(c)
  BY <1>2, <1>3, <1>4, <1>5, <1>6 DEF Tunnels!Introduce, Heard, Ups
<1> QED BY <1>7 DEF Tunnels!Next

(* A write of the up loop forwards the client's next piece. *)
LEMMA StepForward ==
  ASSUME Typed, Typed', DownstreamStream, NEW c \in Conns, OthersSeen(c), cur[c] \in Heard(c),
         Heard(c)' = Heard(c), Ups(c)' = Append(Ups(c), <<cur[c], Len(Ups(c)) + 1>>),
         got'[c] = got[c], pc[c] # "done", pc'[c] # "done"
  PROVE  Tunnels!Next
<1>1. got \in [Conns -> Seq(Nat \X Nat)] /\ got' \in [Conns -> Seq(Nat \X Nat)]
  BY DEF Typed, TypeOK
<1>2. [d \in Conns |-> Heard(d)]' = [d \in Conns |-> Heard(d)]
  BY DEF OthersSeen, Seen
<1>3. [d \in Conns |-> Ups(d)]'
        = [[d \in Conns |-> Ups(d)] EXCEPT ![c] = Append(@, <<cur[c], Len(@) + 1>>)]
  BY DEF OthersSeen, Seen
<1>4. got' = got
  BY <1>1 DEF OthersSeen, Seen
<1>5. [d \in Conns |-> pc[d] = "done"]' = [d \in Conns |-> pc[d] = "done"]
  BY DEF OthersSeen, Seen
<1>6. Tunnels!Used(c) \subseteq {cur[c]}
  BY UsedCurrent
<1>7. Tunnels!Forward(c)
  BY <1>2, <1>3, <1>4, <1>5, <1>6 DEF Tunnels!Forward, Heard, Ups
<1> QED BY <1>7 DEF Tunnels!Next

(* What is written to the client continues the session's answer. *)
LEMMA StepAnswer ==
  ASSUME Typed, Typed', DownstreamStream, NEW c \in Conns, OthersSeen(c), cur[c] \in Heard(c),
         Heard(c)' = Heard(c), Ups(c)' = Ups(c), NEW n \in 1..MaxDown,
         got'[c] = got[c] \o [k \in 1..n |-> <<cur[c], Len(got[c]) + k>>],
         pc[c] # "done", pc'[c] # "done"
  PROVE  Tunnels!Next
<1>1. got \in [Conns -> Seq(Nat \X Nat)] /\ got' \in [Conns -> Seq(Nat \X Nat)]
  BY DEF Typed, TypeOK
<1>2. [d \in Conns |-> Heard(d)]' = [d \in Conns |-> Heard(d)]
  BY DEF OthersSeen, Seen
<1>3. [d \in Conns |-> Ups(d)]' = [d \in Conns |-> Ups(d)]
  BY DEF OthersSeen, Seen
<1>4. got' = [got EXCEPT ![c] = @ \o [k \in 1..n |-> <<cur[c], Len(got[c]) + k>>]]
  BY <1>1 DEF OthersSeen, Seen
<1>5. [d \in Conns |-> pc[d] = "done"]' = [d \in Conns |-> pc[d] = "done"]
  BY DEF OthersSeen, Seen
<1>6. Tunnels!Used(c) \subseteq {cur[c]}
  BY UsedCurrent
<1>7. Tunnels!Answer(c)
  BY <1>2, <1>3, <1>4, <1>5, <1>6 DEF Tunnels!Answer, Heard, Ups
<1> QED BY <1>7 DEF Tunnels!Next

(* Everything the mapping leans on. *)
Inv == Typed /\ Holding /\ Telling /\ Carried /\ DownstreamStream

(* The rest of an attempt's answer that was read and not yet delivered. *)
LEMMA AnswerRest ==
  ASSUME Inv, NEW c \in Conns, NEW g \in Seq(Nat \X Nat), pc[c] # "done",
         g = PiecesOf(cur[c], Upstream(c).read), Len(got[c]) < Len(g)
  PROVE  \E n \in 1..MaxDown : g = got[c] \o [k \in 1..n |-> <<cur[c], Len(got[c]) + k>>]
<1> DEFINE r == Upstream(c).read
           j == Len(got[c])
<1>1. cur[c] \in Nat /\ cur[c] \in DOMAIN att[c] /\ r \in Nat /\ j \in Nat /\ MaxDown \in Nat
  <2>1. att \in [Conns -> Seq(Attempt)] /\ cur[c] \in DOMAIN att[c]
    BY Attempts DEF Inv
  <2>2. cur[c] \in Nat /\ j \in Nat
    BY DEF Inv, Typed, TypeOK
  <2>3. Upstream(c) \in Attempt
    BY <2>1 DEF Upstream
  <2> QED BY <2>1, <2>2, <2>3, RelayAssumption DEF Attempt
<1>2. r <= MaxDown
  <2>1. r <= Upstream(c).sent /\ Upstream(c).sent <= MaxDown
    BY <1>1 DEF Inv, Carried, Carries, Bounded, Upstream
  <2>2. Upstream(c).sent \in Nat
    <3>1. Upstream(c) \in Attempt
      BY <1>1, Attempts DEF Inv, Upstream
    <3> QED BY <3>1 DEF Attempt
  <2> QED BY <1>1, <2>1, <2>2
<1>3. g = PiecesOf(cur[c], r) /\ Len(g) = r
  BY <1>1, PiecesOfExtend
<1>4. got[c] = PiecesOf(cur[c], j)
  BY DEF Inv, DownstreamStream
<1> HIDE DEF r, j
<1>5. j <= r /\ r - j \in 1..MaxDown
  BY <1>1, <1>2, <1>3 DEF j
<1>6. g = got[c] \o [k \in 1..(r - j) |-> <<cur[c], j + k>>]
  <2>1. PiecesOf(cur[c], r) = PiecesOf(cur[c], j) \o [k \in 1..(r - j) |-> <<cur[c], j + k>>]
    BY <1>1, <1>5, PiecesOfMore
  <2> QED BY <1>3, <1>4, <2>1
<1> QED BY <1>5, <1>6 DEF j

(* What an attempt in use was told and forwarded. *)
InUse ==
  \A c \in Conns :
    pc[c] \in {"flush", "relay"} =>
      /\ cur[c] \in Heard(c)
      /\ upBuf[c] = <<>> => Ups(c) = PiecesOf(cur[c], read[c] - first[c])

(* It holds in every state the relay can be in. *)
LEMMA ForwardedInv == Inv => InUse
BY Forwarded DEF Inv, InUse

(* Every step of the relay is a step of the tunnel, or shows nothing. *)
LEMMA StepSimulates ==
  ASSUME Inv, Inv', NEW c \in Conns, Step(c)
  PROVE  Tunnels!Next \/ UNCHANGED Tunnels!vars
<1> USE DEF Inv
<1>1. /\ OthersSeen(c) /\ pc[c] # "done" /\ TaskStep(c) /\ AttemptsStep(c) /\ hello' = hello
      /\ att \in [Conns -> Seq(Attempt)] /\ 1 \in DOMAIN att[c] /\ cur[c] \in DOMAIN att[c]
      /\ cur[c] \in Nat /\ first[c] \in Nat /\ read[c] \in Nat
  <2>1. /\ OthersSeen(c) /\ TaskStep(c) /\ AttemptsStep(c)
        /\ att \in [Conns -> Seq(Attempt)] /\ 1 \in DOMAIN att[c] /\ cur[c] \in DOMAIN att[c]
    BY SeenOther, TaskChange, AttemptsChange, Attempts DEF OthersSeen
  <2>2. cur[c] \in Nat /\ first[c] \in Nat /\ read[c] \in Nat
    BY DEF Typed, TypeOK
  <2> QED BY <2>1, <2>2 DEF TaskStep
<1>2. CASE ApplyPrimary(c)
  <2>1. pc[c] = "apply" /\ pc'[c] \in {"relay", "early"} /\ first' = first
    BY <1>2 DEF ApplyPrimary, Goto, Typed, TypeOK
  <2>2. Len(att[c]) = 1 /\ cur[c] = 1 /\ att[c][1].act = "none" /\ got[c] = <<>>
    BY <2>1 DEF Typed, Place, SetUp, Holding, Held
  <2>3. Ups(c) = <<>>
    BY <2>2, NothingForwarded DEF Upstream
  <2>4. Ups(c)' = Ups(c) /\ got' = got
    BY <1>2, <2>1, UpsKept, GotKept DEF UpWrite, FlushSeed, DownWrite
  <2>5. PICK b, w : /\ b \in Actions /\ w = FirstWire(c, b)
                   /\ att' = [att EXCEPT ![c][1].act = b, ![c][1].wire = w]
    <3>1. PrimaryAction(c) \in Actions
      BY SelectorApplyType DEF PrimaryAction
    <3> QED BY <1>2, <3>1 DEF ApplyPrimary
  <2>6. DOMAIN att[c] = {1} /\ DOMAIN att'[c] = DOMAIN att[c]
    BY <1>1, <2>2, <2>5
  <2>7. att'[c][1].act = b /\ att'[c][1].wire = w
    BY <1>1, <2>5 DEF Attempt
  <2>8. w = FirstWire(c, b)' /\ Len(w) \in Nat /\ b # "none"
    <3>1. w = FirstWire(c, b)'
      BY <1>1, <2>1, <2>5 DEF FirstWire
    <3>2. w \in Seq(Nat)
      BY <2>5, FirstWireType DEF Typed
    <3>3. b # "none"
      BY <2>5 DEF Actions, Effects
    <3> QED BY <3>1, <3>2, <3>3
  <2>9. Whole(c, 1)'
    BY <2>7, <2>8 DEF Whole
  <2>10. Heard(c) = {} /\ Heard(c)' = {1}
    BY <2>2, <2>6, <2>9 DEF Heard, Whole
  <2>11. 1 \in (1..(1 + Len(Fallback))) \ Heard(c) /\ Heard(c)' = Heard(c) \cup {1}
    BY <2>10, SelectorAssumption
  <2> QED BY <1>1, <2>1, <2>2, <2>3, <2>4, <2>11, StepIntroduce
<1>3. CASE FallbackSent(c)
  <2>1. pc[c] = "connect" /\ pc'[c] = "probe" /\ first' = first
    BY <1>3 DEF FallbackSent, Goto, Typed, TypeOK
  <2>2. cur[c] = 1 /\ got[c] = <<>> /\ att[c][1].wire = FirstWire(c, att[c][1].act)
    BY <2>1 DEF Typed, Place, SetUp, Holding, Held, Telling, Introduced, Awaiting
  <2>3. Ups(c) = <<>>
    BY <2>2, NothingForwarded DEF Upstream
  <2>4. Ups(c)' = Ups(c) /\ got' = got
    BY <1>3, <2>1, UpsKept, GotKept DEF UpWrite, FlushSeed, DownWrite
  <2>5. PICK b, w : /\ b \in Actions /\ w = FirstWire(c, b)
                   /\ att' = [att EXCEPT ![c] = Append(@, Fresh(b, w))]
    BY <1>3, <2>1, FallbackActionType DEF FallbackSent, Open
  <2>6. PICK k \in Nat : k = Len(att[c]) + 1
    BY <1>1
  <2>7. /\ DOMAIN att'[c] = DOMAIN att[c] \cup {k} /\ k \notin DOMAIN att[c]
        /\ att'[c][k] = Fresh(b, w) /\ Len(att'[c]) = k
        /\ \A j \in DOMAIN att[c] : att'[c][j] = att[c][j]
    BY <1>1, <2>5, <2>6
  <2>8. \A a : FirstWire(c, a)' = FirstWire(c, a)
    BY <1>1, <2>1 DEF FirstWire
  <2>9. \A j \in DOMAIN att[c] : Whole(c, j)' = Whole(c, j)
    BY <2>7, <2>8 DEF Whole
  <2>10. Whole(c, k)'
    <3>1. Fresh(b, w).act = b /\ Fresh(b, w).wire = w
      BY DEF Fresh
    <3>2. att'[c][k].act = b /\ att'[c][k].wire = w
      BY <2>7, <3>1
    <3>3. w = FirstWire(c, b)' /\ Len(w) \in Nat /\ b # "none"
      <4>1. w = FirstWire(c, b)'
        BY <2>5, <2>8
      <4>2. w \in Seq(Nat)
        BY <2>5, FirstWireType DEF Typed
      <4>3. b # "none"
        BY <2>5 DEF Actions, Effects
      <4> QED BY <4>1, <4>2, <4>3
    <3> QED BY <3>2, <3>3 DEF Whole
  <2>11. Heard(c)' = Heard(c) \cup {k} /\ k \notin Heard(c)
    BY <2>7, <2>9, <2>10 DEF Heard
  <2>12. k \in 1..(1 + Len(Fallback))
    BY <2>7 DEF Typed, TypeOK
  <2> QED BY <1>1, <2>1, <2>2, <2>3, <2>4, <2>11, <2>12, StepIntroduce
<1>4. CASE UpWrite(c)
  <2>1. /\ pc[c] = "relay" /\ pc' = pc /\ cur' = cur /\ read' = read /\ first' = first
        /\ upBuf[c] # <<>> /\ upBuf'[c] = <<>>
    BY <1>4 DEF UpWrite, Typed, TypeOK
  <2>2. got' = got
    BY <1>4 DEF UpWrite
  <2>3. cur[c] \in Heard(c) /\ Ups(c) = PiecesOf(cur[c], read[c] - 1 - first[c])
    BY <2>1, Forwarded
  <2>4. cur'[c] \in Heard(c)' /\ Ups(c)' = PiecesOf(cur'[c], read'[c] - first'[c])
    <3>1. InUse'
      <4>1. Inv' => InUse'
        BY ForwardedInv, PTL
      <4> QED BY <4>1
    <3> QED BY <2>1, <3>1 DEF InUse
  <2>5. PICK m \in Nat : m = read[c] - 1 - first[c] /\ m + 1 = read[c] - first[c]
    <3>1. read[c] > first[c]
      BY <2>1 DEF Carried, Carries, UpHeld
    <3> QED BY <1>1, <3>1
  <2>6. Ups(c)' = Append(Ups(c), <<cur[c], Len(Ups(c)) + 1>>)
    <3>1. Ups(c) = PiecesOf(cur[c], m) /\ Ups(c)' = PiecesOf(cur[c], m + 1)
      BY <2>1, <2>3, <2>4, <2>5
    <3>2. Ups(c) \in Seq(Nat \X Nat) /\ Len(Ups(c)) = m
      <4>1. PiecesOf(cur[c], m) \in Seq(Nat \X Nat)
        BY <1>1, PiecesOfType
      <4>2. Len(PiecesOf(cur[c], m)) = m
        BY <1>1, PiecesOfExtend
      <4> QED BY <3>1, <4>1, <4>2
    <3>3. Ups(c)' = Ups(c) \o <<<<cur[c], m + 1>>>>
      BY <1>1, <3>1, PiecesOfExtend
    <3>4. Append(Ups(c), <<cur[c], m + 1>>) = Ups(c) \o <<<<cur[c], m + 1>>>>
      BY <3>2
    <3> QED BY <3>2, <3>3, <3>4
  <2>7. Heard(c)' = Heard(c)
    <3>1. \A a : FirstWire(c, a)' = FirstWire(c, a)
      BY <1>1, <2>1 DEF FirstWire
    <3>2. DOMAIN att'[c] = DOMAIN att[c]
      BY <1>1, <1>4 DEF UpWrite
    <3>3. \A j \in DOMAIN att[c] \ {cur[c]} : att'[c][j] = att[c][j]
      BY <1>1, <1>4 DEF UpWrite
    <3>4. \A j \in DOMAIN att[c] \ {cur[c]} : Whole(c, j)' = Whole(c, j)
      BY <3>1, <3>3 DEF Whole
    <3>5. cur[c] \in Heard(c)'
      BY <2>1, <2>4
    <3> QED BY <2>3, <3>2, <3>4, <3>5 DEF Heard
  <2> QED BY <1>1, <2>1, <2>2, <2>3, <2>6, <2>7, StepForward
<1>5. CASE FlushSeed(c) \/ DownWrite(c)
  <2>1. /\ pc[c] \in {"flush", "relay"} /\ pc'[c] = "relay"
        /\ ~ApplyPrimary(c) /\ ~FallbackSent(c) /\ ~UpWrite(c)
    BY <1>5 DEF FlushSeed, DownWrite, ApplyPrimary, FallbackSent, UpWrite, Goto, Typed, TypeOK, bufs
  <2>2. Heard(c)' = Heard(c) /\ Ups(c)' = Ups(c) /\ cur[c] \in Heard(c)
    BY <2>1, HeardKept, UpsKept, Forwarded
  <2>3. /\ got[c] \in Seq(Nat \X Nat) /\ seed[c] \in Seq(Nat \X Nat) /\ downBuf[c] \in Seq(Nat \X Nat)
        /\ got'[c] \in Seq(Nat \X Nat)
    BY DEF Typed, TypeOK
  <2>4. got[c] \o seed[c] \o downBuf[c] = PiecesOf(cur[c], Upstream(c).read)
    BY <1>1 DEF DownstreamStream
  <2>5. got'[c] = PiecesOf(cur[c], Upstream(c).read) /\ Len(got[c]) < Len(got'[c])
    <3>1. CASE FlushSeed(c)
      <4>1. got'[c] = got[c] \o seed[c] /\ downBuf[c] = <<>> /\ got[c] = <<>> /\ pc[c] = "flush"
        BY <3>1 DEF FlushSeed, Typed, TypeOK, Holding, Held
      <4>2. got'[c] = PiecesOf(cur[c], Upstream(c).read)
        BY <2>3, <2>4, <4>1, EmptyConcat
      <4>3. Upstream(c).read > 0 /\ Upstream(c).read \in Nat
        <5>1. Upstream(c) \in Attempt
          BY <1>1 DEF Upstream
        <5> QED BY <4>1, <5>1 DEF Carried, Carries, Answered, Attempt
      <4>4. Len(got'[c]) = Upstream(c).read /\ Len(got[c]) = 0
        <5>1. Len(PiecesOf(cur[c], Upstream(c).read)) = Upstream(c).read
          BY <1>1, <4>3, PiecesOfExtend
        <5> QED BY <4>1, <4>2, <5>1
      <4> QED BY <4>2, <4>3, <4>4
    <3>2. CASE DownWrite(c)
      <4>1. got'[c] = got[c] \o downBuf[c] /\ seed[c] = <<>> /\ downBuf[c] # <<>>
        BY <3>2 DEF DownWrite, Typed, TypeOK, Holding, Held
      <4>2. got'[c] = PiecesOf(cur[c], Upstream(c).read)
        BY <2>3, <2>4, <4>1, EmptyConcat
      <4>3. Len(downBuf[c]) > 0 /\ Len(got'[c]) = Len(got[c]) + Len(downBuf[c])
        BY <2>3, <4>1
      <4>4. Len(got[c]) \in Nat /\ Len(downBuf[c]) \in Nat
        BY <2>3
      <4>5. Len(got[c]) < Len(got'[c])
        <5> DEFINE k == Len(got[c])
                   l == Len(downBuf[c])
                   m == Len(got'[c])
        <5>1. l > 0 /\ m = k + l /\ k \in Nat /\ l \in Nat
          BY <4>3, <4>4
        <5> HIDE DEF k, l, m
        <5>2. k < m
          BY <5>1
        <5> QED BY <5>2 DEF k, m
      <4> QED BY <4>2, <4>5
    <3> QED BY <1>5, <3>1, <3>2
  <2>6. PICK n \in 1..MaxDown : got'[c] = got[c] \o [k \in 1..n |-> <<cur[c], Len(got[c]) + k>>]
    BY <1>1, <2>3, <2>5, AnswerRest
  <2> QED BY <1>1, <2>1, <2>2, <2>6, StepAnswer
<1>6. CASE ~ApplyPrimary(c) /\ ~FallbackSent(c) /\ ~UpWrite(c) /\ ~FlushSeed(c) /\ ~DownWrite(c)
  <2>1. Heard(c)' = Heard(c) /\ Ups(c)' = Ups(c) /\ got'[c] = got[c]
    BY <1>6, HeardKept, UpsKept, GotKept
  <2> QED BY <1>1, <2>1, StepEnd, StepUnseen
<1> QED BY <1>2, <1>3, <1>4, <1>5, <1>6

(* The relay implements the abstract tunnel: behind the retries of           *)
(* try_fallback_chain the client talks to one upstream session, which was    *)
(* told the whole first message before anything else, and an ended           *)
(* connection is silent.                                                     *)
THEOREM Refinement == Spec => ImplementsTunnel
<1>1. Init => Tunnels!Init
  <2> SUFFICES ASSUME Init PROVE Tunnels!Init
    OBVIOUS
  <2>1. \A c \in Conns : /\ {i \in DOMAIN att[c] : Whole(c, i)} = {}
                          /\ Beyond(c, cur[c]) = <<>>
    BY DEF Init, Fresh, Whole, Beyond
  <2>2. \A c \in Conns : [n \in DOMAIN Beyond(c, cur[c]) |->
                             <<cur[c], Beyond(c, cur[c])[n] - first[c]>>] = <<>>
    BY <2>1
  <2>3. got = [c \in Conns |-> <<>>] /\ \A c \in Conns : (pc[c] = "done") = FALSE
    BY DEF Init
  <2> QED BY <2>1, <2>2, <2>3 DEF Tunnels!Init
<1>2. Init => Inv
  <2>1. Init => Telling
    BY DEF Init, Telling, Introduced, Upward, Awaiting
  <2>2. Init => DownstreamStream
    <3> SUFFICES ASSUME Init, NEW c \in Conns PROVE Downward(c)
      BY DEF DownstreamStream, Downward
    <3>1. PiecesOf(1, 0) = <<>>
      BY PiecesOfExtend
    <3> QED BY <3>1 DEF Init, Downward, Upstream, Fresh
  <2> QED BY <2>1, <2>2, TypedInit, HoldingInit, CarriedInit DEF Inv
<1>3. Inv /\ [Next]_vars => Inv'
  <2>1. Inv /\ [Next]_vars => Typed'
    BY TypedNext DEF Inv
  <2> QED BY <2>1, HoldingNext, TellingNext, CarriedNext, DownwardNext DEF Inv
<1>4. Inv /\ Inv' /\ [Next]_vars => [Tunnels!Next]_(Tunnels!vars)
  <2> SUFFICES ASSUME Inv, Inv', [Next]_vars PROVE Tunnels!Next \/ UNCHANGED Tunnels!vars
    OBVIOUS
  <2>1. CASE UNCHANGED vars
    BY <2>1 DEF vars, peer, bufs, state, Tunnels!vars, Whole, Beyond, FirstWire
  <2>2. ASSUME NEW c \in Conns, Step(c)
        PROVE  Tunnels!Next \/ UNCHANGED Tunnels!vars
    BY <2>2, StepSimulates
  <2> QED BY <2>1, <2>2 DEF Next, Terminated, Step
<1> QED BY <1>1, <1>2, <1>3, <1>4, PTL DEF Spec, ImplementsTunnel, Tunnels!Spec
=============================================================================
