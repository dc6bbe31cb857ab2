----------------------------- MODULE NfqProofs -----------------------------
(***************************************************************************)
(* Theorems about Nfq, for any set of 4-tuples, any capacity of the tracker  *)
(* and any expiry.                                                          *)
(*                                                                          *)
(* Two arguments: what the tracker has forgotten was treated long ago or     *)
(* has enough rivals (Tracks), and what was treated was let through in the   *)
(* form that the rules ask for (Replaced).                                  *)
(***************************************************************************)
EXTENDS Nfq, FiniteSetTheorems, SequenceTheorems, TLAPS

RivalsIn(tr, k) == {j \in DOMAIN tr \ {k} : tr[j].at >= tr[k].at}

(* A 4-tuple was treated so long ago, or so many others since, that the       *)
(* tracker may have forgotten it.                                            *)
Forgettable(tr, time, k) ==
  \/ time - tr[k].at >= Expiry
  \/ Cardinality(RivalsIn(tr, k)) >= MaxConnections

(* Tracker t remembers when each of its connections was treated, and has      *)
(* forgotten only what it may.                                               *)
Tracks(t, tr, time) ==
  /\ DOMAIN t \subseteq Keys /\ \A k \in DOMAIN t : t[k] \in Entry
  /\ Cardinality(DOMAIN t) <= MaxConnections \/ Cardinality(DOMAIN t) <= 1
  /\ \A k \in DOMAIN t : k \in DOMAIN tr /\ t[k].seen = tr[k].at
  /\ \A k \in DOMAIN tr \ DOMAIN t : Forgettable(tr, time, k)

Treatments(tr, time) ==
  /\ DOMAIN tr \subseteq Keys
  /\ \A k \in DOMAIN tr : /\ tr[k] \in [seg : Segment, at : Nat]
                          /\ tr[k].seg.key = k /\ tr[k].at <= time

(* What was treated was let through in the form that the rules ask for. *)
Replaced ==
  up => \A k \in DOMAIN treated : Primary(treated[k].seg.shows) = "Replace" =>
          [seg |-> treated[k].seg, form |-> "replaced"] \in out

Outcome == [seg : Segment, form : {"original", "replaced"}]

ClientOK ==
  /\ flow \in [Keys -> Payloads] /\ gen \in [Keys -> Nat] /\ sent \in [Keys -> Nat]
  /\ \A k \in Keys : sent[k] <= Len(flow[k])

LoopOK ==
  /\ queue \in Seq(Packet) /\ out \subseteq Outcome
  /\ now \in Nat /\ up \in BOOLEAN /\ processed \in 0..(CleanupEvery - 1)

Inv ==
  /\ ClientOK /\ LoopOK
  /\ Treatments(treated, now) /\ Tracks(tracker, treated, now)
  /\ Replaced /\ FirstSegmentTreated /\ NothingHeldBack

-----------------------------------------------------------------------------
(* The tracker.                                                             *)

(* A set of 4-tuples is finite. *)
LEMMA KeySets ==
  ASSUME NEW S, S \subseteq Keys
  PROVE  IsFiniteSet(S) /\ Cardinality(S) \in Nat
<1>1. IsFiniteSet(S)
  BY NfqAssumption, FS_Subset
<1> QED BY <1>1, FS_CardinalityType

(* Rivals can be counted. *)
LEMMA RivalSets ==
  ASSUME NEW tr, DOMAIN tr \subseteq Keys, NEW k
  PROVE  IsFiniteSet(RivalsIn(tr, k)) /\ Cardinality(RivalsIn(tr, k)) \in Nat
<1>1. RivalsIn(tr, k) \subseteq Keys
  BY DEF RivalsIn
<1> QED BY <1>1, KeySets

(* Time passes, other 4-tuples are treated: what may be forgotten still may.  *)
LEMMA StillForgettable ==
  ASSUME NEW tr, NEW time \in Nat, Treatments(tr, time), NEW k \in DOMAIN tr,
         Forgettable(tr, time, k),
         NEW tr2, NEW later \in Nat, later >= time, Treatments(tr2, later),
         DOMAIN tr \subseteq DOMAIN tr2, tr2[k] = tr[k],
         \A j \in DOMAIN tr : tr2[j] = tr[j] \/ tr2[j].at >= time
  PROVE  Forgettable(tr2, later, k)
<1>1. tr[k].at \in Nat /\ Expiry \in Nat /\ MaxConnections \in Nat
  BY NfqAssumption DEF Treatments
<1>2. CASE time - tr[k].at >= Expiry
  BY <1>1, <1>2 DEF Forgettable
<1>3. CASE Cardinality(RivalsIn(tr, k)) >= MaxConnections
  <2>1. RivalsIn(tr, k) \subseteq RivalsIn(tr2, k)
    <3> SUFFICES ASSUME NEW j \in DOMAIN tr \ {k}, tr[j].at >= tr[k].at
                 PROVE  tr2[j].at >= tr2[k].at
      BY DEF RivalsIn
    <3>1. tr[k].at <= time /\ tr2[j].at \in Nat
      BY DEF Treatments
    <3> QED BY <1>1, <3>1
  <2>2. IsFiniteSet(RivalsIn(tr2, k)) /\ Cardinality(RivalsIn(tr2, k)) \in Nat
        /\ Cardinality(RivalsIn(tr, k)) \in Nat
    BY RivalSets DEF Treatments
  <2>3. Cardinality(RivalsIn(tr, k)) <= Cardinality(RivalsIn(tr2, k))
    BY <2>1, <2>2, FS_Subset
  <2> QED BY <1>1, <1>3, <2>2, <2>3 DEF Forgettable
<1> QED BY <1>2, <1>3 DEF Forgettable

(* What a cleanup forgets is expired. *)
LEMMA Concluded ==
  ASSUME NEW t, NEW passed, Conclude(t, passed)
  PROVE  /\ DOMAIN tracker' \subseteq DOMAIN t
         /\ \A k \in DOMAIN tracker' : tracker'[k] = t[k]
         /\ \A k \in DOMAIN t \ DOMAIN tracker' : now - t[k].seen >= Expiry
<1>1. tracker' = t \/ tracker' = CleanupExpired(t)
  BY DEF Conclude
<1>2. /\ DOMAIN CleanupExpired(t) \subseteq DOMAIN t
      /\ \A k \in DOMAIN CleanupExpired(t) : CleanupExpired(t)[k] = t[k]
      /\ \A k \in DOMAIN t \ DOMAIN CleanupExpired(t) : now - t[k].seen >= Expiry
  BY DEF CleanupExpired, Forget
<1> QED BY <1>1, <1>2

(* The end of a turn, with or without a cleanup, keeps the tracker and the history in agreement. *)
LEMMA ConcludeTracks ==
  ASSUME NEW t, NEW tr, Treatments(tr, now), Tracks(t, tr, now), NEW passed, Conclude(t, passed)
  PROVE  Tracks(tracker', tr, now)
<1>1. /\ DOMAIN tracker' \subseteq DOMAIN t
      /\ \A k \in DOMAIN tracker' : tracker'[k] = t[k]
      /\ \A k \in DOMAIN t \ DOMAIN tracker' : now - t[k].seen >= Expiry
  BY Concluded
<1>2. IsFiniteSet(DOMAIN t) /\ Cardinality(DOMAIN t) \in Nat
      /\ Cardinality(DOMAIN tracker') \in Nat
  BY <1>1, KeySets DEF Tracks
<1>3. Cardinality(DOMAIN tracker') <= Cardinality(DOMAIN t)
  BY <1>1, <1>2, FS_Subset
<1>4. Cardinality(DOMAIN tracker') <= MaxConnections \/ Cardinality(DOMAIN tracker') <= 1
  BY <1>2, <1>3, NfqAssumption DEF Tracks
<1>5. \A k \in DOMAIN tr \ DOMAIN tracker' : Forgettable(tr, now, k)
  BY <1>1 DEF Tracks, Forgettable
<1> QED BY <1>1, <1>4, <1>5 DEF Tracks

(* The connection that is evicted to make room, and the room that is made. *)
LEMMA RoomMade ==
  ASSUME NEW t, DOMAIN t \subseteq Keys, NEW u \in Room(t)
  PROVE  /\ DOMAIN u \subseteq DOMAIN t /\ \A k \in DOMAIN u : u[k] = t[k]
         /\ \A k \in DOMAIN t \ DOMAIN u :
              k \in OldestOf(t) /\ Cardinality(DOMAIN t) >= MaxConnections
         /\ (Cardinality(DOMAIN t) <= MaxConnections \/ Cardinality(DOMAIN t) <= 1) =>
              Cardinality(DOMAIN u) + 1 <= MaxConnections \/ Cardinality(DOMAIN u) = 0
<1>1. IsFiniteSet(DOMAIN t) /\ Cardinality(DOMAIN t) \in Nat /\ MaxConnections \in Nat
  BY KeySets, NfqAssumption
<1>2. CASE Cardinality(DOMAIN t) >= MaxConnections /\ DOMAIN t # {}
  <2>1. PICK k \in OldestOf(t) : u = Forget(t, {k})
    BY <1>2 DEF Room
  <2>2. DOMAIN u = DOMAIN t \ {k} /\ k \in DOMAIN t /\ \A j \in DOMAIN u : u[j] = t[j]
    BY <2>1 DEF OldestOf, Forget
  <2>3. Cardinality(DOMAIN u) = Cardinality(DOMAIN t) - 1
    BY <1>1, <2>2, FS_RemoveElement
  <2>4. Cardinality(DOMAIN t) # 0
    BY <1>1, <1>2, FS_EmptySet
  <2> DEFINE n == Cardinality(DOMAIN t)
             m == Cardinality(DOMAIN u)
  <2>5. n \in Nat /\ m = n - 1 /\ n # 0
    BY <1>1, <2>3, <2>4
  <2> HIDE DEF n, m
  <2>6. n <= MaxConnections \/ n <= 1 => m + 1 <= MaxConnections \/ m = 0
    BY <1>1, <2>5
  <2> QED BY <1>2, <2>1, <2>2, <2>6 DEF n, m
<1>3. CASE ~(Cardinality(DOMAIN t) >= MaxConnections /\ DOMAIN t # {})
  <2>1. u = t
    BY <1>3 DEF Room
  <2>2. DOMAIN t = {} => Cardinality(DOMAIN t) = 0
    BY FS_EmptySet
  <2> DEFINE n == Cardinality(DOMAIN t)
  <2>3. n \in Nat /\ (n + 1 <= MaxConnections \/ n = 0)
    <3> HIDE DEF n
    <3>1. n \in Nat /\ (~(n >= MaxConnections) \/ n = 0)
      BY <1>1, <1>3, <2>2 DEF n
    <3> QED BY <1>1, <3>1
  <2> QED BY <2>1, <2>3
<1> QED BY <1>2, <1>3

(* A new treatment. *)
Treated(tr, seg) == [k \in DOMAIN tr \cup {seg.key} |->
                       IF k = seg.key THEN [seg |-> seg, at |-> now] ELSE tr[k]]

(* What the history records when a segment is treated. *)
LEMMA TreatedOK ==
  ASSUME NEW tr, Treatments(tr, now), now \in Nat, NEW seg \in Segment
  PROVE  /\ Treatments(Treated(tr, seg), now)
         /\ DOMAIN Treated(tr, seg) = DOMAIN tr \cup {seg.key}
         /\ Treated(tr, seg)[seg.key] = [seg |-> seg, at |-> now]
         /\ \A j \in DOMAIN tr \ {seg.key} : Treated(tr, seg)[j] = tr[j]
<1> DEFINE tr2 == Treated(tr, seg)
<1>1. /\ DOMAIN tr2 = DOMAIN tr \cup {seg.key}
      /\ tr2[seg.key] = [seg |-> seg, at |-> now]
      /\ \A j \in DOMAIN tr \ {seg.key} : tr2[j] = tr[j]
  BY DEF Treated
<1> HIDE DEF tr2
<1>2. seg.key \in Keys
  BY DEF Segment
<1>3. Treatments(tr2, now)
  BY <1>1, <1>2 DEF Treatments
<1> QED BY <1>1, <1>3 DEF tr2

(* A connection is treated: whether or not another is forgotten for it, the tracker and the history agree. *)
LEMMA TreatTracks ==
  ASSUME NEW tr, NEW t, Treatments(tr, now), Tracks(t, tr, now), now \in Nat,
         NEW seg \in Segment, seg.key \notin DOMAIN t, NEW u \in Room(t),
         NEW action \in {"PassThrough", "Replaced"}
  PROVE  Tracks(Mark(u, seg, action), Treated(tr, seg), now)
<1> DEFINE x == seg.key
           w == Mark(u, seg, action)
           tr2 == Treated(tr, seg)
<1>1. /\ DOMAIN u \subseteq DOMAIN t /\ \A k \in DOMAIN u : u[k] = t[k]
      /\ \A k \in DOMAIN t \ DOMAIN u :
           k \in OldestOf(t) /\ Cardinality(DOMAIN t) >= MaxConnections
      /\ Cardinality(DOMAIN u) + 1 <= MaxConnections \/ Cardinality(DOMAIN u) = 0
  BY RoomMade DEF Tracks
<1>2. /\ Treatments(tr2, now) /\ DOMAIN tr2 = DOMAIN tr \cup {x}
      /\ tr2[x] = [seg |-> seg, at |-> now]
      /\ \A j \in DOMAIN tr \ {x} : tr2[j] = tr[j]
  BY TreatedOK
<1>3. /\ DOMAIN w = DOMAIN u \cup {x}
      /\ w[x] = [seq |-> <<seg.gen, seg.n>>, applied |-> action, seen |-> now]
      /\ \A k \in DOMAIN u \ {x} : w[k] = u[k]
  BY DEF Mark
<1>4. x \in Keys /\ seg.gen \in Nat /\ seg.n \in Nat /\ x \notin DOMAIN u /\ MaxConnections \in Nat
  BY <1>1, NfqAssumption DEF Segment
<1> HIDE DEF w, tr2, x
<1>5. DOMAIN w \subseteq Keys /\ \A k \in DOMAIN w : w[k] \in Entry
  <2>1. w[x] \in Entry
    BY <1>3, <1>4 DEF Entry
  <2> QED BY <1>1, <1>3, <1>4, <2>1 DEF Tracks
<1>6. Cardinality(DOMAIN w) <= MaxConnections \/ Cardinality(DOMAIN w) <= 1
  <2>1. IsFiniteSet(DOMAIN u) /\ Cardinality(DOMAIN u) \in Nat
    BY <1>1, KeySets DEF Tracks
  <2>2. Cardinality(DOMAIN w) = Cardinality(DOMAIN u) + 1
    BY <1>3, <1>4, <2>1, FS_AddElement
  <2> QED BY <1>1, <1>4, <2>1, <2>2
<1>7. \A k \in DOMAIN w : k \in DOMAIN tr2 /\ w[k].seen = tr2[k].at
  <2>1. w[x].seen = now /\ tr2[x].at = now
    BY <1>2, <1>3
  <2>2. \A k \in DOMAIN u : k # x /\ k \in DOMAIN tr /\ u[k].seen = tr[k].at
    BY <1>1, <1>4 DEF Tracks
  <2> QED BY <1>2, <1>3, <2>1, <2>2
<1>8. ASSUME NEW k \in DOMAIN tr2 \ DOMAIN w PROVE Forgettable(tr2, now, k)
  <2>1. k \in DOMAIN tr /\ k # x /\ k \notin DOMAIN u /\ tr2[k] = tr[k]
    BY <1>2, <1>3, <1>8
  <2>2. CASE k \notin DOMAIN t
    <3>1. Forgettable(tr, now, k)
      BY <2>1, <2>2 DEF Tracks
    <3>2. tr2[x].at >= now /\ now >= now
      BY <1>2
    <3>3. \A j \in DOMAIN tr : tr2[j] = tr[j] \/ tr2[j].at >= now
      BY <1>2, <3>2
    <3> QED BY <1>2, <2>1, <3>1, <3>2, <3>3, StillForgettable
  <2>3. CASE k \in DOMAIN t
    <3>1. k \in OldestOf(t) /\ Cardinality(DOMAIN t) >= MaxConnections
      BY <1>1, <2>1, <2>3
    <3> DEFINE others == (DOMAIN t \ {k}) \cup {x}
    <3>2. others \subseteq RivalsIn(tr2, k)
      <4>1. \A j \in DOMAIN t \ {k} : j \in DOMAIN tr2 \ {k} /\ tr2[j].at >= tr2[k].at
        <5> SUFFICES ASSUME NEW j \in DOMAIN t \ {k}
                     PROVE  j \in DOMAIN tr2 \ {k} /\ tr2[j].at >= tr2[k].at
          OBVIOUS
        <5>1. j # x /\ j \in DOMAIN tr /\ t[j].seen = tr[j].at /\ t[k].seen = tr[k].at
          BY <2>3 DEF Tracks, x
        <5>2. t[k].seen <= t[j].seen /\ t[k].seen \in Nat /\ t[j].seen \in Nat
          BY <2>3, <3>1 DEF OldestOf, Tracks, Entry
        <5> QED BY <1>2, <2>1, <5>1, <5>2
      <4>2. x \in DOMAIN tr2 \ {k} /\ tr2[x].at >= tr2[k].at
        BY <1>2, <2>1 DEF Treatments
      <4> QED BY <4>1, <4>2 DEF RivalsIn
    <3>3. IsFiniteSet(DOMAIN t) /\ Cardinality(DOMAIN t) \in Nat
      BY KeySets DEF Tracks
    <3>4. Cardinality(others) = Cardinality(DOMAIN t)
      <4>1. IsFiniteSet(DOMAIN t \ {k}) /\ Cardinality(DOMAIN t \ {k}) = Cardinality(DOMAIN t) - 1
        BY <2>3, <3>3, FS_RemoveElement
      <4>2. Cardinality(others) = Cardinality(DOMAIN t \ {k}) + 1
        BY <4>1, FS_AddElement DEF x
      <4> QED BY <3>3, <4>1, <4>2
    <3>5. IsFiniteSet(RivalsIn(tr2, k)) /\ Cardinality(RivalsIn(tr2, k)) \in Nat
      BY <1>2, RivalSets DEF Treatments
    <3> HIDE DEF others
    <3>6. Cardinality(others) <= Cardinality(RivalsIn(tr2, k))
      BY <3>2, <3>5, FS_Subset
    <3> QED BY <1>4, <3>1, <3>3, <3>4, <3>5, <3>6 DEF Forgettable
  <2> QED BY <2>2, <2>3
<1> QED BY <1>5, <1>6, <1>7, <1>8 DEF Tracks, w, tr2

-----------------------------------------------------------------------------
(* The queue and the loop.                                                  *)

(* The invariant holds at first. *)
LEMMA InvInit == Init => Inv
<1> SUFFICES ASSUME Init PROVE Inv
  OBVIOUS
<1> USE DEF Init
<1>1. ClientOK
  <2>1. \A k \in Keys : flow[k] \in Seq(Protocol)
    BY NfqAssumption
  <2>2. \A k \in Keys : Len(flow[k]) \in Nat
    BY <2>1
  <2> QED BY <2>2 DEF ClientOK
<1>2. LoopOK
  BY NfqAssumption DEF LoopOK
<1>3. DOMAIN tracker = {} /\ DOMAIN treated = {} /\ Cardinality(DOMAIN tracker) = 0
  BY FS_EmptySet
<1>4. Treatments(treated, now) /\ Tracks(tracker, treated, now)
  BY <1>3 DEF Treatments, Tracks
<1>5. Replaced /\ FirstSegmentTreated /\ NothingHeldBack
  BY <1>3 DEF Replaced, FirstSegmentTreated, NothingHeldBack
<1> QED BY <1>1, <1>2, <1>4, <1>5 DEF Inv

(* What a client has sent is a well formed packet. *)
LEMMA DataPacket ==
  ASSUME ClientOK, NEW k \in Keys, NEW n \in 1..Len(flow[k])
  PROVE  /\ Data(k, n) \in Packet /\ Data(k, n).kind = "data"
         /\ Data(k, n).seg \in Segment /\ Data(k, n).seg.key = k
<1>1. flow[k] \in Seq(Protocol) /\ gen[k] \in Nat
  BY NfqAssumption DEF ClientOK
<1>2. flow[k][n] \in Protocol /\ n \in Nat
  BY <1>1
<1>3. [key |-> k, gen |-> gen[k], n |-> n, shows |-> flow[k][n]] \in Segment
  BY <1>1, <1>2 DEF Segment
<1> HIDE DEF Segment
<1> QED BY <1>3 DEF Data, Packet

(* A packet that arrives waits behind those that did before. *)
LEMMA Enqueued ==
  ASSUME LoopOK, NEW p \in Packet, Enqueue(p), UNCHANGED <<now, up, processed>>,
         p.kind = "data" => p.seg \in Segment
  PROVE  /\ LoopOK'
         /\ up => /\ out' = out
                  /\ \A i \in DOMAIN queue : i \in DOMAIN queue' /\ queue'[i] = queue[i]
                  /\ \E i \in DOMAIN queue' : queue'[i] = p
<1>1. CASE up
  <2>1. queue' = Append(queue, p) /\ out' = out /\ queue \in Seq(Packet)
    BY <1>1 DEF Enqueue, LoopOK
  <2>2. /\ queue' \in Seq(Packet) /\ queue'[Len(queue) + 1] = p
        /\ Len(queue) + 1 \in DOMAIN queue'
        /\ \A i \in DOMAIN queue : i \in DOMAIN queue' /\ queue'[i] = queue[i]
    BY <2>1
  <2> QED BY <2>1, <2>2 DEF LoopOK
<1>2. CASE ~up
  <2>1. ASSUME p.kind = "data"
        PROVE  [seg |-> p.seg, form |-> "original"] \in Outcome
    BY <2>1 DEF Outcome
  <2>2. out' \subseteq Outcome /\ queue' = queue
    BY <1>2, <2>1 DEF Enqueue, LoopOK
  <2> QED BY <1>2, <2>2 DEF LoopOK
<1> QED BY <1>1, <1>2

(* What a client, the kernel or the clock does leaves the tracker alone. *)
LEMMA OutsideInv ==
  ASSUME Inv, ClientOK', LoopOK', UNCHANGED <<up, tracker, treated>>, now' >= now,
         up => UNCHANGED out, NothingHeldBack'
  PROVE  Inv'
<1>1. Treatments(treated, now) /\ Tracks(tracker, treated, now) /\ now \in Nat /\ now' \in Nat
  BY DEF Inv, LoopOK
<1>2. Treatments(treated, now')
  BY <1>1 DEF Treatments
<1>3. \A k \in DOMAIN treated \ DOMAIN tracker : Forgettable(treated, now', k)
  BY <1>1, <1>2, StillForgettable DEF Tracks
<1>4. Tracks(tracker, treated, now')
  BY <1>1, <1>3 DEF Tracks
<1>5. Replaced' /\ FirstSegmentTreated'
  BY DEF Inv, Replaced, FirstSegmentTreated
<1>6. Treatments(treated', now') /\ Tracks(tracker', treated', now')
  BY <1>2, <1>4
<1> QED BY <1>5, <1>6 DEF Inv

(* A segment that waited, or was let through, still does or was.              *)
LEMMA StillThere ==
  ASSUME Inv, up,
         out \subseteq out',
         \A i \in DOMAIN queue : i \in DOMAIN queue' /\ queue'[i] = queue[i],
         NEW k \in Keys, NEW n \in 1..sent[k]
  PROVE  \/ \E o \in out' : o.seg = Data(k, n).seg
         \/ \E i \in DOMAIN queue' : queue'[i] = Data(k, n)
BY DEF Inv, NothingHeldBack

(* A client sends its next segment. *)
LEMMA ClientSendsInv ==
  ASSUME Inv, NEW k \in Keys, ClientSends(k)
  PROVE  Inv'
<1>0. ClientOK /\ LoopOK /\ sent[k] \in Nat /\ flow[k] \in Seq(Protocol)
  BY NfqAssumption DEF Inv, ClientOK
<1>1. sent[k] + 1 \in 1..Len(flow[k])
  BY <1>0 DEF ClientSends
<1>2. ClientOK'
  BY <1>0, <1>1 DEF ClientOK, ClientSends
<1> DEFINE p == Data(k, sent[k] + 1)
<1>3. p \in Packet /\ p.kind = "data" /\ p.seg \in Segment
  BY <1>0, <1>1, DataPacket
<1>4. Enqueue(p) /\ UNCHANGED <<now, up, processed, tracker, treated, flow, gen>>
  BY DEF ClientSends
<1>5. \A j \in Keys, m \in Nat : Data(j, m)' = Data(j, m)
  BY <1>4 DEF Data
<1>6. \A j \in Keys : \A m \in 1..sent'[j] : m \in 1..sent[j] \/ (j = k /\ m = sent[k] + 1)
  BY <1>0 DEF ClientSends, ClientOK
<1> HIDE DEF p
<1>7. /\ LoopOK'
      /\ up => /\ out' = out
               /\ \A i \in DOMAIN queue : i \in DOMAIN queue' /\ queue'[i] = queue[i]
               /\ \E i \in DOMAIN queue' : queue'[i] = p
  BY <1>0, <1>3, <1>4, Enqueued
<1>8. NothingHeldBack'
  <2> SUFFICES ASSUME up, NEW j \in Keys, NEW m \in 1..sent'[j]
               PROVE  \/ \E o \in out' : o.seg = (Data(j, m)').seg
                      \/ \E i \in DOMAIN queue' : queue'[i] = Data(j, m)'
    BY <1>4 DEF NothingHeldBack
  <2>1. m \in Nat /\ Data(j, m)' = Data(j, m)
    BY <1>2, <1>5 DEF ClientOK
  <2>2. CASE m \in 1..sent[j]
    BY <1>7, <2>1, <2>2, StillThere
  <2>3. CASE j = k /\ m = sent[k] + 1
    BY <1>7, <2>1, <2>3 DEF p
  <2> QED BY <1>6, <2>2, <2>3
<1>9. now' >= now
  BY <1>0, <1>4 DEF LoopOK
<1> QED BY <1>2, <1>4, <1>7, <1>8, <1>9, OutsideInv

(* A client sends a segment again. *)
LEMMA ClientResendsInv ==
  ASSUME Inv, NEW k \in Keys, ClientResends(k)
  PROVE  Inv'
<1>0. ClientOK /\ LoopOK /\ sent[k] \in Nat /\ sent[k] <= Len(flow[k]) /\ flow[k] \in Seq(Protocol)
  BY NfqAssumption DEF Inv, ClientOK
<1>1. PICK n \in 1..sent[k] : Enqueue(Data(k, n))
  BY DEF ClientResends
<1>2. n \in 1..Len(flow[k])
  BY <1>0
<1>3. Data(k, n) \in Packet /\ Data(k, n).seg \in Segment
  BY <1>0, <1>2, DataPacket
<1>4. UNCHANGED <<flow, gen, sent, now, up, processed, tracker, treated>>
  BY DEF ClientResends, client
<1>5. /\ LoopOK'
      /\ up => /\ out' = out
               /\ \A i \in DOMAIN queue : i \in DOMAIN queue' /\ queue'[i] = queue[i]
  BY <1>0, <1>1, <1>3, <1>4, Enqueued
<1>6. NothingHeldBack'
  BY <1>4, <1>5, StillThere DEF NothingHeldBack, Data
<1>7. ClientOK' /\ now' >= now
  BY <1>0, <1>4 DEF ClientOK, LoopOK
<1> QED BY <1>4, <1>5, <1>6, <1>7, OutsideInv

(* A client reuses its 4-tuple for a new connection. *)
LEMMA ClientReopensInv ==
  ASSUME Inv, NEW k \in Keys, ClientReopens(k)
  PROVE  Inv'
<1>0. ClientOK /\ LoopOK
  BY DEF Inv
<1>1. PICK f \in Payloads : flow' = [flow EXCEPT ![k] = f]
  BY DEF ClientReopens
<1>2. gen' = [gen EXCEPT ![k] = @ + 1] /\ sent' = [sent EXCEPT ![k] = 0]
      /\ UNCHANGED <<queue, now, up, tracker, processed, out, treated>>
  BY DEF ClientReopens, history
<1>3. Len(f) \in Nat
  BY NfqAssumption
<1>4. ClientOK'
  BY <1>0, <1>1, <1>2, <1>3 DEF ClientOK
<1>5. LoopOK' /\ now' >= now
  BY <1>0, <1>2 DEF LoopOK
<1>6. NothingHeldBack'
  <2> SUFFICES ASSUME up, NEW j \in Keys, NEW m \in 1..sent'[j]
               PROVE  \/ \E o \in out' : o.seg = (Data(j, m)').seg
                      \/ \E i \in DOMAIN queue' : queue'[i] = Data(j, m)'
    BY <1>2 DEF NothingHeldBack
  <2>1. j # k /\ sent'[j] = sent[j] /\ flow'[j] = flow[j] /\ gen'[j] = gen[j]
    BY <1>0, <1>1, <1>2 DEF ClientOK
  <2>2. Data(j, m)' = Data(j, m)
    BY <2>1 DEF Data
  <2> QED BY <1>2, <2>1, <2>2, StillThere
<1> QED BY <1>2, <1>4, <1>5, <1>6, OutsideInv

(* A packet without data comes. *)
LEMMA OtherTrafficInv ==
  ASSUME Inv, OtherTraffic
  PROVE  Inv'
<1> DEFINE p == [kind |-> "other"]
<1>1. p \in Packet /\ p.kind # "data" /\ Enqueue(p)
  BY DEF Packet, OtherTraffic
<1>2. UNCHANGED <<flow, gen, sent, now, up, processed, tracker, treated>> /\ ClientOK /\ LoopOK
  BY DEF OtherTraffic, client, Inv
<1> HIDE DEF p
<1>3. /\ LoopOK'
      /\ up => /\ out' = out
               /\ \A i \in DOMAIN queue : i \in DOMAIN queue' /\ queue'[i] = queue[i]
  BY <1>1, <1>2, Enqueued
<1>4. NothingHeldBack'
  BY <1>2, <1>3, StillThere DEF NothingHeldBack, Data
<1>5. ClientOK' /\ now' >= now
  BY <1>2 DEF ClientOK, LoopOK
<1> QED BY <1>2, <1>3, <1>4, <1>5, OutsideInv

(* Time passes. *)
LEMMA TickInv ==
  ASSUME Inv, Tick
  PROVE  Inv'
<1>1. ClientOK /\ LoopOK /\ UNCHANGED <<flow, gen, sent, queue, up, tracker, processed, out, treated>>
  BY DEF Inv, Tick, client, history
<1>2. now' = now + 1 /\ now \in Nat
  BY <1>1 DEF Tick, LoopOK
<1>3. ClientOK' /\ LoopOK' /\ now' >= now
  BY <1>1, <1>2 DEF ClientOK, LoopOK
<1>4. NothingHeldBack'
  BY <1>1 DEF Inv, NothingHeldBack, Data
<1> QED BY <1>1, <1>3, <1>4, OutsideInv

-----------------------------------------------------------------------------
(* One turn of the loop.                                                    *)

(* After a turn the loop has answered the first packet, or it is over. *)
LEMMA Turn ==
  ASSUME LoopOK, queue # <<>>, up, NEW t, NEW passed, passed \subseteq Outcome,
         Conclude(t, passed), now' = now
  PROVE  /\ LoopOK'
         /\ up' => queue' = Tail(queue) /\ out' = out \cup passed
<1>1. queue \in Seq(Packet) /\ Tail(queue) \in Seq(Packet) /\ <<>> \in Seq(Packet)
  BY DEF LoopOK
<1>2. \/ /\ queue' = Tail(queue) /\ up' = up /\ out' = out \cup passed
         /\ processed' = (processed + 1) % CleanupEvery
      \/ queue' = <<>> /\ up' = FALSE /\ out' = out /\ processed' = processed
  BY DEF Conclude
<1>3. (processed + 1) % CleanupEvery \in 0..(CleanupEvery - 1)
  <2>1. processed + 1 \in Nat /\ CleanupEvery \in Nat \ {0}
    BY NfqAssumption DEF LoopOK
  <2> QED BY <2>1
<1>4. out \cup passed \subseteq Outcome
  BY DEF LoopOK
<1> QED BY <1>1, <1>2, <1>3, <1>4 DEF LoopOK

(* The packet that is answered is let through, and no other leaves the queue. *)
LEMMA Answered ==
  ASSUME Inv, queue # <<>>, up, NEW t, NEW passed, passed \subseteq Outcome,
         Conclude(t, passed), now' = now, UNCHANGED client,
         Taken.kind = "data" => \E o \in passed : o.seg = Taken.seg
  PROVE  NothingHeldBack'
<1> SUFFICES ASSUME up', NEW k \in Keys, NEW n \in 1..sent[k]
             PROVE  \/ \E o \in out' : o.seg = Data(k, n).seg
                    \/ \E i \in DOMAIN queue' : queue'[i] = Data(k, n)
  BY DEF NothingHeldBack, Data, client
<1>1. queue' = Tail(queue) /\ out' = out \cup passed
  BY Turn DEF Inv
<1>2. queue \in Seq(Packet) /\ Len(Tail(queue)) = Len(queue) - 1 /\ Taken = queue[1]
      /\ DOMAIN Tail(queue) = 1..(Len(queue) - 1)
      /\ \A i \in 1..(Len(queue) - 1) : Tail(queue)[i] = queue[i + 1]
  BY DEF Inv, LoopOK, Taken
<1>3. Data(k, n).kind = "data"
  BY DEF Data
<1>4. CASE \E o \in out : o.seg = Data(k, n).seg
  BY <1>1, <1>4
<1>5. ASSUME NEW i \in DOMAIN queue, queue[i] = Data(k, n)
      PROVE  \/ \E o \in out' : o.seg = Data(k, n).seg
             \/ \E j \in DOMAIN queue' : queue'[j] = Data(k, n)
  <2>1. CASE i = 1
    BY <1>1, <1>2, <1>3, <1>5, <2>1
  <2>2. CASE i # 1
    <3>1. i - 1 \in 1..(Len(queue) - 1) /\ i \in Nat
      BY <1>2, <2>2
    <3>2. Tail(queue)[i - 1] = queue[i]
      BY <1>2, <3>1
    <3> QED BY <1>1, <1>2, <1>5, <3>1, <3>2
  <2> QED BY <2>1, <2>2
<1> QED BY <1>4, <1>5 DEF Inv, NothingHeldBack

(* The packet at the head of the queue. *)
LEMMA TakenPacket ==
  ASSUME LoopOK, queue # <<>>
  PROVE  Taken.kind = "data" => Taken.seg \in Segment
<1>1. Taken \in Packet
  BY DEF LoopOK, Taken
<1> HIDE DEF Segment
<1> QED BY <1>1 DEF Packet

(* A turn that accepts a packet as it is, or drops one that is not TCP. *)
LEMMA PassInv ==
  ASSUME Inv, PassOther \/ PassKnown
  PROVE  Inv'
<1> DEFINE known == [seg |-> Taken.seg, form |-> "original"]
<1>1. up /\ queue # <<>> /\ UNCHANGED <<client, now, treated>>
  BY DEF PassOther, PassKnown
<1>2. LoopOK /\ ClientOK /\ Treatments(treated, now) /\ Tracks(tracker, treated, now)
  BY DEF Inv
<1>3. PICK passed \in {{}, {known}} :
         /\ Conclude(tracker, passed)
         /\ \/ Taken.kind # "data" /\ passed = {}
            \/ /\ Taken.kind = "data" /\ Taken.seg \in Segment /\ Taken.seg.key \in DOMAIN tracker
               /\ passed = {known}
  BY <1>1, <1>2, TakenPacket DEF PassOther, PassKnown
<1>4. passed \subseteq Outcome
  BY <1>3 DEF Outcome
<1>5. LoopOK' /\ (up' => queue' = Tail(queue) /\ out' = out \cup passed)
  BY <1>1, <1>2, <1>3, <1>4, Turn
<1>6. NothingHeldBack'
  BY <1>1, <1>3, <1>4, Answered
<1>7. Tracks(tracker', treated', now')
  BY <1>1, <1>2, <1>3, ConcludeTracks
<1>8. Treatments(treated', now') /\ ClientOK'
  BY <1>1, <1>2 DEF ClientOK, client
<1>9. Replaced'
  BY <1>1, <1>5 DEF Inv, Replaced
<1>10. FirstSegmentTreated'
  <2> SUFFICES ASSUME up', NEW o \in out', o.form = "original", Primary(o.seg.shows) = "Replace", o.seg.n = 1
               PROVE  \/ [o EXCEPT !.form = "replaced"] \in out'
                      \/ o.seg.key \in DOMAIN treated /\ treated[o.seg.key].seg # o.seg
    BY <1>1 DEF FirstSegmentTreated
  <2>1. CASE o \in out
    BY <1>1, <1>5, <2>1 DEF Inv, FirstSegmentTreated
  <2>2. CASE o = known /\ Taken.seg.key \in DOMAIN tracker
    <3>1. o.seg = Taken.seg /\ o.seg.key \in DOMAIN treated
      BY <1>2, <2>2 DEF Tracks
    <3>2. [o EXCEPT !.form = "replaced"] = [seg |-> o.seg, form |-> "replaced"]
      BY <2>2
    <3>3. treated[o.seg.key].seg = o.seg => [seg |-> o.seg, form |-> "replaced"] \in out
      BY <1>1, <3>1 DEF Inv, Replaced
    <3> QED BY <1>5, <3>1, <3>2, <3>3
  <2> QED BY <1>3, <1>5, <2>1, <2>2
<1> QED BY <1>5, <1>6, <1>7, <1>8, <1>9, <1>10 DEF Inv

(* A turn that treats the first segment of a connection. *)
LEMMA TreatInv ==
  ASSUME Inv, Treat
  PROVE  Inv'
<1> DEFINE seg == Taken.seg
           action == Primary(seg.shows)
           new == [seg |-> seg, form |-> Form(action)]
<1>1. /\ up /\ queue # <<>> /\ Taken.kind = "data" /\ seg.key \notin DOMAIN tracker
      /\ UNCHANGED <<client, now>> /\ treated' = Treated(treated, seg)
  BY DEF Treat, Treated
<1>2. LoopOK /\ ClientOK /\ Treatments(treated, now) /\ Tracks(tracker, treated, now) /\ now \in Nat
  BY DEF Inv, LoopOK
<1>3. seg \in Segment
  BY <1>1, <1>2, TakenPacket
<1>4. PICK u \in Room(tracker) : Conclude(Mark(u, seg, AppliedAction(action)), {new})
  BY DEF Treat
<1>5. AppliedAction(action) \in {"PassThrough", "Replaced"} /\ {new} \subseteq Outcome
  BY <1>3 DEF AppliedAction, Form, Outcome
<1>6. LoopOK' /\ (up' => queue' = Tail(queue) /\ out' = out \cup {new})
  BY <1>1, <1>2, <1>4, <1>5, Turn
<1>7. NothingHeldBack'
  BY <1>1, <1>4, <1>5, Answered
<1>8. /\ Treatments(treated', now) /\ DOMAIN treated' = DOMAIN treated \cup {seg.key}
      /\ treated'[seg.key].seg = seg
      /\ \A j \in DOMAIN treated \ {seg.key} : treated'[j] = treated[j]
  <2>1. [seg |-> seg, at |-> now].seg = seg
    OBVIOUS
  <2> HIDE DEF seg
  <2> QED BY <1>1, <1>2, <1>3, <2>1, TreatedOK
<1>9. Tracks(tracker', treated', now')
  <2>1. Tracks(Mark(u, seg, AppliedAction(action)), treated', now)
    BY <1>1, <1>2, <1>3, <1>5, TreatTracks
  <2> QED BY <1>1, <1>4, <1>8, <2>1, ConcludeTracks
<1>10. Treatments(treated', now') /\ ClientOK'
  BY <1>1, <1>2, <1>8 DEF ClientOK, client
<1>11. action = "Replace" => new = [seg |-> seg, form |-> "replaced"]
  BY DEF Form
<1>12. new.form = "original" => action # "Replace"
  BY DEF Form
<1> HIDE DEF action
<1>13. Replaced'
  <2> SUFFICES ASSUME up', NEW k \in DOMAIN treated', Primary(treated'[k].seg.shows) = "Replace"
               PROVE  [seg |-> treated'[k].seg, form |-> "replaced"] \in out'
    BY DEF Replaced
  <2>1. CASE k = seg.key
    BY <1>6, <1>8, <1>11, <2>1 DEF action
  <2>2. CASE k # seg.key
    BY <1>1, <1>6, <1>8, <2>2 DEF Inv, Replaced
  <2> QED BY <2>1, <2>2
<1>14. FirstSegmentTreated'
  <2> SUFFICES ASSUME up', NEW o \in out', o.form = "original", Primary(o.seg.shows) = "Replace", o.seg.n = 1
               PROVE  \/ [o EXCEPT !.form = "replaced"] \in out'
                      \/ o.seg.key \in DOMAIN treated' /\ treated'[o.seg.key].seg # o.seg
    BY DEF FirstSegmentTreated
  <2>1. o # new
    BY <1>12 DEF action
  <2>2. o \in out /\ o \in Outcome
    BY <1>2, <1>6, <2>1 DEF LoopOK
  <2>3. CASE o.seg.key # seg.key
    BY <1>1, <1>6, <1>8, <2>2, <2>3 DEF Inv, FirstSegmentTreated
  <2>4. CASE o.seg.key = seg.key /\ o.seg # seg
    BY <1>8, <2>4
  <2>5. CASE o.seg = seg
    <3>1. [o EXCEPT !.form = "replaced"] = [seg |-> seg, form |-> "replaced"]
      BY <2>2, <2>5 DEF Outcome
    <3> QED BY <1>6, <1>11, <2>5, <3>1 DEF action
  <2> QED BY <2>3, <2>4, <2>5
<1> QED BY <1>6, <1>7, <1>9, <1>10, <1>13, <1>14 DEF Inv

(* Every step preserves the invariant. *)
LEMMA InvNext ==
  ASSUME Inv, [Next]_vars
  PROVE  Inv'
<1>1. CASE UNCHANGED vars
  BY <1>1 DEF vars, client, history, Inv, ClientOK, LoopOK, Treatments, Tracks, Forgettable, RivalsIn,
              Replaced, FirstSegmentTreated, NothingHeldBack, Data
<1> QED BY <1>1, ClientSendsInv, ClientResendsInv, ClientReopensInv, OtherTrafficInv, TickInv,
           PassInv, TreatInv DEF Next, Loop

(* The inductive invariant of the queue, the tracker and the history holds throughout. *)
THEOREM Invariance == Spec => []Inv
<1>1. Inv /\ [Next]_vars => Inv'
  BY InvNext
<1> QED BY InvInit, <1>1, PTL DEF Spec

(* The variables keep their types, and the tracker never holds more than       *)
(* max_connections entries (ConnTracker::get_or_create evicts first).        *)
THEOREM TypeCorrect == Spec => []TypeOK
<1>1. Inv => TypeOK
  BY DEF Inv, ClientOK, LoopOK, Treatments, Tracks, Outcome, TypeOK
<1> QED BY Invariance, <1>1, PTL

(* While the loop runs, a first segment that the rules replace is let through *)
(* unmodified only where it is taken for one of a connection that was treated *)
(* on another segment (process_packet).                                      *)
THEOREM FirstSegmentsTreated == Spec => []FirstSegmentTreated
<1>1. Inv => FirstSegmentTreated
  BY DEF Inv
<1> QED BY Invariance, <1>1, PTL

(* While the loop runs, what a client sent was let through or waits for its   *)
(* verdict (run_nfq answers every packet).                                   *)
THEOREM NothingIsHeldBack == Spec => []NothingHeldBack
<1>1. Inv => NothingHeldBack
  BY DEF Inv
<1> QED BY Invariance, <1>1, PTL

(* A 4-tuple is treated again only when it expired, or when as many others as *)
(* the tracker holds were treated since (evict_oldest, cleanup_expired).      *)
THEOREM OnlyOldestForgotten == Spec => ForgetsOnlyOldest
<1>1. Inv /\ [Next]_vars =>
        [\A k \in DOMAIN treated :
           treated'[k] # treated[k] =>
             \/ now - treated[k].at >= Expiry
             \/ Cardinality(Rivals(k)) >= MaxConnections]_vars
  <2> SUFFICES ASSUME Inv, Next, NEW k \in DOMAIN treated, treated'[k] # treated[k]
               PROVE  Forgettable(treated, now, k)
    BY DEF Forgettable, RivalsIn, Rivals
  <2>1. Treat
    BY DEF Next, Loop, ClientSends, ClientResends, ClientReopens, OtherTraffic, Tick, PassOther,
           PassKnown, history
  <2>2. k = Taken.seg.key /\ k \notin DOMAIN tracker
    BY <2>1 DEF Treat
  <2> QED BY <2>2 DEF Inv, Tracks
<1> QED BY Invariance, <1>1, PTL DEF Spec, ForgetsOnlyOldest
=============================================================================
