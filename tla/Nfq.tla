-------------------------------- MODULE Nfq --------------------------------
(***************************************************************************)
(* NFQ mode (src/crates/desyncd-nfq/src/lib.rs and connstate.rs): one loop   *)
(* takes packets from the kernel's queue, in order, and answers each with a *)
(* verdict.  A tracker remembers the connections whose first data packet    *)
(* was treated, so that a connection is desynced once.                      *)
(*                                                                          *)
(* A connection is a 4-tuple, which the client may use again later (a new   *)
(* generation).  Its data are numbered segments; what detect_protocol sees  *)
(* in a segment is all that the selector is told of it.                     *)
(***************************************************************************)
EXTENDS Selector, FiniteSetsExt, TLC

CONSTANTS
  Keys,            \* 4-tuples (ConnKey)
  Payloads,        \* what the segments of a connection show: sequences of Protocol
  MaxConnections,  \* NfqConfig.max_connections
  Expiry,          \* ticks after which cleanup_expired forgets (300 s)
  CleanupEvery,    \* packets between two cleanups (1000)
  MaxQueue,        \* bound: packets in the kernel's queue
  MaxGen,          \* bound: 4-tuples used again, all together
  MaxTime          \* bound: ticks of the clock

ASSUME NfqAssumption ==
  /\ IsFiniteSet(Keys)
  /\ Payloads \subseteq Seq(Protocol)
  /\ {MaxConnections, MaxQueue, MaxGen, MaxTime} \subseteq Nat
  /\ {Expiry, CleanupEvery} \subseteq Nat \ {0}

VARIABLES
  flow, gen, sent,  \* the client: a connection's segments, its generation, segments sent
  queue,            \* packets the kernel holds for a verdict
  now,              \* the clock
  up,               \* the loop runs (send_verdict has not failed)
  tracker,          \* ConnTracker.connections
  processed,        \* packets_processed, modulo CleanupEvery
  out,              \* history: segments let through, and in which form
  treated           \* history: a 4-tuple's last treated segment, and when

client  == <<flow, gen, sent>>
history == <<out, treated>>
vars    == <<client, queue, now, up, tracker, processed, history>>

Segment == [key : Keys, gen : Nat, n : Nat, shows : Protocol]
(* "other": a packet that parse_ip_tcp refuses, or one without payload. *)
Packet  == [kind : {"data"}, seg : Segment] \cup [kind : {"other"}]

Data(k, n) ==
  [kind |-> "data", seg |-> [key |-> k, gen |-> gen[k], n |-> n, shows |-> flow[k][n]]]

Init ==
  /\ flow \in [Keys -> Payloads]
  /\ gen = [k \in Keys |-> 0]
  /\ sent = [k \in Keys |-> 0]
  /\ queue = <<>>
  /\ now = 0
  /\ up = TRUE
  /\ tracker = <<>>
  /\ processed = 0
  /\ out = {}
  /\ treated = <<>>

-----------------------------------------------------------------------------
(* The clients, the kernel and time.                                        *)

(* Without a listener the rule's --queue-bypass lets packets through. *)
Enqueue(p) ==
  \/ up /\ Len(queue) < MaxQueue /\ queue' = Append(queue, p) /\ out' = out
  \/ /\ ~up
     /\ queue' = queue
     /\ out' = IF p.kind = "data" THEN out \cup {[seg |-> p.seg, form |-> "original"]} ELSE out

ClientSends(k) ==
  /\ sent[k] < Len(flow[k])
  /\ sent' = [sent EXCEPT ![k] = @ + 1]
  /\ Enqueue(Data(k, sent[k] + 1))
  /\ UNCHANGED <<flow, gen, now, up, tracker, processed, treated>>

ClientResends(k) ==
  /\ \E n \in 1..sent[k] : Enqueue(Data(k, n))
  /\ UNCHANGED <<client, now, up, tracker, processed, treated>>

ClientReopens(k) ==
  /\ sent[k] > 0 /\ MapThenSumSet(LAMBDA j : gen[j], Keys) < MaxGen
  /\ gen' = [gen EXCEPT ![k] = @ + 1]
  /\ sent' = [sent EXCEPT ![k] = 0]
  /\ \E f \in Payloads : flow' = [flow EXCEPT ![k] = f]
  /\ UNCHANGED <<queue, now, up, tracker, processed, history>>

OtherTraffic ==
  /\ Enqueue([kind |-> "other"])
  /\ UNCHANGED <<client, now, up, tracker, processed, treated>>

Tick ==
  /\ now < MaxTime
  /\ now' = now + 1
  /\ UNCHANGED <<client, queue, up, tracker, processed, history>>

-----------------------------------------------------------------------------
(* ConnTracker.  process_packet treats every connection it creates an entry *)
(* for, so that an entry always has desync_applied set.                     *)

Forget(t, ks) == [k \in DOMAIN t \ ks |-> t[k]]

(* Mutant: the eviction looks for the newest connection. *)
NewestOf(t) == {k \in DOMAIN t : \A j \in DOMAIN t : t[k].seen >= t[j].seen}

(* evict_oldest: a connection with the least last_seen; of several, any. *)
OldestOf(t) == {k \in DOMAIN t : \A j \in DOMAIN t : t[k].seen <= t[j].seen}

(* Mutant: the capacity is checked after the new entry was counted in. *)
RoomUnlessOver(t) ==
  IF Cardinality(DOMAIN t) > MaxConnections
  THEN {Forget(t, {k}) : k \in OldestOf(t)}
  ELSE {t}

(* The trackers that get_or_create can leave before it adds a connection. *)
Room(t) ==
  IF Cardinality(DOMAIN t) >= MaxConnections /\ DOMAIN t # {}
  THEN {Forget(t, {k}) : k \in OldestOf(t)}
  ELSE {t}

(* or_insert_with, and mark_applied. *)
Mark(t, seg, action) ==
  [k \in DOMAIN t \cup {seg.key} |->
     IF k = seg.key THEN [seq |-> <<seg.gen, seg.n>>, applied |-> action, seen |-> now] ELSE t[k]]

CleanupExpired(t) == Forget(t, {k \in DOMAIN t : now - t[k].seen >= Expiry})

-----------------------------------------------------------------------------
(* One turn of run_nfq.                                                     *)

Taken == Head(queue)

(* The rest of the turn, once process_packet has left tracker t: the verdict *)
(* is sent and every CleanupEvery packets the tracker is cleaned, or sending *)
(* it fails and the loop is over, and what the kernel held is lost.          *)
Conclude(t, passed) ==
  \/ /\ queue' = Tail(queue)
     /\ up' = up
     /\ out' = out \cup passed
     /\ processed' = (processed + 1) % CleanupEvery
     /\ tracker' = IF processed' = 0 THEN CleanupExpired(t) ELSE t
  \/ /\ queue' = <<>>
     /\ up' = FALSE
     /\ UNCHANGED <<out, processed>>
     /\ tracker' = t

(* A QUIC Initial is dropped if block_quic is set; what is not IPv4 TCP with *)
(* a payload passes.  Neither touches the tracker.                           *)
PassOther ==
  /\ up /\ queue # <<>>
  /\ Taken.kind # "data"
  /\ Conclude(tracker, {})
  /\ UNCHANGED <<client, now, treated>>

(* Mutant: what follows the treated segment of a connection is dropped. *)
DropKnown ==
  /\ up /\ queue # <<>>
  /\ Taken.kind = "data" /\ Taken.seg.key \in DOMAIN tracker
  /\ Conclude(tracker, {})
  /\ UNCHANGED <<client, now, treated>>

(* A retransmit of the treated segment, or any other segment of a connection *)
(* already handled, is accepted as it is.                                    *)
PassKnown ==
  /\ up /\ queue # <<>>
  /\ Taken.kind = "data" /\ Taken.seg.key \in DOMAIN tracker
  /\ Conclude(tracker, {[seg |-> Taken.seg, form |-> "original"]})
  /\ UNCHANGED <<client, now, treated>>

(* Mutant: a Replace is recorded and its verdict forgotten. *)
FormMarkedOnly(action) == "original"

(* Only a Replace changes the packet; Split and InjectBefore are recorded as *)
(* passed through.                                                           *)
Form(action) == IF action = "Replace" THEN "replaced" ELSE "original"

AppliedAction(action) == IF action = "Replace" THEN "Replaced" ELSE "PassThrough"

(* The first data packet of a connection that is not in the tracker. *)
Treat ==
  /\ up /\ queue # <<>>
  /\ Taken.kind = "data" /\ Taken.seg.key \notin DOMAIN tracker
  /\ treated' = [k \in DOMAIN treated \cup {Taken.seg.key} |->
                   IF k = Taken.seg.key THEN [seg |-> Taken.seg, at |-> now] ELSE treated[k]]
  /\ LET seg    == Taken.seg
         action == Primary(seg.shows)
     IN  \E t \in Room(tracker) :
           Conclude(Mark(t, seg, AppliedAction(action)), {[seg |-> seg, form |-> Form(action)]})
  /\ UNCHANGED <<client, now>>

Loop == PassOther \/ PassKnown \/ Treat

Next ==
  \/ \E k \in Keys : ClientSends(k) \/ ClientResends(k) \/ ClientReopens(k)
  \/ OtherTraffic \/ Tick
  \/ Loop

Spec == Init /\ [][Next]_vars

-----------------------------------------------------------------------------
(* Properties.                                                              *)

Entry == [seq : Nat \X Nat, applied : {"PassThrough", "Replaced"}, seen : Nat]

(* The types of the variables, and the bound on the tracker: it never holds  *)
(* more than max_connections entries, or one where that is 0.                *)
TypeOK ==
  /\ flow \in [Keys -> Payloads] /\ gen \in [Keys -> Nat] /\ sent \in [Keys -> Nat]
  /\ queue \in Seq(Packet)
  /\ now \in Nat /\ up \in BOOLEAN /\ processed \in 0..(CleanupEvery - 1)
  /\ DOMAIN tracker \subseteq Keys /\ \A k \in DOMAIN tracker : tracker[k] \in Entry
  /\ out \subseteq [seg : Segment, form : {"original", "replaced"}]
  /\ DOMAIN treated \subseteq Keys
  /\ \A k \in DOMAIN treated : treated[k] \in [seg : Segment, at : Nat]
  /\ Cardinality(DOMAIN tracker) <= MaxConnections \/ Cardinality(DOMAIN tracker) <= 1

(* The 4-tuples other than k that were treated when k was last, or later.    *)
Rivals(k) == {j \in DOMAIN treated \ {k} : treated[j].at >= treated[k].at}

(* The tracker forgets the right connections: a 4-tuple is treated a second  *)
(* time only if Expiry ticks have passed since the first, or                 *)
(* max_connections others have been treated meanwhile.                       *)
ForgetsOnlyOldest ==
  [][\A k \in DOMAIN treated :
       treated'[k] # treated[k] =>
         \/ now - treated[k].at >= Expiry
         \/ Cardinality(Rivals(k)) >= MaxConnections]_vars

(* The rules are applied to every connection: while the loop runs, a first   *)
(* segment they replace is let through unmodified only if it was, or will    *)
(* have to be, taken for a packet of a connection treated on another segment.*)
FirstSegmentTreated ==
  up => \A o \in out :
    o.seg.n = 1 /\ o.form = "original" /\ Primary(o.seg.shows) = "Replace" =>
      \/ [o EXCEPT !.form = "replaced"] \in out
      \/ o.seg.key \in DOMAIN treated /\ treated[o.seg.key].seg # o.seg

(* No packet is held back: while the loop runs, each segment of a connection *)
(* that its client has sent was let through in some form, or waits its turn. *)
NothingHeldBack ==
  up => \A k \in Keys : \A n \in 1..sent[k] :
    \/ \E o \in out : o.seg = Data(k, n).seg
    \/ \E i \in DOMAIN queue : queue[i] = Data(k, n)
=============================================================================
