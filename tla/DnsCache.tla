------------------------------ MODULE DnsCache ------------------------------
(***************************************************************************)
(* DnsCache over DotPool (src/crates/desyncd-dns/src/lib.rs): a lookup looks *)
(* in the cache, resolves by DoT, plain UDP and the system's resolver in    *)
(* that order, and remembers the address it found.  The lock of the entries *)
(* is never held across an await.                                           *)
(***************************************************************************)
EXTENDS DotPool, FiniteSets

CONSTANTS
  Wants,       \* the domains that each task may ask for
  MaxEntries,  \* DnsCache.max_entries
  Ttl,         \* DnsCache.ttl, in ticks
  MaxTime      \* bound: ticks of the clock

ASSUME CacheAssumption ==
  /\ Wants \in [Lookups -> SUBSET Names]
  /\ {MaxEntries, Ttl, MaxTime} \subseteq Nat

VARIABLES
  cache,    \* DnsCache.entries
  now,      \* the clock
  resolved  \* history: what was put into the cache, and when

vars == <<poolVars, cache, now, resolved>>

Init ==
  /\ PoolInit
  /\ cache = <<>>
  /\ now = 0
  /\ resolved = {}

(* Mutant: an expired entry is still a hit. *)
FreshAlways(n) == n \in DOMAIN cache

Fresh(n) == n \in DOMAIN cache /\ cache[n].expires > now

(* DnsCache::resolve: a hit, or a miss that starts at the first server. *)
Start(l) ==
  /\ At(l, "idle")
  /\ \E n \in Wants[l] :
       lookup' = [lookup EXCEPT ![l].name = n,
                                ![l].pc   = IF Fresh(n) THEN "done" ELSE "lock",
                                ![l].got  = IF Fresh(n) THEN cache[n].addr ELSE None]
  /\ UNCHANGED <<line, conn, cache, now, resolved>>

(* resolve_secure, when no DoT server gave an address: a UDP server does, on *)
(* a socket of this query alone, or none does.                               *)
Udp(l) ==
  /\ At(l, "udp")
  /\ \/ lookup' = [lookup EXCEPT ![l].pc = "insert", ![l].got = lookup[l].name]
     \/ Goto(l, "system")
  /\ UNCHANGED <<line, conn, cache, now, resolved>>

(* resolve_with_fallback: the system's resolver, when secure DNS failed. *)
System(l) ==
  /\ At(l, "system")
  /\ \/ lookup' = [lookup EXCEPT ![l].pc = "insert", ![l].got = lookup[l].name]
     \/ Goto(l, "failed")
  /\ UNCHANGED <<line, conn, cache, now, resolved>>

(* Mutant: the entry that would live longest is evicted. *)
LastToExpire(c) == {n \in DOMAIN c : \A m \in DOMAIN c : c[n].expires >= c[m].expires}

FirstToExpire(c) == {n \in DOMAIN c : \A m \in DOMAIN c : c[n].expires <= c[m].expires}

(* Mutant: the capacity is checked after the new entry was counted in. *)
EvictedUnlessOver(c) ==
  IF Cardinality(DOMAIN c) > MaxEntries
  THEN {[m \in DOMAIN c \ {n} |-> c[m]] : n \in FirstToExpire(c)}
  ELSE {c}

(* A full cache loses an entry, even if the key to insert is present. *)
Evicted(c) ==
  IF Cardinality(DOMAIN c) >= MaxEntries /\ DOMAIN c # {}
  THEN {[m \in DOMAIN c \ {n} |-> c[m]] : n \in FirstToExpire(c)}
  ELSE {c}

(* HashMap::insert. *)
With(c, n, entry) == [m \in DOMAIN c \cup {n} |-> IF m = n THEN entry ELSE c[m]]

(* The comparison with the system's resolver has come back (its outcome is   *)
(* only logged), and the address is remembered.                              *)
Insert(l) ==
  /\ At(l, "insert")
  /\ \E c \in Evicted(cache) :
       cache' = With(c, lookup[l].name, [addr |-> lookup[l].got, expires |-> now + Ttl])
  /\ resolved' = resolved \cup {[name |-> lookup[l].name, addr |-> lookup[l].got, at |-> now]}
  /\ Goto(l, "done")
  /\ UNCHANGED <<line, conn, now>>

Tick ==
  /\ now < MaxTime
  /\ now' = now + 1
  /\ UNCHANGED <<poolVars, cache, resolved>>

Resolve(l) ==
  \/ Start(l) \/ Udp(l) \/ System(l) \/ Insert(l)
  \/ Dot(l) /\ UNCHANGED <<cache, now, resolved>>

Network == (\E s \in Servers : Serve(s) \/ Close(s)) /\ UNCHANGED <<cache, now, resolved>>

Next == (\E l \in Lookups : Resolve(l)) \/ Network \/ Tick

(* Every await of a lookup but those of the mutexes is under a timeout, or   *)
(* ends with the system's resolver.                                          *)
Spec == Init /\ [][Next]_vars /\ \A l \in Lookups : WF_vars(Resolve(l))

-----------------------------------------------------------------------------
(* Properties.                                                              *)

(* The types of the variables; the cache never holds more than max_entries,  *)
(* or one entry where that is 0.                                             *)
TypeOK ==
  /\ PoolTypeOK
  /\ DOMAIN cache \subseteq Names
  /\ \A n \in DOMAIN cache : cache[n] \in [addr : Names, expires : Nat]
  /\ now \in Nat
  /\ resolved \subseteq [name : Names, addr : Names, at : Nat]
  /\ Cardinality(DOMAIN cache) <= MaxEntries \/ Cardinality(DOMAIN cache) <= 1

(* A hit is the result of a lookup of the same domain that ended less than   *)
(* Ttl ticks ago.                                                            *)
HitIsRecent ==
  [][\A l \in Lookups : At(l, "idle") /\ lookup'[l].pc = "done" =>
       \E r \in resolved : /\ r.name = lookup'[l].name /\ r.addr = lookup'[l].got
                           /\ now - r.at < Ttl]_vars

(* An entry that is lost before it expires was the first to do so, and the   *)
(* cache was full.                                                           *)
SoonestEvicted ==
  [][\A n \in DOMAIN cache \ DOMAIN cache' :
       /\ \A m \in DOMAIN cache : cache[n].expires <= cache[m].expires
       /\ Cardinality(DOMAIN cache) >= MaxEntries]_vars

(* Every lookup ends: no failure leaves a mutex locked, and no lookup waits  *)
(* for ever behind another.                                                  *)
LookupsEnd == <>(\A l \in Lookups : lookup[l].pc \in {"done", "failed"})

(* What "Resolve a domain to IP addresses" promises: a lookup gets addresses *)
(* of the domain it asked for.                                               *)
AnswersMatch ==
  \A l \in Lookups : lookup[l].got # None => lookup[l].got = lookup[l].name
=============================================================================
