---------------------------- MODULE LearnedStore ----------------------------
(***************************************************************************)
(* The strategies a database has learned (desyncd-store/src/queries.rs): the *)
(* table of strategies by name, the mapping of domains to strategies, and   *)
(* the confidence computed from a mapping's counts and age.  Each operator   *)
(* that changes a table is one statement on the write connection.           *)
(* Time passes in half-lives of the confidence, of a week.                  *)
(***************************************************************************)
EXTENDS Naturals, Functions

CONSTANTS
  Domains,   \* the domains searched
  Scores,    \* the scores of a probe that succeeded
  Found,     \* the tables that may be found in the database
  MaxCount,  \* bound: the successes and failures counted there
  MaxWeeks,  \* bound: weeks that pass
  MaxFaults  \* bound: statements that fail

(* Tables as the schema has them: a mapping refers to a strategy.  The last   *)
(* successes found are of the week in which the time begins.                 *)
WellFormed(tables) ==
  /\ DOMAIN tables.mapping \subseteq Domains
  /\ \A d \in DOMAIN tables.mapping : tables.mapping[d] \in
       [strategy : DOMAIN tables.strategies, score : Nat, lastSuccess : {0},
        successes : 0 .. MaxCount, failures : 0 .. MaxCount]

ASSUME StoreAssumption ==
  /\ Scores \subseteq {n \in Nat : n > 0 /\ n % 2 = 0}
  /\ MaxWeeks \in Nat /\ MaxCount \in Nat /\ MaxFaults \in Nat
  /\ \A tables \in Found : WellFormed(tables)

VARIABLES
  strategies,  \* table strategies: techniques_json by name
  mapping,     \* table domain_strategies by domain
  week,        \* the weeks that passed
  faults       \* bound: the statements that failed

storeVars == <<strategies, mapping, week, faults>>

StoreInit ==
  /\ \E tables \in Found : strategies = tables.strategies /\ mapping = tables.mapping
  /\ week = 0 /\ faults = 0

Mapped(d) == d \in DOMAIN mapping

(* f with x mapped to y, whether or not it was before. *)
Upsert(f, x, y) == [z \in DOMAIN f \cup {x} |-> IF z = x THEN y ELSE f[z]]

(* By what n half-lives divide. *)
halving[n \in Nat] == IF n = 0 THEN 1 ELSE 2 * halving[n - 1]

(* Mutant: the age counts from the last test, and every search tests. *)
ConfidentAtAnyAge(d) ==
  LET row == mapping[d]
      total == row.successes + row.failures
  IN total < 3 \/ 10 * row.successes >= 3 * total

(* get_confidence >= 0.3: half for every week since the last success, times *)
(* the success rate, which counts from three samples.                       *)
Confident(d) ==
  LET row == mapping[d]
      total == row.successes + row.failures
      halved == halving[week - row.lastSuccess]
  IN IF total < 3 THEN 3 * halved <= 10
                  ELSE 10 * row.successes >= 3 * total * halved

(* The domains whose mapping get_any_confident_strategy may return: those of *)
(* the highest score among the confident ones.                               *)
MostConfident ==
  LET confident == {d \in DOMAIN mapping : Confident(d)}
  IN {d \in confident : \A e \in confident : mapping[d].score >= mapping[e].score}

(* What the joined row of a domain says: get_best_strategy. *)
StrategyOf(d) ==
  [name |-> mapping[d].strategy, techniques |-> strategies[mapping[d].strategy]]

(* save_strategy: the name is unique, the techniques are replaced. *)
PutStrategy(name, techniques) ==
  strategies' = Upsert(strategies, name, techniques) /\ UNCHANGED <<mapping, week, faults>>

(* update_domain_strategy: a mapping that is replaced keeps its successes. *)
PutMapping(d, name, score) ==
  /\ mapping' = Upsert(mapping, d,
       [strategy |-> name, score |-> score, lastSuccess |-> week, failures |-> 0,
        successes |-> IF Mapped(d) THEN mapping[d].successes + 1 ELSE 1])
  /\ UNCHANGED <<strategies, week, faults>>

(* record_relay_failure; it changes nothing for a domain without a mapping. *)
CountFailure(d) ==
  /\ mapping' = IF Mapped(d) THEN [mapping EXCEPT ![d].failures = @ + 1] ELSE mapping
  /\ UNCHANGED <<strategies, week, faults>>

(* A statement fails: the disk is full, the database is locked. *)
Fails == faults < MaxFaults /\ faults' = faults + 1 /\ UNCHANGED <<strategies, mapping, week>>

WeekPasses ==
  week < MaxWeeks /\ week' = week + 1 /\ UNCHANGED <<strategies, mapping, faults>>
=============================================================================
