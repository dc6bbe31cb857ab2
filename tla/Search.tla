------------------------------- MODULE Search -------------------------------
(***************************************************************************)
(* find_best_strategy (desyncd-adapt/src/search.rs), run for domains by the  *)
(* scheduler, the CLI and the GUI, and morphing_search (morphing.rs), which  *)
(* the CLI runs in its place when asked to, at the same time, on one         *)
(* database.  A probe is a step whose outcome the network chooses; between   *)
(* two steps of one search the others move.                                 *)
(***************************************************************************)
EXTENDS LearnedStore, Sequences, FiniteSets

CONSTANTS
  Searchers,    \* the tasks that search
  Sweep,        \* the labels of probe_variants, in order
  Positions,    \* split_variations other than Sni
  Stealth,      \* stealth_techniques: pairs of technique and position
  Sni,          \* SplitPosition::Sni
  MaxProbes,    \* engine.config.max_probes
  Networks,     \* bound: the sets of diagnostic probes that may succeed together
  Rankings,     \* bound: how latency may sort the diagnostic probes that succeeded
  Excellent,    \* the least score above 80
  MaxSearches   \* bound: searches started

(* The techniques of the diagnostic probes. *)
Diagnostics == {"tls_record_frag", "tcp_split", "sni_manip", "disorder"}

(* r lists the techniques that work, each once. *)
Sorts(r, works) == Range(r) = works /\ Len(r) = Cardinality(works)

ASSUME SearchAssumption ==
  /\ Networks \subseteq SUBSET Diagnostics /\ Rankings \subseteq Seq(Diagnostics)
  /\ \A works \in Networks \ {{}} : \E r \in Rankings : Sorts(r, works)
  /\ Sweep \in Seq(STRING) /\ Positions \in Seq(STRING) /\ Stealth \in Seq(STRING \X STRING)
  /\ Sni \in STRING \ Range(Positions)
  /\ Len(Sweep) > 0 /\ Len(Positions) > 0 /\ Len(Stealth) > 0
  /\ MaxProbes \in Nat /\ MaxSearches \in Nat /\ Excellent \in Nat

FastGuessConfirms == 2
ConfirmCount == 2

VARIABLES
  task,       \* the local variables of each search and where it is
  searches,   \* bound: the searches started
  confirmed   \* history: per domain, the week each strategy was last confirmed

vars == <<storeVars, task, searches, confirmed>>

NoStrategy == [name |-> <<"none">>, techniques |-> <<>>, score |-> 0]

Idle == [at |-> "idle", domain |-> "none", candidates |-> <<>>,
         i |-> 1, j |-> 1, probes |-> 0, winners |-> <<>>, best |-> NoStrategy, oks |-> 0]

Init ==
  /\ StoreInit
  /\ task = [s \in Searchers |-> Idle]
  /\ searches = 0
  /\ confirmed = [d \in Domains |->
       IF Mapped(d) THEN Upsert(<<>>, strategies[mapping[d].strategy], mapping[d].lastSuccess)
       ELSE <<>>]

(* The score of a probe's outcome (compute_score): 0 if and only if it failed. *)
Outcomes == Scores \cup {0}

(* The names the search gives to strategies, and their techniques. *)
Single(label, position, stealth) == <<label, position, stealth>>
Winner(d, label, score) ==
  [name |-> <<"auto", d, label>>,
   techniques |-> Single(label, Sni, FALSE), score |-> score]
Variation(label, position, score) ==
  [name |-> <<"probe", label, position>>,
   techniques |-> Single(label, position, FALSE), score |-> score]
Stealthy(pair, score) ==
  [name |-> <<"stealth", pair[1]>>,
   techniques |-> Single(pair[1], pair[2], TRUE), score |-> score]

(* make_strategy of morphing.rs: the name does not tell stealth. *)
Morph(label, position, stealth, score) ==
  [name |-> <<"morph", label, position>>,
   techniques |-> Single(label, position, stealth), score |-> score]

(* The strategies the searches name, with any score; and the names that two   *)
(* of them share: stealth_techniques may name two positions alike, and        *)
(* morphing_search names a technique at Sni alike with stealth and without.   *)
Labels == Diagnostics \cup {"multi_stream_frag"}
Made ==
  {Winner(d, l, 0) : d \in Domains, l \in Range(Sweep)}
    \cup {Variation(l, p, 0) : l \in Range(Sweep), p \in Range(Positions)}
    \cup {Stealthy(pair, 0) : pair \in Range(Stealth)}
    \cup {Morph(l, p, FALSE, 0) : l \in Labels, p \in Range(Positions)}
    \cup {Morph(l, Sni, stealth, 0) : l \in Labels, stealth \in BOOLEAN}
SharedNames == {m.name : m \in {m \in Made : \E n \in Made \ {m} : n.name = m.name}}
SharedName(name) == name \in SharedNames

(* What a strategy that was found is, when a search may make one of its name. *)
ASSUME FoundAssumption ==
  \A tables \in Found : \A name \in DOMAIN tables.strategies \ SharedNames :
    \A m \in Made : m.name = name => tables.strategies[name] = m.techniques

Become(s, t) == task' = [task EXCEPT ![s] = t]
Probed(t) == [t EXCEPT !.probes = @ + 1]

(* What is left of a search once its result is decided, with its final score. *)
ToSave(t, score) ==
  [Idle EXCEPT !.at = "save", !.domain = t.domain, !.best = [t.best EXCEPT !.score = score]]
-----------------------------------------------------------------------------
(* collect_candidate_strategies: three reads. *)

(* The call, up to get_confidence of get_confident_strategy; a read that     *)
(* fails yields no candidate.                                                *)
FindBest(s, d) ==
  \/ /\ Become(s, [Idle EXCEPT !.domain = d,
           !.at = IF Mapped(d) /\ Confident(d) THEN "read best" ELSE "read any"])
     /\ UNCHANGED storeVars
  \/ Fails /\ Become(s, [Idle EXCEPT !.domain = d, !.at = "read any"])

Start(s, d) ==
  /\ task[s].at = "idle" /\ searches < MaxSearches
  /\ searches' = searches + 1
  /\ FindBest(s, d)
  /\ UNCHANGED confirmed

(* get_best_strategy, in a statement of its own. *)
ReadBest(s) ==
  /\ task[s].at = "read best"
  /\ \/ /\ Become(s, [task[s] EXCEPT !.at = "read any",
                                     !.candidates = <<StrategyOf(task[s].domain)>>])
        /\ UNCHANGED storeVars
     \/ Fails /\ Become(s, [task[s] EXCEPT !.at = "read any"])
  /\ UNCHANGED <<searches, confirmed>>

(* get_any_confident_strategy; a name already seen is not taken again. *)
ReadAny(s) ==
  LET t == task[s]
      Seen(name) == \E i \in DOMAIN t.candidates : t.candidates[i].name = name
      With(cs) ==
        [t EXCEPT !.candidates = cs, !.at = IF cs = <<>> THEN "baseline" ELSE "guess"]
  IN /\ t.at = "read any"
     /\ \/ /\ UNCHANGED storeVars
           /\ \/ MostConfident = {} /\ Become(s, With(t.candidates))
              \/ \E d \in MostConfident :
                   Become(s, With(IF Seen(mapping[d].strategy) THEN t.candidates
                                  ELSE Append(t.candidates, StrategyOf(d))))
        \/ Fails /\ Become(s, With(t.candidates))
     /\ UNCHANGED <<searches, confirmed>>
-----------------------------------------------------------------------------
(* Step 0: the candidates, each probed once and then twice more. *)

(* The next candidate, or the baseline when there is none. *)
NextCandidate(t) ==
  IF t.i < Len(t.candidates)
  THEN [t EXCEPT !.i = @ + 1, !.at = "guess", !.best = NoStrategy]
  ELSE [t EXCEPT !.i = 1, !.at = "baseline", !.best = NoStrategy]

(* record_relay_failure, whose own failure is ignored. *)
ChargeFailure(d) == CountFailure(d) \/ Fails

Guess(s) ==
  LET t == Probed(task[s])
      candidate == t.candidates[t.i]
  IN /\ t.at = "guess"
     /\ \E outcome \in Outcomes :
          IF outcome = 0
          THEN ChargeFailure(t.domain) /\ Become(s, NextCandidate(t))
          ELSE /\ Become(s, [t EXCEPT !.at = "guess again", !.j = 1, !.oks = 0,
                    !.best = [name |-> candidate.name, techniques |-> candidate.techniques,
                              score |-> outcome]])
               /\ UNCHANGED storeVars
     /\ UNCHANGED <<searches, confirmed>>

(* History: a confirmation probe of the strategy succeeded for the domain. *)
Confirmed(t, ok) ==
  confirmed' = IF ok THEN [confirmed EXCEPT ![t.domain] = Upsert(@, t.best.techniques, week)]
                     ELSE confirmed

(* The confirmations; one that fails makes the candidate unreliable. *)
GuessAgain(s) ==
  LET t == Probed(task[s])
  IN /\ t.at = "guess again"
     /\ \E ok \in BOOLEAN :
          LET oks == t.oks + (IF ok THEN 1 ELSE 0)
          IN /\ Confirmed(t, ok)
             /\ IF t.j < FastGuessConfirms
                THEN Become(s, [t EXCEPT !.j = @ + 1, !.oks = oks]) /\ UNCHANGED storeVars
                ELSE IF oks = FastGuessConfirms
                THEN Become(s, ToSave(t, t.best.score)) /\ UNCHANGED storeVars
                ELSE ChargeFailure(t.domain) /\ Become(s, NextCandidate(t))
     /\ UNCHANGED searches
-----------------------------------------------------------------------------
(* Step 1: without desync; a domain that answers is not blocked. *)
Baseline(s) ==
  LET t == Probed(task[s])
  IN /\ t.at = "baseline"
     /\ Become(s, Idle) \/ Become(s, [t EXCEPT !.at = "sweep"])
     /\ UNCHANGED <<storeVars, searches, confirmed>>

(* Step 2: each technique once. *)
SweepOne(s) ==
  LET t == Probed(task[s])
      Swept(winners) ==
        IF t.i < Len(Sweep) THEN [t EXCEPT !.i = @ + 1, !.winners = winners]
        ELSE [t EXCEPT !.i = 1, !.j = 1, !.winners = winners,
                       !.at = IF winners = <<>> THEN "stealth" ELSE "vary"]
  IN /\ t.at = "sweep"
     /\ \E outcome \in Outcomes :
          Become(s, Swept(IF outcome = 0 THEN t.winners
                          ELSE Append(t.winners, [label |-> Sweep[t.i], score |-> outcome])))
     /\ UNCHANGED <<storeVars, searches, confirmed>>

(* The better of the best so far and a strategy just probed. *)
Better(best, probed) == IF probed.score > best.score THEN probed ELSE best

ToConfirm(t, best) == [t EXCEPT !.at = "confirm", !.best = best, !.i = 1, !.j = 1, !.oks = 0, !.winners = <<>>]

(* Mutant: the limit is never looked at. *)
OverBudgetNever(t) == FALSE

OverBudget(t) == t.probes >= MaxProbes

(* Step 3: the other split positions for each winner, until the budget is    *)
(* spent; the first winner when none of them works.                          *)
Vary(s) ==
  LET t == Probed(task[s])
      Varied(best) ==
        IF OverBudget(t) \/ (t.i = Len(t.winners) /\ t.j = Len(Positions))
        THEN ToConfirm(t, IF best = NoStrategy
                          THEN Winner(t.domain, t.winners[1].label, t.winners[1].score)
                          ELSE best)
        ELSE IF t.j < Len(Positions) THEN [t EXCEPT !.best = best, !.j = @ + 1]
        ELSE [t EXCEPT !.best = best, !.i = @ + 1, !.j = 1]
  IN /\ t.at = "vary"
     /\ \E outcome \in Outcomes :
          Become(s, Varied(Better(t.best, Variation(t.winners[t.i].label, Positions[t.j], outcome))))
     /\ UNCHANGED <<storeVars, searches, confirmed>>

(* Step 3.5: when nothing worked, some techniques with stealth. *)
StealthOne(s) ==
  LET t == Probed(task[s])
      Tried(best) ==
        IF ~ OverBudget(t) /\ t.i < Len(Stealth) THEN [t EXCEPT !.i = @ + 1, !.best = best]
        ELSE IF best = NoStrategy THEN Idle ELSE ToConfirm(t, best)
  IN /\ t.at = "stealth"
     /\ \E outcome \in Outcomes :
          Become(s, Tried(Better(t.best, Stealthy(Stealth[t.i], outcome))))
     /\ UNCHANGED <<storeVars, searches, confirmed>>
-----------------------------------------------------------------------------
(* Mutant: a strategy that failed both confirmations is kept with its score. *)
KeepUnconfirmed(t, oks) == ToSave(t, (t.best.score * (oks + 1)) \div 3)

(* What the confirmations leave: a score in proportion, or nothing. *)
AfterConfirms(t, oks) ==
  IF oks = 0 THEN Idle ELSE ToSave(t, (t.best.score * oks) \div ConfirmCount)

(* Step 4: two confirmations. *)
Confirm(s) ==
  LET t == Probed(task[s])
  IN /\ t.at = "confirm"
     /\ \E ok \in BOOLEAN :
          LET oks == t.oks + (IF ok THEN 1 ELSE 0)
          IN /\ Confirmed(t, ok)
             /\ Become(s, IF t.j < ConfirmCount THEN [t EXCEPT !.j = @ + 1, !.oks = oks]
                          ELSE AfterConfirms(t, oks))
     /\ UNCHANGED <<storeVars, searches>>

(* morphing_search: five diagnostic probes choose the techniques to try.     *)

StartMorphing(s, d) ==
  /\ task[s].at = "idle" /\ searches < MaxSearches
  /\ searches' = searches + 1
  /\ Become(s, [Idle EXCEPT !.domain = d, !.at = "classify"])
  /\ UNCHANGED <<storeVars, confirmed>>

(* classify_from_probes: the techniques to try, in order, given those whose  *)
(* probe succeeded.  (The pattern of OrderDependent is met only without      *)
(* tls_record_frag: with it the first pattern applies.)                      *)
Recommended(works, ranking) ==
  LET Also(label) == IF label \in works THEN <<label>> ELSE <<>>
      tls == "tls_record_frag" \in works
      tcp == "tcp_split" \in works
  IN IF tls /\ ~ tcp
     THEN <<"multi_stream_frag", "tls_record_frag">> \o Also("disorder") \o Also("sni_manip")
     ELSE IF tcp /\ ~ tls THEN <<"tcp_split">> \o Also("disorder")
     ELSE IF ~ tcp /\ "disorder" \in works THEN <<"disorder">>
     ELSE ranking

(* classify_dpi and what its profile decides: not blocked or blocked by its  *)
(* address, there is nothing to do; unknown, find_best_strategy takes over;  *)
(* else the techniques to try are known.  Nothing of the store is read       *)
(* between the five probes.                                                  *)
Classify(s) ==
  LET t == task[s]
  IN /\ t.at = "classify"
     /\ \/ Become(s, Idle)
        \/ {} \in Networks /\ Become(s, [t EXCEPT !.at = "fall back"])
        \/ \E works \in Networks \ {{}}, ranking \in Rankings :
             LET recommended == Recommended(works, ranking)
             IN /\ Sorts(ranking, works)
                /\ Become(s, [t EXCEPT !.at = "morph", !.j = 0,
                             !.probes = 1 + Cardinality(Diagnostics),
                             !.winners = [i \in DOMAIN recommended |->
                                            [label |-> recommended[i], score |-> 0]]])
     /\ UNCHANGED <<storeVars, searches, confirmed>>

FallBack(s) ==
  /\ task[s].at = "fall back"
  /\ FindBest(s, task[s].domain)
  /\ UNCHANGED <<searches, confirmed>>

(* Each recommended technique: at Sni (j = 0), then at the other positions   *)
(* until the budget is spent, and on to the next unless the best is          *)
(* excellent.                                                                *)
MorphVary(s) ==
  LET t == Probed(task[s])
      Position == IF t.j = 0 THEN Sni ELSE Positions[t.j]
      Varied(best) ==
        IF t.j < Len(Positions) /\ ~ (t.j > 0 /\ OverBudget(t))
        THEN [t EXCEPT !.best = best, !.j = @ + 1]
        ELSE IF ~ OverBudget(t) /\ best.score < Excellent /\ t.i < Len(t.winners)
        THEN [t EXCEPT !.best = best, !.i = @ + 1, !.j = 0]
        ELSE [t EXCEPT !.best = best, !.i = 1, !.j = 1,
                       !.at = IF best = NoStrategy THEN "morph stealth" ELSE "morph confirm"]
  IN /\ t.at = "morph"
     /\ \E outcome \in Outcomes :
          Become(s, Varied(Better(t.best, Morph(t.winners[t.i].label, Position, FALSE, outcome))))
     /\ UNCHANGED <<storeVars, searches, confirmed>>

(* The two confirmations of the best; without one, stealth is tried. *)
MorphConfirm(s) ==
  LET t == Probed(task[s])
      After(oks) ==
        IF oks = 0 THEN [t EXCEPT !.at = "morph stealth", !.best = NoStrategy, !.j = 1]
        ELSE ToSave(t, (t.best.score * oks) \div ConfirmCount)
  IN /\ t.at = "morph confirm"
     /\ \E ok \in BOOLEAN :
          LET oks == t.oks + (IF ok THEN 1 ELSE 0)
          IN /\ Confirmed(t, ok)
             /\ Become(s, IF t.j < ConfirmCount THEN [t EXCEPT !.j = @ + 1, !.oks = oks]
                          ELSE After(oks))
     /\ UNCHANGED <<storeVars, searches>>

(* The recommended techniques with stealth; the best is not confirmed. *)
MorphStealth(s) ==
  LET t == Probed(task[s])
      Tried(best) ==
        IF ~ OverBudget(t) /\ t.i < Len(t.winners) THEN [t EXCEPT !.i = @ + 1, !.best = best]
        ELSE IF best = NoStrategy THEN Idle
        ELSE ToSave([t EXCEPT !.best = best], best.score)
  IN /\ t.at = "morph stealth"
     /\ \E outcome \in Outcomes :
          Become(s, Tried(Better(t.best, Morph(t.winners[t.i].label, Sni, TRUE, outcome))))
     /\ UNCHANGED <<storeVars, searches, confirmed>>
-----------------------------------------------------------------------------
(* find_best_strategy returns; a caller that was asked to save (adapt --save *)
(* of the CLI, adapt_domains of the GUI) makes both writes once more.        *)
Return(s) ==
  \/ Become(s, Idle)
  \/ task[s].at \in {"save", "map"} /\ Become(s, [task[s] EXCEPT !.at = "save again"])

(* The first of the two writes; the second is made only if it succeeds. *)
Save(s) ==
  /\ task[s].at \in {"save", "save again"}
  /\ \/ /\ PutStrategy(task[s].best.name, task[s].best.techniques)
        /\ Become(s, [task[s] EXCEPT !.at = IF @ = "save" THEN "map" ELSE "map again"])
     \/ Fails /\ Return(s)
  /\ UNCHANGED <<searches, confirmed>>

Map(s) ==
  /\ task[s].at \in {"map", "map again"}
  /\ PutMapping(task[s].domain, task[s].best.name, task[s].best.score) \/ Fails
  /\ Return(s)
  /\ UNCHANGED <<searches, confirmed>>
-----------------------------------------------------------------------------
Step(s) ==
  \/ ReadBest(s) \/ ReadAny(s) \/ Guess(s) \/ GuessAgain(s) \/ Baseline(s)
  \/ SweepOne(s) \/ Vary(s) \/ StealthOne(s) \/ Confirm(s) \/ Save(s) \/ Map(s)
  \/ Classify(s) \/ FallBack(s) \/ MorphVary(s) \/ MorphConfirm(s) \/ MorphStealth(s)

(* A search takes minutes: it does not last from one week to the next. *)
Wait ==
  /\ \A s \in Searchers : task[s].at = "idle"
  /\ WeekPasses
  /\ UNCHANGED <<task, searches, confirmed>>

Next == Wait \/ \E s \in Searchers : Step(s) \/ \E d \in Domains : Start(s, d) \/ StartMorphing(s, d)

Spec == Init /\ [][Next]_vars
-----------------------------------------------------------------------------
(* The strategy stored for d was confirmed for d, no earlier than the store says. *)
ConfirmedFor(d) ==
  LET techniques == strategies[mapping[d].strategy]
  IN /\ techniques \in DOMAIN confirmed[d]
     /\ confirmed[d][techniques] >= mapping[d].lastSuccess

(* What the store says works for a domain was confirmed for that very domain *)
(* by a probe after the one that found it, and not before last_success,       *)
(* whichever searches ran at the same time and whichever writes failed.       *)
MappedIsConfirmed ==
  \A d \in DOMAIN mapping : SharedName(mapping[d].strategy) \/ ConfirmedFor(d)

(* A candidate of the fast guess was confirmed for some domain within the    *)
(* last week: the decay of the confidence reaches through the three reads of  *)
(* collect_candidate_strategies, also to the strategies of other domains.     *)
GuessIsRecent ==
  \A s \in Searchers : \A i \in DOMAIN task[s].candidates :
    LET candidate == task[s].candidates[i]
    IN ~ SharedName(candidate.name) =>
         \E d \in Domains : /\ candidate.techniques \in DOMAIN confirmed[d]
                           /\ week - confirmed[d][candidate.techniques] <= 1

(* Where the next step of a search is a probe. *)
Probing == {"guess", "guess again", "baseline", "sweep", "vary", "stealth", "confirm"}
MorphProbing == {"morph", "morph confirm", "morph stealth"}

(* The budget is looked at only after a variation or a stealth probe, and    *)
(* the confirmations follow: a search makes at most two probes more than      *)
(* max_probes, or than the fast guesses, the baseline, the sweep and one      *)
(* variation take.  morphing_search looks at it neither after the first       *)
(* probe of a technique nor before the first with stealth: four more.         *)
ProbesBounded ==
  \A s \in Searchers :
    LET guesses == Len(task[s].candidates) * (1 + FastGuessConfirms)
        unchecked == guesses + 1 + Len(Sweep) + 1
        most == IF unchecked > MaxProbes THEN unchecked ELSE MaxProbes
        diagnosed == 1 + Cardinality(Diagnostics) + 1
        morphMost == IF diagnosed > MaxProbes THEN diagnosed ELSE MaxProbes
    IN /\ task[s].at \in Probing => task[s].probes < most + ConfirmCount
       /\ task[s].at \in MorphProbing => task[s].probes < morphMost + ConfirmCount + 2
=============================================================================
