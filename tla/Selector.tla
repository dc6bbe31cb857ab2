------------------------------ MODULE Selector ------------------------------
(***************************************************************************)
(* Strategy selection (src/crates/desyncd-strategy/src/lib.rs): the rules   *)
(* map a connection's domain to a named strategy, a strategy is an ordered  *)
(* list of techniques of which the first applicable one acts, and a domain  *)
(* that the relay has learned to be blocked is hot-started with the first   *)
(* fallback technique where the strategy would have passed it through.      *)
(*                                                                          *)
(* A technique is what the relay can tell of it: the protocol information   *)
(* it needs (its own checks and its l7_filter) and the effect of its        *)
(* DesyncAction on the bytes of the first message.                          *)
(***************************************************************************)
EXTENDS Integers, Sequences, FiniteSetsExt

CONSTANTS
  Domains,     \* domain names, already folded to lower case
  None,        \* no domain, no strategy
  Strategies,  \* strategy name -> sequence of its techniques
  Rules,       \* sequence of [domains, strategy, priority]; domains: those its globs match
  Default,     \* name of the default strategy, or None
  Fallback     \* the auto-retry chain, a sequence of techniques

Effects == {"Split", "Swap", "Replace", "InjectBefore"}
Actions == Effects \cup {"PassThrough"}

Technique == [enabled : BOOLEAN, needs : {"tls", "host", "any"}, effect : Effects]

(* What detect_protocol finds in a payload: a ClientHello or an HTTP        *)
(* request, and the SNI or Host in it.                                      *)
Protocol == [tls : BOOLEAN, domain : Domains \cup {None}]

ASSUME SelectorAssumption ==
  /\ None \notin Domains
  /\ Fallback \in Seq(Technique)
  /\ \A name \in DOMAIN Strategies : Strategies[name] \in Seq(Technique)

-----------------------------------------------------------------------------
Applicable(tech, proto) ==
  /\ tech.enabled
  /\ \/ tech.needs = "any"
     \/ tech.needs = "host" /\ proto.domain # None
     \/ tech.needs = "tls" /\ proto.tls /\ proto.domain # None

(* Strategy::apply: the first applicable technique, or PassThrough. *)
StrategyApply(techniques, proto) ==
  LET usable == {i \in DOMAIN techniques : Applicable(techniques[i], proto)}
  IN  IF usable = {} THEN "PassThrough" ELSE techniques[Min(usable)].effect

(* Selector::new sorts the rules by descending priority, keeping the order  *)
(* of equals, and Selector::select takes the first that matches.            *)
Before(i, j) ==
  \/ Rules[i].priority > Rules[j].priority
  \/ Rules[i].priority = Rules[j].priority /\ i <= j

(* A matched rule decides alone: if its strategy does not exist the result  *)
(* is no strategy at all, not the default one.                              *)
Select(domain) ==
  LET matching == {i \in DOMAIN Rules : domain \in Rules[i].domains}
      name     == IF matching = {}
                  THEN Default
                  ELSE Rules[CHOOSE i \in matching : \A j \in matching : Before(i, j)].strategy
  IN  IF name \in DOMAIN Strategies THEN Strategies[name] ELSE <<>>

(* Selector::apply without the hot start: what the operator's rules alone   *)
(* say.  An absent strategy acts like an empty one.                         *)
Primary(proto) == StrategyApply(Select(proto.domain), proto)

(* Mutant: the hot start forgets to ask whether the domain was learned. *)
HotStartAlways(proto, learned) ==
  IF Primary(proto) = "PassThrough" /\ Fallback # <<>>
  THEN StrategyApply(<<Fallback[1]>>, proto)
  ELSE Primary(proto)

SelectorApply(proto, learned) ==
  IF /\ Primary(proto) = "PassThrough"
     /\ proto.domain # None
     /\ Fallback # <<>>
     /\ proto.domain \in learned
  THEN StrategyApply(<<Fallback[1]>>, proto)
  ELSE Primary(proto)
=============================================================================
