------------------------------ MODULE MCRelay ------------------------------
(***************************************************************************)
(* Instances of Relay for TLC.                                              *)
(***************************************************************************)
EXTENDS Relay, TLC

CONSTANTS c1, c2, youtube, example

TcpSplit == [enabled |-> TRUE, needs |-> "host", effect |-> "Split"]
TlsFrag  == [enabled |-> TRUE, needs |-> "tls", effect |-> "Replace"]
Disorder == [enabled |-> TRUE, needs |-> "host", effect |-> "Swap"]
Fake     == [enabled |-> TRUE, needs |-> "any", effect |-> "InjectBefore"]

MCDomains == {youtube, example}
Two == {c1, c2}
Solo == {c1}

MCStrategies == [plain |-> <<>>, frag |-> <<TlsFrag, Fake>>, swap |-> <<Disorder>>]

(* youtube is left alone by a rule, every other domain is fragmented. *)
MCRules == <<[domains |-> MCDomains, strategy |-> "frag", priority |-> 0],
             [domains |-> {youtube}, strategy |-> "plain", priority |-> 10]>>

Chain == <<TcpSplit, TlsFrag>>
Short == <<TcpSplit>>

(* Solo: a ClientHello of two pieces to a domain the rules pass through, or  *)
(* of one piece to a domain they fragment; the handshake names an address.   *)
SoloPayloads == {[tls |-> TRUE, domain |-> youtube, size |-> 2],
                 [tls |-> TRUE, domain |-> example, size |-> 1]}
SoloTargets  == {None}

(* Pair: two connections to one domain, with ClientHellos of one piece. *)
PairPayloads == {[tls |-> TRUE, domain |-> youtube, size |-> 1]}
PairTargets  == {youtube}

Symmetry == Permutations(Two)
=============================================================================
