------------------------------- MODULE MCNfq -------------------------------
(***************************************************************************)
(* Instances of Nfq for TLC.                                                *)
(***************************************************************************)
EXTENDS Nfq

CONSTANTS k1, k2, k3, youtube

TlsFrag == [enabled |-> TRUE, needs |-> "tls", effect |-> "Replace"]

MCStrategies == [frag |-> <<TlsFrag>>]
MCRules      == <<>>

Hello   == [tls |-> TRUE, domain |-> youtube]
Opaque  == [tls |-> FALSE, domain |-> None]

(* A connection whose ClientHello fits its first segment. *)
OneHello == {<<Hello, Opaque>>}

Three == {k1, k2, k3}
Symmetry == Permutations(Three)
=============================================================================
