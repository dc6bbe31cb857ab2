---------------------------- MODULE MCDnsCache ----------------------------
(***************************************************************************)
(* Instances of DnsCache for TLC.                                           *)
(***************************************************************************)
EXTENDS DnsCache

CONSTANTS l1, l2, l3, n1, n2, n3

Three    == {l1, l2, l3}
Domains3 == {n1, n2, n3}

(* Two tasks may want the same domain, and all three may want different ones. *)
MCWants == (l1 :> {n1}) @@ (l2 :> {n1, n2}) @@ (l3 :> {n3})

Pair      == {l1, l2}
Domains2  == {n1, n2}
PairWants == (l1 :> {n1}) @@ (l2 :> {n2})
=============================================================================
