------------------------------ MODULE MCSearch ------------------------------
(***************************************************************************)
(* An instance of Search for TLC.                                           *)
(***************************************************************************)
EXTENDS Search, TLC

CONSTANTS s1, s2, a, b

Two == {s1, s2}
Sites == {a, b}
Exchangeable == Permutations(Two)
TwoTechniques == <<"tcp_split", "tls_record_frag">>
OnePosition == <<"offset">>
StealthTwice == <<<<"tls_record_frag", "offset">>, <<"tls_record_frag", "sni">>>>

FourNetworks == {{}, {"tls_record_frag", "disorder"}, {"tcp_split", "sni_manip"}, Diagnostics}
ThreeRankings ==
  {<<"sni_manip", "tls_record_frag", "disorder", "tcp_split">>,
   <<"disorder", "tls_record_frag">>, <<"sni_manip", "tcp_split">>}

(* Between its baseline and its writes a search touches nothing of the others:  *)
(* the order of the steps there is irrelevant to them, and one search at a     *)
(* time takes them.                                                            *)
LocalStepsFirst ==
  LET places == {"sweep", "vary", "stealth", "confirm", "classify"} \cup MorphProbing
      local == {s \in Searchers : task[s].at \in places}
  IN local # {} => \E s \in local : task'[s] # task[s]

(* A new database, and one in which an earlier search found a strategy for one *)
(* domain, and a guess failed since.                                           *)
Learned(d) ==
  LET name == <<"auto", d, "tcp_split">>
  IN [strategies |-> name :> <<"tcp_split", "sni", FALSE>>,
      mapping |-> d :> [strategy |-> name, score |-> 2, lastSuccess |-> 0,
                        successes |-> 1, failures |-> 1]]
NewOrOld == {Learned(a), [strategies |-> <<>>, mapping |-> <<>>]}
=============================================================================
