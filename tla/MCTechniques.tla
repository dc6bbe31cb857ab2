---------------------------- MODULE MCTechniques ----------------------------
EXTENDS Techniques

CONSTANTS Singles, Chained  \* techniques tried alone, and in chains

Hello(pre, name, tail) ==
  [shape |-> "tls", named |-> TRUE, pre |-> pre, name |-> name, tail |-> tail,
   cuts |-> {}, more |-> 0, read |-> 99]
Short == Hello(10, <<"a", ".", "b">>, 0)
Long  == Hello(13, <<"w", ".", "a", "b", ".", "c">>, 3)
Http  == [Hello(2, <<"a", ".", "b">>, 2) EXCEPT !.shape = "http"]

Messages ==
  {Short, Long, Hello(10, <<"h", "o">>, 2), Http,
   [Long EXCEPT !.name = <<>>, !.named = FALSE],  \* no name
   [Long EXCEPT !.more = 2],                      \* coalesced data
   [Long EXCEPT !.read = 20],                     \* reassembly gave up
   [Http EXCEPT !.read = 4], [Http EXCEPT !.name = <<>>, !.named = FALSE],
   [Short EXCEPT !.shape = "other", !.more = 3]}
Fragmented == {[Long EXCEPT !.cuts = {8}], [Long EXCEPT !.cuts = {15}]}

At(kind) == [at |-> kind, delta |-> 0, lo |-> 0, hi |-> 0]
Positions ==
  {At(k) : k \in {"Sni", "SniExtStart", "EndSld", "MidSld"}}
  \cup {[At("Absolute") EXCEPT !.lo = n] : n \in {0, 1, 6, 18, 27}}
  \cup {[At("Random") EXCEPT !.lo = 3, !.hi = 5],
        [At("Sni") EXCEPT !.delta = 2], [At("EndSld") EXCEPT !.delta = -2]}

Config0(name) == [name |-> name, pos |-> At("Sni"), jitter |-> 0, fragments |-> 0, mode |-> "none"]
Modes == {"MixedCase", "Remove", "Pad", "ExtraSpace", "Tab", "LineWrapping", "DuplicateHeader"}

Placed == {"tcp_split", "disorder", "tls_record_frag", "multi_stream_frag"}  \* use a position

Alone ==
  {[Config0(t) EXCEPT !.pos = q, !.jitter = j] : t \in Singles \cap Placed, q \in Positions, j \in {0, 2}}
  \cup {[Config0("multi_stream_frag") EXCEPT !.pos = q, !.fragments = f] :
          q \in Positions, f \in {1, 2, 4, 9}}
  \cup {[Config0(t) EXCEPT !.mode = o] : t \in Singles \ Placed, o \in Modes}

Links == {Config0(t) : t \in Chained}
         \cup {[Config0(t) EXCEPT !.pos = q] :
                 t \in Chained \cap Placed, q \in {At("MidSld"), [At("Absolute") EXCEPT !.lo = 6]}}
Simple == {Config0("tcp_split"), Config0("tls_record_frag"), Config0("disorder")}
Chains == {<<>>} \cup {<<a>> : a \in Links} \cup {<<a, b>> : a, b \in Links}
          \cup {<<a, Config0("fake_packet"), b>> : a, b \in Simple}

MCJobs == {[chain |-> FALSE, techs |-> <<c>>] : c \in {d \in Alone : d.name \in Singles}}
          \cup (IF Chained = {} THEN {} ELSE {[chain |-> TRUE, techs |-> c] : c \in Chains})
=============================================================================
