------------------------------- MODULE Tunnel -------------------------------
(***************************************************************************)
(* What a desync proxy promises of a connection, without saying how: behind  *)
(* the retries the client talks to one upstream session.  A session is used  *)
(* only after it was told the whole first message; from the first byte       *)
(* exchanged beyond that message on, no other session is opened; both        *)
(* directions are in order and without gaps; and an ended tunnel is silent.  *)
(***************************************************************************)
EXTENDS Integers, Sequences

CONSTANTS
  Conns,
  Sessions,   \* names of the upstream sessions a connection can have
  Burst       \* most pieces of an answer that are handed over at once

VARIABLES
  heard,   \* connection -> sessions that received the whole first message
  up,      \* connection -> <<session, n>>: n-th piece after the first message, in order of sending
  down,    \* connection -> <<session, n>>: n-th piece of the session's answer
  over     \* connection -> has it ended

vars == <<heard, up, down, over>>

Init ==
  /\ heard = [c \in Conns |-> {}]
  /\ up = [c \in Conns |-> <<>>]
  /\ down = [c \in Conns |-> <<>>]
  /\ over = [c \in Conns |-> FALSE]

(* The sessions the client has exchanged anything with. *)
Used(c) == {up[c][n][1] : n \in DOMAIN up[c]} \cup {down[c][n][1] : n \in DOMAIN down[c]}

Introduce(c) ==
  /\ ~over[c]
  /\ Used(c) = {}
  /\ \E s \in Sessions \ heard[c] : heard' = [heard EXCEPT ![c] = @ \cup {s}]
  /\ UNCHANGED <<up, down, over>>

Forward(c) ==
  /\ ~over[c]
  /\ \E s \in heard[c] :
       /\ Used(c) \subseteq {s}
       /\ up' = [up EXCEPT ![c] = Append(@, <<s, Len(@) + 1>>)]
  /\ UNCHANGED <<heard, down, over>>

Answer(c) ==
  /\ ~over[c]
  /\ \E s \in heard[c] :
       /\ Used(c) \subseteq {s}
       /\ \E n \in 1..Burst :
            down' = [down EXCEPT ![c] = @ \o [k \in 1..n |-> <<s, Len(down[c]) + k>>]]
  /\ UNCHANGED <<heard, up, over>>

End(c) ==
  /\ ~over[c]
  /\ over' = [over EXCEPT ![c] = TRUE]
  /\ UNCHANGED <<heard, up, down>>

Next == \E c \in Conns : Introduce(c) \/ Forward(c) \/ Answer(c) \/ End(c)

Spec == Init /\ [][Next]_vars
=============================================================================
