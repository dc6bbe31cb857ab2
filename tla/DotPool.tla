------------------------------ MODULE DotPool ------------------------------
(***************************************************************************)
(* The DNS-over-TLS half of src/crates/desyncd-dns/src/lib.rs: lookups, each *)
(* a task, ask the servers in order over a pool of one connection per       *)
(* server.  A connection sits behind a fair mutex that is held from the     *)
(* query to the end of its answer.                                          *)
(*                                                                          *)
(* A connection is a stream: an answer is two pieces, its length and its    *)
(* body, read one after the other, and nothing in an answer is compared with *)
(* the query.  An address is named by the domain it belongs to.             *)
(***************************************************************************)
EXTENDS Naturals, SequencesExt, TLC

CONSTANTS
  Lookups,   \* the tasks that resolve a domain
  Names,     \* the domains (with the port: the keys of the cache)
  NServers,  \* DOT_SERVERS, by index
  None

ASSUME PoolAssumption == NServers \in Nat \ {0} /\ None \notin Names \cup Lookups

VARIABLES
  lookup,  \* each task: where it is, its domain, the server and the try it is at, its answer
  line,    \* the mutex of each server: the tasks that wait for it, its holder first
  conn     \* DotPool.conns: None or a connection

poolVars == <<lookup, line, conn>>

Servers == 1..NServers
Pc == {"idle", "lock", "query", "len", "body", "relock", "invalidate",
       "udp", "system", "insert", "done", "failed"}

(* "ready" can be read and "owed" is still to come.  "soiled" is history: a  *)
(* query was given up while its answer was outstanding.                      *)
Piece      == Names \X {"len", "body"}
Connection == [open : BOOLEAN, owed : Seq(Piece), ready : Seq(Piece), soiled : BOOLEAN]
NewConn    == [open |-> TRUE, owed |-> <<>>, ready |-> <<>>, soiled |-> FALSE]
Answer(n)  == <<<<n, "len">>, <<n, "body">>>>

ASSUME NoneAssumption == None \notin Connection

PoolInit ==
  /\ lookup = [l \in Lookups |-> [pc |-> "idle", name |-> None, server |-> 1, try |-> 1, got |-> None]]
  /\ line = [s \in Servers |-> <<>>]
  /\ conn = [s \in Servers |-> None]

At(l, pc)   == lookup[l].pc = pc
Server(l)   == lookup[l].server
Conn(l)     == conn[Server(l)]
Holds(l)    == line[Server(l)] # <<>> /\ Head(line[Server(l)]) = l
Goto(l, pc) == lookup' = [lookup EXCEPT ![l].pc = pc]
SetConn(l, c) == conn' = [conn EXCEPT ![Server(l)] = c]
Queue(l)    == line' = [line EXCEPT ![Server(l)] = Append(@, l)]
Unlock(l)   == line' = [line EXCEPT ![Server(l)] = Tail(@)]

-----------------------------------------------------------------------------
(* Servers and the network.                                                 *)

Serve(s) ==
  /\ conn[s] # None /\ conn[s].owed # <<>>
  /\ conn' = [conn EXCEPT ![s].owed = Tail(@), ![s].ready = Append(@, Head(conn[s].owed))]
  /\ UNCHANGED <<lookup, line>>

(* The server or the network ends a connection; what is owed never comes. *)
Close(s) ==
  /\ conn[s] # None /\ conn[s].open
  /\ conn' = [conn EXCEPT ![s].open = FALSE, ![s].owed = <<>>]
  /\ UNCHANGED <<lookup, line>>

-----------------------------------------------------------------------------
(* query_dns_dot_pooled.                                                    *)

(* resolve_dot returns; the server and the try go out of scope. *)
Returned(l, pc, got) ==
  [pc |-> pc, name |-> lookup[l].name, server |-> 1, try |-> 1, got |-> got]

(* resolve_dot is done with this server: the next one, or plain DNS. *)
Advanced(l) ==
  IF Server(l) < NServers
  THEN [lookup[l] EXCEPT !.pc = "lock", !.server = @ + 1, !.try = 1]
  ELSE Returned(l, "udp", None)

(* Mutant: the connection stays locked after a failure. *)
FailLocked(l) ==
  /\ line' = line
  /\ lookup' = [lookup EXCEPT ![l] = IF lookup[l].try = 1 THEN [@ EXCEPT !.pc = "relock"]
                                     ELSE Advanced(l)]

(* query_on_pooled_conn returns an error, which drops the guard.  The first  *)
(* time the connection is invalidated; the second it stays as it is.         *)
Fail(l) ==
  /\ Unlock(l)
  /\ lookup' = [lookup EXCEPT ![l] = IF lookup[l].try = 1 THEN [@ EXCEPT !.pc = "relock"]
                                     ELSE Advanced(l)]

Lock(l) ==
  /\ \/ At(l, "lock") /\ Goto(l, "query")
     \/ At(l, "relock") /\ Goto(l, "invalidate")
  /\ Queue(l)
  /\ UNCHANGED conn

Invalidate(l) ==
  /\ At(l, "invalidate") /\ Holds(l)
  /\ SetConn(l, None)
  /\ Unlock(l)
  /\ lookup' = [lookup EXCEPT ![l].pc = "lock", ![l].try = 2]

(* get_or_connect: TCP and TLS, each under a timeout. *)
Connect(l) ==
  /\ At(l, "query") /\ Holds(l) /\ Conn(l) = None
  /\ \/ SetConn(l, NewConn) /\ UNCHANGED <<lookup, line>>
     \/ Fail(l) /\ UNCHANGED conn

(* Mutant: the guard is dropped before the answer is read. *)
AskUnlocked(l) ==
  /\ At(l, "query") /\ Holds(l) /\ Conn(l) # None
  /\ \/ /\ SetConn(l, IF Conn(l).open THEN [Conn(l) EXCEPT !.owed = @ \o Answer(lookup[l].name)]
                      ELSE Conn(l))
        /\ Goto(l, "len")
        /\ Unlock(l)
     \/ /\ ~Conn(l).open
        /\ Fail(l) /\ UNCHANGED conn

(* The query is written.  On a closed connection that fails, or goes unnoticed. *)
Ask(l) ==
  /\ At(l, "query") /\ Holds(l) /\ Conn(l) # None
  /\ \/ /\ SetConn(l, IF Conn(l).open THEN [Conn(l) EXCEPT !.owed = @ \o Answer(lookup[l].name)]
                      ELSE Conn(l))
        /\ Goto(l, "len")
        /\ UNCHANGED line
     \/ /\ ~Conn(l).open
        /\ Fail(l) /\ UNCHANGED conn

ReadLen(l) ==
  /\ At(l, "len") /\ Conn(l).ready # <<>> /\ Head(Conn(l).ready)[2] = "len"
  /\ SetConn(l, [Conn(l) EXCEPT !.ready = Tail(@)])
  /\ Goto(l, "body")
  /\ UNCHANGED line

(* A body left over from an earlier query is taken for a length, and some of *)
(* what follows for a body, which does not parse or holds no address.        *)
ReadGarbage(l) ==
  /\ At(l, "len") /\ Conn(l).ready # <<>> /\ Head(Conn(l).ready)[2] = "body"
  /\ \E i \in 2..(Len(Conn(l).ready) + 1) :
       SetConn(l, [Conn(l) EXCEPT !.ready = SubSeq(@, i, Len(@)), !.soiled = TRUE])
  /\ \/ Fail(l)
     \/ Unlock(l) /\ lookup' = [lookup EXCEPT ![l] = Advanced(l)]

(* parse_dns_response: addresses, none, or an error code. *)
ReadBody(l) ==
  /\ At(l, "body") /\ Conn(l).ready # <<>>
  /\ SetConn(l, [Conn(l) EXCEPT !.ready = Tail(@)])
  /\ \/ /\ Unlock(l)
        /\ lookup' = [lookup EXCEPT ![l] = Returned(l, "insert", Head(Conn(l).ready)[1])]
     \/ Unlock(l) /\ lookup' = [lookup EXCEPT ![l] = Advanced(l)]
     \/ Fail(l)

(* A read that finds nothing for DNS_TIMEOUT, or the end of the stream. *)
ReadFails(l) ==
  /\ lookup[l].pc \in {"len", "body"} /\ Conn(l).ready = <<>>
  /\ SetConn(l, [Conn(l) EXCEPT !.soiled = TRUE])
  /\ Fail(l)

Dot(l) == \/ Lock(l) \/ Invalidate(l) \/ Connect(l) \/ Ask(l)
          \/ ReadLen(l) \/ ReadGarbage(l) \/ ReadBody(l) \/ ReadFails(l)

-----------------------------------------------------------------------------
(* Properties.                                                              *)

PoolTypeOK ==
  /\ lookup \in [Lookups -> [pc : Pc, name : Names \cup {None}, server : Servers, try : 1..2,
                             got : Names \cup {None}]]
  /\ line \in [Servers -> Seq(Lookups)]
  /\ conn \in [Servers -> Connection \cup {None}]

(* Whoever asks on a connection reads its own answer, unless a query was     *)
(* given up there: what a clean connection holds or owes is the rest of the  *)
(* answer to its holder.                                                     *)
CleanConnection ==
  \A s \in Servers : conn[s] # None /\ ~conn[s].soiled =>
    LET rest == conn[s].ready \o conn[s].owed
    IN  rest # <<>> =>
          /\ line[s] # <<>>
          /\ LET l == Head(line[s])
                 answer == Answer(lookup[l].name)
             IN  /\ Server(l) = s
                 /\ \/ At(l, "len") /\ IsPrefix(rest, answer)
                    \/ At(l, "body") /\ IsPrefix(rest, Tail(answer))
=============================================================================
