------------------------------ MODULE DnsProofs ------------------------------
(***************************************************************************)
(* Theorems about DnsCache and the DotPool below it, for any number of       *)
(* lookups, servers and domains and any size of the cache.                  *)
(*                                                                          *)
(* A lookup reads its own answer because of two things that hold together:  *)
(* the mutex of a connection is held from the query to the end of the       *)
(* answer (Orderly), and a connection that no query was given up on carries *)
(* what its holder has still to read and nothing else (Clean).              *)
(***************************************************************************)
EXTENDS DnsCache, SequenceTheorems, FiniteSetTheorems, TLAPS

Task == [pc : Pc, name : Names \cup {None}, server : Servers, try : 1..2, got : Names \cup {None}]

(* The places of a lookup that stands in the line of its server. *)
InLine == {"query", "len", "body", "invalidate"}

(* Whoever stands in a line is there once, waits for that server or uses it,  *)
(* and reads only at the head of the line.                                   *)
Orderly ==
  /\ \A s \in Servers : \A i \in DOMAIN line[s] :
       lookup[line[s][i]].server = s /\ lookup[line[s][i]].pc \in InLine
  /\ \A s \in Servers : \A i, j \in DOMAIN line[s] : line[s][i] = line[s][j] => i = j
  /\ \A l \in Lookups : lookup[l].pc \in {"len", "body"} => Holds(l)

(* A connection that is read from is there: only its holder can drop it. *)
Connected == \A l \in Lookups : lookup[l].pc \in {"len", "body"} => Conn(l) # None

-----------------------------------------------------------------------------
(* A lookup that goes on at another server keeps its name. *)
LEMMA NextServer ==
  ASSUME NEW t \in Task, NEW s \in Servers
  PROVE  LET u == [t EXCEPT !.pc = "lock", !.server = s, !.try = 1]
         IN  u \in Task /\ u.pc = "lock" /\ u.name = t.name /\ u.got = t.got
<1> DEFINE t1 == [t EXCEPT !.pc = "lock"]
           t2 == [t1 EXCEPT !.server = s]
<1>1. t1 \in Task /\ t1.pc = "lock" /\ t1.name = t.name /\ t1.got = t.got
  BY DEF Task, Pc
<1> HIDE DEF t1
<1>2. t2 \in Task /\ t2.pc = "lock" /\ t2.name = t.name /\ t2.got = t.got
  BY <1>1 DEF Task
<1> HIDE DEF t2
<1>3. LET u == [t2 EXCEPT !.try = 1]
      IN  u \in Task /\ u.pc = "lock" /\ u.name = t.name /\ u.got = t.got
  BY <1>2 DEF Task
<1> QED BY <1>3 DEF t1, t2

(* The results of a lookup at a server are well typed. *)
LEMMA ResultType ==
  ASSUME PoolTypeOK, NEW l \in Lookups
  PROVE  /\ Advanced(l) \in Task /\ Advanced(l).pc \in {"lock", "udp"}
         /\ Advanced(l).name = lookup[l].name
         /\ \A got \in Names : Returned(l, "insert", got) \in Task
         /\ [lookup[l] EXCEPT !.pc = "relock"] \in Task
<1>1. lookup[l] \in Task /\ Server(l) \in Servers /\ NServers \in Nat \ {0}
  BY PoolAssumption DEF PoolTypeOK, Task, Server
<1>2. Returned(l, "udp", None) \in Task
  BY <1>1, PoolAssumption DEF Returned, Task, Pc, Servers
<1>3. \A got \in Names : Returned(l, "insert", got) \in Task
  BY <1>1, PoolAssumption DEF Returned, Task, Pc, Servers
<1>4. ASSUME Server(l) < NServers
      PROVE  [lookup[l] EXCEPT !.pc = "lock", !.server = @ + 1, !.try = 1] \in Task
  <2>1. lookup[l].server + 1 \in Servers
    BY <1>1, <1>4 DEF Servers, Server
  <2>2. [lookup[l] EXCEPT !.pc = "lock", !.server = lookup[l].server + 1, !.try = 1] \in Task
    BY <1>1, <2>1, NextServer
  <2> QED BY <2>2
<1>5. LET t == [lookup[l] EXCEPT !.pc = "lock", !.server = @ + 1, !.try = 1]
      IN  t.pc = "lock" /\ t.name = lookup[l].name
  BY <1>1 DEF Task
<1>6. [lookup[l] EXCEPT !.pc = "relock"] \in Task
  BY <1>1 DEF Task, Pc
<1> QED BY <1>2, <1>3, <1>4, <1>5, <1>6 DEF Advanced, Returned

(* A step of one lookup that leaves the lines alone. *)
LEMMA Moves ==
  ASSUME PoolTypeOK, Orderly, NEW l \in Lookups, NEW t \in Task,
         lookup' = [lookup EXCEPT ![l] = t], UNCHANGED line,
         \/ lookup[l].pc \notin InLine /\ t.pc \notin InLine
         \/ Holds(l) /\ t.pc \in InLine /\ t.server = lookup[l].server
  PROVE  Orderly'
BY DEF PoolTypeOK, Orderly, Holds, Server, InLine, Task

(* A lookup that leaves the head of its line. *)
LEMMA Leaves ==
  ASSUME PoolTypeOK, Orderly, NEW l \in Lookups, Holds(l), NEW t \in Task,
         lookup' = [lookup EXCEPT ![l] = t], t.pc \notin InLine, Unlock(l)
  PROVE  Orderly' /\ line' \in [Servers -> Seq(Lookups)]
<1> DEFINE s == Server(l)
<1>1. s \in Servers /\ line[s] \in Seq(Lookups) /\ line[s] # <<>> /\ line[s][1] = l
  BY DEF PoolTypeOK, Holds, Server
<1>2. line' = [line EXCEPT ![s] = Tail(line[s])] /\ line \in [Servers -> Seq(Lookups)]
  BY DEF Unlock, PoolTypeOK
<1>3. /\ Tail(line[s]) \in Seq(Lookups) /\ Len(Tail(line[s])) = Len(line[s]) - 1
      /\ \A i \in DOMAIN Tail(line[s]) : Tail(line[s])[i] = line[s][i + 1] /\ i + 1 \in DOMAIN line[s]
  BY <1>1
<1>4. line' \in [Servers -> Seq(Lookups)] /\ line'[s] = Tail(line[s])
      /\ \A r \in Servers \ {s} : line'[r] = line[r]
  BY <1>1, <1>2, <1>3
<1>5. \A m \in Lookups \ {l} : lookup'[m] = lookup[m]
  BY DEF PoolTypeOK
<1>6. \A r \in Servers : \A i \in DOMAIN line'[r] :
         line'[r][i] \in Lookups \ {l} /\ \E j \in DOMAIN line[r] : line'[r][i] = line[r][j]
  <2> SUFFICES ASSUME NEW r \in Servers, NEW i \in DOMAIN line'[r]
               PROVE  line'[r][i] \in Lookups \ {l} /\ \E j \in DOMAIN line[r] : line'[r][i] = line[r][j]
    OBVIOUS
  <2>1. CASE r = s
    BY <2>1, <1>1, <1>3, <1>4 DEF Orderly
  <2>2. CASE r # s
    <3>1. line'[r] = line[r] /\ line[r] \in Seq(Lookups) /\ i \in DOMAIN line[r]
      BY <2>2, <1>4 DEF PoolTypeOK
    <3>2. lookup[line[r][i]].server = r
      BY <3>1 DEF Orderly
    <3> QED BY <2>2, <3>1, <3>2 DEF Server
  <2> QED BY <2>1, <2>2
<1>7. \A r \in Servers : \A i \in DOMAIN line'[r] :
        lookup'[line'[r][i]].server = r /\ lookup'[line'[r][i]].pc \in InLine
  BY <1>5, <1>6 DEF Orderly
<1>8. \A r \in Servers : \A i, j \in DOMAIN line'[r] : line'[r][i] = line'[r][j] => i = j
  <2> SUFFICES ASSUME NEW r \in Servers, NEW i \in DOMAIN line'[r], NEW j \in DOMAIN line'[r],
                      line'[r][i] = line'[r][j]
               PROVE  i = j
    OBVIOUS
  <2>1. CASE r = s
    BY <2>1, <1>1, <1>3, <1>4 DEF Orderly
  <2>2. CASE r # s
    BY <2>2, <1>4 DEF Orderly
  <2> QED BY <2>1, <2>2
<1>9. ASSUME NEW m \in Lookups, lookup'[m].pc \in {"len", "body"} PROVE Holds(m)'
  <2>1. m # l /\ lookup'[m] = lookup[m] /\ Holds(m)
    BY <1>5, <1>9 DEF Orderly, InLine, PoolTypeOK
  <2>2. Server(m) # s
    BY <2>1, <1>1 DEF Holds
  <2> QED BY <2>1, <2>2, <1>4 DEF Holds, Server, PoolTypeOK
<1> QED BY <1>4, <1>7, <1>8, <1>9 DEF Orderly

(* A lookup that joins the line of its server. *)
LEMMA Joins ==
  ASSUME PoolTypeOK, Orderly, NEW l \in Lookups, NEW t \in Task,
         lookup' = [lookup EXCEPT ![l] = t], t.server = lookup[l].server,
         lookup[l].pc \notin InLine, t.pc \in {"query", "invalidate"}, Queue(l)
  PROVE  Orderly' /\ line' \in [Servers -> Seq(Lookups)]
<1> DEFINE s == Server(l)
           n == Len(line[s])
<1>1. s \in Servers /\ line[s] \in Seq(Lookups) /\ n \in Nat /\ DOMAIN line[s] = 1..n
  BY DEF PoolTypeOK, Server
<1>2. /\ line' \in [Servers -> Seq(Lookups)]
      /\ \A r \in Servers \ {s} : line'[r] = line[r]
      /\ DOMAIN line'[s] = 1..n + 1 /\ line'[s][n + 1] = l
      /\ \A i \in 1..n : line'[s][i] = line[s][i]
  BY <1>1 DEF Queue, PoolTypeOK
<1>3. /\ \A m \in Lookups \ {l} : lookup'[m] = lookup[m]
      /\ lookup'[l] = t
  BY DEF PoolTypeOK
<1>4. \A r \in Servers : \A i \in DOMAIN line[r] : line[r][i] \in Lookups \ {l}
  BY DEF Orderly, PoolTypeOK
<1> HIDE DEF n, s
<1>5. \A r \in Servers : \A i \in DOMAIN line'[r] :
        lookup'[line'[r][i]].server = r /\ lookup'[line'[r][i]].pc \in InLine
  <2> SUFFICES ASSUME NEW r \in Servers, NEW i \in DOMAIN line'[r]
               PROVE  lookup'[line'[r][i]].server = r /\ lookup'[line'[r][i]].pc \in InLine
    OBVIOUS
  <2>1. CASE r = s /\ i = n + 1
    BY <2>1, <1>2, <1>3 DEF s, Server, InLine
  <2>2. CASE r # s \/ i # n + 1
    <3>1. i \in DOMAIN line[r] /\ line'[r][i] = line[r][i]
      BY <2>2, <1>1, <1>2
    <3>2. lookup'[line[r][i]] = lookup[line[r][i]]
      BY <3>1, <1>3, <1>4
    <3> QED BY <3>1, <3>2 DEF Orderly
  <2> QED BY <2>1, <2>2
<1>6. \A r \in Servers : \A i, j \in DOMAIN line'[r] : line'[r][i] = line'[r][j] => i = j
  <2> SUFFICES ASSUME NEW r \in Servers, NEW i \in DOMAIN line'[r], NEW j \in DOMAIN line'[r],
                      line'[r][i] = line'[r][j]
               PROVE  i = j
    OBVIOUS
  <2>1. CASE r # s
    BY <2>1, <1>2 DEF Orderly
  <2>2. CASE r = s
    BY <2>2, <1>1, <1>2, <1>4 DEF Orderly
  <2> QED BY <2>1, <2>2
<1>7. ASSUME NEW m \in Lookups, lookup'[m].pc \in {"len", "body"} PROVE Holds(m)'
  <2>1. m # l /\ lookup'[m] = lookup[m] /\ Holds(m) /\ Server(m) \in Servers
    BY <1>3, <1>7 DEF Orderly, PoolTypeOK, Server
  <2> QED BY <2>1, <1>1, <1>2 DEF Holds, Server, PoolTypeOK
<1> QED BY <1>2, <1>5, <1>6, <1>7 DEF Orderly

-----------------------------------------------------------------------------
(* The steps of a lookup at a server: it joins the line, leaves its head, or  *)
(* goes on as the holder.                                                    *)
Joining(l, t) == /\ lookup[l].pc \notin InLine /\ t.pc \in {"query", "invalidate"}
                 /\ t.server = lookup[l].server /\ Queue(l)
Leaving(l, t) == Holds(l) /\ t.pc \notin InLine /\ Unlock(l)
Staying(l, t) == Holds(l) /\ t.pc \in InLine /\ t.server = lookup[l].server /\ UNCHANGED line

Becomes(l, t) == lookup' = [lookup EXCEPT ![l] = t]

(* It keeps the name it was asked, and has an address if it is to insert one. *)
Keeps(l, t) == t.name = lookup[l].name /\ (t.pc = "insert" => t.got \in Names)

(* A lookup that tries its server again keeps its name. *)
LEMMA Retries ==
  ASSUME NEW t \in Task
  PROVE  LET u == [t EXCEPT !.pc = "lock", !.try = 2]
         IN  u \in Task /\ u.pc = "lock" /\ u.name = t.name
<1> DEFINE t1 == [t EXCEPT !.pc = "lock"]
<1>1. t1 \in Task /\ t1.pc = "lock" /\ t1.name = t.name
  BY DEF Task, Pc
<1> HIDE DEF t1
<1>2. LET u == [t1 EXCEPT !.try = 2]
      IN  u \in Task /\ u.pc = "lock" /\ u.name = t.name
  BY <1>1 DEF Task
<1> QED BY <1>2 DEF t1

(* What Goto does to a lookup. *)
LEMMA GoesTo ==
  ASSUME PoolTypeOK, NEW l \in Lookups, NEW p \in Pc, Goto(l, p)
  PROVE  \E t \in Task : /\ Becomes(l, t) /\ t.pc = p
                         /\ t.server = lookup[l].server /\ t.name = lookup[l].name
<1> DEFINE t == [lookup[l] EXCEPT !.pc = p]
<1>1. lookup[l] \in Task
  BY DEF PoolTypeOK, Task
<1>2. t \in Task /\ t.pc = p /\ t.server = lookup[l].server /\ t.name = lookup[l].name
  BY <1>1 DEF Task
<1>3. Becomes(l, t)
  BY DEF Goto, Becomes
<1> QED BY <1>2, <1>3

(* A failed attempt gives the mutex up. *)
LEMMA FailLeaves ==
  ASSUME PoolTypeOK, NEW l \in Lookups, Holds(l), Fail(l)
  PROVE  \E t \in Task : Becomes(l, t) /\ Keeps(l, t) /\ Leaving(l, t)
<1> DEFINE t == IF lookup[l].try = 1 THEN [lookup[l] EXCEPT !.pc = "relock"] ELSE Advanced(l)
<1>1. t \in Task /\ t.pc \in {"relock", "lock", "udp"}
  BY ResultType DEF PoolTypeOK
<1>2. t.name = lookup[l].name
  BY ResultType DEF Advanced, Returned, PoolTypeOK
<1>3. Becomes(l, t)
  BY DEF Fail, Becomes
<1> HIDE DEF t
<1> QED BY <1>1, <1>2, <1>3 DEF Fail, Keeps, Leaving, InLine

(* A step of a lookup at a server joins the line, leaves it or stays at its head. *)
LEMMA DotShape ==
  ASSUME PoolTypeOK, Orderly, Connected, NEW l \in Lookups, Dot(l)
  PROVE  \E t \in Task : /\ Becomes(l, t) /\ Keeps(l, t)
                         /\ Joining(l, t) \/ Leaving(l, t) \/ Staying(l, t)
<1>0. lookup[l].pc \in {"len", "body"} => Holds(l)
  BY DEF Orderly
<1>1. CASE Lock(l)
  <2>1. PICK p \in {"query", "invalidate"} : Goto(l, p)
    BY <1>1 DEF Lock
  <2>2. lookup[l].pc \notin InLine /\ Queue(l)
    BY <1>1 DEF Lock, At, InLine
  <2> QED BY <2>1, <2>2, GoesTo DEF Joining, Keeps, Pc
<1>2. CASE Invalidate(l)
  <2> DEFINE t == [lookup[l] EXCEPT !.pc = "lock", !.try = 2]
  <2>1. lookup[l] \in Task
    BY DEF PoolTypeOK, Task
  <2>2. t \in Task /\ t.pc = "lock" /\ t.name = lookup[l].name
    BY <2>1, Retries
  <2>3. Becomes(l, t)
    BY <1>2 DEF Invalidate, Becomes
  <2> HIDE DEF t
  <2> QED BY <1>2, <2>2, <2>3 DEF Invalidate, Keeps, Leaving, InLine
<1>3. CASE Connect(l)
  <2>1. CASE UNCHANGED <<lookup, line>>
    <3>0. Keeps(l, lookup[l])
      BY <1>3 DEF Connect, At, Keeps
    <3>1. Becomes(l, lookup[l]) /\ lookup[l] \in Task
      BY <2>1 DEF Becomes, PoolTypeOK, Task
    <3>2. Staying(l, lookup[l])
      BY <1>3, <2>1 DEF Connect, At, Staying, InLine
    <3> QED BY <3>0, <3>1, <3>2
  <2> QED BY <1>3, <2>1, FailLeaves DEF Connect
<1>4. CASE Ask(l)
  <2>1. CASE Goto(l, "len") /\ UNCHANGED line
    BY <1>4, <2>1, GoesTo DEF Ask, Staying, Keeps, InLine, Pc
  <2> QED BY <1>4, <2>1, FailLeaves DEF Ask
<1>5. CASE ReadLen(l)
  BY <1>0, <1>5, GoesTo DEF ReadLen, At, Staying, Keeps, InLine, Pc
<1>6. CASE Unlock(l) /\ lookup' = [lookup EXCEPT ![l] = Advanced(l)] /\ Holds(l)
  <2>1. Advanced(l).pc # "insert" /\ Advanced(l).pc \notin InLine
    BY ResultType DEF InLine
  <2> QED BY <1>6, <2>1, ResultType DEF Becomes, Keeps, Leaving
<1>7. CASE ReadGarbage(l)
  BY <1>0, <1>6, <1>7, FailLeaves DEF ReadGarbage, At
<1>8. CASE ReadBody(l)
  <2>1. Holds(l) /\ Conn(l).ready # <<>>
    BY <1>0, <1>8 DEF ReadBody, At
  <2>2. CASE Unlock(l) /\ lookup' = [lookup EXCEPT ![l] = Returned(l, "insert", Head(Conn(l).ready)[1])]
    <3>1. Conn(l) \in Connection
      BY <1>8 DEF ReadBody, At, Connected, PoolTypeOK, Conn, Server
    <3>2. Head(Conn(l).ready) \in Piece
      BY <2>1, <3>1 DEF Connection
    <3>3. Head(Conn(l).ready)[1] \in Names
      BY <3>2 DEF Piece
    <3> QED BY <2>1, <2>2, <3>3, ResultType DEF Becomes, Keeps, Leaving, InLine, Returned
  <2> QED BY <1>6, <1>8, <2>1, <2>2, FailLeaves DEF ReadBody
<1>9. CASE ReadFails(l)
  BY <1>0, <1>9, FailLeaves DEF ReadFails
<1> QED BY <1>1, <1>2, <1>3, <1>4, <1>5, <1>7, <1>8, <1>9 DEF Dot

-----------------------------------------------------------------------------
(* What is on the connections.                                              *)

(* A lookup that was started has a name, and an address when it inserts one. *)
Named == \A l \in Lookups :
  /\ lookup[l].pc # "idle" => lookup[l].name \in Names
  /\ lookup[l].pc = "insert" => lookup[l].got \in Names

(* What is still to be read of connection c. *)
Rest(c) == c.ready \o c.owed

LenOf(n)  == <<n, "len">>
BodyOf(n) == <<n, "body">>

(* What task t, which holds a connection, has still to read of it. *)
Expects(t, rest) ==
  \/ t.pc = "len" /\ (rest = <<LenOf(t.name)>> \/ rest = <<LenOf(t.name), BodyOf(t.name)>>)
  \/ t.pc = "body" /\ rest = <<BodyOf(t.name)>>

CleanAt(s) ==
  conn[s] # None /\ ~conn[s].soiled =>
    \/ Rest(conn[s]) = <<>>
    \/ \E l \in Lookups : Holds(l) /\ Server(l) = s /\ Expects(lookup[l], Rest(conn[s]))

Clean == \A s \in Servers : CleanAt(s)

PoolInv == PoolTypeOK /\ Orderly /\ Connected /\ Named /\ Clean

(* Taking the first of what is ready takes the first of what is to be read. *)
LEMMA RestTail ==
  ASSUME NEW S, NEW ready \in Seq(S), NEW owed \in Seq(S), ready # <<>>
  PROVE  /\ ready \o owed # <<>> /\ Head(ready \o owed) = Head(ready)
         /\ Tail(ready) \o owed = Tail(ready \o owed)
         /\ Tail(ready) \in Seq(S)
<1>1. Tail(ready) \in Seq(S) /\ Len(Tail(ready)) = Len(ready) - 1
  OBVIOUS
<1>2. ready \o owed \in Seq(S) /\ Len(ready \o owed) = Len(ready) + Len(owed) /\ Len(ready) >= 1
  OBVIOUS
<1>3. Head(ready \o owed) = Head(ready) /\ ready \o owed # <<>>
  BY <1>2
<1>4. Tail(ready) \o owed = Tail(ready \o owed)
  <2> DEFINE a == Tail(ready) \o owed
             b == Tail(ready \o owed)
  <2>1. a \in Seq(S) /\ b \in Seq(S) /\ Len(a) = Len(b)
    BY <1>1, <1>2
  <2>2. \A i \in 1..Len(a) : a[i] = b[i]
    BY <1>1, <1>2
  <2> HIDE DEF a, b
  <2>3. a = b
    BY <2>1, <2>2
  <2> QED BY <2>3 DEF a, b
<1> QED BY <1>1, <1>3, <1>4

(* What is served moves from what is owed to what is ready. *)
LEMMA RestServed ==
  ASSUME NEW S, NEW ready \in Seq(S), NEW owed \in Seq(S), owed # <<>>
  PROVE  /\ Append(ready, Head(owed)) \o Tail(owed) = ready \o owed
         /\ Append(ready, Head(owed)) \in Seq(S) /\ Tail(owed) \in Seq(S)
<1> DEFINE a == Append(ready, Head(owed)) \o Tail(owed)
           b == ready \o owed
<1>1. Head(owed) \in S /\ Tail(owed) \in Seq(S) /\ Len(Tail(owed)) = Len(owed) - 1
  OBVIOUS
<1>2. Append(ready, Head(owed)) \in Seq(S) /\ Len(Append(ready, Head(owed))) = Len(ready) + 1
  BY <1>1
<1>3. a \in Seq(S) /\ b \in Seq(S) /\ Len(a) = Len(b)
  BY <1>1, <1>2
<1>4. \A i \in 1..Len(a) : a[i] = b[i]
  BY <1>1, <1>2
<1> HIDE DEF a, b
<1>5. a = b
  BY <1>3, <1>4
<1> QED BY <1>1, <1>2, <1>5 DEF a, b

(* The parts of a sequence of at most two. *)
LEMMA ShortPrefix ==
  ASSUME NEW S, NEW p \in Seq(S), NEW q \in Seq(S), NEW a \in S, NEW b \in S
  PROVE  /\ p \o q = <<a>> => p = <<>> \/ p = <<a>>
         /\ p \o q = <<a, b>> => p = <<>> \/ p = <<a>> \/ p = <<a, b>>
         /\ p \o q = <<>> => p = <<>>
<1>1. /\ Len(p \o q) = Len(p) + Len(q) /\ Len(p) \in Nat /\ Len(q) \in Nat
      /\ \A i \in 1..Len(p) : (p \o q)[i] = p[i]
  OBVIOUS
<1>2. ASSUME p \o q = <<a>> PROVE p = <<>> \/ p = <<a>>
  BY <1>1, <1>2
<1>3. ASSUME p \o q = <<a, b>> PROVE p = <<>> \/ p = <<a>> \/ p = <<a, b>>
  <2>1. Len(p) \in 0..2
    <3>1. Len(<<a, b>>) = 2
      OBVIOUS
    <3>2. Len(p \o q) = 2
      BY <1>3, <3>1
    <3> DEFINE m == Len(p)
               k == Len(q)
    <3>3. m + k = 2 /\ m \in Nat /\ k \in Nat
      BY <1>1, <3>2
    <3> HIDE DEF m, k
    <3>4. m \in 0..2
      BY <3>3
    <3> QED BY <3>4 DEF m
  <2>2. Len(p) >= 1 => p[1] = a
    BY <1>1, <1>3
  <2>3. Len(p) = 2 => p[2] = b
    BY <1>1, <1>3
  <2> QED BY <2>1, <2>2, <2>3
<1>4. p \o q = <<>> => p = <<>>
  BY <1>1
<1> QED BY <1>2, <1>3, <1>4

-----------------------------------------------------------------------------
(* What a lookup's step does to its connection.                             *)

Puts(l, c) == conn' = [conn EXCEPT ![Server(l)] = c]

(* A connection whose holder is not reading is empty, unless it is soiled. *)
LEMMA EmptyBetween ==
  ASSUME PoolInv, NEW l \in Lookups, Holds(l), lookup[l].pc \notin {"len", "body"},
         Conn(l) # None, ~Conn(l).soiled
  PROVE  Rest(Conn(l)) = <<>>
<1>1. Server(l) \in Servers /\ CleanAt(Server(l))
  BY DEF PoolInv, PoolTypeOK, Clean, Server
<1>2. \A m \in Lookups : Holds(m) /\ Server(m) = Server(l) => m = l
  BY DEF Holds
<1> QED BY <1>1, <1>2 DEF CleanAt, Expects, Conn

(* The connection that a step of its holder leaves is typed, and right for    *)
(* what the holder is then.                                                  *)
Right(l, t, c) ==
  /\ c \in Connection \cup {None}
  /\ t.pc \in {"len", "body"} => c # None
  /\ c # None /\ ~c.soiled => Rest(c) = <<>> \/ (t.pc \in InLine /\ Expects(t, Rest(c)))

(* A lookup that does not read is right with its connection whatever that owes. *)
LEMMA KeepsRight ==
  ASSUME PoolInv, NEW l \in Lookups, Holds(l), lookup[l].pc \notin {"len", "body"}, NEW t,
         t.pc \notin {"len", "body"}
  PROVE  Right(l, t, Conn(l))
<1>1. Conn(l) \in Connection \cup {None}
  BY DEF PoolInv, PoolTypeOK, Conn, Server
<1>2. Conn(l) # None /\ ~Conn(l).soiled => Rest(Conn(l)) = <<>>
  BY EmptyBetween
<1>3. ~(t.pc \in {"len", "body"})
  OBVIOUS
<1> QED BY <1>1, <1>2, <1>3 DEF Right

(* The answer to a query is what its lookup reads next. *)
LEMMA AskRight ==
  ASSUME PoolInv, NEW l \in Lookups, At(l, "query"), Holds(l), Conn(l) # None,
         NEW t \in Task, t.pc = "len", t.name = lookup[l].name,
         NEW c, c = IF Conn(l).open THEN [Conn(l) EXCEPT !.owed = @ \o Answer(lookup[l].name)]
                    ELSE Conn(l)
  PROVE  Right(l, t, c)
<1> DEFINE n == lookup[l].name
           d == Conn(l)
<1>1. d \in Connection /\ n \in Names
  BY DEF PoolInv, PoolTypeOK, Conn, Server, Named, At
<1>2. LenOf(n) \in Piece /\ BodyOf(n) \in Piece
  BY <1>1 DEF LenOf, BodyOf, Piece
<1>3. Answer(n) \in Seq(Piece) /\ Answer(n) = <<LenOf(n), BodyOf(n)>>
  BY <1>2 DEF Answer, LenOf, BodyOf
<1>4. ~d.soiled => Rest(d) = <<>>
  BY EmptyBetween DEF At
<1>5. CASE ~d.open
  <2>1. c = d
    BY <1>5
  <2>2. d # None /\ d \in Connection \cup {None}
    BY <1>1
  <2> HIDE DEF d
  <2> QED BY <1>4, <2>1, <2>2 DEF Right
<1>6. CASE d.open
  <2> HIDE DEF d, n
  <2>0. c = [d EXCEPT !.owed = d.owed \o Answer(n)]
    BY <1>6 DEF d, n
  <2>1. d.owed \o Answer(n) \in Seq(Piece)
    BY <1>1, <1>3 DEF Connection
  <2>2. c \in Connection /\ c.soiled = d.soiled /\ c.ready = d.ready /\ c.owed = d.owed \o Answer(n)
    BY <1>1, <2>0, <2>1 DEF Connection
  <2>3. ASSUME ~c.soiled PROVE Rest(c) = <<LenOf(n), BodyOf(n)>>
    <3>1. d.ready \in Seq(Piece) /\ d.owed \in Seq(Piece) /\ d.ready \o d.owed = <<>>
      BY <1>1, <1>4, <2>2, <2>3 DEF Connection, Rest
    <3>2. d.ready = <<>> /\ d.owed = <<>>
      BY <3>1
    <3>3. <<>> \o Answer(n) = Answer(n) /\ <<>> \o (<<>> \o Answer(n)) = Answer(n)
      BY <1>3
    <3> QED BY <1>3, <2>2, <3>2, <3>3 DEF Rest
  <2> QED BY <2>2, <2>3, NoneAssumption DEF Right, Expects, InLine, n
<1> QED BY <1>5, <1>6

(* A read by the holder takes what it expects. *)
LEMMA ReadRight ==
  ASSUME PoolInv, NEW l \in Lookups, lookup[l].pc \in {"len", "body"}, Conn(l).ready # <<>>,
         NEW c, c = [Conn(l) EXCEPT !.ready = Tail(@)]
  PROVE  /\ c \in Connection
         /\ ~c.soiled => /\ lookup[l].pc = "len" =>
                             Rest(c) = <<>> \/ Rest(c) = <<BodyOf(lookup[l].name)>>
                         /\ lookup[l].pc = "body" =>
                             Rest(c) = <<>> /\ Head(Conn(l).ready) = BodyOf(lookup[l].name)
<1> DEFINE d == Conn(l)
           n == lookup[l].name
<1>1. d \in Connection /\ d # None /\ Server(l) \in Servers /\ Holds(l) /\ n \in Names
  BY DEF PoolInv, PoolTypeOK, Connected, Orderly, Named, Conn, Server
<1>2. d.ready \in Seq(Piece) /\ d.owed \in Seq(Piece)
  BY <1>1 DEF Connection
<1>3. /\ Rest(d) # <<>> /\ Head(Rest(d)) = Head(d.ready) /\ Tail(d.ready) \in Seq(Piece)
      /\ Tail(d.ready) \o d.owed = Tail(Rest(d))
  BY <1>2, RestTail DEF Rest
<1> HIDE DEF d
<1>4. c = [d EXCEPT !.ready = Tail(d.ready)]
  BY DEF d
<1>5. c \in Connection /\ c.soiled = d.soiled /\ c.ready = Tail(d.ready) /\ c.owed = d.owed
  BY <1>1, <1>3, <1>4 DEF Connection
<1>6. Rest(c) = Tail(Rest(d))
  BY <1>3, <1>5 DEF Rest
<1>7. ASSUME ~c.soiled PROVE Expects(lookup[l], Rest(d))
  <2>1. CleanAt(Server(l))
    BY <1>1 DEF PoolInv, Clean
  <2>2. \A m \in Lookups : Holds(m) /\ Server(m) = Server(l) => m = l
    BY <1>1 DEF Holds
  <2> QED BY <1>1, <1>3, <1>5, <1>7, <2>1, <2>2 DEF CleanAt, Conn, d
<1>8. LenOf(n) \in Piece /\ BodyOf(n) \in Piece
  BY <1>1 DEF LenOf, BodyOf, Piece
<1>9. /\ Tail(<<LenOf(n)>>) = <<>> /\ Tail(<<LenOf(n), BodyOf(n)>>) = <<BodyOf(n)>>
      /\ Tail(<<BodyOf(n)>>) = <<>> /\ Head(<<BodyOf(n)>>) = BodyOf(n)
  BY <1>8
<1>10. ASSUME ~c.soiled, lookup[l].pc = "len"
       PROVE  Rest(c) = <<>> \/ Rest(c) = <<BodyOf(n)>>
  BY <1>6, <1>7, <1>9, <1>10 DEF Expects
<1>11. ASSUME ~c.soiled, lookup[l].pc = "body"
       PROVE  Rest(c) = <<>> /\ Head(d.ready) = BodyOf(n)
  BY <1>3, <1>6, <1>7, <1>9, <1>11 DEF Expects
<1> QED BY <1>5, <1>10, <1>11 DEF d

(* Where the ways out of an attempt lead. *)
LEMMA Out ==
  ASSUME PoolTypeOK, NEW l \in Lookups, NEW t, Becomes(l, t)
  PROVE  /\ Fail(l) => t.pc \in {"relock", "lock", "udp"}
         /\ lookup' = [lookup EXCEPT ![l] = Advanced(l)] => t.pc \in {"lock", "udp"}
         /\ \A got : lookup' = [lookup EXCEPT ![l] = Returned(l, "insert", got)] => t.pc = "insert"
         /\ \A p \in Pc : Goto(l, p) => t.pc = p /\ t.name = lookup[l].name
<1>1. lookup'[l] = t /\ lookup[l] \in Task /\ l \in DOMAIN lookup
  BY DEF Becomes, PoolTypeOK, Task
<1>2. Advanced(l).pc \in {"lock", "udp"}
  BY ResultType
<1>3. [lookup[l] EXCEPT !.pc = "relock"].pc = "relock"
  BY <1>1 DEF Task
<1>4. Fail(l) => t.pc \in {"relock", "lock", "udp"}
  BY <1>1, <1>2, <1>3 DEF Fail
<1>5. lookup' = [lookup EXCEPT ![l] = Advanced(l)] => t.pc \in {"lock", "udp"}
  BY <1>1, <1>2
<1>6. \A got : lookup' = [lookup EXCEPT ![l] = Returned(l, "insert", got)] => t.pc = "insert"
  BY <1>1 DEF Returned
<1>7. \A p \in Pc : Goto(l, p) => t.pc = p /\ t.name = lookup[l].name
  BY <1>1 DEF Goto, Task
<1> QED BY <1>4, <1>5, <1>6, <1>7

(* Every step of a lookup at a server but that of joining its line leaves a   *)
(* connection that is right for what the lookup does next.                   *)
LEMMA DotRight ==
  ASSUME PoolInv, NEW l \in Lookups, Dot(l), ~Lock(l), NEW t \in Task, Becomes(l, t)
  PROVE  \E c : Puts(l, c) /\ Right(l, t, c)
<1>0. PoolTypeOK /\ Server(l) \in Servers /\ conn \in [Servers -> Connection \cup {None}]
      /\ (lookup[l].pc \in {"len", "body"} => Holds(l) /\ Conn(l) # None)
  BY DEF PoolInv, PoolTypeOK, Orderly, Connected, Server
<1>1. UNCHANGED conn => Puts(l, Conn(l))
  BY <1>0 DEF Puts, Conn
<1>2. CASE Invalidate(l)
  <2>1. t.pc = "lock"
    <3>1. lookup'[l] = t /\ lookup'[l].pc = "lock"
      BY <1>0, <1>2 DEF Invalidate, Becomes, PoolTypeOK
    <3> QED BY <3>1
  <2> QED BY <1>2, <2>1 DEF Invalidate, SetConn, Puts, Right
<1>3. CASE Connect(l)
  <2>1. CASE SetConn(l, NewConn) /\ UNCHANGED <<lookup, line>>
    <3>1. t.pc = "query"
      BY <1>0, <1>3, <2>1 DEF Connect, At, Becomes, PoolTypeOK
    <3>2. NewConn \in Connection /\ Rest(NewConn) = <<>> /\ ~NewConn.soiled
      BY DEF NewConn, Connection, Rest
    <3> HIDE DEF NewConn
    <3> QED BY <2>1, <3>1, <3>2 DEF SetConn, Puts, Right
  <2>2. CASE Fail(l) /\ UNCHANGED conn
    <3>1. Holds(l) /\ lookup[l].pc = "query" /\ t.pc \in {"relock", "lock", "udp"}
      BY <1>0, <1>3, <2>2, Out DEF Connect, At
    <3> QED BY <1>1, <2>2, <3>1, KeepsRight
  <2> QED BY <1>3, <2>1, <2>2 DEF Connect
<1>4. CASE Ask(l)
  <2>1. Holds(l) /\ At(l, "query") /\ Conn(l) # None
    BY <1>4 DEF Ask
  <2>2. CASE Fail(l) /\ UNCHANGED conn
    <3>1. t.pc \in {"relock", "lock", "udp"}
      BY <1>0, <2>2, Out
    <3> QED BY <1>1, <2>1, <2>2, <3>1, KeepsRight DEF At
  <2>3. CASE ~(Fail(l) /\ UNCHANGED conn)
    <3> DEFINE c == IF Conn(l).open THEN [Conn(l) EXCEPT !.owed = @ \o Answer(lookup[l].name)]
                    ELSE Conn(l)
    <3>1. Puts(l, c) /\ Goto(l, "len")
      BY <1>4, <2>3 DEF Ask, SetConn, Puts
    <3>2. t.pc = "len" /\ t.name = lookup[l].name
      BY <1>0, <3>1, Out DEF Pc
    <3>3. Right(l, t, c)
      BY <2>1, <3>2, AskRight
    <3> QED BY <3>1, <3>3
  <2> QED BY <2>2, <2>3
<1>5. CASE ReadLen(l)
  <2> DEFINE c == [Conn(l) EXCEPT !.ready = Tail(@)]
  <2>1. Puts(l, c) /\ Goto(l, "body") /\ lookup[l].pc = "len" /\ Conn(l).ready # <<>>
    BY <1>5 DEF ReadLen, SetConn, Puts, At
  <2>2. t.pc = "body" /\ t.name = lookup[l].name
    BY <1>0, <2>1, Out DEF Pc
  <2>3. c \in Connection /\ (~c.soiled => Rest(c) = <<>> \/ Rest(c) = <<BodyOf(lookup[l].name)>>)
    BY <2>1, ReadRight
  <2> HIDE DEF c
  <2>4. Right(l, t, c)
    BY <2>2, <2>3, NoneAssumption DEF Right, Expects, InLine
  <2> QED BY <2>1, <2>4
<1>6. ASSUME NEW ready \in Seq(Piece), lookup[l].pc \in {"len", "body"}, t.pc \notin {"len", "body"},
             SetConn(l, [Conn(l) EXCEPT !.ready = ready, !.soiled = TRUE])
      PROVE  \E c : Puts(l, c) /\ Right(l, t, c)
  <2> DEFINE d == [Conn(l) EXCEPT !.ready = ready]
             c == [d EXCEPT !.soiled = TRUE]
  <2>1. Conn(l) \in Connection
    BY <1>0, <1>6 DEF Conn
  <2>2. d \in Connection
    BY <1>6, <2>1 DEF Connection
  <2> HIDE DEF d
  <2>3. c \in Connection /\ c.soiled
    BY <2>2 DEF Connection
  <2>4. Puts(l, c)
    BY <1>6 DEF Puts, SetConn, d
  <2> HIDE DEF c
  <2> QED BY <1>6, <2>3, <2>4, NoneAssumption DEF Right
<1>7. CASE ReadGarbage(l)
  <2>1. lookup[l].pc = "len" /\ Conn(l) \in Connection
    BY <1>0, <1>7 DEF ReadGarbage, At, Conn
  <2>2. t.pc \notin {"len", "body"}
    BY <1>0, <1>7, Out DEF ReadGarbage
  <2>3. PICK i \in 2..(Len(Conn(l).ready) + 1) :
          SetConn(l, [Conn(l) EXCEPT !.ready = SubSeq(@, i, Len(@)), !.soiled = TRUE])
    BY <1>7 DEF ReadGarbage
  <2>4. Conn(l).ready \in Seq(Piece)
    BY <2>1 DEF Connection
  <2>5. SubSeq(Conn(l).ready, i, Len(Conn(l).ready)) \in Seq(Piece)
    BY <2>4
  <2> QED BY <1>6, <2>1, <2>2, <2>3, <2>5
<1>8. CASE ReadBody(l)
  <2> DEFINE c == [Conn(l) EXCEPT !.ready = Tail(@)]
  <2>1. Puts(l, c) /\ lookup[l].pc = "body" /\ Conn(l).ready # <<>>
    BY <1>8 DEF ReadBody, SetConn, Puts, At
  <2>2. t.pc \notin {"len", "body"}
    BY <1>0, <1>8, Out DEF ReadBody
  <2>3. c \in Connection /\ (~c.soiled => Rest(c) = <<>>)
    BY <2>1, ReadRight
  <2> HIDE DEF c
  <2>4. Right(l, t, c)
    BY <2>2, <2>3, NoneAssumption DEF Right
  <2> QED BY <2>1, <2>4
<1>9. CASE ReadFails(l)
  <2>1. t.pc \notin {"len", "body"} /\ lookup[l].pc \in {"len", "body"}
    BY <1>0, <1>9, Out DEF ReadFails
  <2>2. Conn(l) \in Connection /\ SetConn(l, [Conn(l) EXCEPT !.soiled = TRUE])
    BY <1>0, <1>9, <2>1 DEF ReadFails, Conn
  <2>3. [Conn(l) EXCEPT !.soiled = TRUE] \in Connection /\ [Conn(l) EXCEPT !.soiled = TRUE].soiled
    BY <2>2 DEF Connection
  <2> DEFINE c == [Conn(l) EXCEPT !.soiled = TRUE]
  <2>4. Puts(l, c) /\ c \in Connection /\ c.soiled
    BY <2>2, <2>3 DEF Puts, SetConn
  <2> HIDE DEF c
  <2> QED BY <2>1, <2>4, NoneAssumption DEF Right
<1> QED BY <1>2, <1>3, <1>4, <1>5, <1>7, <1>8, <1>9 DEF Dot

(* Whoever holds a mutex is at a place where it does. *)
LEMMA Holding ==
  ASSUME PoolInv, NEW l \in Lookups, Holds(l)
  PROVE  lookup[l].pc \in InLine
<1>1. Server(l) \in Servers /\ line[Server(l)] \in Seq(Lookups)
  BY DEF PoolInv, PoolTypeOK, Server
<1>2. 1 \in DOMAIN line[Server(l)] /\ line[Server(l)][1] = l
  BY <1>1 DEF Holds
<1> QED BY <1>1, <1>2 DEF PoolInv, Orderly

(* The lookups but l, and the connections but its own, are as they were. *)
LEMMA Others ==
  ASSUME PoolInv, NEW l \in Lookups, NEW t \in Task, Becomes(l, t), Keeps(l, t),
         Joining(l, t) \/ Leaving(l, t) \/ Staying(l, t)
  PROVE  /\ lookup' \in [Lookups -> Task] /\ lookup'[l] = t
         /\ \A m \in Lookups \ {l} : lookup'[m] = lookup[m]
         /\ Orderly' /\ line' \in [Servers -> Seq(Lookups)]
         /\ \A r \in Servers \ {Server(l)} : line'[r] = line[r]
         /\ (lookup[l].pc # "idle" => Named')
<1>1. PoolTypeOK /\ Orderly /\ Named /\ Server(l) \in Servers
      /\ lookup \in [Lookups -> Task] /\ line \in [Servers -> Seq(Lookups)]
  BY DEF PoolInv, PoolTypeOK, Task, Server
<1>2. lookup' \in [Lookups -> Task] /\ lookup'[l] = t
      /\ \A m \in Lookups \ {l} : lookup'[m] = lookup[m]
  BY <1>1 DEF Becomes
<1>3. Orderly' /\ line' \in [Servers -> Seq(Lookups)]
  <2>1. CASE Joining(l, t)
    BY <1>1, <2>1, Joins DEF Joining, Becomes
  <2>2. CASE Leaving(l, t)
    BY <1>1, <2>2, Leaves DEF Leaving, Becomes
  <2>3. CASE Staying(l, t)
    BY <1>1, <2>3, Moves DEF Staying, Becomes
  <2> QED BY <2>1, <2>2, <2>3
<1>4. \A r \in Servers \ {Server(l)} : line'[r] = line[r]
  BY <1>1 DEF Joining, Leaving, Staying, Queue, Unlock
<1>5. lookup[l].pc # "idle" => Named'
  BY <1>1, <1>2 DEF Named, Keeps
<1> QED BY <1>2, <1>3, <1>4, <1>5

(* A step of the holder of a mutex preserves the invariant. *)
LEMMA HolderInv ==
  ASSUME PoolInv, NEW l \in Lookups, NEW t \in Task, Becomes(l, t), Keeps(l, t),
         Leaving(l, t) \/ Staying(l, t), NEW c, Puts(l, c), Right(l, t, c)
  PROVE  PoolInv'
<1>1. PoolTypeOK /\ Connected /\ Orderly /\ Clean /\ Server(l) \in Servers /\ Holds(l)
      /\ conn \in [Servers -> Connection \cup {None}]
  BY DEF PoolInv, PoolTypeOK, Server, Leaving, Staying
<1>2. /\ lookup' \in [Lookups -> Task] /\ lookup'[l] = t
      /\ \A m \in Lookups \ {l} : lookup'[m] = lookup[m]
      /\ Orderly' /\ line' \in [Servers -> Seq(Lookups)]
      /\ \A r \in Servers \ {Server(l)} : line'[r] = line[r]
  BY Others
<1>3. /\ conn' \in [Servers -> Connection \cup {None}] /\ conn'[Server(l)] = c
      /\ \A r \in Servers \ {Server(l)} : conn'[r] = conn[r]
  BY <1>1 DEF Puts, Right
<1>4. PoolTypeOK'
  BY <1>2, <1>3 DEF PoolTypeOK, Task
<1>5. Named'
  <2>1. lookup[l].pc # "idle"
    BY <1>1, Holding DEF InLine
  <2> QED BY <2>1, Others
<1>6. t.pc \in InLine => Holds(l)' /\ Server(l)' = Server(l)
  BY <1>1, <1>2 DEF Leaving, Staying, Holds, Server
<1>7. \A m \in Lookups \ {l} : Holds(m) => Server(m) # Server(l)
  BY <1>1 DEF Holds
<1>8. ASSUME NEW m \in Lookups, lookup'[m].pc \in {"len", "body"} PROVE (Conn(m) # None)'
  <2>1. CASE m = l
    BY <1>2, <1>3, <1>6, <1>8, <2>1 DEF Right, InLine, Conn
  <2>2. CASE m # l
    <3>1. lookup'[m] = lookup[m] /\ Holds(m) /\ Conn(m) # None /\ Server(m) \in Servers
      BY <1>1, <1>2, <1>8, <2>2 DEF Orderly, Connected, PoolTypeOK, Server
    <3> QED BY <1>3, <1>7, <2>2, <3>1 DEF Conn, Server
  <2> QED BY <2>1, <2>2
<1>9. ASSUME NEW r \in Servers PROVE CleanAt(r)'
  <2>1. CASE r = Server(l)
    <3> SUFFICES ASSUME conn'[r] # None, ~conn'[r].soiled, Rest(c) # <<>>
                 PROVE  \E m \in Lookups : Holds(m)' /\ Server(m)' = r /\ Expects(lookup'[m], Rest(c))
      BY <1>3, <2>1 DEF CleanAt, Rest
    <3>1. t.pc \in InLine /\ Expects(t, Rest(c))
      BY <1>3, <2>1 DEF Right
    <3> QED BY <1>2, <1>6, <2>1, <3>1
  <2>2. CASE r # Server(l)
    <3>1. conn'[r] = conn[r] /\ line'[r] = line[r] /\ CleanAt(r)
      BY <1>1, <1>2, <1>3, <2>2 DEF Clean
    <3>2. \A m \in Lookups : Holds(m) /\ Server(m) = r =>
            lookup'[m] = lookup[m] /\ Holds(m)' /\ Server(m)' = r
      BY <1>2, <2>2, <3>1 DEF Holds, Server
    <3> QED BY <3>1, <3>2 DEF CleanAt, Rest
  <2> QED BY <2>1, <2>2
<1> QED BY <1>2, <1>4, <1>5, <1>8, <1>9 DEF PoolInv, Connected, Clean

(* So does a lookup that joins a line, *)
LEMMA JoinInv ==
  ASSUME PoolInv, NEW l \in Lookups, NEW t \in Task, Becomes(l, t), Keeps(l, t),
         Joining(l, t), lookup[l].pc # "idle", UNCHANGED conn
  PROVE  PoolInv'
<1>1. PoolTypeOK /\ Connected /\ Orderly /\ Clean /\ Server(l) \in Servers
      /\ line[Server(l)] \in Seq(Lookups)
  BY DEF PoolInv, PoolTypeOK, Server
<1>2. /\ lookup' \in [Lookups -> Task] /\ lookup'[l] = t
      /\ \A m \in Lookups \ {l} : lookup'[m] = lookup[m]
      /\ Orderly' /\ Named' /\ line' \in [Servers -> Seq(Lookups)]
      /\ \A r \in Servers \ {Server(l)} : line'[r] = line[r]
  BY Others
<1>3. PoolTypeOK'
  BY <1>1, <1>2 DEF PoolTypeOK, Task
<1>4. line'[Server(l)] = Append(line[Server(l)], l)
  BY <1>1 DEF Joining, Queue, PoolTypeOK
<1>5. line[Server(l)] # <<>> =>
        line'[Server(l)] # <<>> /\ Head(line'[Server(l)]) = Head(line[Server(l)])
  BY <1>1, <1>4
<1>6. \A m \in Lookups \ {l} : Holds(m) => Holds(m)' /\ Server(m)' = Server(m)
  BY <1>1, <1>2, <1>5 DEF Holds, Server, PoolTypeOK
<1>7. ASSUME NEW m \in Lookups, lookup'[m].pc \in {"len", "body"} PROVE (Conn(m) # None)'
  <2>1. m # l /\ lookup'[m] = lookup[m] /\ Conn(m) # None
    BY <1>1, <1>2, <1>7 DEF Joining, Connected
  <2> QED BY <2>1 DEF Conn, Server
<1>8. ASSUME NEW r \in Servers PROVE CleanAt(r)'
  <2>1. CleanAt(r) /\ conn'[r] = conn[r]
    BY <1>1 DEF Clean
  <2>2. \A rest : ~Expects(lookup[l], rest)
    BY DEF Expects, Joining, InLine
  <2> QED BY <1>2, <1>6, <2>1, <2>2 DEF CleanAt, Rest
<1> QED BY <1>2, <1>3, <1>7, <1>8 DEF PoolInv, Connected, Clean

(* and thus every step at a DoT server, *)
LEMMA DotInv ==
  ASSUME PoolInv, NEW l \in Lookups, Dot(l)
  PROVE  PoolInv'
<1>1. PICK t \in Task : /\ Becomes(l, t) /\ Keeps(l, t)
                        /\ Joining(l, t) \/ Leaving(l, t) \/ Staying(l, t)
  BY DotShape DEF PoolInv
<1>2. CASE Lock(l)
  <2>1. lookup[l].pc \in {"lock", "relock"} /\ UNCHANGED conn /\ lookup[l] # t
    <3>1. lookup[l].pc \in {"lock", "relock"} /\ UNCHANGED conn
      BY <1>2 DEF Lock, At
    <3>2. t.pc \in {"query", "invalidate"}
      BY <1>1, <1>2, Out DEF Lock, PoolInv, Pc
    <3> QED BY <3>1, <3>2
  <2>2. ~Holds(l)
    BY <2>1, Holding DEF InLine
  <2>3. Joining(l, t)
    BY <1>1, <2>2 DEF Leaving, Staying
  <2> QED BY <1>1, <2>1, <2>3, JoinInv
<1>3. CASE ~Lock(l)
  <2>1. PICK c : Puts(l, c) /\ Right(l, t, c)
    BY <1>1, <1>3, DotRight
  <2>2. Dot(l) => Lock(l) \/ Holds(l)
    BY DEF Dot, Invalidate, Connect, Ask, ReadLen, ReadGarbage, ReadBody, ReadFails, PoolInv, Orderly, At
  <2>3. ~Joining(l, t)
    BY <1>3, <2>2, Holding DEF Joining
  <2> QED BY <1>1, <2>1, <2>3, HolderInv
<1> QED BY <1>2, <1>3

-----------------------------------------------------------------------------
(* The steps that no server takes part in, and those of the network.        *)

(* and every step away from them. *)
LEMMA AwayInv ==
  ASSUME PoolInv, NEW l \in Lookups, NEW t \in Task, Becomes(l, t), UNCHANGED <<line, conn>>,
         lookup[l].pc \notin InLine, t.pc \notin InLine, t.name \in Names,
         t.pc = "insert" => t.got \in Names
  PROVE  PoolInv'
<1>1. PoolTypeOK /\ Connected /\ Orderly /\ Clean /\ Named /\ lookup \in [Lookups -> Task]
  BY DEF PoolInv, PoolTypeOK, Task
<1>2. /\ lookup' \in [Lookups -> Task] /\ lookup'[l] = t
      /\ \A m \in Lookups \ {l} : lookup'[m] = lookup[m]
  BY <1>1 DEF Becomes
<1>3. PoolTypeOK'
  BY <1>1, <1>2 DEF PoolTypeOK, Task
<1>4. Orderly'
  BY <1>1, Moves DEF Becomes
<1>5. Named'
  BY <1>1, <1>2 DEF Named
<1>6. Connected'
  BY <1>1, <1>2 DEF Connected, InLine, Conn, Server
<1>7. ASSUME NEW r \in Servers PROVE CleanAt(r)'
  <2>1. CleanAt(r) /\ conn'[r] = conn[r] /\ \A rest : ~Expects(lookup[l], rest)
    BY <1>1 DEF Clean, Expects, InLine
  <2>2. \A m \in Lookups \ {l} : Holds(m) => Holds(m)' /\ Server(m)' = Server(m)
    BY <1>2 DEF Holds, Server
  <2> QED BY <1>2, <2>1, <2>2 DEF CleanAt, Rest
<1> QED BY <1>3, <1>4, <1>5, <1>6, <1>7 DEF PoolInv, Clean

(* The pieces of two answers tell their names. *)
LEMMA Pieces ==
  ASSUME NEW n, NEW m
  PROVE  /\ <<LenOf(n), BodyOf(n)>> = <<LenOf(m), BodyOf(m)>> => n = m
         /\ <<LenOf(n), BodyOf(n)>> # <<LenOf(m)>> /\ <<LenOf(n), BodyOf(n)>> # <<BodyOf(m)>>
<1>1. LenOf(n)[1] = n /\ LenOf(m)[1] = m
  BY DEF LenOf
<1>2. Len(<<LenOf(n), BodyOf(n)>>) = 2 /\ Len(<<LenOf(m)>>) = 1 /\ Len(<<BodyOf(m)>>) = 1
  OBVIOUS
<1>3. <<LenOf(n), BodyOf(n)>>[1] = LenOf(n) /\ <<LenOf(m), BodyOf(m)>>[1] = LenOf(m)
  OBVIOUS
<1> QED BY <1>1, <1>2, <1>3

(* What the network does to a connection neither drops it nor changes what is *)
(* still to be read, unless it is a part of that.                            *)
LEMMA NetworkInv ==
  ASSUME PoolInv, NEW s \in Servers, conn[s] # None, NEW c \in Connection, c.soiled = conn[s].soiled,
         \/ c.soiled
         \/ Rest(c) = Rest(conn[s])
         \/ Rest(c) = <<>>
         \/ \E n : Rest(conn[s]) = <<LenOf(n), BodyOf(n)>> /\ Rest(c) = <<LenOf(n)>>,
         conn' = [conn EXCEPT ![s] = c], UNCHANGED <<lookup, line>>
  PROVE  PoolInv'
<1>1. PoolTypeOK /\ Connected /\ Orderly /\ Clean /\ Named
  BY DEF PoolInv
<1>2. /\ conn' \in [Servers -> Connection \cup {None}] /\ conn'[s] = c
      /\ \A r \in Servers \ {s} : conn'[r] = conn[r]
  BY <1>1 DEF PoolTypeOK
<1>3. PoolTypeOK' /\ Named'
  BY <1>1, <1>2 DEF PoolTypeOK, Named
<1>4. Orderly'
  BY <1>1 DEF Orderly, Holds, Server
<1>5. Connected'
  BY <1>1, <1>2, NoneAssumption DEF Connected, PoolTypeOK, Conn, Server
<1>6. ASSUME NEW r \in Servers, conn'[r] # None, ~conn'[r].soiled, Rest(conn'[r]) # <<>>
      PROVE  \E l \in Lookups : Holds(l) /\ Server(l) = r /\ Expects(lookup[l], Rest(conn'[r]))
  <2>1. CASE r # s
    BY <1>1, <1>2, <1>6, <2>1 DEF Clean, CleanAt
  <2>2. CASE r = s
    <3>1. Rest(conn[s]) # <<>>
      BY <1>2, <1>6, <2>2, SMTT(30)
    <3>2. PICK l \in Lookups : Holds(l) /\ Server(l) = s /\ Expects(lookup[l], Rest(conn[s]))
      BY <1>1, <1>2, <1>6, <2>2, <3>1 DEF Clean, CleanAt
    <3>3. CASE Rest(c) = Rest(conn[s])
      BY <1>2, <2>2, <3>2, <3>3
    <3>4. ASSUME NEW n, Rest(conn[s]) = <<LenOf(n), BodyOf(n)>>, Rest(c) = <<LenOf(n)>>
          PROVE  Expects(lookup[l], Rest(c))
      <4>1. lookup[l].pc = "len" /\ lookup[l].name = n
        BY <3>2, <3>4, Pieces DEF Expects
      <4> QED BY <3>4, <4>1 DEF Expects
    <3> QED BY <1>2, <1>6, <2>2, <3>2, <3>3, <3>4
  <2> QED BY <2>1, <2>2
<1>7. ASSUME NEW r \in Servers PROVE CleanAt(r)'
  BY <1>6 DEF CleanAt, Rest, Holds, Server
<1> QED BY <1>3, <1>4, <1>5, <1>7 DEF PoolInv, Clean

(* A server sends a piece of an answer. *)
LEMMA ServeInv ==
  ASSUME PoolInv, NEW s \in Servers, Serve(s)
  PROVE  PoolInv'
<1> DEFINE d == conn[s]
           c1 == [d EXCEPT !.owed = Tail(d.owed)]
           c == [c1 EXCEPT !.ready = Append(d.ready, Head(d.owed))]
<1>1. d \in Connection /\ d # None /\ d.owed # <<>> /\ s \in DOMAIN conn
  BY DEF Serve, PoolInv, PoolTypeOK
<1>2. d.ready \in Seq(Piece) /\ d.owed \in Seq(Piece)
  BY <1>1 DEF Connection
<1>3. /\ Append(d.ready, Head(d.owed)) \o Tail(d.owed) = Rest(d)
      /\ Append(d.ready, Head(d.owed)) \in Seq(Piece) /\ Tail(d.owed) \in Seq(Piece)
  BY <1>1, <1>2, RestServed DEF Rest
<1>4. conn' = [conn EXCEPT ![s] = c] /\ UNCHANGED <<lookup, line>>
  BY <1>1 DEF Serve
<1> HIDE DEF d
<1>5. c1 \in Connection /\ c1.soiled = d.soiled /\ c1.owed = Tail(d.owed)
  BY <1>1, <1>3 DEF Connection
<1> HIDE DEF c1
<1>6. c \in Connection /\ c.soiled = d.soiled /\ c.owed = Tail(d.owed)
      /\ c.ready = Append(d.ready, Head(d.owed))
  BY <1>3, <1>5 DEF Connection
<1> HIDE DEF c
<1>7. Rest(c) = Rest(d)
  BY <1>3, <1>6 DEF Rest
<1> QED BY <1>1, <1>4, <1>6, <1>7, NetworkInv DEF d

(* A server closes a connection. *)
LEMMA CloseInv ==
  ASSUME PoolInv, NEW s \in Servers, Close(s)
  PROVE  PoolInv'
<1> DEFINE d == conn[s]
           c1 == [d EXCEPT !.open = FALSE]
           c == [c1 EXCEPT !.owed = <<>>]
<1>1. d \in Connection /\ d # None /\ s \in DOMAIN conn
  BY DEF Close, PoolInv, PoolTypeOK
<1>2. d.ready \in Seq(Piece) /\ d.owed \in Seq(Piece)
  BY <1>1 DEF Connection
<1>3. conn' = [conn EXCEPT ![s] = c] /\ UNCHANGED <<lookup, line>>
  BY <1>1 DEF Close
<1> HIDE DEF d
<1>4. c1 \in Connection /\ c1.soiled = d.soiled /\ c1.ready = d.ready
  BY <1>1 DEF Connection
<1> HIDE DEF c1
<1>5. c \in Connection /\ c.soiled = d.soiled /\ c.ready = d.ready /\ c.owed = <<>>
  <2>1. <<>> \in Seq(Piece)
    OBVIOUS
  <2> QED BY <1>4, <2>1 DEF Connection
<1> HIDE DEF c
<1>6. Rest(c) = d.ready
  BY <1>2, <1>5 DEF Rest
<1>7. CASE d.soiled \/ Rest(d) = <<>>
  <2>1. Rest(d) = <<>> => Rest(c) = <<>>
    BY <1>2, <1>6 DEF Rest
  <2> QED BY <1>1, <1>3, <1>5, <1>7, <2>1, NetworkInv DEF d
<1>8. CASE ~d.soiled /\ Rest(d) # <<>>
  <2>1. PICK l \in Lookups : Expects(lookup[l], Rest(d)) /\ Holds(l)
    BY <1>1, <1>8 DEF PoolInv, Clean, CleanAt, d
  <2> DEFINE n == lookup[l].name
  <2>2. n \in Names
    BY <2>1 DEF PoolInv, Named, Expects
  <2>3. LenOf(n) \in Piece /\ BodyOf(n) \in Piece
    BY <2>2 DEF LenOf, BodyOf, Piece
  <2>4. Rest(d) = <<LenOf(n)>> \/ Rest(d) = <<BodyOf(n)>> \/ Rest(d) = <<LenOf(n), BodyOf(n)>>
    BY <2>1 DEF Expects
  <2> HIDE DEF n
  <2> DEFINE a == LenOf(n)
             b == BodyOf(n)
  <2>5. \/ d.ready = <<>> \/ d.ready = Rest(d)
        \/ Rest(d) = <<a, b>> /\ d.ready = <<a>>
    <3> HIDE DEF a, b
    <3> DEFINE p == d.ready
               q == d.owed
    <3>1. a \in Piece /\ b \in Piece /\ p \in Seq(Piece) /\ q \in Seq(Piece)
      BY <1>2, <2>3 DEF a, b
    <3>2. Rest(d) = p \o q
      BY DEF Rest
    <3> HIDE DEF p, q
    <3>3. /\ p \o q = <<a>> => p = <<>> \/ p = <<a>>
          /\ p \o q = <<b>> => p = <<>> \/ p = <<b>>
          /\ p \o q = <<a, b>> => p = <<>> \/ p = <<a>> \/ p = <<a, b>>
      BY <3>1, ShortPrefix
    <3>4. Rest(d) = <<a>> \/ Rest(d) = <<b>> \/ Rest(d) = <<a, b>>
      BY <2>4 DEF a, b
    <3>5. p = <<>> \/ p = Rest(d) \/ (Rest(d) = <<a, b>> /\ p = <<a>>)
      BY <3>2, <3>3, <3>4
    <3> QED BY <3>5 DEF p
  <2> QED BY <1>1, <1>3, <1>5, <1>6, <2>5, NetworkInv DEF d
<1> QED BY <1>7, <1>8

-----------------------------------------------------------------------------
(* The cache.                                                               *)

(* Every entry is what some lookup of its domain put there, and expires Ttl   *)
(* later.                                                                    *)
Remembered ==
  \A n \in DOMAIN cache : \E r \in resolved :
    r.name = n /\ r.addr = cache[n].addr /\ cache[n].expires = r.at + Ttl

Inv == TypeOK /\ PoolInv /\ IsFiniteSet(DOMAIN cache) /\ Remembered

(* The invariant holds at first. *)
LEMMA InvInit == Init => Inv
<1> SUFFICES ASSUME Init PROVE Inv
  OBVIOUS
<1> USE DEF Init, PoolInit
<1>1. PoolTypeOK
  BY PoolAssumption DEF PoolTypeOK, Pc, Servers
<1>2. Orderly /\ Connected /\ Named /\ Clean
  <2>1. \A s \in Servers : line[s] = <<>> /\ conn[s] = None
    OBVIOUS
  <2>2. \A l \in Lookups : lookup[l].pc = "idle"
    OBVIOUS
  <2> QED BY <2>1, <2>2 DEF Orderly, Connected, Named, Clean, CleanAt
<1>3. DOMAIN cache = {}
  OBVIOUS
<1>4. IsFiniteSet(DOMAIN cache) /\ Cardinality(DOMAIN cache) = 0
  BY <1>3, FS_EmptySet
<1> QED BY <1>1, <1>2, <1>3, <1>4, CacheAssumption DEF Inv, PoolInv, TypeOK, Remembered

(* What a lookup does when it starts. *)
LEMMA StartTask ==
  ASSUME Inv, NEW l \in Lookups, Start(l)
  PROVE  \E t \in Task, n \in Names :
            /\ Becomes(l, t) /\ t.name = n /\ t.pc \in {"lock", "done"}
            /\ t.pc = "done" => Fresh(n) /\ t.got = cache[n].addr
<1>1. PICK n \in Wants[l] :
         lookup' = [lookup EXCEPT ![l].name = n,
                                  ![l].pc   = IF Fresh(n) THEN "done" ELSE "lock",
                                  ![l].got  = IF Fresh(n) THEN cache[n].addr ELSE None]
  BY DEF Start
<1>2. n \in Names
  BY CacheAssumption
<1> DEFINE p == IF Fresh(n) THEN "done" ELSE "lock"
           g == IF Fresh(n) THEN cache[n].addr ELSE None
           t1 == [lookup[l] EXCEPT !.name = n]
           t2 == [t1 EXCEPT !.pc = p]
           t == [t2 EXCEPT !.got = g]
<1>3. lookup[l] \in Task /\ lookup \in [Lookups -> Task]
  BY DEF Inv, TypeOK, PoolTypeOK, Task
<1>4. p \in Pc /\ p \in {"lock", "done"} /\ g \in Names \cup {None}
      /\ (p = "done" => Fresh(n) /\ g = cache[n].addr)
  BY DEF Inv, TypeOK, Fresh, Pc
<1>5. Becomes(l, t)
  BY <1>1, <1>3 DEF Becomes
<1> HIDE DEF p, g
<1>6. t1 \in Task /\ t1.name = n
  BY <1>2, <1>3 DEF Task
<1> HIDE DEF t1
<1>7. t2 \in Task /\ t2.name = n /\ t2.pc = p
  BY <1>4, <1>6 DEF Task
<1> HIDE DEF t2
<1>8. t \in Task /\ t.name = n /\ t.pc = p /\ t.got = g
  BY <1>4, <1>7 DEF Task
<1> HIDE DEF t
<1> QED BY <1>2, <1>4, <1>5, <1>8

(* What the steps behind the DoT servers leave of a lookup. *)
LEMMA GotTask ==
  ASSUME PoolInv, NEW l \in Lookups, lookup[l].pc \in {"udp", "system"},
         \/ lookup' = [lookup EXCEPT ![l].pc = "insert", ![l].got = lookup[l].name]
         \/ Goto(l, "system")
         \/ Goto(l, "failed")
  PROVE  \E t \in Task : /\ Becomes(l, t) /\ t.name \in Names
                         /\ t.pc \in {"insert", "system", "failed"}
                         /\ t.pc = "insert" => t.got \in Names
<1>1. lookup[l] \in Task /\ lookup \in [Lookups -> Task] /\ lookup[l].name \in Names
  BY DEF PoolInv, PoolTypeOK, Named, Task
<1>2. CASE Goto(l, "system") \/ Goto(l, "failed")
  <2>1. PICK p \in {"system", "failed"} : Goto(l, p)
    BY <1>2
  <2> QED BY <1>1, <2>1, GoesTo DEF PoolInv, Pc
<1>3. CASE lookup' = [lookup EXCEPT ![l].pc = "insert", ![l].got = lookup[l].name]
  <2> DEFINE t1 == [lookup[l] EXCEPT !.pc = "insert"]
             t == [t1 EXCEPT !.got = lookup[l].name]
  <2>1. Becomes(l, t)
    BY <1>1, <1>3 DEF Becomes
  <2>2. t1 \in Task /\ t1.pc = "insert" /\ t1.name = lookup[l].name
    BY <1>1 DEF Task, Pc
  <2> HIDE DEF t1
  <2>3. t \in Task /\ t.pc = "insert" /\ t.name = lookup[l].name /\ t.got = lookup[l].name
    BY <1>1, <2>2 DEF Task
  <2> HIDE DEF t
  <2> QED BY <1>1, <2>1, <2>3
<1> QED BY <1>2, <1>3

(* An eviction keeps the entries that are left as they are, and makes room.   *)
LEMMA Eviction ==
  ASSUME Inv, NEW c \in Evicted(cache)
  PROVE  /\ DOMAIN c \subseteq DOMAIN cache /\ \A n \in DOMAIN c : c[n] = cache[n]
         /\ IsFiniteSet(DOMAIN c) /\ Cardinality(DOMAIN c) \in Nat
         /\ Cardinality(DOMAIN c) + 1 <= MaxEntries \/ Cardinality(DOMAIN c) = 0
         /\ \A n \in DOMAIN cache \ DOMAIN c :
              n \in FirstToExpire(cache) /\ Cardinality(DOMAIN cache) >= MaxEntries
<1>1. IsFiniteSet(DOMAIN cache) /\ MaxEntries \in Nat /\ Cardinality(DOMAIN cache) \in Nat
  BY FS_CardinalityType, CacheAssumption DEF Inv
<1>2. CASE Cardinality(DOMAIN cache) >= MaxEntries /\ DOMAIN cache # {}
  <2>1. PICK k \in FirstToExpire(cache) : c = [m \in DOMAIN cache \ {k} |-> cache[m]]
    BY <1>2 DEF Evicted
  <2>2. DOMAIN c = DOMAIN cache \ {k} /\ k \in DOMAIN cache
    BY <2>1 DEF FirstToExpire
  <2>3. IsFiniteSet(DOMAIN c) /\ Cardinality(DOMAIN c) = Cardinality(DOMAIN cache) - 1
    BY <1>1, <2>2, FS_RemoveElement
  <2>4. Cardinality(DOMAIN cache) # 0
    BY <1>1, <1>2, FS_EmptySet
  <2>5. Cardinality(DOMAIN cache) <= MaxEntries \/ Cardinality(DOMAIN cache) <= 1
    BY DEF Inv, TypeOK
  <2> QED BY <1>1, <1>2, <2>1, <2>2, <2>3, <2>4, <2>5
<1>3. CASE ~(Cardinality(DOMAIN cache) >= MaxEntries /\ DOMAIN cache # {})
  <2>1. c = cache
    BY <1>3 DEF Evicted
  <2>2. DOMAIN cache = {} => Cardinality(DOMAIN cache) = 0
    BY FS_EmptySet
  <2> DEFINE k == Cardinality(DOMAIN cache)
  <2>3. k \in Nat /\ (k + 1 <= MaxEntries \/ k = 0)
    <3> HIDE DEF k
    <3>1. k \in Nat /\ (~(k >= MaxEntries) \/ k = 0)
      BY <1>1, <1>3, <2>2 DEF k
    <3> QED BY <1>1, <3>1
  <2> QED BY <1>1, <2>1, <2>3
<1> QED BY <1>2, <1>3

(* An address is remembered: the cache and the history keep their relation. *)
LEMMA InsertInv ==
  ASSUME Inv, NEW l \in Lookups, Insert(l)
  PROVE  Inv'
<1> DEFINE n == lookup[l].name
           e == [addr |-> lookup[l].got, expires |-> now + Ttl]
           new == [name |-> n, addr |-> lookup[l].got, at |-> now]
<1>1. PICK c \in Evicted(cache) : cache' = With(c, n, e)
  BY DEF Insert
<1>2. n \in Names /\ lookup[l].got \in Names /\ now \in Nat /\ Ttl \in Nat /\ PoolInv
  BY CacheAssumption DEF Inv, PoolInv, Named, TypeOK, Insert, At
<1>3. /\ DOMAIN cache' = DOMAIN c \cup {n} /\ cache'[n] = e
      /\ \A m \in DOMAIN c \ {n} : cache'[m] = c[m]
  BY <1>1 DEF With
<1>4. resolved' = resolved \cup {new} /\ now' = now
  BY DEF Insert
<1>5. PoolInv'
  <2>1. PICK t \in Task : Becomes(l, t) /\ t.pc = "done" /\ t.name = n
    BY <1>2, GoesTo DEF Insert, PoolInv, Pc
  <2> QED BY <1>2, <2>1, AwayInv DEF Insert, At, InLine
<1>6. IsFiniteSet(DOMAIN cache') /\ Cardinality(DOMAIN cache') \in Nat
      /\ (Cardinality(DOMAIN cache') <= MaxEntries \/ Cardinality(DOMAIN cache') <= 1)
  <2>1. /\ IsFiniteSet(DOMAIN c) /\ Cardinality(DOMAIN c) \in Nat
        /\ Cardinality(DOMAIN c) + 1 <= MaxEntries \/ Cardinality(DOMAIN c) = 0
    BY Eviction
  <2>2. /\ IsFiniteSet(DOMAIN cache')
        /\ Cardinality(DOMAIN cache') = IF n \in DOMAIN c THEN Cardinality(DOMAIN c)
                                        ELSE Cardinality(DOMAIN c) + 1
    BY <1>3, <2>1, FS_AddElement
  <2> QED BY <2>1, <2>2, CacheAssumption
<1>7. TypeOK'
  <2>1. \A m \in DOMAIN c : m \in Names /\ c[m] \in [addr : Names, expires : Nat]
    BY Eviction DEF Inv, TypeOK
  <2>2. e \in [addr : Names, expires : Nat] /\ new \in [name : Names, addr : Names, at : Nat]
    BY <1>2
  <2> HIDE DEF e, new
  <2>3. DOMAIN cache' \subseteq Names
    BY <1>2, <1>3, <2>1
  <2>4. \A m \in DOMAIN cache' : cache'[m] \in [addr : Names, expires : Nat]
    BY <1>3, <2>1, <2>2
  <2>5. resolved' \subseteq [name : Names, addr : Names, at : Nat]
    BY <1>4, <2>2 DEF Inv, TypeOK
  <2> QED BY <1>2, <1>4, <1>5, <1>6, <2>3, <2>4, <2>5 DEF TypeOK, PoolInv
<1>8. Remembered'
  <2>1. \A m \in DOMAIN c : \E r \in resolved :
           r.name = m /\ r.addr = c[m].addr /\ c[m].expires = r.at + Ttl
    BY Eviction DEF Inv, Remembered
  <2>2. new.name = n /\ new.addr = e.addr /\ e.expires = new.at + Ttl
    OBVIOUS
  <2> HIDE DEF e, new
  <2> SUFFICES ASSUME NEW m \in DOMAIN cache'
               PROVE  \E r \in resolved' : /\ r.name = m /\ r.addr = cache'[m].addr
                                           /\ cache'[m].expires = r.at + Ttl
    BY DEF Remembered
  <2>3. CASE m = n
    BY <1>3, <1>4, <2>2, <2>3
  <2>4. CASE m # n
    BY <1>3, <1>4, <2>1, <2>4
  <2> QED BY <2>3, <2>4
<1> QED BY <1>5, <1>6, <1>7, <1>8 DEF Inv

(* The pool's invariant is about the pool's variables alone. *)
LEMMA PoolSame ==
  ASSUME PoolInv, UNCHANGED poolVars
  PROVE  PoolInv'
<1> QED BY DEF PoolInv, PoolTypeOK, Orderly, Connected, Named, Clean, CleanAt, Rest, Holds, Server,
              Conn, poolVars

(* Every step preserves the invariant. *)
LEMMA InvNext ==
  ASSUME Inv, [Next]_vars
  PROVE  Inv'
<1>0. PoolInv
  BY DEF Inv
<1>1. ASSUME PoolInv', UNCHANGED <<cache, now, resolved>> PROVE Inv'
  BY <1>1 DEF Inv, PoolInv, TypeOK, Remembered
<1>2. ASSUME NEW l \in Lookups, Start(l) PROVE Inv'
  <2>1. PICK t \in Task : /\ Becomes(l, t) /\ t.name \in Names /\ t.pc \in {"lock", "done"}
    BY <1>2, StartTask
  <2>2. lookup[l].pc \notin InLine /\ t.pc \notin InLine /\ t.pc # "insert"
    BY <1>2, <2>1 DEF Start, At, InLine
  <2>3. PoolInv'
    BY <1>0, <1>2, <2>1, <2>2, AwayInv DEF Start
  <2> QED BY <1>1, <1>2, <2>3 DEF Start
<1>3. ASSUME NEW l \in Lookups, Udp(l) \/ System(l) PROVE Inv'
  <2>0. lookup[l].pc \in {"udp", "system"} /\ UNCHANGED <<line, conn, cache, now, resolved>>
    BY <1>3 DEF Udp, System, At
  <2>1. PICK t \in Task : /\ Becomes(l, t) /\ t.name \in Names
                          /\ t.pc \in {"insert", "system", "failed"}
                          /\ t.pc = "insert" => t.got \in Names
    BY <1>0, <1>3, <2>0, GotTask DEF Udp, System
  <2>2. PoolInv'
    BY <1>0, <2>0, <2>1, AwayInv DEF InLine
  <2> QED BY <1>1, <2>0, <2>2
<1>4. ASSUME NEW l \in Lookups, Dot(l), UNCHANGED <<cache, now, resolved>> PROVE Inv'
  BY <1>0, <1>1, <1>4, DotInv
<1>5. ASSUME Network PROVE Inv'
  BY <1>0, <1>1, <1>5, ServeInv, CloseInv DEF Network
<1>6. CASE Tick
  <2>1. PoolInv'
    BY <1>0, <1>6, PoolSame DEF Tick
  <2> QED BY <1>6, <2>1 DEF Inv, PoolInv, TypeOK, Remembered, Tick
<1>7. CASE UNCHANGED vars
  <2>1. PoolInv'
    BY <1>0, <1>7, PoolSame DEF vars
  <2> QED BY <1>1, <1>7, <2>1 DEF vars
<1> QED BY <1>2, <1>3, <1>4, <1>5, <1>6, <1>7, InsertInv DEF Next, Resolve

(* The inductive invariant of the lookups, the pool and the cache holds throughout. *)
THEOREM Invariance == Spec => []Inv
<1>1. Inv /\ [Next]_vars => Inv'
  BY InvNext
<1> QED BY InvInit, <1>1, PTL DEF Spec

(* The mutexes, the connections and the cache are well formed, and the cache  *)
(* never outgrows max_entries (DnsCache::resolve evicts before it inserts).   *)
THEOREM TypeCorrect == Spec => []TypeOK
<1>1. Inv => TypeOK
  BY DEF Inv
<1> QED BY Invariance, <1>1, PTL

(* Whoever asks on a connection that no query was given up on reads its own   *)
(* answer: nothing else is on the stream (query_on_pooled_conn).             *)
THEOREM CleanConnections == Spec => []CleanConnection
<1>1. Inv => CleanConnection
  <2> SUFFICES ASSUME Inv, NEW s \in Servers, conn[s] # None, ~conn[s].soiled,
                      Rest(conn[s]) # <<>>
               PROVE  /\ line[s] # <<>>
                      /\ LET l == Head(line[s])
                             answer == Answer(lookup[l].name)
                         IN  /\ Server(l) = s
                             /\ \/ At(l, "len") /\ IsPrefix(Rest(conn[s]), answer)
                                \/ At(l, "body") /\ IsPrefix(Rest(conn[s]), Tail(answer))
    BY DEF CleanConnection, Rest
  <2>1. PICK l \in Lookups : Holds(l) /\ Server(l) = s /\ Expects(lookup[l], Rest(conn[s]))
    BY DEF Inv, PoolInv, Clean, CleanAt
  <2>2. line[s] # <<>> /\ Head(line[s]) = l
    BY <2>1 DEF Holds
  <2> DEFINE n == lookup[l].name
             a == LenOf(n)
             b == BodyOf(n)
  <2>3. Answer(n) = <<a, b>>
    BY DEF Answer, LenOf, BodyOf
  <2> HIDE DEF a, b
  <2>4. /\ IsPrefix(<<a>>, <<a, b>>) /\ IsPrefix(<<a, b>>, <<a, b>>)
        /\ IsPrefix(<<b>>, Tail(<<a, b>>))
    BY DEF IsPrefix
  <2> QED BY <2>1, <2>2, <2>3, <2>4 DEF Expects, At, a, b
<1> QED BY Invariance, <1>1, PTL

(* A hit of the cache is what a lookup of the same domain put there less than *)
(* Ttl ago (DnsCache::resolve compares expires_at with the clock).            *)
THEOREM HitsAreRecent == Spec => HitIsRecent
<1>1. Inv /\ [Next]_vars =>
        [\A l \in Lookups : At(l, "idle") /\ lookup'[l].pc = "done" =>
           \E r \in resolved : /\ r.name = lookup'[l].name /\ r.addr = lookup'[l].got
                               /\ now - r.at < Ttl]_vars
  <2> SUFFICES ASSUME Inv, Next, NEW l \in Lookups, At(l, "idle"), lookup'[l].pc = "done"
               PROVE  \E r \in resolved : /\ r.name = lookup'[l].name /\ r.addr = lookup'[l].got
                                          /\ now - r.at < Ttl
    OBVIOUS
  <2>0. lookup[l].pc = "idle" /\ lookup \in [Lookups -> Task]
    BY DEF At, Inv, TypeOK, PoolTypeOK, Task
  <2>1. ASSUME NEW m \in Lookups \ {l}, NEW t, Becomes(m, t) PROVE FALSE
    BY <2>0, <2>1 DEF Becomes
  <2>2. ASSUME NEW m \in Lookups, Resolve(m) PROVE \E t : Becomes(m, t)
    <3>1. Start(m) => \E t : Becomes(m, t)
      BY StartTask
    <3>2. Udp(m) \/ System(m) => \E t : Becomes(m, t)
      BY GotTask DEF Udp, System, At, Inv
    <3>3. Insert(m) => \E t : Becomes(m, t)
      BY GoesTo DEF Insert, Inv, PoolInv, Pc
    <3>4. Dot(m) => \E t : Becomes(m, t)
      BY DotShape DEF Inv, PoolInv
    <3> QED BY <2>2, <3>1, <3>2, <3>3, <3>4 DEF Resolve
  <2>3. lookup' # lookup
    BY <2>0
  <2>4. Resolve(l)
    BY <2>1, <2>2, <2>3 DEF Next, Network, Serve, Close, Tick, poolVars
  <2>5. Start(l)
    BY <2>0, <2>4 DEF Resolve, Udp, System, Insert, Dot, Lock, Invalidate, Connect, Ask,
                      ReadLen, ReadGarbage, ReadBody, ReadFails, At
  <2>6. PICK n \in Names : Fresh(n) /\ lookup'[l].name = n /\ lookup'[l].got = cache[n].addr
    BY <2>0, <2>5, StartTask DEF Becomes
  <2>7. PICK r \in resolved : r.name = n /\ r.addr = cache[n].addr /\ cache[n].expires = r.at + Ttl
    BY <2>6 DEF Inv, Remembered, Fresh
  <2>8. cache[n].expires > now /\ r.at \in Nat /\ now \in Nat /\ Ttl \in Nat
    BY <2>6, CacheAssumption DEF Fresh, Inv, TypeOK
  <2> QED BY <2>6, <2>7, <2>8
<1> QED BY Invariance, <1>1, PTL DEF Spec, HitIsRecent

(* What is evicted is the entry that was the first to expire, and only when   *)
(* the cache is full (DnsCache::resolve).                                    *)
THEOREM SoonestEvictedHolds == Spec => SoonestEvicted
<1>1. Inv /\ [Next]_vars =>
        [\A n \in DOMAIN cache \ DOMAIN cache' :
           /\ \A m \in DOMAIN cache : cache[n].expires <= cache[m].expires
           /\ Cardinality(DOMAIN cache) >= MaxEntries]_vars
  <2> SUFFICES ASSUME Inv, Next, NEW n \in DOMAIN cache \ DOMAIN cache'
               PROVE  /\ \A m \in DOMAIN cache : cache[n].expires <= cache[m].expires
                      /\ Cardinality(DOMAIN cache) >= MaxEntries
    OBVIOUS
  <2>1. PICK l \in Lookups : Insert(l)
    BY DEF Next, Resolve, Start, Udp, System, Network, Tick
  <2>2. PICK c \in Evicted(cache) : DOMAIN c \subseteq DOMAIN cache'
    BY <2>1 DEF Insert, With
  <2> QED BY <2>2, Eviction DEF FirstToExpire
<1> QED BY Invariance, <1>1, PTL DEF Spec, SoonestEvicted
=============================================================================
