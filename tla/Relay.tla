------------------------------- MODULE Relay -------------------------------
(***************************************************************************)
(* relay_with_desync (src/crates/desyncd-proxy/src/relay.rs), the task that *)
(* carries one proxied connection once the SOCKS or HTTP handshake is over: *)
(* it reassembles the client's first message, applies a desync technique to *)
(* it, watches the upstream for an early failure, retries the message on    *)
(* new upstream connections with the techniques of the fallback chain, and  *)
(* then relays both directions until either of them ends.  The connections  *)
(* share one thing, the selector's set of learned-blocked domains.          *)
(*                                                                          *)
(* Byte streams are sequences of numbered pieces: piece i of a client is    *)
(* the i-th it ever sends, its first message is its pieces 1..hello.size,   *)
(* and piece 0 stands for the bytes of a fake packet.  TCP may hand over    *)
(* any number of pieces at a time.  The peers and the network may send,     *)
(* close, reset or break whenever they like.                                *)
(***************************************************************************)
EXTENDS Selector

CONSTANTS
  Conns,      \* proxied connections
  Payloads,   \* the first messages clients send: [tls, domain, size]
  Targets,    \* the domains handshakes name, or None for an address
  MaxUp,      \* bound: pieces a client sends
  MaxDown,    \* bound: pieces an upstream connection sends
  MaxFirst    \* pieces that fill the reassembly buffer (MAX_FIRST_BUF)

ASSUME RelayAssumption ==
  /\ Payloads \subseteq [tls : BOOLEAN, domain : Domains \cup {None}, size : Nat \ {0}]
  /\ Targets \subseteq Domains \cup {None}
  /\ MaxUp \in Nat /\ MaxDown \in Nat /\ MaxFirst \in Nat \ {0}

VARIABLES
  hello, target,        \* the client's first message; what its handshake named
  sent, ended,          \* pieces the client has sent; how its sending ended
  read,                 \* pieces the relay has read of the client
  got,                  \* <<attempt, piece>> delivered to the client, in order
  att,                  \* the upstream connections opened so far, in order
  pc, first, fb, cur,   \* the task's place, pieces in its first message, its place in the
                        \* chain, and the attempt it goes on with
  seed, upBuf, downBuf, \* bytes read and not yet written
  desynced, responded,  \* ConnState
  learned               \* LearnedBlocked

peer  == <<hello, target, sent, ended>>
bufs  == <<upBuf, downBuf>>
state == <<desynced, responded>>
vars  == <<peer, read, got, att, pc, first, fb, cur, seed, bufs, state, learned>>

Ends == {"open", "fin", "rst", "err"}
PCs  == {"begin", "start", "reassemble", "apply", "early", "connect", "probe", "flush", "relay", "done"}

-----------------------------------------------------------------------------
(* What a first message of k pieces looks like on the wire.                 *)

Pieces(i, j) == [n \in 1..(IF j < i THEN 0 ELSE j - i + 1) |-> i + n - 1]

(* execute_action: the bytes each kind of DesyncAction writes.  A Replace    *)
(* rebuilds the ClientHello's record and carries nothing that was read       *)
(* behind it; a Swap (disorder) writes its second chunk first.               *)
Wire(action, k, size) ==
  IF action = "Replace" THEN Pieces(1, IF k < size THEN k ELSE size)
  ELSE IF action = "Swap" THEN Pieces(2, k) \o <<1>>
  ELSE IF action = "InjectBefore" THEN <<0>> \o Pieces(1, k)
  ELSE Pieces(1, k)

(* PayloadContext::new on the first k pieces: protocol and domain show only  *)
(* once the message is complete.                                             *)
Detected(c, k) ==
  IF k >= hello[c].size
  THEN [tls |-> hello[c].tls, domain |-> hello[c].domain]
  ELSE [tls |-> FALSE, domain |-> None]

FirstWire(c, action) == Wire(action, first[c], hello[c].size)

-----------------------------------------------------------------------------
Fresh(action, wire) ==
  [act |-> action, wire |-> wire, sent |-> 0, end |-> "open", read |-> 0]

(* The handshake has already connected attempt 1. *)
Init ==
  /\ hello \in [Conns -> Payloads] /\ target \in [Conns -> Targets]
  /\ sent = [c \in Conns |-> 0] /\ ended = [c \in Conns |-> "open"]
  /\ read = [c \in Conns |-> 0] /\ got = [c \in Conns |-> <<>>]
  /\ att = [c \in Conns |-> <<Fresh("none", <<>>)>>]
  /\ pc = [c \in Conns |-> "begin"]
  /\ first = [c \in Conns |-> 0] /\ fb = [c \in Conns |-> 0] /\ cur = [c \in Conns |-> 1]
  /\ seed = [c \in Conns |-> <<>>]
  /\ upBuf = [c \in Conns |-> <<>>] /\ downBuf = [c \in Conns |-> <<>>]
  /\ desynced = [c \in Conns |-> FALSE] /\ responded = [c \in Conns |-> FALSE]
  /\ learned = {}

Goto(c, p) == pc' = [pc EXCEPT ![c] = p]

(* Returning drops both sockets and whatever the task still had in hand. *)
Finish(c) ==
  /\ Goto(c, "done")
  /\ seed' = [seed EXCEPT ![c] = <<>>]
  /\ upBuf' = [upBuf EXCEPT ![c] = <<>>]
  /\ downBuf' = [downBuf EXCEPT ![c] = <<>>]

(* The client as a stream to read from, like the attempts. *)
Client(c)   == [sent |-> sent[c], end |-> ended[c], read |-> read[c]]
Upstream(c) == att[c][cur[c]]
Probed(c)   == att[c][Len(att[c])]

Available(s) == s.read < s.sent
Broken(s)    == s.end \in {"rst", "err"}
(* A read meets the end of a stream after its last byte, or, when the        *)
(* connection was reset or broke, possibly before.                           *)
MeetsEnd(s)  == Broken(s) \/ (s.end = "fin" /\ s.read = s.sent)
(* A read of the socket waits. *)
Silent(s)    == s.end = "open" /\ s.read = s.sent

-----------------------------------------------------------------------------
(* The peers and the network.                                               *)

(* Sockets of the proxy on which an upstream can still act. *)
Live(c) ==
  {i \in DOMAIN att[c] : pc[c] # "done" /\ (i = cur[c] \/ (pc[c] = "probe" /\ i = Len(att[c])))}

ClientSends(c) ==
  /\ pc[c] # "done" /\ ended[c] = "open" /\ sent[c] < MaxUp
  /\ sent' = [sent EXCEPT ![c] = @ + 1]
  /\ UNCHANGED <<hello, target, ended, read, got, att, pc, first, fb, cur, seed, bufs, state, learned>>

ClientEnds(c) ==
  /\ pc[c] # "done" /\ ended[c] = "open"
  /\ \E e \in {"fin", "rst"} : ended' = [ended EXCEPT ![c] = e]
  /\ UNCHANGED <<hello, target, sent, read, got, att, pc, first, fb, cur, seed, bufs, state, learned>>

UpstreamSends(c) ==
  /\ \E i \in Live(c) :
       /\ att[c][i].end = "open" /\ att[c][i].sent < MaxDown
       /\ att' = [att EXCEPT ![c][i].sent = @ + 1]
  /\ UNCHANGED <<peer, read, got, pc, first, fb, cur, seed, bufs, state, learned>>

UpstreamEnds(c) ==
  /\ \E i \in Live(c), e \in Ends \ {"open"} :
       /\ att[c][i].end = "open"
       /\ att' = [att EXCEPT ![c][i].end = e]
  /\ UNCHANGED <<peer, read, got, pc, first, fb, cur, seed, bufs, state, learned>>

Environment(c) == ClientSends(c) \/ ClientEnds(c) \/ UpstreamSends(c) \/ UpstreamEnds(c)

-----------------------------------------------------------------------------
(* reassemble_first_message.                                                *)

(* set_nodelay on the upstream, which may fail on a broken connection. *)
Begin(c) ==
  /\ pc[c] = "begin"
  /\ \/ Goto(c, "start") /\ UNCHANGED <<seed, bufs>>
     \/ Broken(att[c][1]) /\ Finish(c)
  /\ UNCHANGED <<peer, read, got, att, first, fb, cur, state, learned>>

(* The first read, which waits without a limit, returns nothing or an error. *)
NoFirstMessage(c) ==
  /\ pc[c] = "start"
  /\ MeetsEnd(Client(c))
  /\ Finish(c)
  /\ UNCHANGED <<peer, read, got, att, first, fb, cur, state, learned>>

(* The parser asks for more only of a message that looks like TLS. *)
NeedsMore(c, k) == hello[c].tls /\ k < hello[c].size

(* A read of the first message that leaves n pieces in the buffer. *)
Gather(c, n) ==
  /\ read' = [read EXCEPT ![c] = n]
  /\ first' = [first EXCEPT ![c] = n]
  /\ Goto(c, IF NeedsMore(c, n) THEN "reassemble" ELSE "apply")

ReadFirst(c) ==
  /\ pc[c] = "start"
  /\ \E n \in 1..MaxFirst : n <= sent[c] /\ Gather(c, n)
  /\ UNCHANGED <<peer, got, att, fb, cur, seed, bufs, state, learned>>

ReadMore(c) ==
  /\ pc[c] = "reassemble"
  /\ \E n \in (first[c] + 1)..MaxFirst : n <= sent[c] /\ Gather(c, n)
  /\ UNCHANGED <<peer, got, att, fb, cur, seed, bufs, state, learned>>

(* REASSEMBLY_TIMEOUT, which may pass at any moment, ends the wait: go on    *)
(* with what there is.  A full buffer, a client that closed or broke, and a  *)
(* parser that gives up half-way have the same effect.                       *)
StopReassembly(c) ==
  /\ pc[c] = "reassemble"
  /\ Goto(c, "apply")
  /\ UNCHANGED <<peer, read, got, att, first, fb, cur, seed, bufs, state, learned>>

-----------------------------------------------------------------------------
(* The primary strategy.                                                    *)

PrimaryAction(c) == SelectorApply(Detected(c, first[c]), learned)

ApplyPrimary(c) ==
  /\ pc[c] = "apply"
  /\ att' = [att EXCEPT ![c][1].act = PrimaryAction(c),
                        ![c][1].wire = FirstWire(c, PrimaryAction(c))]
  /\ desynced' = [desynced EXCEPT ![c] = PrimaryAction(c) # "PassThrough"]
  /\ Goto(c, IF Fallback = <<>> THEN "relay" ELSE "early")
  /\ UNCHANGED <<peer, read, got, first, fb, cur, seed, bufs, responded, learned>>

(* A write of execute_action fails after part of the message: `?` gives up   *)
(* on the connection, and no fallback is tried.                              *)
PrimaryWriteFails(c) ==
  /\ pc[c] = "apply"
  /\ Broken(att[c][1])
  /\ \E n \in 0..(Len(FirstWire(c, PrimaryAction(c))) - 1) :
       att' = [att EXCEPT ![c][1].act = PrimaryAction(c),
                          ![c][1].wire = SubSeq(FirstWire(c, PrimaryAction(c)), 1, n)]
  /\ desynced' = [desynced EXCEPT ![c] = PrimaryAction(c) # "PassThrough"]
  /\ Finish(c)
  /\ UNCHANGED <<peer, read, got, first, fb, cur, responded, learned>>

-----------------------------------------------------------------------------
(* detect_early_rst, on the primary attempt.                                *)

PiecesOf(i, n) == [k \in 1..n |-> <<i, k>>]

(* Attempt i has answered within its window, and the task goes on with it. *)
Settle(c, i, n) ==
  /\ cur' = [cur EXCEPT ![c] = i]
  /\ seed' = [seed EXCEPT ![c] = PiecesOf(i, n)]
  /\ responded' = [responded EXCEPT ![c] = TRUE]
  /\ desynced' = [desynced EXCEPT ![c] = @ \/ i # 1]
  /\ Goto(c, "flush")

(* Mutant: the window peeks at the bytes instead of taking them. *)
PeekSeed(c, i, n) == att' = att /\ Settle(c, i, n)

(* The window's one read returns some of the bytes the upstream sent. *)
TakeSeed(c, i, n) == att' = [att EXCEPT ![c][i].read = n] /\ Settle(c, i, n)

EnterChain(c) == fb' = [fb EXCEPT ![c] = 1] /\ Goto(c, "connect")

(* Mutant: the chain is entered although the upstream has answered. *)
EarlyDataRetries(c) ==
  /\ pc[c] = "early"
  /\ \E n \in 1..att[c][1].sent : att' = [att EXCEPT ![c][1].read = n]
  /\ EnterChain(c)
  /\ UNCHANGED <<peer, read, got, first, cur, seed, bufs, state, learned>>

EarlyData(c) ==
  /\ pc[c] = "early"
  /\ \E n \in 1..att[c][1].sent : TakeSeed(c, 1, n)
  /\ UNCHANGED <<peer, read, got, first, fb, bufs, learned>>

(* EarlyResult::Rst: end of stream or a reset. *)
Reset(s) == MeetsEnd(s) /\ s.end # "err"

WasPassthrough(c) == att[c][1].act = "PassThrough"

(* The caller of the chain learns the domain of the handshake, if it had one. *)
Learn(c) == learned' = learned \cup ({target[c]} \ {None})

(* Mutant: the domain is learned when the primary fails, not when a fallback *)
(* has survived.                                                             *)
EarlyRetryLearns(c) ==
  /\ pc[c] = "early"
  /\ Reset(att[c][1]) \/ (Silent(att[c][1]) /\ WasPassthrough(c))
  /\ EnterChain(c)
  /\ Learn(c)
  /\ UNCHANGED <<peer, read, got, att, first, cur, seed, bufs, state>>

EarlyRetry(c) ==
  /\ pc[c] = "early"
  /\ Reset(att[c][1]) \/ (Silent(att[c][1]) /\ WasPassthrough(c))
  /\ EnterChain(c)
  /\ UNCHANGED <<peer, read, got, att, first, cur, seed, bufs, state, learned>>

(* Mutant: the window of a real desync has no time limit. *)
EarlyProceedOnError(c) ==
  /\ pc[c] = "early"
  /\ att[c][1].end = "err"
  /\ Goto(c, "relay")
  /\ UNCHANGED <<peer, read, got, att, first, fb, cur, seed, bufs, state, learned>>

(* A quiet window after a real desync, or a transient error. *)
EarlyProceed(c) ==
  /\ pc[c] = "early"
  /\ (Silent(att[c][1]) /\ ~WasPassthrough(c)) \/ att[c][1].end = "err"
  /\ Goto(c, "relay")
  /\ UNCHANGED <<peer, read, got, att, first, fb, cur, seed, bufs, state, learned>>

-----------------------------------------------------------------------------
(* try_fallback_chain.  Attempt 1 stays open, unread, while it runs.        *)

(* Mutant: the chain never advances to its next technique. *)
NextFallbackSame(c) == fb' = fb /\ Goto(c, "connect")

(* The next technique, or None: the relay then goes on with attempt 1. *)
NextFallback(c) ==
  \/ fb[c] < Len(Fallback) /\ fb' = [fb EXCEPT ![c] = @ + 1] /\ Goto(c, "connect")
  \/ fb[c] >= Len(Fallback) /\ fb' = fb /\ Goto(c, "relay")

(* A failed reconnect abandons the whole chain. *)
ReconnectFails(c) ==
  /\ pc[c] = "connect"
  /\ Goto(c, "relay")
  /\ UNCHANGED <<peer, read, got, att, first, fb, cur, seed, bufs, state, learned>>

FallbackAction(c) == StrategyApply(<<Fallback[fb[c]]>>, Detected(c, first[c]))

Open(c, action, wire) == att' = [att EXCEPT ![c] = Append(@, Fresh(action, wire))]

(* Mutant: the new connection is opened, and the first message not resent. *)
FallbackConnectsOnly(c) ==
  /\ pc[c] = "connect"
  /\ Open(c, FallbackAction(c), <<>>)
  /\ Goto(c, "probe")
  /\ UNCHANGED <<peer, read, got, first, fb, cur, seed, bufs, state, learned>>

FallbackSent(c) ==
  /\ pc[c] = "connect"
  /\ Open(c, FallbackAction(c), FirstWire(c, FallbackAction(c)))
  /\ Goto(c, "probe")
  /\ UNCHANGED <<peer, read, got, first, fb, cur, seed, bufs, state, learned>>

(* set_nodelay or a write fails on the new connection, which is dropped. *)
FallbackWriteFails(c) ==
  /\ pc[c] = "connect"
  /\ \E n \in 0..(Len(FirstWire(c, FallbackAction(c))) - 1) :
       Open(c, FallbackAction(c), SubSeq(FirstWire(c, FallbackAction(c)), 1, n))
  /\ NextFallback(c)
  /\ UNCHANGED <<peer, read, got, first, cur, seed, bufs, state, learned>>

FallbackFails(c) ==
  /\ pc[c] = "probe"
  /\ Reset(Probed(c)) \/ Probed(c).end = "err"
  /\ NextFallback(c)
  /\ UNCHANGED <<peer, read, got, att, first, cur, seed, bufs, state, learned>>

FallbackAnswers(c) ==
  /\ pc[c] = "probe"
  /\ \E n \in 1..Probed(c).sent : TakeSeed(c, Len(att[c]), n)
  /\ Learn(c)
  /\ UNCHANGED <<peer, read, got, first, fb, bufs>>

(* Mutant: an accepted fallback is not recorded as a desync. *)
FallbackQuietUnmarked(c) ==
  /\ pc[c] = "probe"
  /\ Silent(Probed(c))
  /\ cur' = [cur EXCEPT ![c] = Len(att[c])]
  /\ Goto(c, "relay")
  /\ Learn(c)
  /\ UNCHANGED <<peer, read, got, att, first, fb, seed, bufs, state>>

FallbackQuiet(c) ==
  /\ pc[c] = "probe"
  /\ Silent(Probed(c))
  /\ cur' = [cur EXCEPT ![c] = Len(att[c])]
  /\ desynced' = [desynced EXCEPT ![c] = TRUE]
  /\ Goto(c, "relay")
  /\ Learn(c)
  /\ UNCHANGED <<peer, read, got, att, first, fb, seed, bufs, responded>>

-----------------------------------------------------------------------------
(* The bidirectional relay.                                                 *)

(* Mutant: the bytes read in the window are dropped. *)
DropSeed(c) ==
  /\ pc[c] = "flush"
  /\ seed' = [seed EXCEPT ![c] = <<>>]
  /\ Goto(c, "relay")
  /\ UNCHANGED <<peer, read, got, att, first, fb, cur, bufs, state, learned>>

FlushSeed(c) ==
  /\ pc[c] = "flush"
  /\ got' = [got EXCEPT ![c] = @ \o seed[c]]
  /\ seed' = [seed EXCEPT ![c] = <<>>]
  /\ Goto(c, "relay")
  /\ UNCHANGED <<peer, read, att, first, fb, cur, bufs, state, learned>>

FlushFails(c) ==
  /\ pc[c] = "flush"
  /\ Broken(Client(c))
  /\ Finish(c)
  /\ UNCHANGED <<peer, read, got, att, first, fb, cur, state, learned>>

UpRead(c) ==
  /\ pc[c] = "relay" /\ upBuf[c] = <<>>
  /\ Available(Client(c))
  /\ read' = [read EXCEPT ![c] = @ + 1]
  /\ upBuf' = [upBuf EXCEPT ![c] = <<read[c] + 1>>]
  /\ UNCHANGED <<peer, got, att, pc, first, fb, cur, seed, downBuf, state, learned>>

UpWrite(c) ==
  /\ pc[c] = "relay" /\ upBuf[c] # <<>>
  /\ att' = [att EXCEPT ![c][cur[c]].wire = @ \o upBuf[c]]
  /\ upBuf' = [upBuf EXCEPT ![c] = <<>>]
  /\ UNCHANGED <<peer, read, got, pc, first, fb, cur, seed, downBuf, state, learned>>

(* Mutant: a half-duplex loop, which answers only after a request. *)
DownReadInTurn(c) ==
  /\ pc[c] = "relay" /\ downBuf[c] = <<>>
  /\ Available(Upstream(c)) /\ read[c] > first[c]
  /\ att' = [att EXCEPT ![c][cur[c]].read = @ + 1]
  /\ downBuf' = [downBuf EXCEPT ![c] = <<<<cur[c], Upstream(c).read + 1>>>>]
  /\ responded' = [responded EXCEPT ![c] = TRUE]
  /\ UNCHANGED <<peer, read, got, pc, first, fb, cur, seed, upBuf, desynced, learned>>

DownRead(c) ==
  /\ pc[c] = "relay" /\ downBuf[c] = <<>>
  /\ Available(Upstream(c))
  /\ att' = [att EXCEPT ![c][cur[c]].read = @ + 1]
  /\ downBuf' = [downBuf EXCEPT ![c] = <<<<cur[c], Upstream(c).read + 1>>>>]
  /\ responded' = [responded EXCEPT ![c] = TRUE]
  /\ UNCHANGED <<peer, read, got, pc, first, fb, cur, seed, upBuf, desynced, learned>>

DownWrite(c) ==
  /\ pc[c] = "relay" /\ downBuf[c] # <<>>
  /\ got' = [got EXCEPT ![c] = @ \o downBuf[c]]
  /\ downBuf' = [downBuf EXCEPT ![c] = <<>>]
  /\ UNCHANGED <<peer, read, att, pc, first, fb, cur, seed, upBuf, state, learned>>

(* A direction meets the end of its input or cannot write its output: its    *)
(* future completes, select! drops the other one, and the task returns.      *)
UpEnds(c) ==
  /\ pc[c] = "relay"
  /\ \/ upBuf[c] = <<>> /\ MeetsEnd(Client(c))
     \/ upBuf[c] # <<>> /\ Broken(Upstream(c))
  /\ Finish(c)
  /\ UNCHANGED <<peer, read, got, att, first, fb, cur, state, learned>>

DownEnds(c) ==
  /\ pc[c] = "relay"
  /\ \/ downBuf[c] = <<>> /\ MeetsEnd(Upstream(c))
     \/ downBuf[c] # <<>> /\ Broken(Client(c))
  /\ Finish(c)
  /\ UNCHANGED <<peer, read, got, att, first, fb, cur, state, learned>>

-----------------------------------------------------------------------------
FirstMessage(c) ==
  Begin(c) \/ NoFirstMessage(c) \/ ReadFirst(c) \/ ReadMore(c) \/ StopReassembly(c)

PrimaryAttempt(c) ==
  ApplyPrimary(c) \/ PrimaryWriteFails(c) \/ EarlyData(c) \/ EarlyRetry(c) \/ EarlyProceed(c)

FallbackChain(c) ==
  \/ ReconnectFails(c) \/ FallbackSent(c) \/ FallbackWriteFails(c)
  \/ FallbackFails(c) \/ FallbackAnswers(c) \/ FallbackQuiet(c)

Setup(c)    == FirstMessage(c) \/ PrimaryAttempt(c) \/ FallbackChain(c)
                 \/ FlushSeed(c) \/ FlushFails(c)
UpLoop(c)   == UpRead(c) \/ UpWrite(c) \/ UpEnds(c)
DownLoop(c) == DownRead(c) \/ DownWrite(c) \/ DownEnds(c)

(* All connections are over. *)
Terminated == (\A c \in Conns : pc[c] = "done") /\ UNCHANGED vars

Next ==
  \/ \E c \in Conns : Environment(c) \/ Setup(c) \/ UpLoop(c) \/ DownLoop(c)
  \/ Terminated

Spec == Init /\ [][Next]_vars

(* The runtime keeps polling the task, and its select! polls the two loops   *)
(* in random order, so that none of them starves.  The peers owe nothing.    *)
Fairness == \A c \in Conns : WF_vars(Setup(c)) /\ WF_vars(UpLoop(c)) /\ WF_vars(DownLoop(c))

FairSpec == Spec /\ Fairness

-----------------------------------------------------------------------------
(* Properties.                                                              *)

Attempt == [act : Actions \cup {"none"}, wire : Seq(Nat), sent : Nat, end : Ends, read : Nat]

(* The types of the variables, and the bound on the chain: one attempt per   *)
(* fallback technique beyond the first.                                      *)
TypeOK ==
  /\ hello \in [Conns -> Payloads] /\ target \in [Conns -> Targets]
  /\ sent \in [Conns -> Nat] /\ ended \in [Conns -> Ends]
  /\ read \in [Conns -> Nat] /\ got \in [Conns -> Seq(Nat \X Nat)]
  /\ att \in [Conns -> Seq(Attempt)]
  /\ pc \in [Conns -> PCs]
  /\ first \in [Conns -> Nat] /\ fb \in [Conns -> Nat] /\ cur \in [Conns -> Nat]
  /\ seed \in [Conns -> Seq(Nat \X Nat)]
  /\ upBuf \in [Conns -> Seq(Nat)] /\ downBuf \in [Conns -> Seq(Nat \X Nat)]
  /\ desynced \in [Conns -> BOOLEAN] /\ responded \in [Conns -> BOOLEAN]
  /\ learned \subseteq Domains
  /\ \A c \in Conns : Len(att[c]) \in 1..(1 + Len(Fallback)) /\ cur[c] \in 1..Len(att[c])

(* What the relay has put on attempt i beyond its first message. *)
Whole(c, i) == att[c][i].act # "none" /\ Len(FirstWire(c, att[c][i].act)) <= Len(att[c][i].wire)
Beyond(c, i) ==
  IF Whole(c, i)
  THEN SubSeq(att[c][i].wire, Len(FirstWire(c, att[c][i].act)) + 1, Len(att[c][i].wire))
  ELSE <<>>

(* Upstream stream integrity: once the relay has settled on an upstream      *)
(* connection, that connection has been sent the first message exactly once  *)
(* and whole, and then every later piece of the client in order, without     *)
(* gap, duplicate, or a piece that went to an abandoned connection: what is  *)
(* read and not yet written is in the loop's buffer.                         *)
UpstreamStream ==
  \A c \in Conns : pc[c] \in {"flush", "relay"} =>
    Upstream(c).wire \o upBuf[c]
      = FirstWire(c, Upstream(c).act) \o Pieces(first[c] + 1, read[c])

(* Downstream stream integrity: the client receives a prefix of the bytes of *)
(* one upstream connection, the one the relay settled on; the bytes read in  *)
(* the early window (the seed) come first, once.                             *)
DownstreamStream ==
  \A c \in Conns :
    /\ pc[c] # "done" => got[c] \o seed[c] \o downBuf[c] = PiecesOf(cur[c], Upstream(c).read)
    /\ got[c] = PiecesOf(cur[c], Len(got[c]))
    /\ \A i \in DOMAIN att[c] \ {cur[c]} : att[c][i].read = 0

(* Hostlist-auto is sound: a domain is in the learned set only if a          *)
(* connection to it was retried and accepted an attempt of the fallback      *)
(* chain.                                                                    *)
LearnedSound == \A d \in learned : \E c \in Conns : target[c] = d /\ cur[c] > 1

(* A first attempt departs from what the operator's rules say only because   *)
(* an earlier connection, to the very domain this payload names, had to be   *)
(* retried.                                                                  *)
HotStartJustified ==
  \A c \in Conns :
    att[c][1].act \notin {"none", Primary(Detected(c, first[c]))} =>
      \E d \in Conns : target[d] = hello[c].domain /\ cur[d] > 1

(* The retry is transparent: a connection on which the proxy has read a      *)
(* byte of the upstream is never abandoned for another attempt, and no       *)
(* attempt is made once the client's later bytes have been taken.            *)
NoRetryAfterData ==
  [][\A c \in Conns :
       Len(att'[c]) > Len(att[c]) =>
         /\ \A i \in DOMAIN att[c] : att[c][i].read = 0
         /\ read[c] = first[c]]_vars

(* Telemetry (ConnState): a connection counts as a failed desync exactly     *)
(* while a technique was applied and no byte of the upstream was read.       *)
TelemetryExact ==
  \A c \in Conns :
    /\ responded[c] <=> (\E i \in DOMAIN att[c] : att[c][i].read > 0)
    /\ desynced[c] <=> (Upstream(c).act \notin {"none", "PassThrough"} \/ cur[c] > 1)

(* Once a first byte has arrived the connection is set up or over: the       *)
(* deadlines of reassembly and of each window, and the finite chain, leave   *)
(* no way to hang.                                                           *)
SetupTerminates == \A c \in Conns : (first[c] > 0) ~> (pc[c] \in {"relay", "done"})

(* The relay loop starves no byte of the upstream: while it runs, the client *)
(* catches up with all the upstream has sent, again and again.               *)
DownstreamDelivered ==
  \A c \in Conns : []<>(pc[c] = "relay" => Len(got[c]) = Upstream(c).sent)

(* The relay implements the abstract tunnel. *)
Tunnels == INSTANCE Tunnel WITH
  Sessions <- 1..(1 + Len(Fallback)),
  Burst <- MaxDown,
  heard <- [c \in Conns |-> {i \in DOMAIN att[c] : Whole(c, i)}],
  up    <- [c \in Conns |-> [n \in DOMAIN Beyond(c, cur[c]) |->
                               <<cur[c], Beyond(c, cur[c])[n] - first[c]>>]],
  down  <- got,
  over  <- [c \in Conns |-> pc[c] = "done"]

ImplementsTunnel == Tunnels!Spec
=============================================================================
