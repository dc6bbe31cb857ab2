------------------------------ MODULE Frontend ------------------------------
(***************************************************************************)
(* The front end of the proxy (src/crates/desyncd-proxy): the accept loop of *)
(* lib.rs and of transparent.rs, the SOCKS4, SOCKS4a and SOCKS5 dialogues of *)
(* socks5.rs, CONNECT and the forward proxy of http_connect.rs, up to the    *)
(* point where a connection is relayed.                                     *)
(*                                                                          *)
(* What a client says is a sequence of units, the fields of a SOCKS message  *)
(* and the words, the CRs and the LFs of an HTTP request, with data behind   *)
(* them.  The network delivers it in pieces that end anywhere.  What becomes *)
(* of a relayed connection is the module Relay's; here it may end any time.  *)
(***************************************************************************)
EXTENDS Naturals, SequencesExt, FiniteSetsExt, Functions

CONSTANTS
  Clients,   \* connections that clients make to the proxy
  Scripts,   \* per client, what it may say: records of Script
  Direct,    \* what a client says in transparent mode: data from the start
  MaxFds     \* the limit on open sockets (a connection needs one, and one upstream)

(* proto: what the first byte says.  said: all units.  head: how many of them *)
(* are the request.  eager: whether the client sends without being told to.   *)
Script ==
  [proto : {"socks5", "socks4", "connect", "forward", "direct", "other"},
   said : Seq(STRING), head : Nat, eager : BOOLEAN]

(* What makes a client's request ill-formed. *)
Flaws == {"bad version", "bad host", "bad port", "long", "junk"}

(* How many units a SOCKS request has, by its own fields: nothing follows the *)
(* one for which it is refused.                                             *)
Socks5Head(said) ==
  IF said[2] # "no auth" THEN 2
  ELSE IF said[3] # "connect" \/ said[4] \notin {"ip", "name"} THEN 4
  ELSE IF said[4] = "ip" \/ said[5] = "zero" THEN 5 ELSE 6

Socks4Head(said) ==
  IF said[1] = "v4 bind" THEN 2 ELSE IF said[2] = "0.0.0.x" /\ said[3] # "long" THEN 4 ELSE 3

(* The ends of the blank lines of an HTTP request. *)
BlankEnds(s) ==
  {j \in 1 .. s.head : s.said[j] = "lf" /\ \E i \in 1 .. j - 1 :
                          s.said[i] = "lf" /\ \A k \in i + 1 .. j - 1 : s.said[k] = "cr"}

(* What a script says is what its protocol calls for: a request is all there, *)
(* a first byte tells the protocol, a field is a word of the protocol or a    *)
(* flaw, and the headers of CONNECT end at the first blank line.              *)
Grammar(s) ==
  /\ s.proto # "direct" /\ s.head \in 1 .. Len(s.said)
  /\ (s.proto = "socks5") = (s.said[1] = "v5")
  /\ s.proto = "other" => s.said[1] \in Flaws
  /\ s.proto = "socks5" => /\ s.head = Socks5Head(s.said)
                           /\ s.head >= 4 => s.said[3] \in {"connect", "bind"} \cup Flaws
  /\ s.proto = "socks4" => s.head = Socks4Head(s.said)
  /\ \/ s.proto = "socks5" /\ s.head = 5 /\ s.said[4] = "ip"
     \/ s.proto = "socks5" /\ s.head = 6
     \/ s.proto = "socks4" /\ s.head = 4
     => s.said[s.head] \in {"address", "host"} \cup Flaws
  /\ s.proto = "connect" => BlankEnds(s) \subseteq {s.head}

ASSUME FrontendAssumption ==
  /\ MaxFds \in Nat \ {0}
  /\ Direct \in Script /\ Direct.proto = "direct" /\ Direct.head = 0
  /\ DOMAIN Scripts = Clients
  /\ \A c \in Clients : Scripts[c] \subseteq Script /\ \A s \in Scripts[c] : Grammar(s)

VARIABLES
  mode,        \* which of the two accept loops runs
  listener,    \* where the loop is
  script,      \* what each client says
  arrived,     \* how many units have reached the proxy
  shut,        \* the clients that have closed
  at,          \* where the task of each connection is
  taken,       \* units taken from the socket
  parsed,      \* units that were parsed, or joined to the request line
  first,       \* HTTP: units in the first read
  headers,     \* HTTP: the header lines collected for the upstream
  told,        \* what each client was answered
  upstream,    \* what the upstream of each connection was sent
  unresolved   \* history: connections whose name was not resolved

inputs == <<mode, script>>
net == <<arrived, shut>>
http == <<parsed, first, headers>>
out == <<upstream, unresolved>>
vars == <<inputs, net, listener, at, taken, http, told, out>>

Said(c) == script[c].said
Proto(c) == script[c].proto

Init ==
  /\ mode \in {"socks", "transparent"}
  /\ script \in [Clients -> {Direct} \cup UNION Range(Scripts)]
  /\ \A c \in Clients : script[c] \in (IF mode = "socks" THEN Scripts[c] ELSE {Direct})
  /\ listener = "accept"
  /\ arrived = [c \in Clients |-> 0] /\ shut = {}
  /\ at = [c \in Clients |-> "waiting"]
  /\ taken = [c \in Clients |-> 0] /\ parsed = [c \in Clients |-> 0]
  /\ first = [c \in Clients |-> 0]
  /\ headers = [c \in Clients |-> <<>>]
  /\ told = [c \in Clients |-> <<>>] /\ upstream = [c \in Clients |-> <<>>]
  /\ unresolved = {}

Goto(c, place) == at' = [at EXCEPT ![c] = place]
Tell(c, reply) == told' = [told EXCEPT ![c] = Append(@, reply)]

(* The task returns; its sockets are closed with it. *)
Close(c) == Goto(c, "closed")

(* The sockets a connection holds. *)
Held(c) == IF at[c] \in {"waiting", "closed"} THEN 0 ELSE IF at[c] = "relay" THEN 2 ELSE 1
Free == MaxFds - MapThenSumSet(Held, Clients)
-----------------------------------------------------------------------------
(* The clients.                                                             *)

(* How much of what it says a client may send: without eagerness the SOCKS5  *)
(* request waits for the answer to the methods, the data for the success.   *)
Allowed(c) ==
  LET s == script[c] IN
  IF s.eager \/ "success" \in Range(told[c]) THEN Len(s.said)
  ELSE IF s.proto = "socks5" /\ told[c] = <<>> THEN 2
  ELSE IF s.proto \in {"forward", "direct"} THEN Len(s.said)
  ELSE s.head

(* Some more of it arrives, in a piece that ends anywhere. *)
Arrive(c) ==
  /\ c \notin shut /\ at[c] # "closed"
  /\ \E n \in arrived[c] + 1 .. Allowed(c) : arrived' = [arrived EXCEPT ![c] = n]
  /\ UNCHANGED <<inputs, listener, shut, at, taken, http, told, out>>

Leave(c) ==
  /\ c \notin shut
  /\ shut' = shut \cup {c}
  /\ UNCHANGED <<inputs, listener, arrived, at, taken, http, told, out>>
-----------------------------------------------------------------------------
(* The accept loops.                                                        *)

Accept(c) ==
  /\ listener = "accept" /\ at[c] = "waiting" /\ Free > 0
  /\ Goto(c, IF mode = "socks" THEN "peek" ELSE "connect")
  /\ UNCHANGED <<inputs, net, listener, taken, http, told, out>>

(* accept fails without a descriptor, or with a connection that the client   *)
(* has given up, which it takes from the queue.                             *)
AcceptError ==
  \/ Free = 0 /\ UNCHANGED at
  \/ \E c \in shut : at[c] = "waiting" /\ Close(c)

(* Mutant: an error ends the loop in either mode. *)
AcceptFailsForGood ==
  /\ listener = "accept" /\ AcceptError /\ listener' = "dead"
  /\ UNCHANGED <<inputs, net, taken, http, told, out>>

(* run_socks_proxy pauses and goes on; run_transparent_proxy returns. *)
AcceptFails ==
  /\ listener = "accept" /\ AcceptError
  /\ listener' = IF mode = "socks" THEN "pause" ELSE "dead"
  /\ UNCHANGED <<inputs, net, taken, http, told, out>>

Resume ==
  /\ listener = "pause" /\ listener' = "accept"
  /\ UNCHANGED <<inputs, net, at, taken, http, told, out>>
-----------------------------------------------------------------------------
(* Reading.                                                                 *)

Eof(c) == c \in shut

(* The next n units have arrived, and are read by read_exact, which takes no *)
(* more than it asks for.                                                    *)
Units(c, n) == SubSeq(Said(c), taken[c] + 1, taken[c] + n)
ReadExact(c, n) == arrived[c] >= taken[c] + n /\ taken' = [taken EXCEPT ![c] = @ + n]

(* The client has left before all of it came. *)
CutShort(c, n) == arrived[c] < taken[c] + n /\ Eof(c) /\ Close(c) /\ UNCHANGED <<taken, told>>

(* peek: nothing is taken.  The first byte of a client that left is zero.    *)
Peek(c) ==
  /\ at[c] = "peek"
  /\ arrived[c] > 0 \/ Eof(c)
  /\ Goto(c, IF arrived[c] = 0 THEN "socks5"
             ELSE CASE Proto(c) = "socks4" -> "socks4"
                    [] Proto(c) \in {"connect", "forward"} -> "http"
                    [] OTHER -> "socks5")
  /\ UNCHANGED <<inputs, net, listener, taken, http, told, out>>
-----------------------------------------------------------------------------
(* SOCKS5 (handle_client) and SOCKS4 (handle_socks4).                       *)

(* A final answer that is not a success, and the end. *)
Refuse(c) == Tell(c, "refused") /\ Close(c)

Silently(c) == Close(c) /\ UNCHANGED told

Proceed(c, place) == Goto(c, place) /\ UNCHANGED told

(* The version with the number of methods, and the methods. *)
Greet(c) ==
  /\ at[c] = "socks5"
  /\ \/ /\ Said(c)[1] # "v5" /\ ReadExact(c, 1) /\ Silently(c)
     \/ /\ Said(c)[1] = "v5" /\ ReadExact(c, 2)
        /\ IF Said(c)[2] = "no auth" THEN Tell(c, "method") /\ Goto(c, "request")
           ELSE Refuse(c)
     \/ CutShort(c, IF Said(c)[1] = "v5" THEN 2 ELSE 1)
  /\ UNCHANGED <<inputs, net, listener, http, out>>

(* The header of the request: the version with the command, the address type. *)
Request(c) ==
  LET command == Units(c, 1)[1]
      atyp == Units(c, 2)[2]
  IN /\ at[c] = "request"
     /\ \/ /\ ReadExact(c, 2)
           /\ CASE command = "bind"    -> Refuse(c)
                [] command = "connect" -> CASE atyp = "ip"   -> Proceed(c, "address")
                                            [] atyp = "name" -> Proceed(c, "length")
                                            [] OTHER         -> Refuse(c)
                [] OTHER               -> Silently(c)   \* another version
        \/ CutShort(c, 2)
     /\ UNCHANGED <<inputs, net, listener, http, out>>

(* The length of the name, in a read of its own. *)
Length(c) ==
  /\ at[c] = "length"
  /\ \/ ReadExact(c, 1) /\ IF Units(c, 1)[1] = "zero" THEN Refuse(c) ELSE Proceed(c, "address")
     \/ CutShort(c, 1)
  /\ UNCHANGED <<inputs, net, listener, http, out>>

(* Mutant: the address is read by read, which takes all there is. *)
AddressByRead(c) ==
  /\ at[c] = "address"
  /\ \/ /\ arrived[c] > taken[c] /\ taken' = [taken EXCEPT ![c] = arrived[c]]
        /\ CASE Units(c, 1)[1] = "address" -> Proceed(c, "connect")
             [] Units(c, 1)[1] = "host"    -> Proceed(c, "resolve")
             [] OTHER                      -> Silently(c)
     \/ CutShort(c, 1)
  /\ UNCHANGED <<inputs, net, listener, http, out>>

(* The address and the port, or the name and the port; SOCKS4a's name. *)
Address(c) ==
  /\ at[c] = "address"
  /\ \/ /\ ReadExact(c, 1)
        /\ CASE Units(c, 1)[1] = "address" -> Proceed(c, "connect")
             [] Units(c, 1)[1] = "host"    -> Proceed(c, "resolve")
             [] OTHER                      -> Silently(c)
     \/ CutShort(c, 1)
  /\ UNCHANGED <<inputs, net, listener, http, out>>

(* SOCKS4: the version, the command and the address. *)
Header4(c) ==
  /\ at[c] = "socks4"
  /\ \/ /\ ReadExact(c, 2)
        /\ IF Units(c, 2)[1] = "v4 bind" THEN Refuse(c) ELSE Proceed(c, "userid")
     \/ CutShort(c, 2)
  /\ UNCHANGED <<inputs, net, listener, http, out>>

(* SOCKS4: the user id, byte by byte up to its limit, and what follows it:   *)
(* the name, if the address says so.                                        *)
UserId(c) ==
  /\ at[c] = "userid"
  /\ \/ /\ ReadExact(c, 1)
        /\ IF Units(c, 1)[1] = "long" THEN Silently(c)
           ELSE Proceed(c, IF Said(c)[2] = "0.0.0.x" THEN "address" ELSE "connect")
     \/ CutShort(c, 1)
  /\ UNCHANGED <<inputs, net, listener, http, out>>
-----------------------------------------------------------------------------
(* HTTP (handle_http_proxy).                                                *)

(* The last unit of the line that begins behind unit i, if it has arrived. *)
LineEnds(c, i) == {j \in i + 1 .. arrived[c] : Said(c)[j] = "lf"}

(* The lines of a text, by where they begin, and what is left of one of them *)
(* when it is trimmed.                                                      *)
Starts(text) == {1} \cup {i \in 2 .. Len(text) : text[i - 1] = "lf"}
LineAt(text, i) ==
  LET words == {j \in i .. Len(text) : text[j] # "cr" /\ \A k \in i .. j : text[k] # "lf"}
  IN IF words = {} THEN <<>> ELSE SubSeq(text, Min(words), Max(words))

(* The text behind the words of the request line. *)
Remaining(text) == SubSeq(text, Len(LineAt(text, 1)) + 1, Len(text))

(* Mutant: only an end of lines without CR is looked for. *)
HeadersCompleteLf(text) ==
  \E i \in DOMAIN text : IsPrefix(<<"lf", "lf">>, SubSeq(text, i, Len(text)))

(* CONNECT: whether the text contains the end of the headers. *)
HeadersComplete(text) ==
  \E i \in DOMAIN text : \E end \in {<<"cr", "lf", "cr", "lf">>, <<"lf", "lf">>} :
    IsPrefix(end, SubSeq(text, i, Len(text)))

(* Forward proxy: the lines of the text up to a blank one. *)
Blank(text) == {i \in Starts(text) : LineAt(text, i) = <<>>}
HeaderLines(text) ==
  FlattenSeq([i \in DOMAIN text |->
                IF i \in Starts(text) /\ \A b \in Blank(text) : i < b THEN <<LineAt(text, i)>> ELSE <<>>])

(* The request line is there, with whatever was read together with it. *)
HaveLine(c, text) ==
  \E words \in {LineAt(text, 1)}, remaining \in {Remaining(text)} :
    CASE Len(words) < 3 -> Refuse(c) /\ UNCHANGED headers
      [] Len(words) >= 3 /\ Proto(c) = "connect" ->
           Proceed(c, IF HeadersComplete(remaining) THEN "resolve" ELSE "headers")
           /\ UNCHANGED headers
      [] OTHER ->
           /\ headers' = [headers EXCEPT ![c] = HeaderLines(remaining)]
           /\ Proceed(c, IF Blank(remaining) # {} THEN "resolve" ELSE "headers")

(* One read, of all that has arrived. *)
FirstRead(c) ==
  LET n == arrived[c]
  IN /\ at[c] = "http"
     /\ taken' = [taken EXCEPT ![c] = n] /\ parsed' = [parsed EXCEPT ![c] = n]
     /\ first' = [first EXCEPT ![c] = n]
     /\ IF LineEnds(c, 0) # {} THEN \E text \in {SubSeq(Said(c), 1, n)} : HaveLine(c, text)
        ELSE Proceed(c, "line") /\ UNCHANGED headers
     /\ UNCHANGED <<inputs, net, listener, out>>

(* read_line of a BufReader, up to unit n: what the buffer does not hold is  *)
(* read with all that has arrived behind it.                                *)
ReadLine(c, n) ==
  /\ parsed' = [parsed EXCEPT ![c] = n]
  /\ taken' = [taken EXCEPT ![c] = IF n > @ THEN arrived[c] ELSE @]

(* The end of the next line, or of all that the client said. *)
LineEnd(c) ==
  IF LineEnds(c, parsed[c]) # {} THEN {Min(LineEnds(c, parsed[c]))}
  ELSE IF Eof(c) THEN {arrived[c]} ELSE {}

(* The rest of the request line. *)
RequestLine(c) ==
  /\ at[c] = "line"
  /\ \E n \in LineEnd(c) : \E text \in {SubSeq(Said(c), 1, n)} : ReadLine(c, n) /\ HaveLine(c, text)
  /\ UNCHANGED <<inputs, net, listener, first, out>>

(* One more line of the headers; the end of the stream ends them, too. *)
HeaderLine(c) ==
  /\ at[c] = "headers"
  /\ \E n \in LineEnd(c) :
       LET line == LineAt(SubSeq(Said(c), 1, n), parsed[c] + 1)
       IN /\ ReadLine(c, n)
          /\ IF line = <<>> THEN Proceed(c, "resolve") /\ UNCHANGED headers
             ELSE /\ UNCHANGED <<at, told>>
                  /\ headers' = IF Proto(c) = "connect" THEN headers
                                ELSE [headers EXCEPT ![c] = Append(@, line)]
  /\ UNCHANGED <<inputs, net, listener, first, out>>
-----------------------------------------------------------------------------
(* What all have in common.                                                 *)

(* The name is looked up; a failure is returned by ?, as is a target whose   *)
(* port is no number (parse_host_port).  What a BufReader holds is dropped.  *)
Resolve(c) ==
  /\ at[c] = "resolve"
  /\ IF "bad port" \in Range(Said(c)) THEN Close(c) /\ UNCHANGED unresolved
     ELSE \/ Goto(c, "connect") /\ UNCHANGED unresolved
          \/ Close(c) /\ unresolved' = unresolved \cup {c}
  /\ UNCHANGED <<inputs, net, listener, taken, http, told, upstream>>

(* handle_forward_proxy's request. *)
Rewritten(c) ==
  LET Kept(h) == IF h[1] = "proxy-" THEN <<>> ELSE h
      host == IF \E k \in DOMAIN headers[c] : headers[c][k][1] = "host" THEN <<>> ELSE <<"host">>
  IN <<"GET", "path">> \o FlattenSeq([k \in DOMAIN headers[c] |-> Kept(headers[c][k])]) \o host \o <<"close">>

(* Mutant: a connection that fails is reported to the log alone. *)
ConnectQuietly(c) ==
  /\ at[c] = "connect"
  /\ \/ /\ Free > 0 /\ Goto(c, "relay")
        /\ IF Proto(c) \in {"forward", "direct"} THEN UNCHANGED told ELSE Tell(c, "success")
        /\ upstream' = [upstream EXCEPT ![c] = IF Proto(c) = "forward" THEN Rewritten(c) ELSE <<>>]
     \/ Silently(c) /\ UNCHANGED upstream
  /\ UNCHANGED <<inputs, net, listener, taken, http, unresolved>>

(* The upstream connection: success is told before the relay begins, except  *)
(* by the forward proxy, which sends its request, and in transparent mode;   *)
(* a write to a client that has left may fail.                               *)
Connect(c) ==
  /\ at[c] = "connect"
  /\ \/ /\ Free > 0
        /\ Goto(c, "relay")
        /\ IF Proto(c) \in {"forward", "direct"} THEN UNCHANGED told ELSE Tell(c, "success")
        /\ upstream' = [upstream EXCEPT ![c] = IF Proto(c) = "forward" THEN Rewritten(c) ELSE <<>>]
     \/ (IF Proto(c) = "direct" THEN Silently(c) ELSE Refuse(c)) /\ UNCHANGED upstream
     \/ Eof(c) /\ Silently(c) /\ UNCHANGED upstream
  /\ UNCHANGED <<inputs, net, listener, taken, http, unresolved>>

(* The relay, or the loops of the forward proxy: what the client says next   *)
(* reaches the upstream; any side may end it.                                *)
RelayOne(c) ==
  /\ at[c] = "relay" /\ taken[c] < arrived[c]
  /\ taken' = [taken EXCEPT ![c] = @ + 1]
  /\ upstream' = [upstream EXCEPT ![c] = Append(@, Said(c)[taken[c] + 1])]
  /\ UNCHANGED <<inputs, net, listener, at, http, told, unresolved>>

RelayEnds(c) ==
  /\ at[c] = "relay"
  /\ Close(c)
  /\ UNCHANGED <<inputs, net, listener, taken, http, told, out>>
-----------------------------------------------------------------------------
Handshake(c) ==
  \/ Peek(c)
  \/ Greet(c) \/ Request(c) \/ Length(c) \/ Address(c) \/ Header4(c) \/ UserId(c)
  \/ FirstRead(c) \/ RequestLine(c) \/ HeaderLine(c)
  \/ Resolve(c) \/ Connect(c)

Listener == (\E c \in Clients : Accept(c)) \/ AcceptFails \/ Resume

Next ==
  \/ Listener
  \/ \E c \in Clients : Handshake(c) \/ RelayOne(c) \/ RelayEnds(c) \/ Arrive(c) \/ Leave(c)

(* The loop and the tasks run as long as they can: connecting and resolving   *)
(* end by their timeouts.  Clients and upstreams owe nothing.                *)
Spec ==
  /\ Init /\ [][Next]_vars
  /\ WF_vars(Listener) /\ \A c \in Clients : WF_vars(Handshake(c))
-----------------------------------------------------------------------------
(* Properties.                                                              *)

Data(c) == SubSeq(Said(c), script[c].head + 1, Len(Said(c)))

(* The first read ended with the text of a header, or between the CR and the  *)
(* LF behind it: what is left of the line is taken for the blank line.       *)
CutAtLineEnd(c) ==
  /\ first[c] \in 1 .. script[c].head - 2
  /\ Said(c)[first[c]] # "lf" /\ Said(c)[first[c] + 1] \in {"cr", "lf"}
  /\ \E j \in 1 .. first[c] : Said(c)[j] = "lf"

(* Nothing of the dialogue reaches the upstream, and nothing behind it is     *)
(* lost, however the client's bytes are cut into pieces: the relay begins at  *)
(* the first byte of the tunnel, also when a SOCKS client does not wait for   *)
(* an answer.  For CONNECT the client has to wait for the success (what is   *)
(* read ahead is dropped), and no header may be cut at the end of its line.  *)
TunnelIntact ==
  \A c \in Clients :
    (\/ Proto(c) \in {"socks4", "socks5", "direct"}
     \/ Proto(c) = "connect" /\ ~ script[c].eager /\ ~ CutAtLineEnd(c))
    => IsPrefix(upstream[c], Data(c))

(* A client whose request is well-formed and complete learns when it is not   *)
(* carried out (RFC 1928, which socks5.rs implements), whichever step fails; *)
(* except when the name cannot be resolved: then the connection just ends.    *)
RefusalTold ==
  \A c \in Clients :
    /\ at[c] = "closed" /\ c \notin shut \cup unresolved
    /\ arrived[c] >= script[c].head /\ Range(Said(c)) \cap Flaws = {}
    /\ Proto(c) # "direct"
    => (\E i \in DOMAIN told[c] : told[c][i] \in {"refused", "success"}) \/ upstream[c] # <<>>

(* No dialogue hangs: when all of the request has arrived, in whatever        *)
(* pieces, or the client has left, the task gets to the relay or ends.       *)
DialogueEnds ==
  \A c \in Clients :
    (at[c] # "waiting" /\ (arrived[c] >= script[c].head \/ c \in shut))
      ~> at[c] \in {"relay", "closed"}

(* "Transient errors (fd exhaustion, etc.) should not crash the proxy": when  *)
(* descriptors are free again, for good, the clients that wait are accepted. *)
KeepsAccepting ==
  mode = "socks" /\ <>[](Free > 0) => <>[](\A c \in Clients : at[c] # "waiting")

(* "Forward headers, filtering out proxy-specific ones": the request that the *)
(* forward proxy sends has the end-to-end headers of the client's.            *)
HeadersForwarded ==
  \A c \in Clients :
    at[c] = "relay" /\ Proto(c) = "forward" /\ "cookie" \in Range(Said(c))
      => "cookie" \in Range(upstream[c])
=============================================================================
