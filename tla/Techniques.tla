----------------------------- MODULE Techniques -----------------------------
(***************************************************************************)
(* desyncd-desync (src/crates/desyncd-desync/src): what each technique does *)
(* to the bytes of a first message, and apply_chain (combo.rs), which feeds *)
(* a message through several of them.  With it the parsers of               *)
(* desyncd-packet that say where the host name of the message stands.       *)
(*                                                                          *)
(* A payload is a sequence of units, each standing for one byte:            *)
(*   rec     first byte of a TLS record's header, v its length field        *)
(*   fill    the rest of that header                                        *)
(*   hs      byte v of the client's handshake message                       *)
(*   mixed, dot   byte v of the name as sni_manip writes it                 *)
(*   app     byte v that follows the ClientHello                            *)
(*   http, host, sp, tab, fold, val, decoy   the parts of an HTTP request   *)
(*           (host is the header's name and colon, val byte v of its value) *)
(*   fake    a whole fake record                                            *)
(* Offsets count the units before a place, from 0, as in the code.          *)
(***************************************************************************)
EXTENDS Integers, SequencesExt

CONSTANTS
  Inputs,   \* first messages, see Input
  Jobs      \* techniques asked for, see Job

Kinds == {"rec", "fill", "hs", "mixed", "dot", "app",
          "http", "host", "sp", "tab", "fold", "val", "decoy", "fake"}
Unit == [k : Kinds, v : Nat]
U(k, v) == [k |-> k, v |-> v]
Units(k, n) == [i \in 1..n |-> U(k, i)]

(* A message in the shape "tls", "http" or "other": pre bytes, its host name *)
(* (a sequence of characters), tail bytes.  A ClientHello's handshake bytes  *)
(* come in records that end at `cuts`; `more` bytes follow the message; only *)
(* the first `read` bytes are there when the technique runs.                 *)
Input == [shape : {"tls", "http", "other"}, named : BOOLEAN, pre : Nat \ {0}, name : Seq(STRING), tail : Nat,
          cuts : SUBSET Nat, more : Nat, read : Nat]
MessageLen(m) == m.pre + Len(m.name) + m.tail

(* A SplitPosition, a TechniqueConfig with its stealth jitter, and a job:    *)
(* one technique by its configuration, or a chain of techniques.             *)
Position == [at : {"Absolute", "Sni", "Random", "SniExtStart", "EndSld", "MidSld"}, delta : Int,
             lo : Nat, hi : Nat]
Config == [name : STRING, pos : Position, jitter : Nat, fragments : Nat, mode : STRING]
Job    == [chain : BOOLEAN, techs : Seq(Config)]

(* A client sends no empty name and no empty record; a technique is asked for *)
(* by one configuration.                                                      *)
ASSUME TechniquesAssumption ==
  /\ Inputs \subseteq Input /\ Jobs \subseteq Job
  /\ \A m \in Inputs : /\ m.named => m.name # <<>>
                       /\ m.cuts \subseteq 1..(MessageLen(m) - 1)
  /\ \A j \in Jobs : j.chain \/ Len(j.techs) = 1

VARIABLES
  input, job,  \* the message, and what is to be done to it
  next,        \* place in the job
  current,     \* current_payload
  prefix,      \* accumulated_prefix
  split,       \* final_split, empty before the last technique has split
  result       \* the DesyncAction, once there is one

vars == <<input, job, next, current, prefix, split, result>>

-----------------------------------------------------------------------------
(* TLS records.                                                             *)

HeaderLen == 5
Header(n) == <<U("rec", n)>> \o [i \in 1..(HeaderLen - 1) |-> U("fill", 0)]

(* `data` in records that end at the cuts: a header in front of its first    *)
(* byte and of each byte that follows a cut, and one alone for a record that *)
(* a cut at either end of the data leaves empty.                             *)
EndAfter(ends, i) == Min({e \in ends : e > i})
Framed(data, ends) ==
  [i \in DOMAIN data |->
     (IF i = 1 \/ i - 1 \in ends THEN Header(EndAfter(ends, i - 1) - (i - 1)) ELSE <<>>) \o <<data[i]>>]
WriteRecords(data, cuts) ==
  LET Empty(cut) == IF cut \in cuts THEN Header(0) ELSE <<>>
  IN Empty(0) \o FlattenSeq(Framed(data, cuts \cup {Len(data)})) \o Empty(Len(data))

IsHeader(p, i)   == i + HeaderLen - 1 <= Len(p) /\ SubSeq(p, i, i + HeaderLen - 1) = Header(p[i].v)
RecordEnd(p, i)  == i + HeaderLen - 1 + p[i].v
RecordData(p, i) == SubSeq(p, i + HeaderLen, RecordEnd(p, i))

(* The data of each record of p; an empty one for a record that is not all   *)
(* there, which ends the parse with NeedMore, as a first record that has no  *)
(* data ends it with NotTls.                                                 *)
Records(p) ==
  LET From[i \in 1..(Len(p) + 1)] ==
        IF ~IsHeader(p, i) THEN <<>>
        ELSE IF RecordEnd(p, i) > Len(p) THEN <<<<>>>>
        ELSE <<RecordData(p, i)>> \o From[RecordEnd(p, i) + 1]
  IN From[1]

Handshake(p) == FlattenSeq(Records(p))

-----------------------------------------------------------------------------
(* detect_protocol.                                                         *)

Original(m) ==
  LET whole == IF m.shape = "tls"
               THEN WriteRecords(Units("hs", MessageLen(m)), m.cuts) \o Units("app", m.more)
               ELSE IF m.shape = "http"
               THEN Units("http", m.pre)
                    \o (IF m.named THEN <<U("host", 0), U("sp", 0)>> \o Units("val", Len(m.name)) ELSE <<>>)
                    \o [i \in 1..m.tail |-> U("http", m.pre + i)]
               ELSE Units("app", m.more)
  IN SubSeq(whole, 1, IF m.read < Len(whole) THEN m.read ELSE Len(whole))

(* try_parse_client_hello: the records' data is a whole ClientHello. *)
IsClientHello(m, p) ==
  /\ m.shape = "tls"
  /\ Records(p) # <<>> /\ \A i \in DOMAIN Records(p) : Records(p)[i] # <<>>
  /\ Len(Handshake(p)) >= MessageLen(m)
  /\ Handshake(p)[1] = U("hs", 1)

(* The walk through the extensions finds the name where all in front of it   *)
(* is as the client wrote it (a walk through anything else finds none).      *)
HasSni(m, p) ==
  IsClientHello(m, p) /\ m.named /\ SubSeq(Handshake(p), 1, m.pre) = Units("hs", m.pre)

(* parse_sni_extension: the place in the reassembled handshake, plus ONE     *)
(* record header.                                                            *)
SniOffset(m) == HeaderLen + m.pre

(* find_host_header: the offset of the first byte of the value.  (`Behind` is *)
(* the place behind the units of some kinds that follow place i.)             *)
HostAt(p) == CHOOSE i \in DOMAIN p : p[i].k = "host" /\ \A j \in DOMAIN p : p[j].k = "host" => i <= j
HasHost(m, p) ==
  m.shape = "http" /\ p # <<>> /\ p[1] = U("http", 1) /\ \E i \in DOMAIN p : p[i].k = "host"
Behind(p, i, kinds) ==
  CHOOSE o \in i..Len(p) :
    /\ \A j \in (i + 1)..o : p[j].k \in kinds
    /\ o = Len(p) \/ p[o + 1].k \notin kinds
HostOffset(p) == Behind(p, HostAt(p), {"sp"})

-----------------------------------------------------------------------------
(* Split positions.  Each is the set of the offsets it may resolve to, empty *)
(* when it does not apply to the payload.                                    *)

DefaultSplitOffset(m, p) ==
  IF HasSni(m, p) THEN {SniOffset(m)} ELSE IF HasHost(m, p) THEN {HostOffset(p)} ELSE {}

(* sld_range: the second-level domain, from its first byte to the last dot. *)
Dots(name) == {i \in DOMAIN name : name[i] = "."}
SldEnd(name)   == Max(Dots(name)) - 1
SldStart(name) == Max({0} \cup {d \in Dots(name) : d <= SldEnd(name)})
HasSld(name)   == Dots(name) # {} /\ SldStart(name) < SldEnd(name)

Within(p, offsets) == {o \in offsets : 0 <= o /\ o < Len(p)}
SldOffset(m, p, o) == IF HasSni(m, p) /\ HasSld(m.name) THEN {SniOffset(m) + o} ELSE {}

Base(m, p, pos) ==
  CASE pos.at = "Absolute"    -> Within(p, {pos.lo})
    [] pos.at = "Sni"         -> DefaultSplitOffset(m, p)
    [] pos.at = "Random"      -> IF pos.lo < pos.hi /\ pos.hi < Len(p) THEN pos.lo..(pos.hi - 1) ELSE {}
    [] pos.at = "SniExtStart" -> IF HasSni(m, p) THEN Within(p, {SniOffset(m) - 9}) ELSE {}
    [] pos.at = "EndSld"      -> Within(p, SldOffset(m, p, SldEnd(m.name)))
    [] pos.at = "MidSld"      -> Within(p, SldOffset(m, p,
                                   SldStart(m.name) + (SldEnd(m.name) - SldStart(m.name)) \div 2))

(* SniOffset and OffsetFrom: a marker and a distance. *)
Resolve(m, p, pos) ==
  IF pos.delta = 0 THEN Base(m, p, pos) ELSE Within(p, {o + pos.delta : o \in Base(m, p, pos)})

Clamp(x, lo, hi) == IF x < lo THEN lo ELSE IF x > hi THEN hi ELSE x

(* resolve_split_position_with_jitter, through TechniqueRegistry::apply. *)
Offsets(m, p, c) ==
  IF c.jitter = 0 THEN Resolve(m, p, c.pos)
  ELSE {LET up == IF o + d < 1 THEN 1 ELSE o + d IN IF up < Len(p) THEN up ELSE Len(p) - 1
        : o \in Resolve(m, p, c.pos), d \in -c.jitter..c.jitter}

-----------------------------------------------------------------------------
(* The techniques.  Each is the set of the DesyncActions it may return.      *)

Action(type, chunks) == [type |-> type, chunks |-> chunks]
PassThrough   == Action("PassThrough", <<>>)
NotApplicable == Action("NotApplicable", <<>>)
Replace(p)    == Action("Replace", <<p>>)
Split(chunks) == Action("Split", chunks)

Halves(p, o) == <<SubSeq(p, 1, o), SubSeq(p, o + 1, Len(p))>>

TcpSplit(p, offsets) ==
  IF offsets = {} THEN {NotApplicable}
  ELSE {IF o >= Len(p) THEN PassThrough ELSE Split(Halves(p, o)) : o \in offsets}

Disorder(p, offsets) ==
  IF offsets = {} THEN {NotApplicable}
  ELSE {IF o >= Len(p) THEN PassThrough ELSE Split(<<Halves(p, o)[2], Halves(p, o)[1]>>) : o \in offsets}

(* Mutant: the offset in the payload is taken for one in the record's data. *)
InDataWire(o, len) == Clamp(o, 1, len - 1)

(* Mutant: the clamp lets the second fragment be empty. *)
InDataLoose(o, len) == Clamp(IF o > HeaderLen THEN o - HeaderLen ELSE 1, 1, len)

(* An offset in the payload as one in the data of its first record, such     *)
(* that neither side of it is empty.                                         *)
InData(o, len) == Clamp(IF o > HeaderLen THEN o - HeaderLen ELSE 1, 1, len - 1)

(* Both fragmentations rebuild the first record, and only that. *)
TlsRecordFrag(m, p, offsets) ==
  IF ~HasSni(m, p) \/ p[1].v < 2 \/ offsets = {} THEN {NotApplicable}
  ELSE {Replace(WriteRecords(RecordData(p, 1), {InData(o, p[1].v)})) : o \in offsets}

(* Mutant: the cuts are spaced for n fragments in front of the name. *)
SplitPointsShort(len, s, n) == {Clamp((s * i) \div n, 1, len - 1) : i \in 1..(n - 1)}

(* compute_split_points: n - 1 evenly spaced cuts, the last of them at s. *)
SplitPoints(len, s, n) == {Clamp((s * i) \div (n - 1), 1, len - 1) : i \in 1..(n - 1)}

MultiStreamFrag(m, p, offsets, fragments) ==
  LET n == Clamp(IF fragments = 0 THEN 3 ELSE fragments, 2, 8)
      len == p[1].v
      places == IF offsets = {} THEN {HeaderLen + len \div 2} ELSE offsets
  IN IF ~HasSni(m, p) \/ len < n THEN {NotApplicable}
     ELSE {Replace(WriteRecords(RecordData(p, 1), SplitPoints(len, InData(o, len), n))) : o \in places}

FakePacket(m, p) ==
  IF IsClientHello(m, p) THEN {Action("InjectBefore", <<<<U("fake", 0)>>>>)} ELSE {NotApplicable}

(* MixedCase and Pad write the name in mixed case over the name, Remove      *)
(* writes dots.                                                              *)
SniManip(m, p, mode) ==
  LET o == SniOffset(m)
      n == Len(m.name)
      k == IF mode = "Remove" THEN "dot" ELSE "mixed"
  IN IF ~HasSni(m, p) \/ o + n > Len(p) THEN {NotApplicable}
     ELSE {Replace([i \in DOMAIN p |-> IF o < i /\ i <= o + n THEN U(k, i - o) ELSE p[i]])}

(* replace_host_line: the Host line up to its end, with another separator    *)
(* in front of the trimmed value and something behind it.                    *)
HostLine(p, separator, behind) ==
  LET h == HostAt(p)
      v == Behind(p, h, {"sp", "tab"})
      e == Behind(p, v, {"val"})
  IN SubSeq(p, 1, h) \o separator \o SubSeq(p, v + 1, e) \o behind \o SubSeq(p, e + 1, Len(p))

HttpHost(m, p, mode) ==
  IF ~HasHost(m, p) THEN {NotApplicable}
  ELSE {Replace(CASE mode = "ExtraSpace"      -> HostLine(p, [i \in 1..3 |-> U("sp", 0)], <<>>)
                  [] mode = "Tab"             -> HostLine(p, <<U("tab", 0)>>, <<>>)
                  [] mode = "LineWrapping"    -> HostLine(p, <<U("fold", 0)>>, <<>>)
                  [] mode = "DuplicateHeader" -> HostLine(p, <<U("sp", 0)>>, <<U("decoy", 0)>>)
                  [] OTHER                    -> [p EXCEPT ![HostAt(p)].v = 1])}

(* add_tls_padding, which no technique calls yet, on the lengths it reads: of *)
(* the payload, the record, the handshake message and its extensions, which   *)
(* begin after `at` bytes.  With the widths its checks keep the fields to.    *)
MaxU16 == 65535
MaxU24 == 16777215
AddPadding(l, pad) ==
  LET grown == [l EXCEPT !.len = @ + 4 + pad, !.record = @ + 4 + pad,
                         !.hs = @ + 4 + pad, !.ext = @ + 4 + pad]
  IN IF l.at + l.ext <= l.len /\ grown.ext <= MaxU16 /\ grown.record <= MaxU16 /\ grown.hs <= MaxU24
     THEN <<grown>> ELSE <<>>

(* TechniqueRegistry::apply. *)
Apply(m, p, c) ==
  CASE c.name = "tcp_split"         -> TcpSplit(p, Offsets(m, p, c))
    [] c.name = "disorder"          -> Disorder(p, Offsets(m, p, c))
    [] c.name = "tls_record_frag"   -> TlsRecordFrag(m, p, Offsets(m, p, c))
    [] c.name = "multi_stream_frag" -> MultiStreamFrag(m, p, Offsets(m, p, c), c.fragments)
    [] c.name = "fake_packet"       -> FakePacket(m, p)
    [] c.name = "sni_manip"         -> SniManip(m, p, c.mode)
    [] c.name = "http_host"         -> HttpHost(m, p, c.mode)
    [] OTHER                        -> {NotApplicable}

-----------------------------------------------------------------------------
None == Action("None", <<>>)

Init ==
  /\ input \in Inputs /\ job \in Jobs
  /\ next = 1
  /\ current = Original(input)
  /\ prefix = <<>> /\ split = <<>>
  /\ result = None

(* apply_technique_cfg. *)
ApplyOne ==
  /\ ~job.chain /\ result = None
  /\ result' \in Apply(input, current, job.techs[1])
  /\ UNCHANGED <<input, job, next, current, prefix, split>>

(* A chain passes on the name and the position of a technique, and nothing   *)
(* else of its configuration.                                                *)
Bare(c) == [c EXCEPT !.jitter = 0, !.fragments = 0, !.mode = "none"]

(* Mutant: a split replaces what is known of the payload by its first piece. *)
AbsorbFirst(a) ==
  /\ current' = IF a.type \in {"Replace", "Split"} THEN a.chunks[1] ELSE current
  /\ split' = IF a.type = "Split" /\ next = Len(job.techs) THEN a.chunks ELSE split
  /\ prefix' = IF a.type = "InjectBefore" THEN prefix \o a.chunks ELSE prefix

(* What a technique of a chain does to the payload the next one gets: the    *)
(* pieces of a split are put together again, unless it is the last.          *)
Absorb(a) ==
  /\ current' = IF a.type = "Replace" \/ (a.type = "Split" /\ next < Len(job.techs))
                THEN FlattenSeq(a.chunks) ELSE current
  /\ split' = IF a.type = "Split" /\ next = Len(job.techs) THEN a.chunks ELSE split
  /\ prefix' = IF a.type = "InjectBefore" THEN prefix \o a.chunks ELSE prefix

ChainStep ==
  /\ job.chain /\ result = None /\ next <= Len(job.techs)
  /\ \E a \in Apply(input, current, Bare(job.techs[next])) : Absorb(a)
  /\ next' = next + 1
  /\ UNCHANGED <<input, job, result>>

(* The combined result.  Fakes without a split go in front of the payload    *)
(* the caller holds, whatever the chain has made of it.                      *)
Combined ==
  IF split # <<>> THEN Split(prefix \o split)
  ELSE IF prefix # <<>> THEN Action("InjectBefore", prefix)
  ELSE IF current # Original(input) THEN Replace(current)
  ELSE PassThrough

ChainEnd ==
  /\ job.chain /\ result = None /\ next > Len(job.techs)
  /\ result' = Combined
  /\ UNCHANGED <<input, job, next, current, prefix, split>>

Next == ApplyOne \/ ChainStep \/ ChainEnd

Spec == Init /\ [][Next]_vars

-----------------------------------------------------------------------------
(* execute_action: what is written, write by write. *)
Segments ==
  IF result.type \in {"Replace", "Split"} THEN result.chunks
  ELSE IF result.type = "InjectBefore" THEN Append(result.chunks, Original(input))
  ELSE <<Original(input)>>

(* The segments as a receiver that puts them in the order of the stream reads *)
(* them: a disorder exchanges the last two.                                   *)
InOrder ==
  LET n == Len(Segments)
  IN IF job.techs # <<>> /\ job.techs[Len(job.techs)].name = "disorder" /\ result.type = "Split"
     THEN [Segments EXCEPT ![n - 1] = Segments[n], ![n] = Segments[n - 1]]
     ELSE Segments

(* A unit as a server takes it: names do not depend on their case. *)
Plain(m, u) == IF u.k \in {"mixed", "dot"} THEN U("hs", m.pre + u.v)
               ELSE IF u.k = "host" THEN U("host", 0) ELSE u
PlainSeq(m, p) == [i \in DOMAIN p |-> Plain(m, p[i])]

(* What it makes of the bytes, headers, folding, decoys and fakes aside. *)
Ignored == {"rec", "fill", "fake", "decoy", "sp", "tab", "fold"}
Content(m, p) == FlattenSeq([i \in DOMAIN p |-> IF p[i].k \in Ignored THEN <<>> ELSE <<Plain(m, p[i])>>])
Genuine(p)    == FlattenSeq([i \in DOMAIN p |-> IF p[i].k = "fake" THEN <<>> ELSE <<p[i]>>])

Survives ==
  LET wire == Genuine(FlattenSeq(InOrder))
  IN /\ Content(input, wire) = Content(input, Original(input))
     /\ IsClientHello(input, Original(input)) =>
          PlainSeq(input, Handshake(wire)) = Handshake(Original(input))

Done == result # None
Names == {job.techs[i].name : i \in DOMAIN job.techs}
RecordTools == {"tls_record_frag", "multi_stream_frag"}

(* No technique that takes a message for one record meets one in several: not *)
(* the client's, and none that an earlier technique of the chain has made.    *)
OneRecord ==
  /\ Names \cap (RecordTools \cup {"sni_manip"}) # {} => input.cuts = {}
  /\ Names \cap RecordTools # {} => input.more = 0
  /\ \A i, j \in DOMAIN job.techs :
       i < j /\ job.techs[i].name \in RecordTools =>
         job.techs[j].name \notin RecordTools \cup {"sni_manip"}
LastDisorder == \A i \in 1..(Len(job.techs) - 1) : job.techs[i].name # "disorder"

(* Whatever the position, the jitter, the mode and the combination: the       *)
(* server reads the request, or reassembles the handshake message, that the   *)
(* client sent, but for the case of its name.  (Fakes aside; a message in     *)
(* several records and a disorder that is not the last of its chain are       *)
(* other matters, see RecordsSurvive.)                                        *)
MessageSurvives == Done /\ OneRecord /\ LastDisorder => Survives

(* No technique writes a TLS record without data, which a server refuses, at  *)
(* whatever edge of the record its cuts fall.                                 *)
NoEmptyRecord ==
  \A i \in DOMAIN Segments : \A j \in DOMAIN Segments[i] :
    IsHeader(Segments[i], j) => Segments[i][j].v > 0

(* The pieces an observer sees one at a time: writes, or TLS records. *)
Pieces == IF result.type = "Replace" THEN Records(result.chunks[1]) ELSE Segments
Cutting == ~job.chain /\ Names \subseteq {"tcp_split", "tls_record_frag", "multi_stream_frag"}
AtMarker(markers) ==
  LET c == job.techs[1]
  IN /\ Done /\ Cutting /\ OneRecord /\ input.cuts = {} /\ c.jitter = 0 /\ c.pos.delta = 0 /\ c.pos.at \in markers
     /\ HasSni(input, Original(input)) /\ Resolve(input, Original(input), c.pos) # {}
     /\ result.type # "NotApplicable"
NameByte(i) == U("hs", input.pre + i)
Holds(piece) ==
  \A i \in DOMAIN input.name : \E j \in DOMAIN piece : piece[j] = NameByte(i)

(* A cut at a marker of the name leaves no piece but the last that holds the  *)
(* whole name.                                                                *)
NameHidden ==
  AtMarker({"Sni", "SniExtStart", "EndSld", "MidSld"}) =>
    \A i \in 1..(Len(Pieces) - 1) : ~Holds(Pieces[i])

(* A cut at the name, in however many fragments: the last piece begins with   *)
(* it ("split points are chosen so that the SNI hostname always ends up in    *)
(* the last fragment").                                                       *)
LastPieceAtName ==
  AtMarker({"Sni"}) => Len(Pieces) > 1 /\ Pieces[Len(Pieces)][1] = NameByte(1)

(* The same of a ClientHello that comes in several records, which the parser  *)
(* takes as one.                                                              *)
RecordsSurvive == Done /\ ~job.chain => Survives

=============================================================================
