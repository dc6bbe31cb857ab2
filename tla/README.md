# A TLA+ development of desyncd

desyncd is a local proxy that defeats deep packet inspection: it rewrites, splits
or precedes the first message of a TLS or HTTP connection, retries with other
techniques when the connection is cut, and learns which domains need that. This
directory holds TLA+ modules translated from the Rust sources under
`src/crates/`, TLC configurations that check them on small instances, and
theorems that the TLAPS proof system checks for every instance.

`PROJECT.json` lists, for every definition, the source lines it models, and for
every property a mutation of a mapped definition that breaks it.

## 1. Inventory

| Component (`src/crates/...`) | State | Operations | Interacts with | Hard part | What makes it correct |
|---|---|---|---|---|---|
| Relay (`desyncd-proxy/src/relay.rs`, `connstate.rs`, `action.rs`) | per connection: first message, upstream stream, `ConnState`, early bytes; two pumps | reassemble, primary technique, early window, fallback chain, relay both ways, end | selector, learned set, client, upstream | every `await` is a point where either peer may act; the upstream is replaced in mid-connection | byte streams intact in both directions, retry invisible to the client, telemetry exact, no hang |
| Strategy selection (`desyncd-strategy`) | rules, `LearnedBlocked` (shared by all connections) | select, apply, record, hot start | relay, NFQ | learned set shared by concurrent connections | the operator's rules decide unless a retry was needed |
| Desync techniques (`desyncd-desync`) | none (a random jitter) | `apply` of each technique | selector | numeric edges of split points and record lengths | the bytes of the message, re-framed and nothing else |
| Packet parsers (`desyncd-packet`) | none | TLS, HTTP, QUIC parsing | relay, techniques | truncated input | total, no misparse |
| Proxy front end (`desyncd-proxy/src/lib.rs`, `socks5.rs`, `http_connect.rs`, `transparent.rs`) | one task per connection | accept, SOCKS4/5, HTTP CONNECT, forward proxy | DNS cache, relay | bytes read ahead of a handshake; an error before the reply | one reply per request, nothing read ahead is lost |
| NFQ mode (`desyncd-nfq`) | `ConnTracker` | take packet, verdict, evict, clean | kernel queue, selector | retransmits, reused 4-tuples, eviction at the limit | each connection desynced once, nothing held back |
| DNS (`desyncd-dns`) | pool of TLS connections, cache | DoT, UDP, system, cache | front end, probes | one stream shared by all lookups; timeouts, retry | a lookup gets its own domain's address, ends, cache fresh and bounded |
| GUI (`desyncd-gui`) | `running`, `shutdown_tx` | start, stop, adapt, save | proxy, store, config | commands and tasks on several threads over two short locks; a file that others write | the status tells what runs, one proxy at a time, which does what was saved |
| Store (`desyncd-store`) | SQLite database, one writer, read pool | migrate, save, confidence | adaptation, CLI | crash between migrations, two processes | schema converges, confidence counts exact |
| Adaptation (`desyncd-adapt`) | the local variables of each search | search, classify and search, schedule | store, probes | a budget checked in some of the loops; two writes per result | what is stored was confirmed, budget kept |
| Configuration (`desyncd-config`) | one file | load, defaults | all | written in place by two programs while others load it | a load sees a whole text, settings survive a save |
| Platform (`desyncd-platform`) | iptables rules, an `installed` flag | install, remove | nothing calls it | partial installation | rules removed exactly if installed |
| CLI (`desyncd-cli`), types (`desyncd-types`) | none | dispatch, `adapt --save` | all | the file it writes | as for the configuration |

The hazards this inventory yields are in `PROJECT.json`, each at its line.

## 2. Modules and plan

| # | Modules | Models | State |
|---|---|---|---|
| 1 | `Selector`, `Tunnel`, `Relay`, `MCRelay` | selection and learning; what a tunnel promises; the relay, which implements it | done |
| 2 | `RelayProofs` | theorems on `Relay`; `Relay` implements `Tunnel` | done for eight properties |
| 3 | `Nfq`, `MCNfq` | packet loop and tracker, over `Selector` | done |
| 4 | `DotPool`, `DnsCache`, `MCDnsCache` | the DoT pool; the cache and resolution order, composed with it | done |
| 5 | `GuiControl` | start and stop | done |
| 6 | `Migration`, `MCMigration` | schema migrations by several processes, with crashes | done |
| 7 | `LearnedStore`, `Search`, `MCSearch` | the store's strategies, mappings and confidence; the strategy search over them | done |
| 8 | `Techniques`, `MCTechniques`, `TechniqueProofs` | every technique, split position and chain on the bytes of a message, with the parsers; theorems on their arithmetic, on what they write and on what a server reads of it | done |
| 9 | `Search` (second part) | `morphing_search`: classification and the search it guides, next to the full search, in the run `search` | done |
| 10 | `ConfigFile`, `MCConfigFile`, `ConfigProofs` | the configuration file between its writers and its readers, composed with `GuiControl` and `Selector`, with theorems on both | done |
| 11 | `Frontend`, `MCFrontend` | accept loops and the SOCKS and HTTP dialogues up to the relay | done |
| 12 | `NfqProofs`, `DnsProofs`, `MigrationProofs`, `SearchProofs`, `FrontendProofs` | theorems on the packet loop, on the lookups with pool and cache, on the migrations, on the searches and on the dialogues in front of the relay | done |
| 13 | `Firewall` | installation and removal of the iptables rules, once a program of the repository calls it | not before |

None of the modules uses a RECURSIVE operator, so that each can be proved about.

## 3. The relay

`Relay` is one process per proxied connection, the peers on both sides, and the
learned set that all share. Bytes are numbered pieces; a message is the numbers
it carries and what the parser sees in it. The program counter of a connection
follows `relay_with_desync`: `Begin`, `ReadFirst` / `ReadMore` /
`StopReassembly` (reassembly with its timeout and limit), `ApplyPrimary`,
`EarlyData` / `EarlyRetry` / `EarlyProceed` (the early window),
`NextFallback`, `FallbackFails` / `FallbackAnswers` / `FallbackQuiet` (the
chain), `FlushSeed`, then the two pumps `UpRead`/`UpWrite` and
`DownRead`/`DownWrite` until `UpEnds` or `DownEnds` completes the `select!`.
What reaches the wire is given by `Wire` from the effect of the technique's
action, `Replace`, `Split`, `InjectBefore` or pass-through.

`Selector` holds rules, the default, fallback chain and the learned set as
operators; glob patterns are the set of domains they match.

`Tunnel` is the abstract promise: the upstream receives a prefix of what the
client said, the client a prefix of what one upstream said, either may end at
any time. `Relay` implements it under the mapping of `ImplementsTunnel`.

Runs:

* `solo`: one connection, chain of two techniques, peers that send, close,
  reset and break at any moment. All stream, retry and telemetry properties,
  the refinement, `SetupTerminates` and `DownstreamDelivered`.
* `pair`: two interleaved connections to one domain: `LearnedSound`,
  `HotStartJustified`.

Bounds: two or three pieces each way, which is enough for a piece within, behind
and after the first message; a chain of two, so that the chain can fail,
advance, succeed and be exhausted; two connections for the shared set.

Fairness: a connection's task is polled as long as it can proceed, and its
timers expire (weak fairness of its steps). The peers owe nothing, except in
`DownstreamDelivered` what its antecedent says.

## 4. NFQ mode

`Nfq` has the clients' TCP (`ClientSends`, `ClientResends`, `ClientReopens`), the
kernel queue, a clock, and the loop `run_nfq` as three actions for the branches
of `process_packet`, each with the rest of its turn (`Conclude`: the verdict,
the count, the periodic cleanup; or a verdict that fails, which ends the loop
and leaves `--queue-bypass` in charge). Since every entry that
`get_or_create` adds is marked in the same turn, an entry always has
`desync_applied`; `is_retransmit` then makes no difference to the verdict. The
victim of an eviction among equals is any (hash map order).

The run `nfq` has three 4-tuples and room for two, so that a wrong victim shows;
one reuse of a 4-tuple; two ticks, the expiry. `FirstSegmentTreated` states the
exception that the code makes: a first segment of a 4-tuple still remembered from
an earlier connection is not treated.

## 5. DNS

`DotPool` models lookups as tasks over one connection per server behind a fair
mutex, a queue whose head holds the lock. An answer is two pieces, length and
body, read under a timeout each; what a timeout leaves on the stream stays
there. The flag `soiled` is history: a query was given up on that connection.
`DnsCache` extends it with the order DoT, UDP, system, the cache and a clock.
A key of the cache, a domain with a port, is one name. `None` is Rust's `None`, which
is no connection (`NoneAssumption`).

`CleanConnection` is what keeps answers apart although nothing compares an answer
with its query: as long as no query was given up on a connection, all that it
holds or owes is the rest of the answer to the task that holds its lock. The run
`dns_stale` shows that the condition is needed. `LookupsEnd` needs that a
lookup's own steps are taken (its awaits end by timeout, by the system's
resolver, or because a mutex is handed on in order); the network owes nothing.

The run `dns` has one server and three tasks: two want the same domain, three
want different ones, and the cache holds two. The runs end when all tasks
have: deadlock is not checked there, `LookupsEnd` says that no task is stuck.

## 6. GUI control

`GuiControl` splits `start_proxy` at each lock (`Check`, `Load`, `Swap`, `Mark`),
`stop_proxy` likewise, and models the spawned task with its listener. Replacing
the sender in `shutdown_tx` drops the old one, which ends the old task: this is
`Shutdown`'s guard. `StatusTrue` states how far the status can be trusted: a proxy
that serves while the status says otherwise was robbed of it by the end of
another task. Fairness: a command that was begun and a task that was spawned run
on.

`ConfigFile` composes it with the file that a start loads and two programs write.
The file is a sequence of cells; a writer's text is its comment and a few cells
of its own. A save is `Begin` (the configuration is loaded, for the settings),
`Search`, `Create` (which truncates), `WriteHead` and `WriteBody`, each at the
writer's own offset, or is `CutShort`; a start's `LoadFile` takes what is there,
and `Source` is what a load makes of it: a whole text, or the built-in defaults.
`RulesOf` and `StrategiesOf` are what `generate_config` writes for the domains
found, and `Loaded(w)` is an instance of `Selector` on them, so that `FoundIsUsed`
asks the selector itself, after the load, for each domain that was searched, and
for one that was not. Its two exceptions are in section 11. `SavedWhole` is about
the file and holds as long as no save was cut short and none came between the
steps of another.

The run `gui`: two overlapping starts and any number of stops, with a save by the
command line and one by the GUI, over a text the user wrote. The domains are a
domain and its subdomain in both orders, two whose names fall together, and one
that is never found. The properties of `GuiControl` are checked of the composition.
Deadlock is not checked: the user may stop giving commands.

## 7. Store migrations

`Migration` models `Store::build` up to the migrations: `ReadVersion` outside any
transaction, then for each migration that is due a `Snapshot` and a commit.
SQLite (external) commits a transaction only if nobody committed since its
snapshot; otherwise `Busy` fails the open. A crash loses the open transaction
and nothing else. V1 and V2 are the effect of their batches on the version, the
tables and the columns; V2 tests for the first column alone.

Three processes start from a new file, a database of the code before
versioning, with or without the columns, or one that crashed between V1 and V2:
the states that the tests of schema.rs set up. Two crashes, so that the
recovery can crash too. A database in which the old ignore-errors path was cut
short, with one column of three, is not among them: V2 takes it for complete.
`MigrationAssumption` says what is left: of a database found, the version promises
no more than is there (`Tells`), and the three columns are there together or not
at all.

## 8. The strategy search

`LearnedStore` has the two tables the search works on as functions, strategies by
name and mappings by domain, and each query on them as one operator. Confidence
is compared with 0.3 in integers: time passes in half-lives of a week, so the
test is `10 * successes >= 3 * total * 2^age`. `Fails` is a statement that returns
an error, which every caller ignores in its own way.

`Search` is `find_best_strategy` as one task per caller, a step per probe and per
statement: `Start`, `ReadBest`, `ReadAny` (the three reads of
`collect_candidate_strategies`), `Guess` and `GuessAgain`, `Baseline`, `SweepOne`,
`Vary`, `StealthOne`, `Confirm`, `Save` and `Map`; callers that save what is
returned make the two writes again (`Return`). The network decides each probe. A
strategy is a name and what its techniques are determined by, the label, the
position and the stealth flags. `confirmed` is history: the week in which a
confirmation probe of a strategy last succeeded for a domain.

`morphing_search`, which only the CLI calls, is the second way through the same
task: `Classify` (the five diagnostic probes in one step, since they touch nothing
that another task sees; `Recommended` is `classify_from_probes`), `FallBack` to
the full search, `MorphVary`, `MorphConfirm`, and `MorphStealth`, whose result is
saved without a confirmation.

`MappedIsConfirmed` says that a domain is mapped to what was confirmed for it,
except under a name with two meanings (`SharedName`; section 11). `GuessIsRecent`
follows the decay through the reads to the candidates. `ProbesBounded` states what
max_probes amounts to: the documented limit (lib.rs:30) is exceeded by the two
confirmations, by two more in `morphing_search`, and by more when the guesses and
the sweep alone reach it.

What is assumed of the database found: rows refer to strategies, as the foreign key
has it, and were last successful no later than now (`WellFormed`); a strategy under
a name that a search gives to one strategy alone is that strategy, as an earlier
search saved it (`FoundAssumption`). `Made` is the set of the strategies that
searches make and `SharedNames` the names that two of them have. `SearchAssumption`
gives the lists their types; they are not empty, Sni is none of the other
positions, and whatever probes succeed, latency sorts them somehow (`Sorts`).

The run `search`: two tasks, two searches, each of either kind, two domains, a new
database or one with a strategy learned and once failed (so that a third search is
in the past); two techniques, one position, a stealth sweep with a shared name, a
budget that variations reach; two weeks, after which nothing is confident; one
failed statement. `Networks` bounds the outcomes of the classification to one for
which it falls back, one for each of its two main patterns, and one that lets all
four pass, ranked in one order; no score is excellent, so that the loop over the
techniques ends by its budget or its end. Between its baseline and its writes a
search touches nothing another one reads, so MCSearch lets these steps of one
search go first (`LocalStepsFirst`). The run ends when the searches do: deadlock is
not checked.

## 9. Techniques

`Techniques` has the bytes that the other modules leave out. A payload is a
sequence of units that stand for one byte each and say what the byte is: part of
a record's header, the i-th byte of the client's handshake message, of the name
as sni_manip writes it, of an HTTP request. Offsets are the code's, so that an
error of one or of five shows. `Records`, `IsClientHello` and `HasSni` are the
parser, `Base` and `Resolve` the split positions, `Offsets` their jitter; a
technique is the set of the actions it may return, because positions and jitter
are random. `ApplyOne` is `apply_technique_cfg`; `ChainStep` and `ChainEnd` are
the loop and the result of `apply_chain` with its three accumulators.

The server's side is the reference: `Survives` takes what is written, reads the
records of it, and asks for the handshake message (or the request) that the
client sent, names without regard to case. `MessageSurvives` asks this of every
job except where a technique meets a message in several records. `NameHidden`
and `LastPieceAtName` say what the cuts are for; they are about a ClientHello in one
record, since the parser's offset of a name counts one header in front of it and is
wrong when there are several (run `records`). What is assumed of a client
(`TechniquesAssumption`): its name is not empty, something precedes the name, and
none of its records is empty; and of a configuration, that it asks for one technique
unless it asks for a chain (`apply_technique_cfg` takes one name, `apply_chain` the
list).

The run `techniques`: ClientHellos of three sizes (no byte behind the name; a
name of one label; of three), coalesced, cut short and without a name, HTTP
requests whole and cut, other data; all kinds of positions, among them the edges
of the record; all modes; 1, 2, 3, 4 and 9 fragments; chains of up to two, and
of three around a fake. Names in front of which nine bytes lie and more, as in
every ClientHello. Headers have their five bytes; lengths do not reach 2^16,
where the writers' `as u16` is exact because the input's own length field bounds
them. Jobs end: deadlock is not checked.

Abstractions: an HTTP name or separator is one unit; a fake record is one unit,
which `Survives` leaves aside; where bytes in front of the name were overwritten
the parser finds none. `OffsetFrom` has one level.

## 10. The front end

`Frontend` is the accept loop of either mode and one task per connection, from the
peek at its first byte to the relay. What a client says is a sequence of units (a
field of SOCKS, a word, a CR or an LF of HTTP) with data behind it; `Arrive` is the
network, which delivers it in pieces that end anywhere, and an eager client does
not wait for the answers. SOCKS reads field by field (`ReadExact`), so its actions
are one per read: `Greet`, `Request`, `Length`, `Address`, `Header4`, `UserId`. HTTP
takes a piece (`FirstRead`), decides on its text (`HaveLine`, `HeadersComplete`,
`HeaderLines`), and goes on line by line behind a buffer that is dropped in the
end. `Resolve` and `Connect` are common to all. A connection holds one descriptor,
two when it is relayed; without one, `accept` fails (`AcceptFails`), and so it does
for a client that gave up in the queue.

`TunnelIntact` is about the boundary between dialogue and tunnel; `RefusalTold`
relates each way to end with what the client was told; `DialogueEnds` is liveness
for a client that sent all of its request, or left, in any pieces;
`KeepsAccepting` says that the loop outlasts a lack of descriptors. Fairness: the
loop and the tasks run as long as they can, since connecting and resolving end by
their timeouts (the resolver's and the kernel's). Clients and upstreams owe
nothing.

What a client may say is given by `Grammar`, an assumption on the scripts: the
request has the length its fields give it (`Socks5Head`, `Socks4Head`), each field
is a word of the protocol or a flaw, and the headers of a CONNECT end at their first
blank line. Everything else a script may be is left open: its lines, its data, whether
it is eager. TLC evaluates it on the scripts of the run.

The run `frontend`: descriptors for one relayed connection; one client with every
script, well-formed or with one of the flaws, the other with a request that is
refused, which it may never finish. In transparent mode both send data at once.
The system may stop when all clients have ended: deadlock is not checked.
`forward_headers` is the finding below.

## 11. Departures of the code from its text

| Run | Text | What the run shows |
|---|---|---|
| `dns_stale` | desyncd-dns lib.rs:186 | the second failure of a query leaves its answer to the next lookup |
| `forward_headers` | http_connect.rs:77, 179 | the request of the forward proxy has none of the client's headers |
| `records` | tls.rs:4, 9 | the offset of the name is wrong in a ClientHello of several records, and sni_manip overwrites other bytes |

Met while modelling, and in the models, but without a run of their own:

* desyncd-gui main.rs:166, :182 "Proxy is not running": a task clears the one
  status when it ends, whoever set it last; a proxy started since then serves on
  and cannot be stopped (the exception in `StatusTrue`).
* README.md:244 "per-domain strategy persistence": the stealth sweep gives two
  positions of tls_record_frag one name, and morphing.rs:548 gives a strategy and
  its stealth version one; the search of one domain changes what is stored for
  another (`SharedName`). morphing_search also saves a stealth strategy after a
  single probe.
* http_connect.rs:55: when the first read of a CONNECT ends with the text of a
  header or between its CR and LF, what is left of that line is taken for the
  blank one, and the rest of the headers go into the tunnel (`CutAtLineEnd`). What
  a client sends behind its CONNECT without waiting is dropped with the buffer.
* socks5.rs:137, :279, http_connect.rs:118, :124, :166: a name that does not
  resolve ends the connection without a reply (`unresolved` in `RefusalTold`).
* lib.rs:45 "should not crash the proxy" holds in SOCKS mode; the loop of
  transparent.rs:51 returns on the first error of `accept` (`AcceptFails`).
* desyncd-cli main.rs:473 "exact domain + wildcard subdomains", with rising
  priorities: the rule of youtube.com covers m.youtube.com whenever it is written
  later, as it always is by the CLI, which sorts; a.b_c and a_b.c share a
  strategy; and a domain called passthrough would share the catch-all's
  (`OnItsOwn` in `FoundIsUsed`).
* A start during a save, or after one that was cut short, loads the defaults
  without a word, and the next save then writes the defaults in place of the
  user's settings (`disturbed` in `SavedWhole`).
* main.rs:455 "Build ConfigFile from current config + discovered strategies": the
  strategies and rules of the current one are not kept (`StrategiesOf`, `RulesOf`),
  and main.rs:416 "CLI --config" is not looked at.
* desyncd-cli main.rs:98: the tls_record_frag default is never used, because
  `AppConfig::load` never leaves the strategies empty (config lib.rs:287).

* relay.rs:420 "correctly handles extra data after the ClientHello": a Replace of
  tls_record_frag or multi_stream_frag carries the first record and nothing behind
  it (`Relay!Wire`, `TlsRecordFrag`).
* connstate.rs:29 "so retransmits get the same treatment": `applied_action` is
  never read, a resent segment is accepted unmodified (`Nfq`).
* disorder.rs:10, :62: TCP does not reorder two writes; on a socket the server
  reads the second half first (`Wire`'s Swap, `InOrder`).
* combo.rs:12: a chain that replaces the payload and then injects fakes returns
  the fakes alone, and the caller sends the original payload (`Combined`).

## 12. Proofs

`RelayProofs` proves, for any set of connections, payloads, rules, strategies and
chain that satisfy the assumptions `SelectorAssumption` and `RelayAssumption`:
`Typing` (`TypeOK`), `UpstreamIntegrity` (`UpstreamStream`), `Downstream`
(`DownstreamStream`), `Transparency` (`NoRetryAfterData`, an action property),
`LearnedSoundness` (`LearnedSound`), `HotStarts` (`HotStartJustified`) and
`Telemetric` (`TelemetryExact`, inductive on top of the types and places below: a task
that is being set up still goes by its first attempt, a fallback by a later one).

Few of these are inductive by themselves. The invariants that are:

1. *Typed*: `TypeOK` and, for each place of a task, how many attempts it has
   opened, that it still goes by the first one while it is being set up, and
   where it is in the chain (`Place`). Without the counts, indexing an attempt or
   the chain has no type. `LearnedSound` and `HotStartJustified` follow from this
   layer, the second from an induction over the attempts.
2. *Holding*: while a task is set up its buffers are empty, it has read nothing
   but the first message, and nothing of any attempt (`Held`, `Unread`).
   `Transparency` is immediate: a step that opens an attempt is taken in those
   places.
3. *Downward*, per connection: what the client received, the buffer and the seed
   are the pieces read from the attempt settled on, in order. It gives
   `Downstream`.
4. *Telling*: an attempt the task may still settle on was sent the first message
   whole (`Introduced`), and after that what the upstream received and the buffer
   are that message and the later pieces read (`Upward`). It gives
   `UpstreamIntegrity`.

Each layer has lemmas for a connection's own step, one per group of actions, and
one for the steps of the other connections; the theorem combines
`Init => Inv` and `Inv /\ [Next]_vars => Inv'` by temporal logic. The least piece
of a set (`MinIn`) is found by the library's well-foundedness of the naturals.

Its last part proves `Refinement`: every behaviour of `Relay` is one of `Tunnel` under
the mapping of `ImplementsTunnel`. The state that a connection shows is what each
attempt was told (`heard`), what the upstream received behind the first message
(`up`), what the client received (`down`) and whether it is over. The steps are
sorted by what they show: a first message that goes out whole is `Introduce`, one
whose write fails half-way is nothing; `UpWrite` is `Forward`;
`FlushSeed` and `DownWrite` are `Answer`; the ways out are `End`; all others leave the
four alone, one lemma per component. That a forwarded piece follows the one before
comes from *Telling*, that an answer follows what was answered from *Downward*, and
both need one more layer, `Carried`: the upward buffer is empty or the client's latest
piece, an attempt past the first message was sent it by some action, nothing is read
that was not sent, and a seed to flush is not empty.

`NfqProofs` proves, for any 4-tuples, payloads, capacity, expiry and queue,
`TypeCorrect`, `FirstSegmentsTreated`, `NothingIsHeldBack` and `OnlyOldestForgotten`. The
tracker and the history are related by `Tracks`: an entry was last seen when its
4-tuple was treated, and a 4-tuple the tracker has forgotten was treated `Expiry` ago
or has `MaxConnections` rivals, treated since. The step that matters is an eviction:
the victim is older than every entry, and the new connection makes the full
tracker's worth of rivals; the cardinalities are the library's. `Replaced` carries
`FirstSegmentTreated`: what is remembered as treated was let through as the rules ask.

`DnsProofs` is about lookups, pool and cache together, for any number of lookups,
servers and names: `TypeCorrect`, `CleanConnections`, `HitsAreRecent` and
`SoonestEvictedHolds`. The invariant of the pool has four parts. `Orderly`: who stands
in the line of a server stands there once, and reads only at its head. `Connected`:
a connection that is read from is there. `Named`: a lookup that was started has a
name. `Clean`: on a connection without a query given up, what is still to be read is
nothing, or what the holder expects, the whole answer or its body. A
step at a server joins a line, leaves it or stays at its head (`DotShape`), and the
holder alone touches the connection; the servers only move pieces from what they
owe to what is ready. For the cache, `Remembered`: an entry is the result of a lookup
and expires `Ttl` after it.

`MigrationProofs` proves for any number of processes and crashes `Complete`
(`SchemaComplete`), `Truthful` (`VersionTells`) and `Restored` (`VersionRestored`). The
first two need what a process relies on where it is (`Relies`), which nobody takes
away, since tables and columns only grow. The version may fall, when V1 of a process
that read an old version is committed after V2 of another: `Undone` names who will
raise it again, one that is about to run V2 or whose snapshot is the latest.

`ConfigProofs` proves for any number of starts that `TypeOK`, `RunningIsBacked` and
`StatusTrue` hold of `GuiControl`. The first two are inductive together. The third
is not: it speaks of settled states, and what makes it true happened before. Two
invariants carry it. `StopFollowsTask`: a stop, once begun, found a task that was
spawned, and such a task stays among those that were (`UpGrows`). `AloneIsShown`:
a start that holds the sender, with no other task spawned so far, has the status
it set, and no stop is about to clear it; that stop would have found another task
or taken the sender.

The rest of `ConfigProofs` is about `ConfigFile`, for any number of starts and saves, any
lengths of the texts and any patterns and names, from `ConfigAssumption`.
`GuiSteps` shows that each of its steps is one of `GuiControl`'s or leaves the
state of the GUI alone, and `SystemStatus` takes the two invariants over by it.
`WholeSave` proves `SavedWhole`, from an invariant (`Undisturbed`) that says of
each point of a save what is in the file, that nobody else writes, and that
every save that began has the user's settings; that two writers never have one
text (`TextTells`) makes `Source` the writer that finished last. `SavedIsUsed`
proves `FoundIsUsed`: the rule that decides is the last one whose patterns cover
the domain (`LastRuleDecides`, on the instance of `Selector`), and the strategy of
its name is the one inserted last. The greatest element of a set of positions
(`Greatest`) comes, as above, from well-foundedness.

`TechniqueProofs` lifts the bounds of the run `techniques`, for any messages and jobs
that satisfy `TechniquesAssumption`. On the arithmetic: `LastCutIsTheName` (the cuts of
multi_stream_frag are inside the data, the last at the name), `CutIsInside`
(tls_record_frag leaves no record empty), and `PaddingAgrees` (add_tls_padding keeps three
nested length fields consistent and within their widths; this one is proved only, no
run has it). On what is written:

1. `RecordsHaveData` (`NoEmptyRecord`) from `Typing`: all payloads, current, held back or
   in the result, are of `Sound` units, where one that begins a header says it has data.
   Every technique keeps that (one lemma each); those that write records cut inside
   the data, because positions are places of the payload (`OffsetsAre`) and because of
   what the parser requires before they run (`HelloRecord`).
2. `Parsing`: the parser is a function that calls itself on what is behind a record. That
   there is one is shown from a least counterexample over the bytes left, and what it
   finds, record by record, by the same argument.
3. `RecordsAreCut`: what `WriteRecords` writes, `Records` reads: as many records as
   cuts and one, each the data between two cuts. `Layout` says where each byte and
   header stand, `RecordRead` that one header leads to the next, and the cuts are taken
   from the last one back.
4. `NameIsHidden` (`NameHidden`) and `LastPieceIsTheName` (`LastPieceAtName`), from the
   invariant `Alone`: a technique asked for alone has worked on what the client sent.
   `OneRecordHello` says what that is, `MarkedPlaces` that each marker lies before the
   name's last byte, `HalvesAt` and `RecordsAt` that a cut before a byte leaves that byte
   to the last piece; `Marked` puts them together.
5. `MessageAlwaysSurvives` (`MessageSurvives`), from the invariant `Kept`: at each step of
   a chain, what is made of the message so far has its meaning (`Carried`: the same bytes
   once headers, fakes and spaces are left out, and, read as records, the same
   handshake). It is `Untouched` until a technique that writes records has cut it, which
   is why a second one can rely on `OneRecordHello`; only fakes are kept for in front of
   it; and the pieces of the last split are a `Pair` of it, exchanged if `disorder` cut
   them. Every technique returns what carries its input (`Answered`, from one lemma
   each), `RecordsRead` says that data written in records is read again, and
   `ChainStepKept` that the accumulators of `apply_chain` lose none of it. The result of
   one technique is the case `AloneSurvives`, that of a chain `ChainSurvives`. That a
   concatenation of parts means what the parts mean (`FlatJoint`, `ContentJoint`) is again
   shown by a least counterexample. `Kept` was checked as an invariant of the run
   `techniques` before it was proved.

`SearchProofs` proves, for any searchers, domains, lists, limits and databases that
satisfy the assumptions, `Confirmations` (`MappedIsConfirmed`), `Guesses`
(`GuessIsRecent`) and `Budget` (`ProbesBounded`). None is inductive alone. The invariant:

1. *Typed*: for each place of a search, where it is in its lists, and that its best is
   one it made (`Local`).
2. *Counted*: how many probes it can have made there. The candidates count three each,
   the sweep one per technique; from there on a probe is made only below the limit,
   or as one of the few that come before the next look at it. `Budget` follows.
3. *Tables*: rows refer to strategies, no success lies in the future, and a name that
   is not shared means the techniques that a search gives it (`Telling`).
4. *Sound*: what a search read or found belongs together (`Known`), was confirmed this
   week if it is about to be saved (`Fresh`), and within the last week if it is a
   candidate (`Recent`).

Statements of other searches come between two of one search: by `StrategiesGrow`,
`MappingGrows` and `ConfirmedGrows` no step of theirs takes away what `Known`, `Fresh`
and `Recent` say, except that of a shared name. Weeks pass between searches (`Wait`).
That confidence of 0.3 means a last success at most a week ago (`ConfidentIsRecent`)
rests on the powers of two that `halving` computes; a recursive function, it is shown
to exist and to be the only one from the well-foundedness of the naturals.

`FrontendProofs` proves, for any clients, any scripts that keep the grammar and any
limit on descriptors, `TunnelAlwaysIntact` (`TunnelIntact`) and `RefusalAlwaysTold`
(`RefusalTold`). What a client may do depends on what it was told, and what a task may
read on where it is, so the invariant (`Good`) has a part for each, per client:

1. *Counted*: nothing is taken that has not arrived, nor parsed that is not taken.
2. *Unsaid*: before the relay nothing reaches the upstream and success is not told;
   so (*Waits*) a client of CONNECT that is not eager has said its request at most.
3. *Placed*: the place of a task tells its protocol, how many units it has taken and
   what they were, so that a SOCKS request is all taken when it is resolved.
4. *Reading*: HTTP lines are read from the beginning of one; so (*Begun*) the first
   blank line found is the end of the headers (`EmptyIsBlank`, `CompleteAtBlank`), and
   all of the request is taken, unless the client left before the end of it. Without
   *Reading* an LF inside a line could pass for a blank one.
5. *Relayed*: the upstream was sent what was taken behind the request, and nothing
   else. `TunnelIntact` follows.
6. *Ended*: a connection that ended was answered, or is excused. `RefusalTold` follows.

A step of one client leaves all the others alone (`Local`, `Kept`), so each action has
one lemma, about its own client; `HttpStep` is shared by those of the header loop. The
text of the rewritten request is a fold, `FlattenSeq`: the function it chooses is shown
to exist from `Recursion`, and what holds of each of its values by a least
counterexample.

Every safety property of a passing run is thus a theorem. Only model-checked: the
liveness properties (`SetupTerminates`, `DownstreamDelivered`, `LookupsEnd`,
`OvertakenEnds`, `StopEnds`, `DialogueEnds`, `KeepsAccepting`), which depend on fairness
and are out of the prover's reach.

## 13. Not modelled

Malformed messages, QUIC and raw packets (pure, unit-tested); logs, counters of
bytes and timing jitter; the store's test results, providers and host lists,
which no decision reads; addresses, URLs and their parsers, beyond whether they
are well-formed; the arguments of the command line that override the file, and
the commands that only probe and print; the firewall, which no program of the
repository calls, and whose `installed` flag is never set.
