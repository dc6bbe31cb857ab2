----------------------------- MODULE ConfigFile -----------------------------
(***************************************************************************)
(* The configuration file between those who write it and those who load it: *)
(* `desyncd adapt --save` (desyncd-cli), the adapt command of the GUI, and   *)
(* the starts of the GUI's proxy, which are the module GuiControl's.         *)
(*                                                                          *)
(* A save creates the file, which truncates it, writes the comment at its    *)
(* head and then the text, each writer at its own offset; nothing is locked *)
(* and nothing is renamed.  A load takes what is there.  The file is a       *)
(* sequence of cells, a few of which stand for a writer's text.              *)
(***************************************************************************)
EXTENDS GuiControl, SequencesExt

CONSTANTS
  Savers,    \* the saves, each with its process or task
  User,      \* who wrote the file by hand
  Kind,      \* saver -> "cli" or "gui"
  Domains,
  Under,     \* domain d -> the domains that its patterns d and *.d match
  NameOf,    \* domain -> the name of its strategy: _ for ., wildcard for *
  Found,     \* saver -> the lists of domains for which it may find a strategy
  Edited,    \* the domains for which the user wrote a rule
  Size       \* bound: writer -> the cells that stand for its text

Writers == Savers \cup {User}

ASSUME ConfigAssumption ==
  /\ {User, None} \cap Savers = {} /\ User # None
  /\ \A w \in Savers : Found[w] \subseteq Seq(Domains)
  /\ \A w \in Writers : Size[w] \in Nat \ {0}
  /\ \A d \in Domains : d \in Under[d] /\ Under[d] \subseteq Domains

VARIABLES
  file,        \* the cells of the file
  saver,       \* where each save is
  settings,    \* whether a writer's text has the user's settings (listen, fallback ...)
  discovered,  \* the domains of a writer's text, in the order of their rules
  loaded,      \* whose text each start has loaded; None: the built-in defaults
  last,        \* history: the writer that finished last
  disturbed    \* history: a save was cut short, or another read or wrote into it

files  == <<file, saver, settings, discovered, loaded, last, disturbed>>
system == <<vars, files>>

SystemInit ==
  /\ Init
  /\ saver = [w \in Savers |-> "idle"]
  /\ settings = [w \in Writers |-> w = User]
  /\ discovered = [w \in Writers |-> IF w = User THEN Edited ELSE <<>>]
  /\ file = [k \in 1 .. Size[User] |-> <<User, k>>]
  /\ loaded = [s \in Starts |-> None]
  /\ last = User /\ disturbed = FALSE
-----------------------------------------------------------------------------
(* The text.                                                                *)

Comment == <<None, 0>>
Hole    == <<None, 1>>   \* where nobody wrote, in front of an offset

Banner(w) == IF w = User THEN <<>> ELSE IF Kind[w] = "cli" THEN <<Comment, Comment>> ELSE <<Comment>>
Body(w) == [k \in 1 .. Size[w] |-> <<w, k>>]
Text(w) == Banner(w) \o Body(w)

(* Cells written behind the first n. *)
Put(cells, n) ==
  [k \in 1 .. (IF n + Len(cells) > Len(file) THEN n + Len(cells) ELSE Len(file)) |->
     IF k \in n + 1 .. n + Len(cells) THEN cells[k - n]
     ELSE IF k <= Len(file) THEN file[k] ELSE Hole]

(* AppConfig::load without a path: what does not parse is passed over, and   *)
(* what parses may be nothing but comments; either way it is the defaults.   *)
Source == IF \E w \in Writers : file = Text(w) THEN CHOOSE w \in Writers : file = Text(w) ELSE None

(* generate_config: a strategy per name, the one inserted last; a rule per   *)
(* domain, of rising priority; the catch-all below them.                     *)
StrategiesOf(w) ==
  [name \in {NameOf[d] : d \in Range(discovered[w])} \cup {"passthrough"} |->
     IF name = "passthrough" THEN <<>>
     ELSE LET named == {k \in DOMAIN discovered[w] : NameOf[discovered[w][k]] = name}
          IN <<discovered[w][CHOOSE k \in named : \A j \in named : j <= k]>>]

(* Mutant: the priority of the rules does not rise. *)
RulesOfOnePriority(w) ==
  [k \in 1 .. Len(discovered[w]) + 1 |->
     IF k > Len(discovered[w]) THEN [domains |-> Domains, strategy |-> "passthrough", priority |-> 0]
     ELSE [domains |-> Under[discovered[w][k]], strategy |-> NameOf[discovered[w][k]],
           priority |-> 10]]

RulesOf(w) ==
  [k \in 1 .. Len(discovered[w]) + 1 |->
     IF k > Len(discovered[w]) THEN [domains |-> Domains, strategy |-> "passthrough", priority |-> 0]
     ELSE [domains |-> Under[discovered[w][k]], strategy |-> NameOf[discovered[w][k]],
           priority |-> 9 + k]]

(* The selector that start_proxy makes of it, which has no fallback. *)
Loaded(w) ==
  INSTANCE Selector WITH Strategies <- StrategiesOf(w), Rules <- RulesOf(w),
                         Default <- "passthrough", Fallback <- <<>>
-----------------------------------------------------------------------------
(* A save.                                                                  *)

Writing == {w \in Savers : saver[w] \in {"head", "body"}}
Step(w, from, to) == saver[w] = from /\ saver' = [saver EXCEPT ![w] = to]

(* The configuration is loaded, for the settings; of a torn text a part may  *)
(* parse.                                                                    *)
Begin(w) ==
  /\ Step(w, "idle", "search")
  /\ IF Source # None THEN settings' = [settings EXCEPT ![w] = settings[Source]]
     ELSE \E b \in BOOLEAN : settings' = [settings EXCEPT ![w] = b]
  /\ disturbed' = (disturbed \/ Writing # {})
  /\ UNCHANGED <<vars, file, discovered, loaded, last>>

(* The searches; an error of one, or nothing found, ends it. *)
Search(w) ==
  /\ \/ Step(w, "search", "create") /\ \E list \in Found[w] : discovered' = [discovered EXCEPT ![w] = list]
     \/ Step(w, "search", "done") /\ UNCHANGED discovered
  /\ UNCHANGED <<vars, file, settings, loaded, last, disturbed>>

(* Mutant: the file is opened and not truncated. *)
OpenKeeps(w) ==
  /\ Step(w, "create", "head")
  /\ disturbed' = (disturbed \/ Writing # {})
  /\ UNCHANGED <<vars, file, settings, discovered, loaded, last>>

(* File::create. *)
Create(w) ==
  /\ Step(w, "create", "head")
  /\ file' = <<>>
  /\ disturbed' = (disturbed \/ Writing # {})
  /\ UNCHANGED <<vars, settings, discovered, loaded, last>>

WriteHead(w) ==
  /\ Step(w, "head", "body")
  /\ file' = Put(Banner(w), 0)
  /\ UNCHANGED <<vars, settings, discovered, loaded, last, disturbed>>

WriteBody(w) ==
  /\ Step(w, "body", "done")
  /\ file' = Put(Body(w), Len(Banner(w)))
  /\ last' = w
  /\ UNCHANGED <<vars, settings, discovered, loaded, disturbed>>

(* A write fails, or the process ends, with some of the text written. *)
CutShort(w) ==
  /\ w \in Writing /\ saver' = [saver EXCEPT ![w] = "dead"]
  /\ \E n \in 0 .. Size[w] - 1 :
       file' = IF saver[w] = "head" THEN file
               ELSE Put(SubSeq(Body(w), 1, n), Len(Banner(w)))
  /\ disturbed' = TRUE
  /\ UNCHANGED <<vars, settings, discovered, loaded, last>>

Save(w) == Begin(w) \/ Search(w) \/ Create(w) \/ WriteHead(w) \/ WriteBody(w) \/ CutShort(w)
-----------------------------------------------------------------------------
(* The GUI.                                                                 *)

(* A start loads what is there. *)
LoadFile(s) ==
  /\ Load(s)
  /\ loaded' = [loaded EXCEPT ![s] = IF At(s, "swap")' THEN Source ELSE @]
  /\ UNCHANGED <<file, saver, settings, discovered, last, disturbed>>

(* The selector goes with the task. *)
ClearAndDrop(s) ==
  /\ Clear(s)
  /\ loaded' = [loaded EXCEPT ![s] = None]
  /\ UNCHANGED <<file, saver, settings, discovered, last, disturbed>>

Rest(A) == A /\ UNCHANGED files
Begun(s) == LoadFile(s) \/ Rest(Swap(s) \/ Mark(s))
Spawned(s) == Rest(Bind(s) \/ BindFails(s) \/ Shutdown(s)) \/ ClearAndDrop(s)

SystemNext ==
  \/ \E s \in Starts : Begun(s) \/ Spawned(s) \/ Rest(Check(s) \/ Accept(s) \/ ClientsLeave(s))
  \/ Rest(Stop)
  \/ \E w \in Savers : Save(w)

(* As in GuiControl; saves may end anywhere. *)
System ==
  /\ SystemInit /\ [][SystemNext]_system
  /\ \A s \in Starts : WF_system(Begun(s)) /\ WF_system(Spawned(s))
  /\ WF_system(Rest(StopTakes \/ StopClears))
-----------------------------------------------------------------------------
(* Properties.                                                              *)

(* The domain at k of a text is not covered by the rule of a later one, and  *)
(* neither another of them nor the catch-all has its strategy's name (a.b_c, *)
(* a_b.c).                                                                   *)
OnItsOwn(w, k) ==
  LET list == discovered[w] IN
  /\ NameOf[list[k]] # "passthrough"
  /\ \A j \in DOMAIN list : list[j] # list[k] =>
       NameOf[list[j]] # NameOf[list[k]] /\ (j > k => list[k] \notin Under[list[j]])

(* What adapt saved is what the proxy does: after the load of a saved text,   *)
(* each domain that was searched is given the strategy found for it, unless  *)
(* a later rule covers it or it shares its name, and any other domain is     *)
(* left alone.                                                               *)
FoundIsUsed ==
  \A s \in Starts : loaded[s] \in Savers =>
    LET w == loaded[s] IN
    /\ \A k \in DOMAIN discovered[w] :
         OnItsOwn(w, k) => Loaded(w)!Select(discovered[w][k]) = <<discovered[w][k]>>
    /\ \A d \in Domains :
         (\A k \in DOMAIN discovered[w] : d \notin Under[discovered[w][k]])
           => Loaded(w)!Select(d) = <<>>

(* As long as no save was cut short and none came into another, the file is   *)
(* the whole text of the one that finished last whenever none writes, and    *)
(* the settings that the user wrote are still in it.                         *)
SavedWhole ==
  ~disturbed /\ Writing = {} => Source = last /\ settings[last]
=============================================================================
