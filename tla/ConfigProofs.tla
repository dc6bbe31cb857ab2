----------------------------- MODULE ConfigProofs -----------------------------
(***************************************************************************)
(* Theorems about GuiControl and ConfigFile, for any number of starts and    *)
(* saves and any texts: the GUI's status tells the truth when starts do not  *)
(* overlap; the system does no more to the GUI's state than GuiControl says, *)
(* a save that nothing came into is whole, and what a saved text says is     *)
(* what the selector that is made of it does.                                *)
(*                                                                          *)
(* The file needs an invariant of its own (Undisturbed), since whether a     *)
(* finished text is whole depends on what its writer found when it began and *)
(* on who else was writing.  The selector needs none: what a text says is    *)
(* decided by its list of domains alone, whatever the state.                 *)
(***************************************************************************)
EXTENDS ConfigFile, TLAPS, SequenceTheorems, WellFoundedInduction

(* A task that serves is the one that holds the port, and the other way      *)
(* round; said of each task, which is the form the steps preserve.           *)
PortHeld == \A s \in Starts : At(s, "serving") <=> port = s

(* The two forms say the same. *)
LEMMA PortHeldServing ==
  ASSUME port \in Starts \cup {None}
  PROVE  PortHeld <=> Serving = {port} \ {None}
BY GuiAssumption DEF PortHeld, Serving

(* The types are kept by every step. *)
LEMMA TypeNext == TypeOK /\ [Next]_vars => TypeOK'
<1> SUFFICES ASSUME TypeOK, [Next]_vars PROVE TypeOK'
  OBVIOUS
<1> DEFINE Pcs == {"idle", "load", "swap", "mark", "spawned", "serving", "clear", "ended", "refused"}
           Types == /\ start \in [Starts -> Pcs]
                    /\ stop \in {"idle", "take", "clear"}
                    /\ running \in BOOLEAN
                    /\ shutdown_tx \in Starts \cup {None} /\ port \in Starts \cup {None}
                    /\ clients \subseteq Starts
<1>0. Types /\ PortHeld
  BY PortHeldServing DEF TypeOK
<1>1. Types' /\ PortHeld'
  <2> USE <1>0, GuiAssumption DEF PortHeld, At, Goto
  <2>1. ASSUME NEW s \in Starts, Command(s) PROVE Types' /\ PortHeld'
    <3>1. CASE Check(s)  BY <3>1 DEF Check
    <3>2. CASE Load(s)   BY <3>2 DEF Load
    <3>3. CASE Swap(s)   BY <3>3 DEF Swap
    <3>4. CASE Mark(s)   BY <3>4 DEF Mark
    <3> QED BY <2>1, <3>1, <3>2, <3>3, <3>4 DEF Command
  <2>2. ASSUME NEW s \in Starts, Task(s) PROVE Types' /\ PortHeld'
    <3>1. CASE Bind(s)      BY <3>1 DEF Bind
    <3>2. CASE BindFails(s) BY <3>2 DEF BindFails
    <3>3. CASE Shutdown(s)  BY <3>3 DEF Shutdown
    <3>4. CASE Clear(s)     BY <3>4 DEF Clear
    <3> QED BY <2>2, <3>1, <3>2, <3>3, <3>4 DEF Task
  <2>3. ASSUME NEW s \in Starts, Accept(s) \/ ClientsLeave(s) PROVE Types' /\ PortHeld'
    BY <2>3 DEF Accept, ClientsLeave
  <2>4. CASE Stop
    BY <2>4 DEF Stop, StopChecks, StopTakes, StopClears
  <2>5. CASE UNCHANGED vars
    BY <2>5 DEF vars
  <2> QED BY <2>1, <2>2, <2>3, <2>4, <2>5 DEF Next
<1>2. (port \in Starts \cup {None})' => (PortHeld' <=> Serving' = {port'} \ {None})
  BY GuiAssumption DEF PortHeld, Serving
<1> QED BY <1>1, <1>2 DEF TypeOK

(* The types hold at first. *)
LEMMA TypeInit == Init => TypeOK
BY GuiAssumption DEF Init, TypeOK, Serving, At

(* main.rs: the address is bound exactly while a task serves, and the state  *)
(* the two mutexes guard keeps its type.                                     *)
THEOREM Typing == Spec => []TypeOK
BY TypeInit, TypeNext, PTL DEF Spec

-----------------------------------------------------------------------------
(* No step leaves the status at "running" with no task behind it: Mark sets  *)
(* it with a task of its own, and a task's last step resets it.              *)
LEMMA BackedNext == TypeOK /\ RunningIsBacked /\ [Next]_vars => RunningIsBacked'
<1> SUFFICES ASSUME TypeOK, RunningIsBacked, [Next]_vars, running'
             PROVE  \E s \in Starts : start'[s] \in {"spawned", "serving", "clear"}
  BY DEF RunningIsBacked
<1> DEFINE Alive(s) == start[s] \in {"spawned", "serving", "clear"}
<1> USE DEF At, Goto, TypeOK
<1>1. ASSUME NEW s \in Starts, Mark(s) PROVE \E t \in Starts : Alive(t)'
  BY <1>1 DEF Mark
<1>2. CASE ~\E s \in Starts : Mark(s)
  <2>1. running
    BY <1>2 DEF Next, vars, Command, Task, Stop, Check, Load, Swap, Bind, BindFails, Shutdown,
                Clear, Accept, ClientsLeave, StopChecks, StopTakes, StopClears
  <2>2. PICK b \in Starts : Alive(b)
    BY <2>1 DEF RunningIsBacked
  <2>3. Alive(b)'
    <3>1. ASSUME NEW s \in Starts, Command(s) PROVE Alive(b)'
      BY <3>1, <2>2, <1>2 DEF Command, Check, Load, Swap
    <3>2. ASSUME NEW s \in Starts, Task(s) PROVE Alive(b)'
      BY <3>2, <2>2 DEF Task, Bind, BindFails, Shutdown, Clear
    <3>3. ASSUME NEW s \in Starts, Accept(s) \/ ClientsLeave(s) PROVE Alive(b)'
      BY <3>3, <2>2 DEF Accept, ClientsLeave
    <3>4. CASE Stop \/ UNCHANGED vars
      BY <3>4, <2>2 DEF Stop, StopChecks, StopTakes, StopClears, vars
    <3> QED BY <3>1, <3>2, <3>3, <3>4 DEF Next
  <2> QED BY <2>3
<1> QED BY <1>1, <1>2

(* main.rs:166: while the status says "running", a task is about to serve,   *)
(* serves, or is about to correct the status.                                *)
THEOREM RunningBacked == Spec => []RunningIsBacked
<1>1. Init => RunningIsBacked
  BY DEF Init, RunningIsBacked
<1> QED BY <1>1, TypeInit, TypeNext, BackedNext, PTL DEF Spec

-----------------------------------------------------------------------------
(* Why the status is true of a proxy that serves alone.  A task that was      *)
(* spawned stays among those that were, and a stop is only begun once one    *)
(* was.                                                                      *)
Up == {s \in Starts : start[s] \in {"spawned", "serving", "clear", "ended"}}

StopFollowsTask == running \/ stop # "idle" => Up # {}

(* A start that holds the sender, with no other task spawned so far, has no   *)
(* stop to clear the status behind it, and the status it set stands.         *)
Alone(s) == start[s] \in {"mark", "spawned", "serving"} /\ shutdown_tx = s /\ Up \subseteq {s}

AloneIsShown ==
  \A s \in Starts : Alone(s) => stop # "clear" /\ (start[s] # "mark" => running)

(* A task that is up does not go back. *)
LEMMA UpGrows == TypeOK /\ [Next]_vars => Up \subseteq Up'
<1> SUFFICES ASSUME TypeOK, [Next]_vars, NEW u \in Up PROVE u \in Up'
  OBVIOUS
<1> USE DEF At, Goto, TypeOK, Up
<1>1. ASSUME NEW s \in Starts, Command(s) PROVE u \in Up'
  BY <1>1 DEF Command, Check, Load, Swap, Mark
<1>2. ASSUME NEW s \in Starts, Task(s) PROVE u \in Up'
  BY <1>2 DEF Task, Bind, BindFails, Shutdown, Clear
<1>3. ASSUME NEW s \in Starts, Accept(s) \/ ClientsLeave(s) PROVE u \in Up'
  BY <1>3 DEF Accept, ClientsLeave
<1>4. CASE Stop \/ UNCHANGED vars
  BY <1>4 DEF Stop, StopChecks, StopTakes, StopClears, vars
<1> QED BY <1>1, <1>2, <1>3, <1>4 DEF Next

(* Every step preserves StopFollowsTask. *)
LEMMA FollowsNext == TypeOK /\ StopFollowsTask /\ [Next]_vars => StopFollowsTask'
<1> SUFFICES ASSUME TypeOK, StopFollowsTask, [Next]_vars, running' \/ stop' # "idle"
             PROVE  Up' # {}
  BY DEF StopFollowsTask
<1>1. ASSUME NEW s \in Starts, Mark(s) PROVE s \in Up'
  BY <1>1 DEF Mark, Goto, TypeOK, Up
<1>2. CASE ~\E s \in Starts : Mark(s)
  <2>1. running \/ stop # "idle"
    BY <1>2 DEF Next, vars, Command, Task, Stop, Check, Load, Swap, Bind, BindFails, Shutdown,
                Clear, Accept, ClientsLeave, StopChecks, StopTakes, StopClears
  <2> QED BY <2>1, UpGrows DEF StopFollowsTask
<1> QED BY <1>1, <1>2

(* Every step preserves AloneIsShown. *)
LEMMA AloneNext ==
  TypeOK /\ StopFollowsTask /\ AloneIsShown /\ [Next]_vars => AloneIsShown'
<1> SUFFICES ASSUME TypeOK, StopFollowsTask, AloneIsShown, [Next]_vars,
                    NEW s \in Starts, Alone(s)'
             PROVE  stop' # "clear" /\ (start'[s] # "mark" => running')
  BY DEF AloneIsShown
<1> DEFINE Shown == stop' # "clear" /\ (start'[s] # "mark" => running')
<1>1. Up \subseteq {s} /\ Up' \subseteq {s} /\ shutdown_tx' = s
  BY UpGrows DEF Alone
<1>2. ASSUME NEW t \in Starts, t # s PROVE t \notin Up'
  BY <1>1, <1>2
<1>3. Alone(s) => stop # "clear" /\ (start[s] # "mark" => running)
  BY DEF AloneIsShown
<1> USE DEF At, Goto, TypeOK
<1>4. ASSUME NEW t \in Starts, Command(t) PROVE Shown
  <2>1. CASE Swap(t)
    \* A stop that is to clear the status found a task, which is another.
    <3>1. t = s /\ s \notin Up /\ start'[s] = "mark" /\ stop' = stop
      BY <2>1, <1>1 DEF Swap, Up
    <3> QED BY <3>1, <1>1 DEF StopFollowsTask
  <2>2. CASE Mark(t)
    <3>1. t = s
      BY <2>2, <1>2 DEF Mark, Up
    <3>2. Alone(s)
      BY <2>2, <3>1, <1>1 DEF Mark, Alone
    <3> QED BY <2>2, <3>2, <1>3 DEF Mark
  <2>3. CASE Check(t) \/ Load(t)
    <3>1. start'[s] = start[s] /\ UNCHANGED <<stop, running, shutdown_tx>>
      BY <2>3 DEF Check, Load, Alone
    <3> QED BY <3>1, <1>1, <1>3 DEF Alone
  <2> QED BY <1>4, <2>1, <2>2, <2>3 DEF Command
<1>5. ASSUME NEW t \in Starts, Task(t) PROVE Shown
  <2>1. t \in Up'
    BY <1>5 DEF Task, Bind, BindFails, Shutdown, Clear, Up
  <2>2. t = s
    BY <2>1, <1>2
  <2>3. Bind(s)
    BY <1>5, <2>2 DEF Task, BindFails, Shutdown, Clear, Alone
  <2>4. Alone(s)
    BY <2>3, <1>1 DEF Bind, Alone
  <2> QED BY <2>3, <2>4, <1>3 DEF Bind, Alone
<1>6. ASSUME NEW t \in Starts, Accept(t) \/ ClientsLeave(t) PROVE Shown
  BY <1>6, <1>1, <1>3 DEF Accept, ClientsLeave, Alone
<1>7. CASE Stop
  <2>1. CASE StopChecks
    BY <2>1, <1>1, <1>3 DEF StopChecks, Alone
  <2>2. ~StopTakes
    BY <1>1, GuiAssumption DEF StopTakes
  <2>3. ~StopClears
    BY <1>1, <1>3 DEF StopClears, Alone
  <2> QED BY <1>7, <2>1, <2>2, <2>3 DEF Stop
<1>8. CASE UNCHANGED vars
  BY <1>8, <1>1, <1>3 DEF vars, Alone
<1> QED BY <1>4, <1>5, <1>6, <1>7, <1>8 DEF Next

(* What is kept of a start that is alone gives StatusTrue. *)
LEMMA AloneGivesStatus == TypeOK /\ AloneIsShown => StatusTrue
<1> SUFFICES ASSUME TypeOK, AloneIsShown, Settled, ~running, NEW s \in Serving
             PROVE  \E t \in Starts \ {s} : At(t, "ended")
  BY DEF StatusTrue
<1>1. start[s] = "serving" /\ shutdown_tx = s /\ s \in Starts
  BY DEF Settled, Serving, At
<1>2. ~(Up \subseteq {s})
  BY <1>1 DEF AloneIsShown, Alone
<1>3. PICK t \in Starts \ {s} : t \in Up
  BY <1>2 DEF Up
<1>4. start[t] # "serving"
  BY <1>1, <1>3, PortHeldServing DEF TypeOK, PortHeld, At
<1> QED BY <1>3, <1>4 DEF Up, Settled, At

(* main.rs:172 and 192: in rest, the status calls a proxy that serves "not   *)
(* running" only if the task of another start has ended since and cleared    *)
(* the status for both; a stop that raced a start does not do that to it.    *)
THEOREM StatusTruth == Spec => []StatusTrue
<1>1. Init => StopFollowsTask /\ AloneIsShown
  BY DEF Init, StopFollowsTask, AloneIsShown, Alone
<1> QED BY <1>1, TypeInit, TypeNext, FollowsNext, AloneNext, AloneGivesStatus, PTL DEF Spec

-----------------------------------------------------------------------------

(* Every step of the system is a step of GuiControl, or leaves its state alone. *)
THEOREM GuiSteps == System => Init /\ [][Next]_vars
<1>1. SystemInit => Init
  BY DEF SystemInit
<1>2. [SystemNext]_system => [Next]_vars
  <2> SUFFICES ASSUME [SystemNext]_system PROVE [Next]_vars
    OBVIOUS
  <2>1. ASSUME NEW w \in Savers, Save(w) PROVE UNCHANGED vars
    BY <2>1 DEF Save, Begin, Search, Create, WriteHead, WriteBody, CutShort
  <2>2. ASSUME NEW s \in Starts, Begun(s) \/ Spawned(s) PROVE Next
    BY <2>2 DEF Begun, Spawned, LoadFile, ClearAndDrop, Rest, Next, Command, Task
  <2> QED BY <2>1, <2>2 DEF SystemNext, system, Rest, Next, Command
<1> QED BY <1>1, <1>2, PTL DEF System

(* main.rs:166, 172 and 192: with saves about, too, "running" is backed by a  *)
(* task, and "not running" is said of a proxy that serves only after the     *)
(* task of another start ended.                                              *)
THEOREM SystemStatus == System => [](RunningIsBacked /\ StatusTrue)
<1>1. Init => RunningIsBacked /\ StopFollowsTask /\ AloneIsShown
  BY DEF Init, RunningIsBacked, StopFollowsTask, AloneIsShown, Alone
<1> QED BY <1>1, GuiSteps, TypeInit, TypeNext, BackedNext, FollowsNext, AloneNext,
           AloneGivesStatus, PTL

-----------------------------------------------------------------------------
(* The order on Nat as a set of pairs, for the theorems on well-founded relations. *)
Lower == {ss \in Nat \X Nat : ss[1] < ss[2]}

(* A nonempty set of numbers with a bound has a greatest. *)
LEMMA Greatest ==
  ASSUME NEW n \in Nat, NEW S \in SUBSET (0 .. n), S # {}
  PROVE  \E m \in S : \A j \in S : j <= m
<1> DEFINE T == {n - x : x \in S}
<1>1. IsWellFoundedOn(Lower, Nat)
  BY Zenon, NatLessThanWellFounded DEF Lower, OpToRel
<1>2. T \subseteq Nat /\ T # {}
  <2>1. \A x \in S : n - x \in Nat
    OBVIOUS
  <2> QED BY <2>1
<1>3. PICK t \in T : \A y \in T : <<y, t>> \notin Lower
  BY <1>1, <1>2, WFMin
<1>4. PICK m \in S : t = n - m
  BY <1>3
<1>5. ASSUME NEW j \in S PROVE j <= m
  <2>1. <<n - j, n - m>> \notin Lower
    BY <1>3, <1>4
  <2>2. n - j \in Nat /\ n - m \in Nat
    OBVIOUS
  <2> QED BY <2>1, <2>2 DEF Lower
<1> QED BY <1>5

(* What is written where the file ends is appended. *)
LEMMA PutAppends ==
  ASSUME NEW S, NEW cells \in Seq(S), file \in Seq(S)
  PROVE  Put(cells, Len(file)) = file \o cells
<1> DEFINE both == file \o cells
<1>1. both \in Seq(S) /\ Len(both) = Len(file) + Len(cells)
  OBVIOUS
<1>2. \A k \in 1 .. Len(both) : both[k] = IF k <= Len(file) THEN file[k] ELSE cells[k - Len(file)]
  OBVIOUS
<1>3. Len(file) \in Nat /\ Len(cells) \in Nat
  OBVIOUS
<1> HIDE DEF both
<1>4. both = [k \in 1 .. Len(both) |-> both[k]]
  BY <1>1
<1>5. (IF Len(file) + Len(cells) > Len(file) THEN Len(file) + Len(cells) ELSE Len(file)) = Len(both)
  BY <1>1, <1>3
<1>6. ASSUME NEW k \in 1 .. Len(both)
      PROVE  both[k] = IF k \in Len(file) + 1 .. Len(file) + Len(cells) THEN cells[k - Len(file)]
                       ELSE IF k <= Len(file) THEN file[k] ELSE Hole
  BY <1>1, <1>2, <1>3
<1>7. Put(cells, Len(file)) = both
  BY <1>4, <1>5, <1>6 DEF Put
<1> QED BY <1>7 DEF both

-----------------------------------------------------------------------------
(* The file.                                                                *)

Cells == (Writers \cup {None}) \X Nat

(* A text ends with its writer's last cell. *)
LEMMA TextType ==
  ASSUME NEW w \in Writers
  PROVE  /\ Banner(w) \in Seq(Cells) /\ Body(w) \in Seq(Cells) /\ Text(w) \in Seq(Cells)
         /\ Len(Text(w)) = Len(Banner(w)) + Size[w]
         /\ Text(w)[Len(Text(w))] = <<w, Size[w]>>
<1>1. Size[w] \in Nat \ {0}
  BY ConfigAssumption
<1>2. Comment \in Cells
  BY DEF Comment, Cells
<1>3. Banner(w) \in Seq(Cells)
  BY <1>2 DEF Banner
<1>4. Body(w) \in Seq(Cells) /\ Len(Body(w)) = Size[w] /\ Body(w)[Size[w]] = <<w, Size[w]>>
  <2>1. \A n \in 1 .. Size[w] : <<w, n>> \in Cells
    BY <1>1 DEF Cells
  <2>2. Body(w) \in Seq(Cells)
    BY <1>1, <2>1 DEF Body
  <2>3. Len(Body(w)) = Size[w]
    BY <1>1 DEF Body
  <2>4. Body(w)[Size[w]] = <<w, Size[w]>>
    BY <1>1 DEF Body
  <2> QED BY <2>2, <2>3, <2>4
<1> QED BY <1>1, <1>3, <1>4 DEF Text

(* No two writers have one text. *)
LEMMA TextTells ==
  ASSUME NEW v \in Writers, NEW w \in Writers, Text(v) = Text(w)
  PROVE  v = w
BY TextType

(* A file that holds a text has its writer as its source. *)
LEMMA SourceTells ==
  ASSUME NEW w \in Writers, file = Text(w)
  PROVE  Source = w
<1>1. \A v \in Writers : file = Text(v) <=> v = w
  BY TextTells
<1> QED BY <1>1 DEF Source

(* The conjuncts of SavedWhole that steps preserve: of the saves one at most  *)
(* is writing, what it has written so far is what is in the file, and every  *)
(* save that was begun has the settings that the user wrote.                 *)
Undisturbed ==
  /\ \A v, w \in Writing : v = w
  /\ \A w \in Writing : file = IF saver[w] = "head" THEN <<>> ELSE Banner(w)
  /\ Writing = {} => file = Text(last)
  /\ settings[last]
  /\ \A w \in Savers : saver[w] # "idle" => settings[w]

SaverPcs == {"idle", "search", "create", "head", "body", "done", "dead"}

FileOK ==
  /\ saver \in [Savers -> SaverPcs]
  /\ settings \in [Writers -> BOOLEAN]
  /\ last \in Writers /\ disturbed \in BOOLEAN
  /\ ~disturbed => Undisturbed

(* The file's invariant holds at first. *)
LEMMA FileInit == SystemInit => FileOK
<1> SUFFICES ASSUME SystemInit PROVE FileOK
  OBVIOUS
<1>1. file = Text(User)
  <2>1. Body(User) \in Seq(Cells) /\ Text(User) = <<>> \o Body(User)
    BY TextType DEF Text, Banner, Writers
  <2> QED BY <2>1 DEF SystemInit, Body
<1> QED BY <1>1, ConfigAssumption DEF SystemInit, FileOK, Undisturbed, Writing, SaverPcs, Writers

(* Every step of a save preserves it, *)
LEMMA FileSave ==
  ASSUME FileOK, NEW w \in Savers, Save(w)
  PROVE  FileOK'
<1> USE DEF FileOK, SaverPcs
<1>0. w \in Writers /\ Savers \subseteq Writers
  BY DEF Writers
<1>1. CASE Begin(w)
  <2>1. settings' \in [Writers -> BOOLEAN]
    <3>1. Source # None => settings' = [settings EXCEPT ![w] = settings[Source]]
      BY <1>1 DEF Begin
    <3>2. Source # None => Source \in Writers
      BY DEF Source
    <3> QED BY <1>1, <3>1, <3>2 DEF Begin
  <2>2. saver' \in [Savers -> SaverPcs] /\ disturbed' \in BOOLEAN /\ last' \in Writers
    BY <1>1 DEF Begin, Step
  <2>3. ASSUME ~disturbed' PROVE Undisturbed'
    <3>1. ~disturbed /\ Writing = {} /\ Writing' = {} /\ UNCHANGED <<file, last>>
      BY <1>1, <2>3 DEF Begin, Step, Writing
    <3>2. Source = last
      BY <3>1, SourceTells DEF Undisturbed
    <3>3. last # None
      BY ConfigAssumption DEF Writers
    <3>4. settings' = [settings EXCEPT ![w] = TRUE]
      BY <1>1, <3>1, <3>2, <3>3 DEF Begin, Undisturbed
    <3>5. \A v \in Writers : settings[v] => settings'[v]
      BY <3>4
    <3>6. settings'[w]
      BY <3>4, <1>0
    <3>7. \A v \in Savers : v # w => saver'[v] = saver[v]
      BY <1>1 DEF Begin, Step
    <3> QED BY <3>1, <3>5, <3>6, <3>7, <1>0 DEF Undisturbed
  <2> QED BY <2>1, <2>2, <2>3
<1>2. CASE Search(w)
  <2>1. Writing' = Writing
    BY <1>2 DEF Search, Step, Writing
  <2> QED BY <1>2, <2>1 DEF Search, Step, Undisturbed, Writing
<1>3. CASE Create(w)
  <2>1. saver' \in [Savers -> SaverPcs]
    BY <1>3 DEF Create, Step
  <2>2. ASSUME ~disturbed' PROVE Writing' = {w} /\ Writing = {}
    BY <1>3, <2>2 DEF Create, Step, Writing
  <2> QED BY <1>3, <2>1, <2>2, <1>0 DEF Create, Step, Undisturbed
<1>4. CASE WriteHead(w)
  <2>1. Writing' = Writing /\ w \in Writing
    BY <1>4 DEF WriteHead, Step, Writing
  <2>2. ASSUME ~disturbed PROVE file' = Banner(w)
    <3>1. file = <<>>
      BY <1>4, <2>1, <2>2 DEF WriteHead, Step, Undisturbed
    <3>2. file \in Seq(Cells) /\ Len(file) = 0 /\ file \o Banner(w) = Banner(w)
      BY <3>1, TextType, <1>0
    <3>3. Put(Banner(w), Len(file)) = file \o Banner(w)
      BY <3>2, TextType, PutAppends, <1>0
    <3> QED BY <1>4, <3>2, <3>3 DEF WriteHead
  <2> QED BY <1>4, <2>1, <2>2 DEF WriteHead, Step, Undisturbed, Writing
<1>5. CASE WriteBody(w)
  <2>1. w \in Writing /\ Writing' = Writing \ {w}
    BY <1>5 DEF WriteBody, Step, Writing
  <2>2. ASSUME ~disturbed PROVE file' = Text(w)
    <3>1. file = Banner(w)
      BY <1>5, <2>1, <2>2 DEF WriteBody, Step, Undisturbed
    <3>2. Put(Body(w), Len(file)) = file \o Body(w)
      BY <3>1, TextType, PutAppends, <1>0
    <3> QED BY <1>5, <3>1, <3>2 DEF WriteBody, Text
  <2> QED BY <1>5, <2>1, <2>2, <1>0 DEF WriteBody, Step, Undisturbed
<1>6. CASE CutShort(w)
  BY <1>6 DEF CutShort
<1> QED BY <1>1, <1>2, <1>3, <1>4, <1>5, <1>6 DEF Save

(* and so does every step of the system. *)
LEMMA FileNext == FileOK /\ [SystemNext]_system => FileOK'
<1> SUFFICES ASSUME FileOK, [SystemNext]_system PROVE FileOK'
  OBVIOUS
<1>1. CASE \E w \in Savers : Save(w)
  BY <1>1, FileSave
<1>2. CASE UNCHANGED <<file, saver, settings, last, disturbed>>
  BY <1>2 DEF FileOK, Undisturbed, Writing
<1> QED BY <1>1, <1>2 DEF SystemNext, system, Begun, Spawned, LoadFile, ClearAndDrop, Rest, files

(* desyncd-cli main.rs:537 and desyncd-gui main.rs:466: what a save leaves, if *)
(* it was not cut short and no other came into it, is its whole text, with   *)
(* the settings of the file it found.                                        *)
THEOREM WholeSave == System => []SavedWhole
<1>1. FileOK => SavedWhole
  BY SourceTells DEF FileOK, Undisturbed, SavedWhole
<1> QED BY <1>1, FileInit, FileNext, PTL DEF System

-----------------------------------------------------------------------------
(* The selector of a saved text.                                            *)

(* The rule that decides for a domain: the last of the text whose patterns    *)
(* cover it, and the catch-all when there is none.                           *)
LEMMA LastRuleDecides ==
  ASSUME NEW w \in Savers, discovered[w] \in Seq(Domains), NEW d \in Domains,
         NEW m \in DOMAIN discovered[w], d \in Under[discovered[w][m]],
         \A j \in DOMAIN discovered[w] : d \in Under[discovered[w][j]] => j <= m
  PROVE  Loaded(w)!Select(d) = IF NameOf[discovered[w][m]] \in DOMAIN StrategiesOf(w)
                               THEN StrategiesOf(w)[NameOf[discovered[w][m]]] ELSE <<>>
<1> DEFINE list == discovered[w]
           rules == RulesOf(w)
           n == Len(list)
           matching == {i \in DOMAIN rules : d \in rules[i].domains}
           Ahead(i, j) == \/ rules[i].priority > rules[j].priority
                          \/ rules[i].priority = rules[j].priority /\ i <= j
           best == CHOOSE i \in matching : \A j \in matching : Ahead(i, j)
<1>1. n \in Nat /\ DOMAIN list = 1 .. n /\ DOMAIN rules = 1 .. n + 1
  BY DEF RulesOf
<1>2. \A i \in 1 .. n : /\ rules[i].domains = Under[list[i]]
                         /\ rules[i].strategy = NameOf[list[i]]
                         /\ rules[i].priority = 9 + i
  BY <1>1 DEF RulesOf
<1>3. rules[n + 1].priority = 0
  BY <1>1 DEF RulesOf
<1>4. m \in matching /\ m \in 1 .. n
  BY <1>1, <1>2
<1> HIDE DEF rules, list, n
<1>5. ASSUME NEW j \in matching PROVE Ahead(m, j)
  <2>1. CASE j = n + 1
    BY <2>1, <1>1, <1>2, <1>3, <1>4
  <2>2. CASE j \in 1 .. n
    <3>1. d \in Under[list[j]]
      BY <2>2, <1>2, <1>5
    <3>2. j <= m
      BY <3>1, <2>2, <1>1 DEF list
    <3>3. rules[m].priority = 9 + m /\ rules[j].priority = 9 + j
      BY <2>2, <1>2, <1>4
    <3> QED BY <2>2, <3>2, <3>3, <1>4
  <2> QED BY <2>1, <2>2, <1>1
<1>6. ASSUME NEW i \in matching, Ahead(i, m) PROVE i = m
  <2>1. i # n + 1
    BY <1>6, <1>1, <1>2, <1>3, <1>4
  <2>2. i \in 1 .. n /\ d \in Under[list[i]]
    BY <2>1, <1>1, <1>2, <1>6
  <2>3. i <= m
    BY <2>2, <1>1 DEF list
  <2> QED BY <2>2, <2>3, <1>6, <1>1, <1>2, <1>4
<1>7. best = m
  BY <1>4, <1>5, <1>6
<1>8. rules[best].strategy = NameOf[list[m]]
  BY <1>7, <1>2, <1>4
<1> QED BY <1>4, <1>8 DEF Loaded!Select, Loaded!Before, rules, list

(* A domain on its own is given the strategy that was found for it. *)
LEMMA OwnStrategy ==
  ASSUME NEW w \in Savers, discovered[w] \in Seq(Domains),
         NEW k \in DOMAIN discovered[w], OnItsOwn(w, k)
  PROVE  Loaded(w)!Select(discovered[w][k]) = <<discovered[w][k]>>
<1> DEFINE list == discovered[w]
           n == Len(list)
           d == list[k]
           covering == {j \in 1 .. n : d \in Under[list[j]]}
           named == {j \in DOMAIN list : NameOf[list[j]] = NameOf[d]}
<1>1. n \in Nat /\ DOMAIN list = 1 .. n /\ d \in Domains /\ d \in Under[d]
  BY ConfigAssumption
<1>2. PICK m \in covering : \A j \in covering : j <= m
  <2>1. covering \in SUBSET (0 .. n) /\ k \in covering
    BY <1>1
  <2> HIDE DEF covering, n
  <2> QED BY <1>1, <2>1, Greatest
<1>3. list[m] = d
  <2>1. m >= k /\ m \in DOMAIN list /\ d \in Under[list[m]]
    BY <1>1, <1>2
  <2> QED BY <2>1, <1>1 DEF OnItsOwn
<1>4. PICK l \in named : \A j \in named : j <= l
  <2>1. named \in SUBSET (0 .. n) /\ k \in named
    BY <1>1
  <2> HIDE DEF named, n
  <2> QED BY <1>1, <2>1, Greatest
<1>5. \A j \in named : list[j] = d
  BY DEF OnItsOwn
<1>6. StrategiesOf(w)[NameOf[d]] = <<d>> /\ NameOf[d] \in DOMAIN StrategiesOf(w)
  <2> DEFINE final == CHOOSE l1 \in named : \A j \in named : j <= l1
  <2>1. final \in named
    BY <1>4
  <2>2. list[final] = d
    BY <2>1, <1>5
  <2>3. NameOf[d] \in {NameOf[e] : e \in Range(list)}
    BY <1>1 DEF Range
  <2> QED BY <2>2, <2>3 DEF StrategiesOf, OnItsOwn
<1>7. m \in DOMAIN list /\ \A j \in DOMAIN list : d \in Under[list[j]] => j <= m
  BY <1>1, <1>2
<1>8. Loaded(w)!Select(d) = IF NameOf[list[m]] \in DOMAIN StrategiesOf(w)
                            THEN StrategiesOf(w)[NameOf[list[m]]] ELSE <<>>
  BY <1>1, <1>3, <1>7, LastRuleDecides
<1> QED BY <1>3, <1>6, <1>8

(* A domain that no rule of the text covers is left alone. *)
LEMMA OthersPass ==
  ASSUME NEW w \in Savers, discovered[w] \in Seq(Domains), NEW d \in Domains,
         \A k \in DOMAIN discovered[w] : d \notin Under[discovered[w][k]]
  PROVE  Loaded(w)!Select(d) = <<>>
<1> DEFINE rules == RulesOf(w)
           n == Len(discovered[w])
           matching == {i \in DOMAIN rules : d \in rules[i].domains}
           best == CHOOSE i \in matching :
                     \A j \in matching : \/ rules[i].priority > rules[j].priority
                                         \/ rules[i].priority = rules[j].priority /\ i <= j
<1>1. n \in Nat /\ DOMAIN discovered[w] = 1 .. n /\ DOMAIN rules = 1 .. n + 1
  BY DEF RulesOf
<1>2. \A i \in 1 .. n : rules[i].domains = Under[discovered[w][i]]
  BY <1>1 DEF RulesOf
<1>3. rules[n + 1] = [domains |-> Domains, strategy |-> "passthrough", priority |-> 0]
  BY <1>1 DEF RulesOf
<1> HIDE DEF rules
<1>4. matching = {n + 1}
  BY <1>1, <1>2, <1>3
<1>5. best = n + 1
  BY <1>1, <1>3, <1>4
<1>6. matching # {} /\ rules[best].strategy = "passthrough"
  BY <1>3, <1>4, <1>5
<1>7. Loaded(w)!Select(d) = IF "passthrough" \in DOMAIN StrategiesOf(w)
                            THEN StrategiesOf(w)["passthrough"] ELSE <<>>
  BY <1>6 DEF Loaded!Select, Loaded!Before, rules
<1> QED BY <1>7 DEF StrategiesOf

(* The lists of the saves are what their searches may find. *)
ListsOK ==
  /\ discovered = [w \in Writers |-> discovered[w]]
  /\ \A w \in Savers : discovered[w] \in Seq(Domains)

(* Every step preserves the types of the lists. *)
LEMMA ListsNext == ListsOK /\ [SystemNext]_system => ListsOK'
<1> SUFFICES ASSUME ListsOK, [SystemNext]_system PROVE ListsOK'
  OBVIOUS
<1>1. ASSUME NEW w \in Savers, Search(w) PROVE ListsOK'
  BY <1>1, ConfigAssumption DEF Search, ListsOK, Writers
<1>2. CASE UNCHANGED discovered
  BY <1>2 DEF ListsOK
<1> QED BY <1>1, <1>2 DEF SystemNext, system, Save, Begin, Create, WriteHead, WriteBody, CutShort,
                         Begun, Spawned, LoadFile, ClearAndDrop, Rest, files

(* desyncd-cli main.rs:447 and desyncd-gui main.rs:402: a proxy that loaded a *)
(* saved text gives each domain the strategy that was found for it, unless a *)
(* later rule covers it or its name is shared, and leaves the others alone;  *)
(* whatever the patterns cover and however the names come out.               *)
THEOREM SavedIsUsed == System => []FoundIsUsed
<1>1. SystemInit => ListsOK
  BY ConfigAssumption DEF SystemInit, ListsOK, Writers
<1>2. ListsOK => FoundIsUsed
  BY OwnStrategy, OthersPass DEF ListsOK, FoundIsUsed
<1> QED BY <1>1, <1>2, ListsNext, PTL DEF System
=============================================================================
