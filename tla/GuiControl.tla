----------------------------- MODULE GuiControl -----------------------------
(***************************************************************************)
(* start_proxy and stop_proxy of src/crates/desyncd-gui/src/main.rs.  The    *)
(* commands and the proxy tasks they spawn run on several threads and share *)
(* two mutexes, the status and the sender of the shutdown channel, that are *)
(* locked for one statement at a time.                                      *)
(***************************************************************************)
EXTENDS Naturals, FiniteSets

CONSTANTS
  Starts,    \* bound: the invocations of start_proxy, each with its task
  None

ASSUME GuiAssumption == None \notin Starts

VARIABLES
  start,        \* where each start_proxy, and then its task, is
  stop,         \* where stop_proxy is (the main thread runs one at a time)
  running,      \* ProxyStatus.running
  shutdown_tx,  \* AppState.shutdown_tx: whose sender it holds
  port,         \* the task whose listener is bound to the configured address
  clients       \* the tasks whose connections are still relayed

vars == <<start, stop, running, shutdown_tx, port, clients>>

Init ==
  /\ start = [s \in Starts |-> "idle"]
  /\ stop = "idle"
  /\ running = FALSE
  /\ shutdown_tx = None
  /\ port = None
  /\ clients = {}

At(s, pc)   == start[s] = pc
Goto(s, pc) == start' = [start EXCEPT ![s] = pc]

-----------------------------------------------------------------------------
(* start_proxy.                                                             *)

Check(s) ==
  /\ At(s, "idle")
  /\ Goto(s, IF running THEN "refused" ELSE "load")
  /\ UNCHANGED <<stop, running, shutdown_tx, port, clients>>

(* AppConfig::load may fail. *)
Load(s) ==
  /\ At(s, "load")
  /\ Goto(s, "swap") \/ Goto(s, "refused")
  /\ UNCHANGED <<stop, running, shutdown_tx, port, clients>>

(* Mutant: a sender that is there is kept. *)
SwapIfNone(s) ==
  /\ At(s, "swap")
  /\ shutdown_tx' = IF shutdown_tx = None THEN s ELSE shutdown_tx
  /\ Goto(s, "mark")
  /\ UNCHANGED <<stop, running, port, clients>>

(* The sender that was there is dropped, which ends its receiver's wait. *)
Swap(s) ==
  /\ At(s, "swap")
  /\ shutdown_tx' = s
  /\ Goto(s, "mark")
  /\ UNCHANGED <<stop, running, port, clients>>

(* The status is set, and the task spawned. *)
Mark(s) ==
  /\ At(s, "mark")
  /\ running' = TRUE
  /\ Goto(s, "spawned")
  /\ UNCHANGED <<stop, shutdown_tx, port, clients>>

-----------------------------------------------------------------------------
(* The task: run_socks_proxy against the shutdown channel.                  *)

(* select! polls one branch first: a task may bind even if it was shut down. *)
Bind(s) ==
  /\ At(s, "spawned") /\ port = None
  /\ port' = s
  /\ Goto(s, "serving")
  /\ UNCHANGED <<stop, running, shutdown_tx, clients>>

(* Mutant: the task returns on an error of the proxy. *)
BindFailsEnds(s) ==
  /\ At(s, "spawned")
  /\ Goto(s, "ended")
  /\ UNCHANGED <<stop, running, shutdown_tx, port, clients>>

(* The address is in use, by another task or another program. *)
BindFails(s) ==
  /\ At(s, "spawned")
  /\ Goto(s, "clear")
  /\ UNCHANGED <<stop, running, shutdown_tx, port, clients>>

(* An accepted connection gets a task of its own, which outlives the listener. *)
Accept(s) ==
  /\ At(s, "serving")
  /\ clients' = clients \cup {s}
  /\ UNCHANGED <<start, stop, running, shutdown_tx, port>>

ClientsLeave(s) ==
  /\ s \in clients
  /\ clients' = clients \ {s}
  /\ UNCHANGED <<start, stop, running, shutdown_tx, port>>

(* Mutant: the listener outlives the task. *)
ShutdownKeepsPort(s) ==
  /\ start[s] \in {"spawned", "serving"} /\ shutdown_tx # s
  /\ Goto(s, "clear")
  /\ UNCHANGED <<stop, running, shutdown_tx, port, clients>>

(* shutdown_rx resolves once its sender was used or dropped; the listener is *)
(* dropped with the proxy's future.                                          *)
Shutdown(s) ==
  /\ start[s] \in {"spawned", "serving"} /\ shutdown_tx # s
  /\ port' = IF port = s THEN None ELSE port
  /\ Goto(s, "clear")
  /\ UNCHANGED <<stop, running, shutdown_tx, clients>>

Clear(s) ==
  /\ At(s, "clear")
  /\ running' = FALSE
  /\ Goto(s, "ended")
  /\ UNCHANGED <<stop, shutdown_tx, port, clients>>

-----------------------------------------------------------------------------
(* stop_proxy.                                                              *)

StopChecks ==
  /\ stop = "idle" /\ running
  /\ stop' = "take"
  /\ UNCHANGED <<start, running, shutdown_tx, port, clients>>

(* Mutant: the sender is kept and never used. *)
StopKeeps ==
  /\ stop = "take"
  /\ stop' = "clear"
  /\ UNCHANGED <<start, running, shutdown_tx, port, clients>>

StopTakes ==
  /\ stop = "take"
  /\ stop' = "clear"
  /\ shutdown_tx' = None
  /\ UNCHANGED <<start, running, port, clients>>

StopClears ==
  /\ stop = "clear"
  /\ stop' = "idle"
  /\ running' = FALSE
  /\ UNCHANGED <<start, shutdown_tx, port, clients>>

-----------------------------------------------------------------------------
Command(s) == Check(s) \/ Load(s) \/ Swap(s) \/ Mark(s)
Task(s)    == Bind(s) \/ BindFails(s) \/ Shutdown(s) \/ Clear(s)
Stop       == StopChecks \/ StopTakes \/ StopClears

Next ==
  \/ \E s \in Starts : Command(s) \/ Task(s) \/ Accept(s) \/ ClientsLeave(s)
  \/ Stop

(* A command that was begun and a task that was spawned run on; the users    *)
(* owe nothing.                                                              *)
Spec ==
  /\ Init /\ [][Next]_vars
  /\ \A s \in Starts : WF_vars(Load(s) \/ Swap(s) \/ Mark(s)) /\ WF_vars(Task(s))
  /\ WF_vars(StopTakes \/ StopClears)

-----------------------------------------------------------------------------
(* Properties.                                                              *)

Serving == {s \in Starts : At(s, "serving")}

(* The types of the variables; the address is bound exactly while its task   *)
(* serves.                                                                   *)
TypeOK ==
  /\ start \in [Starts -> {"idle", "load", "swap", "mark", "spawned", "serving", "clear",
                           "ended", "refused"}]
  /\ stop \in {"idle", "take", "clear"}
  /\ running \in BOOLEAN
  /\ shutdown_tx \in Starts \cup {None} /\ port \in Starts \cup {None}
  /\ clients \subseteq Starts
  /\ Serving = {port} \ {None}

(* The status never says "running" for good when nothing runs: while it does,*)
(* some task is about to serve, serves, or is about to correct it.           *)
RunningIsBacked ==
  running => \E s \in Starts : start[s] \in {"spawned", "serving", "clear"}

(* Two overlapping starts do not leave two proxies: one that serves when     *)
(* another start replaces the sender ends.                                   *)
OvertakenEnds ==
  \A s \in Starts : (At(s, "serving") /\ \E t \in Starts : At(t, "swap")) ~> At(s, "ended")

(* A stop that found the proxy running ends every task that was spawned when *)
(* it took the sender.                                                       *)
StopEnds ==
  \A s \in Starts :
    (At(s, "serving") /\ stop = "take") ~> (At(s, "ended"))

(* No command is at work, and no task is on its way to serve or to end. *)
Settled ==
  /\ stop = "idle"
  /\ \A s \in Starts : start[s] \in {"idle", "refused", "serving", "ended"}
  /\ \A s \in Serving : shutdown_tx = s

(* "Proxy is not running" is said of a proxy that serves only if another task *)
(* ended after it was started: that one has cleared the status for both.     *)
StatusTrue ==
  Settled /\ ~running => \A s \in Serving : \E t \in Starts \ {s} : At(t, "ended")
=============================================================================
