--------------------------------- MODULE Tick ---------------------------------
(***************************************************************************)
(* The bank host's hourly tick (scheduled_sync.sh), the hold that stops it *)
(* together with the walkers and the fleet's workflows (hold.sh), the      *)
(* ship-now label a tick obeys, and the alerts it opens (heartbeat.py).    *)
(*                                                                         *)
(* A hold is a file of names on the machine where the command runs and,    *)
(* behind each name, switches on several machines.  A command asks each    *)
(* machine and says what was confirmed; an unconfirmed switch may have     *)
(* moved all the same.  One owner gives one command at a time.             *)
(***************************************************************************)
EXTENDS Naturals, FiniteSets, Sequences, SequencesExt

CONSTANTS Remote,      \* the walkers' hosts
          Desk,        \* the machines beside the bank host that a hold is run from
          MaxHolds, MaxLabels, MaxHoldKills, MaxDries

ASSUME TickAssumption ==
  IsFiniteSet(Remote) /\ {MaxHolds, MaxLabels, MaxHoldKills, MaxDries} \subseteq Nat

Names == {"timer", "flag", "workflow"}
Here  == "here"
Machine == {Here} \cup Desk
Switches(m, name) == IF name = "flag" THEN {m} \cup Remote ELSE {name}
Switch == UNION {Switches(m, name) : m \in Machine, name \in Names}

VARIABLES
  listed,    \* the names in each machine's hold file, which exists while it has any
  off,       \* the switches that are off
  said,      \* the switches a command has confirmed off, until one lifts them
  holding,   \* the running hold command: none, on, or off
  at,        \* the machine it runs on
  todo,      \* what it has left: switches to turn off, or names to lift
  dropped,   \* the name whose line is gone and whose switches are being lifted
  step,      \* the tick's step
  hand,      \* where a run by hand on the bank host is: none, sync or bank
  dry,       \* it sets ARK_HOLD_BYPASS=dry-run
  lane,      \* whose run holds the sync lock
  bank,      \* whose bank runs
  label,     \* ship-now is on the issue
  labels, shippings, \* labels put, ships begun
  cause,     \* a condition that alerts, and its issue
  issue,
  holds, holdKills, dries

holdVars == <<listed, off, said, holding, at, todo, dropped, holds, holdKills>>
byHand   == <<hand, dry, dries>>
hostRuns == <<step, byHand, lane, bank>>
shipping == <<label, labels, shippings>>
alerting == <<cause, issue>>
tickVars == <<holdVars, hostRuns, shipping, alerting>>

TickInit ==
  /\ listed = [m \in Machine |-> {}] /\ off = {} /\ said = {}
  /\ holding = "none" /\ at = Here /\ todo = <<>> /\ dropped = {}
  /\ step = "idle" /\ hand = "none" /\ dry = FALSE /\ lane = "none" /\ bank = "none"
  /\ label = FALSE /\ labels = 0 /\ shippings = 0
  /\ cause = FALSE /\ issue = "none" /\ holds = 0 /\ holdKills = 0 /\ dries = 0

-----------------------------------------------------------------------------
(* hold.sh *)

\* `hold on`: the file first, the flag here next, then each machine in turn.
HoldOn ==
  /\ holding = "none" /\ holds < MaxHolds
  /\ holds' = holds + 1 /\ holding' = "on" /\ at' \in Machine
  /\ listed' = [listed EXCEPT ![at'] = Names]
  /\ todo' = <<at', "timer">> \o SetToSeq(Remote) \o <<"workflow">>
  /\ UNCHANGED <<off, said, dropped, hostRuns, shipping, alerting, holdKills>>

\* The next machine confirms, or does not answer whatever it did.
TurnOff ==
  /\ holding = "on" /\ todo # <<>>
  /\ todo' = Tail(todo)
  /\ \/ off' = off \cup {Head(todo)} /\ said' = said \cup {Head(todo)}
     \/ off' \in {off, off \cup {Head(todo)}} /\ said' = said
  /\ UNCHANGED <<listed, holding, at, dropped, hostRuns, shipping, alerting, holds, holdKills>>

\* `hold off`, of one listed name or of all that this machine's file lists.
HoldOff ==
  /\ holding = "none" /\ holds < MaxHolds
  /\ at' \in Machine
  /\ \E names \in {listed[at']} \cup {{name} : name \in listed[at']} :
       names # {} /\ todo' = SetToSeq(names)
  /\ holds' = holds + 1 /\ holding' = "off"
  /\ UNCHANGED <<listed, off, said, dropped, hostRuns, shipping, alerting, holdKills>>

\* The line goes first.
Drop ==
  /\ holding = "off" /\ todo # <<>> /\ dropped = {}
  /\ listed' = [listed EXCEPT ![at] = @ \ {Head(todo)}] /\ dropped' = {Head(todo)}
  /\ said' = said \ Switches(at, Head(todo))
  /\ UNCHANGED <<off, holding, at, todo, hostRuns, shipping, alerting, holds, holdKills>>

\* Mutant: every flag and timer goes with the lifted name.
MutLift ==
  /\ dropped # {}
  /\ off' = {} /\ listed' = listed
  /\ dropped' = {} /\ todo' = Tail(todo)
  /\ UNCHANGED <<said, holding, at, hostRuns, shipping, alerting, holds, holdKills>>

\* The flag here goes at once; a machine that does not confirm puts the line back.
Lift ==
  /\ dropped # {}
  /\ LET mine == UNION {Switches(at, name) : name \in dropped}
     IN  \E silent \in SUBSET (mine \ {at}), moved \in SUBSET mine :
           /\ mine \ silent \subseteq moved
           /\ off' = off \ moved
           /\ listed' = IF silent = {} THEN listed ELSE [listed EXCEPT ![at] = @ \cup dropped]
  /\ dropped' = {} /\ todo' = Tail(todo)
  /\ UNCHANGED <<said, holding, at, hostRuns, shipping, alerting, holds, holdKills>>

HoldEnds ==
  /\ holding # "none" /\ todo = <<>>
  /\ holding' = "none"
  /\ UNCHANGED <<listed, off, said, at, todo, dropped, hostRuns, shipping, alerting, holds, holdKills>>

KillHold ==
  /\ holding # "none" /\ holdKills < MaxHoldKills
  /\ holdKills' = holdKills + 1 /\ holding' = "none" /\ todo' = <<>> /\ dropped' = {}
  /\ UNCHANGED <<listed, off, said, at, hostRuns, shipping, alerting, holds>>

Hold == HoldOn \/ TurnOff \/ HoldOff \/ Drop \/ Lift \/ HoldEnds \/ KillHold
-----------------------------------------------------------------------------
(* scheduled_sync.sh, its `just sync` and `just bank`. *)

Fires ==
  /\ step = "idle" /\ "timer" \notin off
  /\ step' = "sync"
  /\ UNCHANGED <<holdVars, byHand, lane, bank, shipping, alerting>>

\* `just sync` or `just bank` on the bank host by hand, of which a dry run sets the bypass.
HandRuns ==
  /\ hand = "none" /\ hand' \in {"sync", "bank"}
  /\ \/ dry' = FALSE /\ dries' = dries
     \/ dry' = TRUE /\ dries < MaxDries /\ dries' = dries + 1
  /\ UNCHANGED <<holdVars, step, lane, bank, shipping, alerting>>

\* The bank host's own file is read, which a dry run's hand run passes.
Passes(whose) == "timer" \notin listed[Here] \/ (whose = "hand" /\ dry)

\* `sync_lock.sh take`; a run called by the sync that holds it has it already.
TakesLock(whose) == lane \in {"none", whose} /\ lane' = whose

\* A run goes to a place of its recipes, or out of them and lets go of the lock.
On(whose, place) == IF whose = "tick" THEN step = place ELSE hand = place
Goes(whose, place) ==
  IF whose = "tick" THEN step' = place /\ UNCHANGED byHand
  ELSE hand' = place /\ UNCHANGED <<step, dry, dries>>
Leaves(whose) ==
  /\ lane' = IF lane = whose THEN "none" ELSE lane
  /\ IF whose = "tick" THEN step' = "label" /\ UNCHANGED byHand
     ELSE hand' = "none" /\ dry' = FALSE /\ UNCHANGED <<step, dries>>

\* The recipe exits while the file names the timer or another run holds the lock; else it
\* drains and goes to the bank.
Syncs(whose) ==
  /\ On(whose, "sync")
  /\ \/ Passes(whose) /\ TakesLock(whose) /\ Goes(whose, "bank")
     \/ ~(Passes(whose) /\ lane = "none") /\ Leaves(whose)
  /\ bank' = bank

\* Mutant: only the sync reads the hold.
MutBanks(whose) ==
  /\ On(whose, "bank") /\ bank # whose
  /\ \/ TakesLock(whose) /\ bank' = whose /\ UNCHANGED <<step, byHand>>
     \/ lane \notin {"none", whose} /\ Leaves(whose) /\ bank' = bank

\* `just bank`, called by a sync or by hand, reads the hold again and then the lock.
Banks(whose) ==
  /\ On(whose, "bank") /\ bank # whose
  /\ \/ Passes(whose) /\ TakesLock(whose) /\ bank' = whose /\ UNCHANGED <<step, byHand>>
     \/ ~(Passes(whose) /\ lane \in {"none", whose}) /\ Leaves(whose) /\ bank' = bank

TickSyncs == Syncs("tick") /\ UNCHANGED <<holdVars, shipping, alerting>>
HandSyncs == Syncs("hand") /\ UNCHANGED <<holdVars, shipping, alerting>>
TickBanks == Banks("tick") /\ UNCHANGED <<holdVars, shipping, alerting>>
HandBanks == Banks("hand") /\ UNCHANGED <<holdVars, shipping, alerting>>

BankEnds ==
  /\ bank # "none"
  /\ bank' = "none" /\ Leaves(bank)
  /\ UNCHANGED <<holdVars, shipping, alerting>>

\* The owner puts the label on an open issue.
PutLabel ==
  /\ ~label /\ labels < MaxLabels
  /\ label' = TRUE /\ labels' = labels + 1
  /\ UNCHANGED <<holdVars, hostRuns, shippings, alerting>>

\* A label found is removed, or GitHub refuses and it stays; the ship runs either
\* way.  One GitHub does not list waits for the next tick.
TakesLabel ==
  /\ step = "label"
  /\ \/ /\ label /\ label' \in BOOLEAN
        /\ shippings' = IF shippings > MaxLabels THEN shippings ELSE shippings + 1
        /\ step' = "ship"
     \/ label' = label /\ step' = "check" /\ shippings' = shippings
  /\ UNCHANGED <<holdVars, byHand, lane, bank, labels, alerting>>

\* The ship ends either way, and what came of it is written back on the issue.
Answers ==
  /\ step = "ship"
  /\ step' = "check"
  /\ UNCHANGED <<holdVars, byHand, lane, bank, shipping, alerting>>

\* One issue per cause: opened, reopened, left alone while open.
Alerts(answered) ==
  issue' = IF cause /\ answered THEN "open" ELSE issue

\* The check and the heartbeat end the tick.
Reports ==
  /\ step = "check"
  /\ step' = "idle"
  /\ Alerts(TRUE)
  /\ UNCHANGED <<holdVars, byHand, lane, bank, shipping, cause>>

\* GitHub refuses the list or the issue: the cause waits for the next tick.
ReportsUnheard ==
  /\ step = "check"
  /\ step' = "idle"
  /\ Alerts(FALSE)
  /\ UNCHANGED <<holdVars, byHand, lane, bank, shipping, cause>>

\* The bank host reboots in the middle of a run; the next take finds the lock's owner dead.
Reboots ==
  /\ step # "idle" \/ hand # "none"
  /\ step' = "idle" /\ hand' = "none" /\ dry' = FALSE /\ lane' = "none" /\ bank' = "none"
  /\ UNCHANGED <<holdVars, dries, shipping, alerting>>

\* What an alert is about comes and goes; the triage closes what it has read.
Turns ==
  /\ cause' = ~cause
  /\ UNCHANGED <<holdVars, hostRuns, shipping, issue>>

Triages ==
  /\ issue = "open"
  /\ issue' = "closed"
  /\ UNCHANGED <<holdVars, hostRuns, shipping, cause>>

TickNext ==
  \/ Hold \/ Fires \/ HandRuns \/ TickSyncs \/ HandSyncs \/ TickBanks \/ HandBanks \/ BankEnds
  \/ PutLabel \/ TakesLabel \/ Answers \/ Reports \/ ReportsUnheard \/ Reboots \/ Turns \/ Triages

\* Every step of a tick or of a run by hand ends, the timer fires each hour, and GitHub hears a report
\* now and then.
TickFair ==
  /\ WF_tickVars(Fires) /\ WF_tickVars(TickSyncs) /\ WF_tickVars(TickBanks) /\ WF_tickVars(BankEnds)
  /\ WF_tickVars(HandSyncs) /\ WF_tickVars(HandBanks)
  /\ WF_tickVars(TakesLabel) /\ WF_tickVars(Answers) /\ SF_tickVars(Reports)

TickSpec == TickInit /\ [][TickNext]_tickVars /\ TickFair
-----------------------------------------------------------------------------
TickTypeOK ==
  /\ listed \in [Machine -> SUBSET Names] /\ at \in Machine /\ off \subseteq Switch /\ said \subseteq Switch
  /\ holding \in {"none", "on", "off"} /\ dropped \subseteq Names
  /\ step \in {"idle", "sync", "bank", "label", "ship", "check"} /\ hand \in {"none", "sync", "bank"}
  /\ lane \in {"none", "tick", "hand"} /\ bank \in {"none", "tick", "hand"} /\ dry \in BOOLEAN
  /\ label \in BOOLEAN /\ labels \in 0..MaxLabels
  /\ cause \in BOOLEAN /\ issue \in {"none", "open", "closed"}

(***************************************************************************)
(* A switch that a command said is off stays off while a file names it,    *)
(* until a command on any machine lifts that name: whatever other name is  *)
(* lifted, whichever machine is silent, and between two steps of a command *)
(* too (hold.sh:115-141, 166-170).                                         *)
(***************************************************************************)
SaidIsOff == \A m \in Machine : \A name \in listed[m] : Switches(m, name) \cap said \subseteq off

(***************************************************************************)
(* Under a hold that is never lifted no bank runs for ever or again and    *)
(* again: what was in flight ends, and nothing begins but the few dry runs *)
(* by hand.  A hold run from another machine leaves the bank host's file   *)
(* as it was and stops its timer, so there the ticks alone come to rest    *)
(* (hold.sh:6-9, 49-58, justfile:85-89, 234-238).                          *)
(***************************************************************************)
HeldSettles ==
  /\ <>[]("timer" \in listed[Here]) => <>[](bank = "none")
  /\ <>[]("timer" \in off) => <>[](step = "idle" /\ bank # "tick")

(***************************************************************************)
(* A cause that stays on while the timer stays enabled and ticks end has   *)
(* its issue open again and again, closed by a triage or not               *)
(* (heartbeat.py:12-13).                                                   *)
(***************************************************************************)
CauseIsAlerted == <>[](cause /\ "timer" \notin off) /\ []<>(step = "check") => []<>(issue = "open")

(***************************************************************************)
(* Said at hold.sh:7-8: the hold file names what is held.  With no command *)
(* running, a switch that is off has its name in a file; not after a kill. *)
(***************************************************************************)
FileNamesWhatIsHeld ==
  holding = "none" => \A name \in Names :
    (\E m \in Machine : Switches(m, name) \cap off # {}) => \E m \in Machine : name \in listed[m]

(***************************************************************************)
(* Said at scheduled_sync.sh:13-15: the label goes before the ship, so a   *)
(* failed ship does not retry every hour.  Not kept when its removal fails.*)
(***************************************************************************)
ShipsOncePerLabel == shippings <= labels

(***************************************************************************)
(* What a hold said is off is off while a name holds it, whichever order   *)
(* the commands, ticks and machines take their steps in (hold.sh).         *)
(***************************************************************************)
HoldIsHonoured == TickTypeOK /\ SaidIsOff

(***************************************************************************)
(* A hold brings the banks to rest, and a cause that stays is alerted      *)
(* (hold.sh:6-9, heartbeat.py:12-13).                                      *)
(***************************************************************************)
HoursSettle == HeldSettles /\ CauseIsAlerted
=============================================================================
