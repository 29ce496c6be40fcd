------------------------------ MODULE OpsProofs ------------------------------
(***************************************************************************)
(* Proofs about what runs unattended, for any machines, queue and register *)
(* and any bounds: the holds of the tick, the attempts of the resident     *)
(* agent and the approval asks.                                            *)
(***************************************************************************)
EXTENDS Tick, Agent, Approvals, FiniteSetTheorems, SequenceTheorems, WellFoundedInduction, TLAPS

-----------------------------------------------------------------------------
(* The tick and its hold. *)

LEMMA SeqOfSet == ASSUME NEW S, IsFiniteSet(S) PROVE SetToSeq(S) \in Seq(S)
  <1> DEFINE n == Cardinality(S)
  <1>1. n \in Nat /\ ExistsBijection(1..n, S)
    BY FS_CardinalityType
  <1>2. \E f \in [1..n -> S] : IsInjective(f)
    BY <1>1 DEF ExistsBijection, Bijection, Injection
  <1>3. SetToSeq(S) \in [1..n -> S]
    BY <1>2 DEF SetToSeq
  <1> QED BY <1>1, <1>3

\* The type invariant, of what a hold moves, of what a run moves and of the rest.
HoldTyped ==
  /\ listed \in [Machine -> SUBSET Names] /\ at \in Machine /\ off \subseteq Switch /\ said \subseteq Switch
  /\ holding \in {"none", "on", "off"} /\ dropped \subseteq Names
RunsTyped ==
  /\ step \in {"idle", "sync", "bank", "label", "ship", "check"} /\ hand \in {"none", "sync", "bank"}
  /\ lane \in {"none", "tick", "hand"} /\ bank \in {"none", "tick", "hand"} /\ dry \in BOOLEAN
RestTyped ==
  /\ label \in BOOLEAN /\ labels \in 0..MaxLabels
  /\ cause \in BOOLEAN /\ issue \in {"none", "open", "closed"}

\* While a name's switches are being lifted nothing is said of them, so that what has been said
\* of the others can be kept.
HoldSound ==
  /\ said \subseteq off
  /\ holding = "on" => todo \in Seq(Switch)
  /\ holding = "off" => todo \in Seq(Names)
  /\ dropped # {} => holding = "off" /\ todo # <<>>
  /\ \A name \in dropped : Switches(at, name) \cap said = {}

HoldInv == HoldTyped /\ RunsTyped /\ RestTyped /\ HoldSound

LEMMA SwitchOfName ==
  /\ \A m \in Machine : m \in Switch /\ \A name \in Names : Switches(m, name) \subseteq Switch
  /\ Here \in Machine /\ Remote \subseteq Switch /\ "timer" \in Switch /\ "workflow" \in Switch
  <1>1. Here \in Machine
    BY DEF Machine
  <1>2. \A m \in Machine, name \in Names : Switches(m, name) \subseteq Switch
    BY DEF Switch
  <1>3. \A m \in Machine : Switches(m, "flag") = {m} \cup Remote /\ Switches(m, "timer") = {"timer"}
                           /\ Switches(m, "workflow") = {"workflow"}
    BY DEF Switches
  <1> QED BY <1>1, <1>2, <1>3 DEF Names

LEMMA HoldOnKeeps == ASSUME HoldTyped, HoldSound, HoldOn PROVE HoldTyped' /\ HoldSound'
  <1> USE DEF HoldTyped, HoldSound, HoldOn
  <1>1. todo' \in Seq(Switch)
    <2>1. SetToSeq(Remote) \in Seq(Switch)
      <3>1. SetToSeq(Remote) \in Seq(Remote)
        BY SeqOfSet, TickAssumption
      <3> QED BY <3>1, SwitchOfName, SeqMonotonic
    <2>2. <<at', "timer">> \in Seq(Switch) /\ <<"workflow">> \in Seq(Switch)
      BY SwitchOfName
    <2> QED BY <2>1, <2>2, ConcatProperties
  <1>2. listed' \in [Machine -> SUBSET Names]
    OBVIOUS
  <1> QED BY <1>1, <1>2

LEMMA TurnOffKeeps == ASSUME HoldTyped, HoldSound, TurnOff PROVE HoldTyped' /\ HoldSound'
  <1> USE DEF HoldTyped, HoldSound, TurnOff
  <1>1. Head(todo) \in Switch /\ todo' \in Seq(Switch) /\ dropped = {}
    BY HeadTailProperties
  <1> QED BY <1>1

LEMMA HoldOffKeeps == ASSUME HoldTyped, HoldSound, HoldOff PROVE HoldTyped' /\ HoldSound'
  <1> USE DEF HoldTyped, HoldSound, HoldOff
  <1>1. PICK names \in {listed[at']} \cup {{name} : name \in listed[at']} : names # {} /\ todo' = SetToSeq(names)
    OBVIOUS
  <1>2. names \subseteq Names /\ IsFiniteSet(Names)
    <2>1. IsFiniteSet(Names)
      <3>1. IsFiniteSet({"timer"}) /\ IsFiniteSet({"timer"} \cup {"flag"})
        BY FS_Singleton, FS_AddElement
      <3>2. Names = ({"timer"} \cup {"flag"}) \cup {"workflow"}
        BY DEF Names
      <3> QED BY <3>1, <3>2, FS_AddElement
    <2> QED BY <1>1, <2>1
  <1>3. todo' \in Seq(Names)
    BY <1>1, <1>2, SeqOfSet, FS_Subset, SeqMonotonic
  <1> QED BY <1>3

LEMMA DropKeeps == ASSUME HoldTyped, HoldSound, Drop PROVE HoldTyped' /\ HoldSound'
  <1> USE DEF HoldTyped, HoldSound, Drop
  <1>1. Head(todo) \in Names
    BY HeadTailProperties
  <1>2. listed' \in [Machine -> SUBSET Names]
    OBVIOUS
  <1> QED BY <1>1, <1>2

\* Whatever moved is of the name being lifted, and nothing is said of that.
LEMMA LiftKeeps == ASSUME HoldTyped, HoldSound, Lift PROVE HoldTyped' /\ HoldSound'
  <1> USE DEF HoldTyped, HoldSound, Lift
  <1> DEFINE mine == UNION {Switches(at, name) : name \in dropped}
  <1>1. PICK silent \in SUBSET (mine \ {at}), gone \in SUBSET mine :
          /\ off' = off \ gone
          /\ listed' = IF silent = {} THEN listed ELSE [listed EXCEPT ![at] = @ \cup dropped]
    OBVIOUS
  <1>2. mine \cap said = {} /\ said' = said /\ dropped' = {} /\ holding' = holding /\ at' = at
    OBVIOUS
  <1>3. todo' \in Seq(Names) /\ holding = "off"
    BY HeadTailProperties
  <1>4. listed' \in [Machine -> SUBSET Names]
    BY <1>1
  <1>5. said' \subseteq off'
    BY <1>1, <1>2
  <1>6. off' \subseteq Switch
    BY <1>1
  <1> HIDE DEF mine
  <1> QED BY <1>2, <1>3, <1>4, <1>5, <1>6

LEMMA HoldKeeps == ASSUME HoldInv, Hold PROVE HoldInv'
  <1>1. RunsTyped'
    BY DEF HoldInv, RunsTyped, Hold, HoldOn, TurnOff, HoldOff, Drop, Lift, HoldEnds, KillHold, hostRuns, byHand
  <1>2. RestTyped'
    BY DEF HoldInv, RestTyped, Hold, HoldOn, TurnOff, HoldOff, Drop, Lift, HoldEnds, KillHold, shipping, alerting
  <1>3. CASE HoldEnds \/ KillHold
    <2>1. HoldTyped' /\ HoldSound'
      BY <1>3 DEF HoldEnds, KillHold, HoldInv, HoldTyped, HoldSound
    <2> QED BY <1>1, <1>2, <2>1 DEF HoldInv
  <1> QED BY <1>1, <1>2, <1>3, HoldOnKeeps, TurnOffKeeps, HoldOffKeeps, DropKeeps, LiftKeeps DEF Hold, HoldInv

\* The rest of the tick's actions leave the hold as it is.
LEMMA HoldUntouched ==
  ASSUME HoldInv, UNCHANGED holdVars
  PROVE  HoldTyped' /\ HoldSound'
  BY DEF HoldInv, HoldTyped, HoldSound, holdVars

\* A run goes through its recipes within their places.
LEMMA RunsKeep ==
  ASSUME HoldInv, \/ Fires \/ HandRuns \/ TickSyncs \/ HandSyncs \/ TickBanks \/ HandBanks \/ BankEnds
                  \/ Reboots
  PROVE  HoldInv'
  <1>0. RunsTyped
    BY DEF HoldInv
  <1>1. UNCHANGED <<holdVars, label, labels, cause, issue>>
    BY DEF Fires, HandRuns, TickSyncs, HandSyncs, TickBanks, HandBanks, BankEnds, Reboots, shipping, alerting
  <1>2. RestTyped'
    BY <1>1 DEF HoldInv, RestTyped
  <1>3. CASE Fires
    <2>1. RunsTyped' BY <1>0, <1>3 DEF Fires, RunsTyped, byHand
    <2> QED BY <1>1, <1>2, <2>1, HoldUntouched DEF HoldInv
  <1>4. CASE HandRuns
    <2>1. RunsTyped' BY <1>0, <1>4 DEF HandRuns, RunsTyped
    <2> QED BY <1>1, <1>2, <2>1, HoldUntouched DEF HoldInv
  <1>5. CASE TickSyncs
    <2>1. RunsTyped' BY <1>0, <1>5 DEF TickSyncs, Syncs, Goes, Leaves, TakesLock, RunsTyped, byHand
    <2> QED BY <1>1, <1>2, <2>1, HoldUntouched DEF HoldInv
  <1>6. CASE HandSyncs
    <2>1. RunsTyped' BY <1>0, <1>6 DEF HandSyncs, Syncs, Goes, Leaves, TakesLock, RunsTyped, byHand
    <2> QED BY <1>1, <1>2, <2>1, HoldUntouched DEF HoldInv
  <1>7. CASE TickBanks
    <2>1. RunsTyped' BY <1>0, <1>7 DEF TickBanks, Banks, Leaves, TakesLock, RunsTyped, byHand
    <2> QED BY <1>1, <1>2, <2>1, HoldUntouched DEF HoldInv
  <1>8. CASE HandBanks
    <2>1. RunsTyped' BY <1>0, <1>8 DEF HandBanks, Banks, Leaves, TakesLock, RunsTyped, byHand
    <2> QED BY <1>1, <1>2, <2>1, HoldUntouched DEF HoldInv
  <1>9. CASE BankEnds
    <2>1. RunsTyped' BY <1>0, <1>9 DEF BankEnds, Leaves, RunsTyped, byHand
    <2> QED BY <1>1, <1>2, <2>1, HoldUntouched DEF HoldInv
  <1>10. CASE Reboots
    <2>1. RunsTyped' BY <1>0, <1>10 DEF Reboots, RunsTyped
    <2> QED BY <1>1, <1>2, <2>1, HoldUntouched DEF HoldInv
  <1> QED BY <1>3, <1>4, <1>5, <1>6, <1>7, <1>8, <1>9, <1>10

\* For any machines, those a hold is run from and the walkers', and any number of holds, kills,
\* dry runs and labels: what a command confirmed off stays off while a file names it, until a
\* command lifts that name, whatever is lifted beside it and whichever machine is silent (hold.sh).
THEOREM TickHonoursHold == TickSpec => []HoldIsHonoured
  <1>1. TickInit => HoldInv
    <2> SUFFICES ASSUME TickInit PROVE HoldInv
      OBVIOUS
    <2> USE DEF TickInit
    <2>1. HoldTyped
      BY SwitchOfName DEF HoldTyped
    <2>2. RunsTyped
      BY DEF RunsTyped
    <2>3. RestTyped
      <3>1. labels \in 0..MaxLabels
        BY TickAssumption
      <3>2. label \in BOOLEAN /\ cause \in BOOLEAN /\ issue \in {"none", "open", "closed"}
        OBVIOUS
      <3> QED BY <3>1, <3>2 DEF RestTyped
    <2>4. HoldSound
      BY DEF HoldSound
    <2> QED BY <2>1, <2>2, <2>3, <2>4 DEF HoldInv
  <1>2. HoldInv /\ [TickNext]_tickVars => HoldInv'
    <2> SUFFICES ASSUME HoldInv, [TickNext]_tickVars PROVE HoldInv'
      OBVIOUS
    <2>1. CASE PutLabel \/ TakesLabel \/ Answers
      <3>1. UNCHANGED holdVars
        BY <2>1 DEF PutLabel, TakesLabel, Answers
      <3>2. RunsTyped'
        BY <2>1 DEF PutLabel, TakesLabel, Answers, HoldInv, RunsTyped, hostRuns, byHand
      <3>3. labels' \in 0..MaxLabels
        BY <2>1, TickAssumption DEF PutLabel, TakesLabel, Answers, HoldInv, RestTyped, shipping
      <3>4. UNCHANGED <<cause, issue>> /\ label' \in {label} \cup BOOLEAN
        BY <2>1 DEF PutLabel, TakesLabel, Answers, shipping, alerting
      <3>5. RestTyped'
        BY <3>3, <3>4 DEF HoldInv, RestTyped
      <3> QED BY <3>1, <3>2, <3>5, HoldUntouched DEF HoldInv
    <2>2. CASE Reports \/ ReportsUnheard \/ Triages \/ Turns
      <3>1. UNCHANGED holdVars
        BY <2>2 DEF Reports, ReportsUnheard, Triages, Turns
      <3>2. RunsTyped'
        BY <2>2 DEF Reports, ReportsUnheard, Triages, Turns, HoldInv, RunsTyped, hostRuns, byHand
      <3>3. UNCHANGED <<label, labels>> /\ cause' \in {cause, ~cause} /\ issue' \in {issue, "open", "closed"}
        BY <2>2 DEF Reports, ReportsUnheard, Alerts, Triages, Turns, shipping
      <3>4. RestTyped'
        BY <3>3 DEF HoldInv, RestTyped
      <3> QED BY <3>1, <3>2, <3>4, HoldUntouched DEF HoldInv
    <2>3. CASE UNCHANGED tickVars
      <3>1. UNCHANGED holdVars /\ UNCHANGED <<step, hand, dry, lane, bank, label, labels, cause, issue>>
        BY <2>3 DEF tickVars, hostRuns, byHand, shipping, alerting
      <3>2. RunsTyped' /\ RestTyped'
        BY <3>1 DEF HoldInv, RunsTyped, RestTyped
      <3> QED BY <3>1, <3>2, HoldUntouched DEF HoldInv
    <2> QED BY <2>1, <2>2, <2>3, HoldKeeps, RunsKeep DEF TickNext
  <1>3. HoldInv => HoldIsHonoured
    <2> SUFFICES ASSUME HoldInv PROVE HoldIsHonoured
      OBVIOUS
    <2>1. SaidIsOff
      BY DEF HoldInv, HoldSound, SaidIsOff
    <2>2. TickTypeOK
      BY DEF HoldInv, HoldTyped, RunsTyped, RestTyped, TickTypeOK
    <2> QED BY <2>1, <2>2 DEF HoldIsHonoured
  <1> QED BY <1>1, <1>2, <1>3, PTL DEF TickSpec

-----------------------------------------------------------------------------
(* The resident agent. *)

Ids == Range(Items)
Row == [state : {"absent", "open", "done", "parked"}, attempts : 0..4, session : BOOLEAN]

\* A row's calls are counted in it before they are made, and the fourth try parks it; what a run
\* is about to try is open.
QueueInv ==
  /\ queue \in [Ids -> Row] /\ calls \in [Ids -> 0..3]
  /\ \A id \in Ids : /\ calls[id] <= queue[id].attempts
                     /\ queue[id].attempts = 4 => queue[id].state = "parked"
                     /\ queue[id].state = "absent" => calls[id] = 0
TryInv == rstep = "preflight" /\ item # NoItem => queue[item].state = "open"

\* The rest of the type invariant.
RunTyped ==
  /\ hour \in 0..Hours - 1 /\ due \subseteq {"scout", "cdx"} /\ mode \in Modes
  /\ runner \in {"none", "timer", "hand"} /\ item \in Ids \cup {NoItem}
  /\ rstep \in {"idle", "pick", "item", "preflight", "call"}
  /\ worked \in BOOLEAN /\ backoff \in BOOLEAN /\ resume \in BOOLEAN

AgentInv == RunTyped /\ QueueInv /\ TryInv

LEMMA HourOfDay == ASSUME NEW a \in Nat, NEW b \in Nat \ {0} PROVE a % b \in 0..b - 1
  OBVIOUS

LEMMA DueIsAMode == ASSUME NEW h \in Nat PROVE DueAt(h) \in {"none", "scout", "cdx"}
  <1>1. h % Hours \in 0..Hours - 1
    BY HourOfDay, AgentAssumption
  <1> QED BY <1>1, AgentAssumption DEF DueAt

\* One row changes; the others keep what they were counted.
RowSet(id, row, n) == queue' = [queue EXCEPT ![id] = row] /\ calls' = [calls EXCEPT ![id] = n]

LEMMA RowChanges ==
  ASSUME QueueInv, NEW id \in Ids, NEW row \in Row, NEW n \in 0..3, RowSet(id, row, n),
         n <= row.attempts, row.attempts = 4 => row.state = "parked", row.state = "absent" => n = 0
  PROVE  QueueInv'
  BY DEF QueueInv, RowSet

LEMMA RowsKept == ASSUME QueueInv, UNCHANGED <<queue, calls>> PROVE QueueInv'
  BY DEF QueueInv

WithState(r, s)    == [r EXCEPT !.state = s]
WithSession(r, b)  == [r EXCEPT !.session = b]
WithAttempts(r, n) == [r EXCEPT !.attempts = n]

LEMMA RowFields ==
  ASSUME NEW r \in Row
  PROVE  /\ r.attempts \in 0..4
         /\ \A s \in {"absent", "open", "done", "parked"} :
              WithState(r, s) \in Row /\ WithState(r, s).attempts = r.attempts /\ WithState(r, s).state = s
         /\ \A b \in BOOLEAN :
              /\ WithSession(r, b) \in Row /\ WithSession(r, b).attempts = r.attempts
              /\ WithSession(r, b).state = r.state
         /\ \A n \in 0..4 :
              /\ WithAttempts(r, n) \in Row /\ WithAttempts(r, n).attempts = n
              /\ WithAttempts(r, n).state = r.state
  <1>1. r.attempts \in 0..4
    BY DEF Row
  <1>2. ASSUME NEW s \in {"absent", "open", "done", "parked"}
        PROVE  WithState(r, s) \in Row /\ WithState(r, s).attempts = r.attempts /\ WithState(r, s).state = s
    BY DEF Row, WithState
  <1>3. ASSUME NEW b \in BOOLEAN
        PROVE  /\ WithSession(r, b) \in Row /\ WithSession(r, b).attempts = r.attempts
               /\ WithSession(r, b).state = r.state
    BY DEF Row, WithSession
  <1>4. ASSUME NEW n \in 0..4
        PROVE  /\ WithAttempts(r, n) \in Row /\ WithAttempts(r, n).attempts = n
               /\ WithAttempts(r, n).state = r.state
    BY DEF Row, WithAttempts
  <1> QED BY <1>1, <1>2, <1>3, <1>4

LEMMA RowParked ==
  ASSUME NEW r \in Row
  PROVE  [r EXCEPT !.state = "parked", !.attempts = r.attempts + 1]
           = WithAttempts(WithState(r, "parked"), r.attempts + 1)
  BY DEF Row, WithState, WithAttempts

LEMMA FreshIsARow ==
  /\ Fresh \in Row /\ Fresh.attempts = 0 /\ Fresh.state = "open"
  /\ Absent \in Row /\ Absent.attempts = 0
  BY DEF Fresh, Absent, Row

\* The end of a run.
LEMMA EndsTyped ==
  ASSUME NEW outcome \in BOOLEAN, Ends(outcome)
  PROVE  /\ mode' \in Modes /\ runner' \in {"none", "timer", "hand"} /\ item' \in Ids \cup {NoItem}
         /\ rstep' = "idle" /\ worked' \in BOOLEAN /\ resume' \in BOOLEAN
  <1>1. worked' \in BOOLEAN /\ resume' \in BOOLEAN
    BY DEF Ends
  <1> QED BY <1>1 DEF Ends, Modes

LEMMA RefusedTyped == ASSUME backoff \in BOOLEAN, Refused PROVE backoff' \in BOOLEAN
  BY DEF Refused

LEMMA AddKeeps == ASSUME AgentInv, NEW id \in Ids, Add(id) PROVE AgentInv'
  <1> USE DEF AgentInv, Add
  <1>1. QueueInv'
    <2>1. RowSet(id, Fresh, 0)
      BY DEF RowSet
    <2> QED BY <2>1, FreshIsARow, RowChanges
  <1>2. RunTyped'
    BY DEF RunTyped, running
  <1>3. TryInv'
    BY FreshIsARow DEF TryInv, QueueInv, RunTyped, running, Fresh
  <1> QED BY <1>1, <1>2, <1>3

LEMMA HourTurnsKeeps == ASSUME AgentInv, HourTurns PROVE AgentInv'
  <1> USE DEF AgentInv, HourTurns
  <1>1. hour' \in 0..Hours - 1 /\ hour' \in Nat
    <2>1. hour + 1 \in Nat /\ Hours \in Nat \ {0}
      BY AgentAssumption DEF RunTyped
    <2>2. hour' = (hour + 1) % Hours
      OBVIOUS
    <2> QED BY <2>1, <2>2, HourOfDay
  <1>2. DueAt(hour') \in {"none", "scout", "cdx"}
    BY <1>1, DueIsAMode
  <1>3. due' \subseteq {"scout", "cdx"} /\ runner' \in {"none", "timer", "hand"}
        /\ rstep' \in {"idle", "pick", "call"} /\ rstep' # "preflight"
    BY <1>2 DEF RunTyped
  <1>4. worked' \in BOOLEAN
    BY DEF RunTyped
  <1>5. RunTyped'
    BY <1>1, <1>3, <1>4 DEF RunTyped
  <1> QED BY <1>3, <1>5, RowsKept DEF TryInv

LEMMA PickKeeps == ASSUME AgentInv, Pick PROVE AgentInv'
  <1> USE DEF AgentInv, Pick
  <1>1. hour \in Nat /\ hour + 1 \in Nat
    BY AgentAssumption DEF RunTyped
  <1>2. mode' \in Modes /\ due' \subseteq {"scout", "cdx"}
    BY <1>1, DueIsAMode DEF PickDue, PickWork, PickTriage, RunTyped, Modes
  <1>3. RunTyped'
    BY <1>2 DEF RunTyped
  <1>4. QueueInv'
    <2>1. CASE queue' = queue
      BY <2>1, RowsKept
    <2>2. CASE PickWork /\ queue' # queue
      <3>1. PICK id \in Umbrella : queue[id].state = "absent" /\ queue' = [queue EXCEPT ![id] = Fresh]
        BY <2>2 DEF PickWork, Queued
      <3>2. id \in Ids /\ calls[id] = 0 /\ calls' = [calls EXCEPT ![id] = 0]
        BY <3>1, AgentAssumption DEF Ids, QueueInv
      <3>3. RowSet(id, Fresh, 0)
        BY <3>1, <3>2 DEF RowSet
      <3> QED BY <3>2, <3>3, FreshIsARow, RowChanges
    <2> QED BY <2>1, <2>2 DEF PickTriage
  <1> QED BY <1>3, <1>4 DEF TryInv

LEMMA FirstOf ==
  ASSUME NEW S \in SUBSET Nat, S # {} PROVE \E x \in S : \A y \in S : x <= y
  <1> DEFINE R == OpToRel(<, Nat)
  <1>1. ASSUME NEW x \in Nat, NEW y \in Nat, x < y PROVE <<x, y>> \in R
    BY <1>1 DEF OpToRel
  <1>2. IsWellFoundedOn(R, Nat)
    BY NatLessThanWellFounded DEF R
  <1> HIDE DEF R
  <1>3. PICK x \in S : \A y \in S : <<y, x>> \notin R
    BY <1>2, WFMin
  <1>4. \A y \in S : ~(y < x)
    BY <1>1, <1>3
  <1> QED BY <1>4

\* The most urgent open item is one of the queue's.
LEMMA TopIsOpen == Top # NoItem => Top \in Ids /\ queue[Top].state = "open"
  <1> SUFFICES ASSUME Top # NoItem PROVE Top \in Ids /\ queue[Top].state = "open"
    OBVIOUS
  <1>1. Opens # {} /\ Opens \in SUBSET Nat /\ Opens \subseteq DOMAIN Items
    BY AgentAssumption DEF Top, Opens
  <1> DEFINE t == CHOOSE x \in Opens : \A j \in Opens : x <= j
  <1>2. t \in Opens
    <2>1. \E x \in Opens : \A j \in Opens : x <= j
      BY <1>1, FirstOf
    <2> QED BY <2>1
  <1>3. Top = Items[t]
    BY <1>1 DEF Top
  <1> HIDE DEF t
  <1> QED BY <1>1, <1>2, <1>3 DEF Opens, Ids, Range

LEMMA TakeItemKeeps == ASSUME AgentInv, TakeItem PROVE AgentInv'
  <1> USE DEF AgentInv, TakeItem
  <1>1. QueueInv' /\ queue' = queue
    BY RowsKept
  <1>2. CASE (mode = "work" /\ Top = NoItem) \/ backoff
    <2>1. Ends(mode = "work")
      BY <1>2
    <2>2. (mode = "work") \in BOOLEAN
      OBVIOUS
    <2>3. /\ mode' \in Modes /\ runner' \in {"none", "timer", "hand"} /\ item' \in Ids \cup {NoItem}
          /\ rstep' = "idle" /\ worked' \in BOOLEAN /\ resume' \in BOOLEAN
      BY <2>1, <2>2, EndsTyped
    <2> QED BY <1>1, <2>3 DEF TryInv, RunTyped
  <1>3. CASE ~((mode = "work" /\ Top = NoItem) \/ backoff)
    <2>1. /\ item' = IF mode = "work" THEN Top ELSE NoItem
          /\ rstep' = "preflight" /\ UNCHANGED <<runner, mode, worked, hour, due, backoff>>
      BY <1>3
    <2>2. resume' \in BOOLEAN
      <3>1. resume' = (mode = "work" /\ queue[Top].session) BY <1>3
      <3> QED BY <3>1
    <2>3. item' \in Ids \cup {NoItem} /\ (item' # NoItem => queue[item'].state = "open")
      BY <1>3, <2>1, TopIsOpen
    <2>4. RunTyped'
      BY <2>1, <2>2, <2>3 DEF RunTyped
    <2> QED BY <1>1, <2>3, <2>4 DEF TryInv
  <1> QED BY <1>2, <1>3

LEMMA StartKeeps == ASSUME AgentInv, Start PROVE AgentInv'
  <1> USE DEF AgentInv, Start
  <1>1. (mode = "work") \in BOOLEAN
    OBVIOUS
  <1>2. CASE item # NoItem /\ queue[item].attempts >= 3
    <2>1. item \in Ids /\ queue[item].state = "open" /\ queue[item] \in Row /\ calls[item] \in 0..3
      BY <1>2 DEF TryInv, RunTyped, QueueInv
    <2>2. queue[item].attempts = 3
      BY <1>2, <2>1 DEF QueueInv, Row
    <2> DEFINE row == [queue[item] EXCEPT !.state = "parked", !.attempts = @ + 1]
    <2>3. row \in Row /\ row.attempts = 4 /\ row.state = "parked"
      <3> DEFINE half == WithState(queue[item], "parked")
      <3>1. half \in Row /\ half.state = "parked"
        BY <2>1, RowFields
      <3>2. row = WithAttempts(half, 4)
        <4>1. queue[item].attempts + 1 = 4
          BY <2>2
        <4>2. row = WithAttempts(WithState(queue[item], "parked"), queue[item].attempts + 1)
          <5> HIDE DEF AgentInv, Start
          <5> QED BY <2>1, RowParked
        <4> HIDE DEF row
        <4> QED BY <4>1, <4>2
      <3> HIDE DEF half, row
      <3> QED BY <3>1, <3>2, RowFields
    <2>4. RowSet(item, row, calls[item]) /\ Ends(mode = "work")
      <3>1. calls' = calls /\ Ends(mode = "work")
        BY <1>2
      <3>2. queue' = [queue EXCEPT ![item] = row]
        BY <1>2, <2>1 DEF QueueInv
      <3> QED BY <3>1, <3>2 DEF QueueInv, RowSet
    <2> HIDE DEF row
    <2>5. QueueInv'
      <3>1. calls[item] <= row.attempts
        BY <2>1, <2>3
      <3> QED BY <2>1, <2>3, <2>4, <3>1, RowChanges
    <2>6. /\ mode' \in Modes /\ runner' \in {"none", "timer", "hand"} /\ item' \in Ids \cup {NoItem}
          /\ rstep' = "idle" /\ worked' \in BOOLEAN /\ resume' \in BOOLEAN
      BY <1>1, <2>4, EndsTyped
    <2> QED BY <2>5, <2>6 DEF TryInv, RunTyped
  <1>3. CASE ~(item # NoItem /\ queue[item].attempts >= 3)
    <2>1. rstep' = "call" /\ UNCHANGED <<runner, mode, item, resume, worked, hour, due, backoff>>
      BY <1>3
    <2>2. RunTyped'
      BY <2>1 DEF RunTyped
    <2>3. CASE item = NoItem
      BY <1>3, <2>1, <2>2, <2>3, RowsKept DEF TryInv
    <2>4. CASE item # NoItem
      <3>1. item \in Ids /\ queue[item] \in Row /\ calls[item] \in 0..3 /\ queue[item].state = "open"
            /\ calls[item] <= queue[item].attempts
        BY <2>4 DEF TryInv, RunTyped, QueueInv
      <3>2. queue[item].attempts \in 0..2
        BY <1>3, <2>4, <3>1 DEF Row
      <3> DEFINE row == [queue[item] EXCEPT !.attempts = @ + 1]
      <3>3. row \in Row /\ row.attempts = queue[item].attempts + 1 /\ row.state = "open"
        <4>1. queue[item].attempts + 1 \in 0..4
          BY <3>2
        <4>2. row = WithAttempts(queue[item], queue[item].attempts + 1)
          BY DEF WithAttempts
        <4> HIDE DEF row
        <4> QED BY <3>1, <4>1, <4>2, RowFields
      <3>4. RowSet(item, row, calls[item] + 1)
        BY <1>3, <2>4, <3>1 DEF QueueInv, RowSet
      <3> HIDE DEF row
      <3>5. calls[item] + 1 \in 0..3 /\ calls[item] + 1 <= row.attempts
        BY <3>1, <3>2, <3>3
      <3>6. QueueInv'
        BY <3>1, <3>2, <3>3, <3>4, <3>5, RowChanges
      <3> QED BY <2>1, <2>2, <3>6 DEF TryInv
    <2> QED BY <2>3, <2>4
  <1> QED BY <1>2, <1>3

\* A row's session or state changes while its call runs; its attempts stay.
LEMMA RowMarked ==
  ASSUME QueueInv, NEW id \in Ids \cup {NoItem}, calls' = calls,
         \/ \E b \in BOOLEAN : queue' = [queue EXCEPT ![id].session = b]
         \/ id \in Ids /\ queue[id].state = "open" /\ queue' = [queue EXCEPT ![id].state = "done"]
  PROVE  QueueInv'
  <1>1. CASE id \notin Ids
    <2>1. queue' = queue
      BY <1>1 DEF QueueInv
    <2> QED BY <2>1, RowsKept
  <1>2. CASE id \in Ids
    <2>1. queue[id] \in Row /\ calls[id] \in 0..3 /\ calls[id] <= queue[id].attempts
      BY <1>2 DEF QueueInv
    <2>2. ASSUME NEW row \in Row, queue' = [queue EXCEPT ![id] = row] PROVE RowSet(id, row, calls[id])
      BY <1>2, <2>2 DEF QueueInv, RowSet
    <2>3. ASSUME NEW b \in BOOLEAN, queue' = [queue EXCEPT ![id].session = b] PROVE QueueInv'
      <3> DEFINE row == WithSession(queue[id], b)
      <3>1. row \in Row /\ row.attempts = queue[id].attempts /\ row.state = queue[id].state
        BY <2>1, RowFields
      <3>2. queue' = [queue EXCEPT ![id] = row]
        BY <1>2, <2>3 DEF QueueInv, WithSession
      <3> HIDE DEF row
      <3>3. row.attempts = 4 => row.state = "parked"
        BY <1>2, <3>1 DEF QueueInv
      <3>4. row.state = "absent" => calls[id] = 0
        BY <1>2, <3>1 DEF QueueInv
      <3> QED BY <1>2, <2>1, <2>2, <3>1, <3>2, <3>3, <3>4, RowChanges
    <2>4. ASSUME queue[id].state = "open", queue' = [queue EXCEPT ![id].state = "done"] PROVE QueueInv'
      <3> DEFINE row == WithState(queue[id], "done")
      <3>1. row \in Row /\ row.attempts = queue[id].attempts /\ row.state = "done"
        BY <2>1, RowFields
      <3>2. queue' = [queue EXCEPT ![id] = row]
        BY <1>2, <2>4 DEF QueueInv, WithState
      <3> HIDE DEF row
      <3>3. row.attempts # 4
        BY <1>2, <2>4, <3>1 DEF QueueInv
      <3> QED BY <1>2, <2>1, <2>2, <3>1, <3>2, <3>3, RowChanges
    <2> QED BY <2>3, <2>4
  <1> QED BY <1>1, <1>2

\* For any queue, day and schedule, and any number of kills, refusals and runs by hand: no row is
\* given to the model more than three times (run_agent.sh, work_queue.py).
THEOREM AgentKeepsAttempts == AgentSpec => []AttemptsAreKept
  <1>1. ASSUME AgentInit PROVE AgentInv
    <2> USE <1>1 DEF AgentInit
    <2>1. worked \in BOOLEAN /\ backoff \in BOOLEAN /\ resume \in BOOLEAN
      OBVIOUS
    <2>2. RunTyped
      BY <2>1, AgentAssumption DEF RunTyped, Modes
    <2>3. QueueInv
      BY FreshIsARow DEF QueueInv, Ids, Absent
    <2> QED BY <2>2, <2>3 DEF AgentInv, TryInv
  <1>2. AgentInv /\ [AgentNext]_agentVars => AgentInv'
    <2> SUFFICES ASSUME AgentInv, [AgentNext]_agentVars PROVE AgentInv'
      OBVIOUS
    <2> USE DEF AgentInv
    <2>1. ASSUME NEW m \in Modes \ {"none"}, ByHand(m) PROVE AgentInv'
      BY <2>1, RowsKept DEF ByHand, RunTyped, TryInv
    <2>2. CASE Held
      BY <2>2, RowsKept, EndsTyped DEF Held, RunTyped, TryInv
    <2>3. CASE Turned
      <3>1. (mode = "work") \in BOOLEAN /\ backoff' \in BOOLEAN
        BY <2>3, RefusedTyped DEF Turned, RunTyped
      <3> QED BY <2>3, <3>1, RowsKept, EndsTyped DEF Turned, RunTyped, TryInv
    <2>4. CASE Settles
      <3>1. QueueInv' /\ item \in Ids
        BY <2>4, RowMarked DEF Settles, RunTyped
      <3> QED BY <2>4, <3>1 DEF Settles, running, RunTyped, TryInv
    <2>5. CASE CallEnds
      <3>1. (mode = "work") \in BOOLEAN /\ (~resume) \in BOOLEAN /\ item \in Ids \cup {NoItem}
        BY DEF RunTyped
      <3>2. QueueInv'
        BY <2>5, <3>1, RowMarked, RowsKept DEF CallEnds
      <3> QED BY <2>5, <3>1, <3>2, EndsTyped DEF CallEnds, RunTyped, TryInv
    <2>6. CASE CallEndsClean
      <3>1. (mode = "work") \in BOOLEAN /\ backoff' \in BOOLEAN /\ item \in Ids \cup {NoItem}
        BY <2>6, RefusedTyped DEF CallEndsClean, RunTyped
      <3>2. QueueInv'
        BY <2>6, <3>1, RowMarked, RowsKept DEF CallEndsClean
      <3> QED BY <2>6, <3>1, <3>2, EndsTyped DEF CallEndsClean, RunTyped, TryInv
    <2>7. CASE KillRun
      <3>1. resume' \in BOOLEAN
        BY <2>7 DEF KillRun
      <3> QED BY <2>7, <3>1, RowsKept DEF KillRun, RunTyped, TryInv, Modes
    <2>8. CASE Resets
      <3>1. backoff' \in BOOLEAN
        BY <2>8 DEF Resets
      <3> QED BY <2>8, <3>1, RowsKept DEF Resets, running, RunTyped, TryInv
    <2>9. CASE UNCHANGED agentVars
      BY <2>9, RowsKept DEF agentVars, running, RunTyped, TryInv
    <2> QED BY <2>1, <2>2, <2>3, <2>4, <2>5, <2>6, <2>7, <2>8, <2>9, AddKeeps, HourTurnsKeeps, PickKeeps,
               TakeItemKeeps, StartKeeps DEF AgentNext, Proceeds, Ids
  <1>3. AgentInv => AttemptsAreKept
    <2> SUFFICES ASSUME AgentInv PROVE AttemptsAreKept
      OBVIOUS
    <2>1. {worked, backoff, resume} \subseteq BOOLEAN
      BY DEF AgentInv, RunTyped
    <2>2. TriedThrice
      BY DEF AgentInv, QueueInv, TriedThrice, Ids
    <2> QED BY <2>1, <2>2 DEF AgentInv, RunTyped, QueueInv, AttemptsAreKept, AgentTypeOK, Ids, Row
  <1> QED BY <1>1, <1>2, <1>3, PTL DEF AgentSpec

-----------------------------------------------------------------------------
(* The approval asks. *)

Steps  == {"idle", "request", "rule", "gate", "push", "list", "ask", "branch", "pull", "issue"}
Asking == {"ask", "branch", "pull", "issue"}
Has(text, k) == text[k] # "none"

\* A commit of this clone carries every block that any copy of the register, or any branch that
\* was pushed, has; and live carries those of a clone that is not ahead of it.
RegisterInv ==
  /\ here \in Register /\ head \in Register /\ track \in Register /\ live \in Register
  /\ moved \in BOOLEAN /\ ahead \in BOOLEAN
  /\ pushed \in [Sources -> [Keys -> {"same", "pending", "master"}]]
  /\ \A k \in Keys : /\ Has(live, k) \/ Has(track, k) => Has(head, k)
                     /\ Has(head, k) => Has(here, k)
                     /\ ~ahead /\ Has(head, k) => Has(live, k)
  /\ \A s \in Sources, k \in Keys : pushed[s][k] # "same" => Has(head, k)

Listings == [issues : SUBSET Sources, pulls : SUBSET Sources, decided : SUBSET Sources]

\* The requests of a source that the run may still file an issue for.
InHand == IF astep = "ask" THEN {} ELSE ask
Due(s) == {k \in queued \cup InHand : SourceOf[k] = s}

\* What the run is at: a source without a listed issue has room for the issues still due.
AskInv ==
  /\ astep \in Steps /\ queued \subseteq Keys /\ (ask = {} \/ \E k \in Keys : ask = {k})
  /\ pulls \in [Sources -> {"none", "open", "merged", "closed"}] /\ issues \in [Sources -> Nat]
  /\ trees \subseteq Sources /\ listing \in Listings
  /\ \A s \in Sources : /\ s \in listing.pulls => pulls[s] # "none"
                        /\ issues[s] > 0 => pulls[s] # "none"
                        /\ issues[s] <= Cardinality(Classes(s))
                        /\ astep \in Asking /\ s \notin listing.issues =>
                             issues[s] + Cardinality(Due(s)) <= Cardinality(Classes(s))
  /\ \A k \in ask : /\ astep = "branch" => Has(head, k)
                    /\ astep = "issue" => pulls[SourceOf[k]] # "none"
                    /\ astep \in Asking \ {"ask"} => SourceOf[k] \notin listing.issues /\ k \notin queued

ApprovalsInv == RegisterInv /\ AskInv

LEMMA ClassesAreFinite ==
  ASSUME NEW s, NEW T \in SUBSET Keys
  PROVE  LET D == {k \in T : SourceOf[k] = s} IN
         /\ IsFiniteSet(D) /\ Cardinality(D) \in Nat
         /\ Cardinality(Classes(s)) \in Nat /\ Cardinality(D) <= Cardinality(Classes(s))
  <1> DEFINE D == {k \in T : SourceOf[k] = s}
  <1>1. IsFiniteSet(Classes(s))
    BY ApprovalsAssumption, FS_Subset DEF Classes
  <1>2. D \in SUBSET Classes(s)
    BY DEF Classes
  <1> QED BY <1>1, <1>2, FS_Subset, FS_CardinalityType

LEMMA SmallerDue ==
  ASSUME NEW S, IsFiniteSet(S), NEW T \in SUBSET S
  PROVE  Cardinality(T) \in Nat /\ Cardinality(S) \in Nat /\ Cardinality(T) <= Cardinality(S)
  BY FS_Subset, FS_CardinalityType

LEMMA DueIsFinite ==
  ASSUME AskInv, NEW s
  PROVE  IsFiniteSet(Due(s)) /\ Cardinality(Due(s)) \in Nat
  <1>1. queued \cup InHand \in SUBSET Keys
    BY DEF AskInv, InHand
  <1> QED BY <1>1, ClassesAreFinite DEF Due

LEMMA RegisterKept == ASSUME RegisterInv, UNCHANGED <<register, pushed>> PROVE RegisterInv'
  BY DEF RegisterInv, register, Has

\* A step that is not of sync_approvals.py, or ends it.
LEMMA NotAsking ==
  ASSUME AskInv, astep' \in Steps \ Asking, UNCHANGED <<trees, issues>>,
         \/ Rest
         \/ UNCHANGED <<queued, listing, ask>>,
         \/ UNCHANGED pulls
         \/ \E s \in Sources, v \in {"open", "merged", "closed"} : pulls' = [pulls EXCEPT ![s] = v]
  PROVE  AskInv'
  <1>1. queued' \subseteq Keys /\ (ask' = {} \/ \E k \in Keys : ask' = {k})
    BY DEF AskInv, Rest, NoAsk
  <1>2. /\ pulls' \in [Sources -> {"none", "open", "merged", "closed"}]
        /\ \A s \in Sources : pulls[s] # "none" => pulls'[s] # "none"
    BY DEF AskInv
  <1>3. listing' \in Listings /\ \A s \in listing'.pulls : s \in listing.pulls
    BY DEF Rest, NoListing, AskInv, Listings
  <1> QED BY <1>1, <1>2, <1>3 DEF AskInv, Asking, Steps, Classes

LEMMA BankingKeeps == ASSUME ApprovalsInv, Banking \/ Clicked PROVE ApprovalsInv'
  <1> USE DEF ApprovalsInv, Then, register, bounds, run, github
  <1>1. CASE Preflight
    <2>1. AskInv' BY <1>1, NotAsking DEF Preflight, Steps, Asking
    <2>2. RegisterInv'
      <3>1. here' \in Register /\ head' \in Register /\ track' \in Register /\ moved' \in BOOLEAN
        BY <1>1 DEF Preflight, RegisterInv
      <3> QED BY <1>1, <3>1 DEF Preflight, RegisterInv, Has
    <2> QED BY <2>1, <2>2
  <1>2. CASE Request \/ Rule \/ Red
    <2>1. AskInv' BY <1>2, NotAsking DEF Request, Rule, Red, Steps, Asking, Rest
    <2>2. here' \in Register /\ \A k \in Keys : Has(head, k) => here'[k] # "none"
      BY <1>2 DEF Request, Rule, Red, RegisterInv, Register, Has, PendingIn
    <2>3. RegisterInv' BY <1>2, <2>2 DEF Request, Rule, Red, RegisterInv, Has
    <2> QED BY <2>1, <2>3
  <1>3. CASE Commit
    <2>1. AskInv' BY <1>3, NotAsking DEF Commit, Steps, Asking
    <2>2. ahead' \in BOOLEAN
      BY <1>3 DEF Commit
    <2>3. ~ahead' => ~ahead /\ here = head
      BY <1>3 DEF Commit
    <2>4. RegisterInv' BY <1>3, <2>2, <2>3 DEF Commit, RegisterInv, Has
    <2> QED BY <2>1, <2>4
  <1>4. CASE Push
    <2>1. AskInv' BY <1>4, NotAsking DEF Push, Steps, Asking, Rest
    <2>2. ahead' \in BOOLEAN
      BY <1>4 DEF Push, RegisterInv
    <2>3. RegisterInv' BY <1>4, <2>2 DEF Push, RegisterInv, Has
    <2> QED BY <2>1, <2>3
  <1>5. ASSUME NEW k \in Keys, ApproveByHand(k) PROVE ApprovalsInv'
    <2>1. AskInv' BY <1>5, NotAsking DEF ApproveByHand, Steps, Asking
    <2>2. RegisterInv' BY <1>5 DEF ApproveByHand, RegisterInv, Register, Has
    <2> QED BY <2>1, <2>2
  <1>6. CASE CleanByHand
    <2>1. AskInv' BY <1>6, NotAsking DEF CleanByHand, Steps, Asking
    <2>2. ahead' \in BOOLEAN BY <1>6 DEF CleanByHand, RegisterInv
    <2>3. RegisterInv' BY <1>6, <2>2 DEF CleanByHand, RegisterInv, Has
    <2> QED BY <2>1, <2>3
  <1>7. CASE ReconcileByHand
    <2>1. AskInv' BY <1>7, NotAsking DEF ReconcileByHand, Steps, Asking
    <2> DEFINE both == [k \in Keys |-> Strongest(head[k], live[k])]
    <2>2. both \in Register /\ \A k \in Keys : both[k] # "none" <=> Has(head, k)
      BY DEF Strongest, RegisterInv, Register, Has
    <2>3. here' = both /\ head' = both /\ live' = both /\ track' = both /\ pushed' = pushed
          /\ moved' = FALSE /\ ahead' = FALSE
      BY <1>7 DEF ReconcileByHand
    <2> HIDE DEF both
    <2>4. moved' \in BOOLEAN /\ ahead' \in BOOLEAN BY <2>3
    <2>5. RegisterInv' BY <2>2, <2>3, <2>4 DEF RegisterInv, Has
    <2> QED BY <2>1, <2>5
  <1>8. CASE RunByHand
    BY <1>8, NotAsking, RegisterKept DEF RunByHand, Steps, Asking
  <1> QED BY <1>1, <1>2, <1>3, <1>4, <1>5, <1>6, <1>7, <1>8 DEF Banking, Clicked

\* The owner's clicks move pull requests only, and none of them away.
LEMMA PullsMove ==
  ASSUME AskInv, UNCHANGED <<head, astep, queued, listing, ask, trees, issues>>,
         pulls' \in [Sources -> {"none", "open", "merged", "closed"}],
         \A t \in Sources : pulls[t] # "none" => pulls'[t] # "none"
  PROVE  AskInv'
  <1>1. \A t : Due(t)' = Due(t)
    BY DEF Due, InHand
  <1>2. \A k \in ask : SourceOf[k] \in Sources
    BY DEF AskInv, Sources
  <1>3. \A t \in Sources :
          /\ t \in listing'.pulls => pulls'[t] # "none"
          /\ issues'[t] > 0 => pulls'[t] # "none"
          /\ issues'[t] <= Cardinality(Classes(t))
          /\ astep' \in Asking /\ t \notin listing'.issues =>
               issues'[t] + Cardinality(Due(t)') <= Cardinality(Classes(t))
    BY <1>1 DEF AskInv
  <1>4. \A k \in ask' :
          /\ astep' = "branch" => Has(head', k)
          /\ astep' = "issue" => pulls'[SourceOf[k]] # "none"
          /\ astep' \in Asking \ {"ask"} => SourceOf[k] \notin listing'.issues /\ k \notin queued'
    BY <1>2 DEF AskInv
  <1> QED BY <1>3, <1>4 DEF AskInv, Classes, Has

LEMMA OwnerKeeps == ASSUME ApprovalsInv, Owner \/ Stop PROVE ApprovalsInv'
  <1> USE DEF ApprovalsInv, register, bounds, run, github
  <1>1. ASSUME NEW s \in Sources, Merge(s) PROVE ApprovalsInv'
    <2>1. live' \in Register /\ (\A k \in Keys : Has(live, k) => live'[k] # "none")
          /\ (\A k \in Keys : live'[k] # "none" => Has(live, k) \/ pushed[s][k] # "same")
      BY <1>1 DEF Merge, RegisterInv, Register, Has
    <2>2. moved' \in BOOLEAN
      BY <1>1 DEF Merge
    <2>3. RegisterInv'
      BY <1>1, <2>1, <2>2 DEF Merge, RegisterInv, Has
    <2>4. pulls' \in [Sources -> {"none", "open", "merged", "closed"}] /\ \A t \in Sources : pulls[t] # "none" => pulls'[t] # "none"
      BY <1>1 DEF Merge, AskInv
    <2>5. AskInv'
      BY <1>1, <2>4, PullsMove DEF Merge
    <2> QED BY <2>3, <2>5
  <1>2. ASSUME NEW s \in Sources, CloseUnmerged(s) PROVE ApprovalsInv'
    <2>1. pulls' \in [Sources -> {"none", "open", "merged", "closed"}] /\ \A t \in Sources : pulls[t] # "none" => pulls'[t] # "none"
      BY <1>2 DEF CloseUnmerged, AskInv
    <2>2. AskInv'
      BY <1>2, <2>1, PullsMove DEF CloseUnmerged
    <2> QED BY <1>2, <2>2, RegisterKept DEF CloseUnmerged
  <1>3. CASE Stop
    BY <1>3, NotAsking, RegisterKept DEF Stop, Rest, Steps, Asking
  <1> QED BY <1>1, <1>2, <1>3 DEF Owner

LEMMA ListKeeps == ASSUME ApprovalsInv, List PROVE ApprovalsInv'
  <1> USE DEF ApprovalsInv, List
  <1>1. queued' \subseteq Keys /\ ask' = {} /\ astep' = "ask" /\ UNCHANGED <<register, trees, github, bounds>>
    BY DEF Wanted, PendingIn, NoAsk
  <1>2. listing'.issues = {s \in Sources : issues[s] > 0} /\ listing'.pulls = {s \in Sources : pulls[s] = "open"}
    OBVIOUS
  <1>3. ASSUME NEW s \in Sources, s \notin listing'.issues
        PROVE  issues'[s] + Cardinality(Due(s)') <= Cardinality(Classes(s))
    <2>1. issues'[s] = 0
      BY <1>1, <1>2, <1>3 DEF github, AskInv
    <2>2. Due(s)' = {k \in queued' : SourceOf[k] = s}
      BY <1>1 DEF Due, InHand
    <2>3. /\ Cardinality({k \in queued' : SourceOf[k] = s}) \in Nat /\ Cardinality(Classes(s)) \in Nat
          /\ Cardinality({k \in queued' : SourceOf[k] = s}) <= Cardinality(Classes(s))
      BY <1>1, ClassesAreFinite
    <2> QED BY <2>1, <2>2, <2>3
  <1>4. listing' \in Listings
    BY DEF Listings, Sources
  <1>5. AskInv'
    BY <1>1, <1>2, <1>3, <1>4 DEF AskInv, Steps, Asking, github, Classes
  <1> QED BY <1>1, <1>5, RegisterKept DEF github

\* A request is taken up: it stays due.
LEMMA TakesKeeps ==
  ASSUME ApprovalsInv, NEW k \in queued, NEW step_ \in {"branch", "issue"}, astep = "ask", Takes(k, step_),
         UNCHANGED <<register, github>>, trees' \subseteq Sources,
         SourceOf[k] \notin listing.issues,
         step_ = "branch" => Has(head, k), step_ = "issue" => pulls[SourceOf[k]] # "none"
  PROVE  ApprovalsInv'
  <1> USE DEF ApprovalsInv, Takes, github
  <1>1. \A s : Due(s)' = Due(s)
    BY DEF Due, InHand
  <1>2. k \in Keys /\ queued' \subseteq Keys
    BY DEF AskInv
  <1>3. \A s \in Sources : astep' \in Asking /\ s \notin listing'.issues =>
                             issues'[s] + Cardinality(Due(s)') <= Cardinality(Classes(s))
    BY <1>1 DEF AskInv, Asking
  <1>4. AskInv'
    BY <1>2, <1>3 DEF AskInv, Steps, Asking, Classes, register, Has
  <1> QED BY <1>4, RegisterKept

LEMMA SkipsKeeps ==
  ASSUME ApprovalsInv, NEW k \in queued, astep = "ask", Skips(k), UNCHANGED <<register, trees, github>>
  PROVE  ApprovalsInv'
  <1> USE DEF ApprovalsInv, Skips, github
  <1>1. \A s : Due(s)' \subseteq Due(s)
    BY DEF Due, InHand
  <1>2. \A s \in Sources : s \notin listing'.issues =>
                             issues'[s] + Cardinality(Due(s)') <= Cardinality(Classes(s))
    <2> SUFFICES ASSUME NEW s \in Sources, s \notin listing.issues
                 PROVE  issues[s] + Cardinality(Due(s)') <= Cardinality(Classes(s))
      OBVIOUS
    <2>1. Cardinality(Due(s)') <= Cardinality(Due(s)) /\ Cardinality(Due(s)') \in Nat /\ Cardinality(Due(s)) \in Nat
      BY <1>1, DueIsFinite, SmallerDue
    <2>2. issues[s] + Cardinality(Due(s)) <= Cardinality(Classes(s)) /\ issues[s] \in Nat
          /\ Cardinality(Classes(s)) \in Nat
      BY ClassesAreFinite DEF AskInv, Asking
    <2> QED BY <2>1, <2>2
  <1>3. AskInv'
    BY <1>2 DEF AskInv, Steps, Asking, Classes, NoAsk
  <1> QED BY <1>3, RegisterKept

\* A call about what is in hand, made and answered or not.
LEMMA CallKeeps ==
  ASSUME AskInv, NEW k \in ask, astep \in {"branch", "pull"},
         \/ Answered(IF astep = "branch" THEN "pull" ELSE "issue")
         \/ Unanswered,
         \/ pulls' = pulls
         \/ pulls' = [pulls EXCEPT ![SourceOf[k]] = "open"],
         astep = "pull" /\ Answered("issue") => pulls' = [pulls EXCEPT ![SourceOf[k]] = "open"],
         UNCHANGED <<trees, issues>>
  PROVE  AskInv'
  <1>1. k \in Keys /\ SourceOf[k] \in Sources /\ ask = {k}
    BY DEF AskInv, Sources
  <1>2. /\ pulls' \in [Sources -> {"none", "open", "merged", "closed"}]
        /\ \A s \in Sources : pulls[s] # "none" => pulls'[s] # "none"
    BY <1>1 DEF AskInv
  <1>3. CASE Unanswered
    <2>1. Rest BY <1>3 DEF Unanswered
    <2> QED BY <1>1, <2>1, NotAsking DEF Rest, Steps, Asking
  <1>4. CASE Answered(IF astep = "branch" THEN "pull" ELSE "issue")
    <2>1. UNCHANGED <<queued, listing, ask>> /\ astep' = IF astep = "branch" THEN "pull" ELSE "issue"
      BY <1>4 DEF Answered, Then
    <2>2. \A s : Due(s)' = Due(s)
      BY <2>1 DEF Due, InHand
    <2>3. \A s \in Sources : astep' \in Asking /\ s \notin listing'.issues =>
                               issues'[s] + Cardinality(Due(s)') <= Cardinality(Classes(s))
      BY <2>1, <2>2 DEF AskInv, Asking
    <2>4. astep' = "issue" => pulls'[SourceOf[k]] # "none"
      BY <1>1, <1>4, <2>1 DEF AskInv
    <2> QED BY <1>1, <1>2, <2>1, <2>3, <2>4 DEF AskInv, Steps, Asking, Classes
  <1> QED BY <1>3, <1>4

\* The issue takes the room its request was due.
LEMMA CreateIssueKeeps == ASSUME ApprovalsInv, NEW k \in Keys, CreateIssue(k) PROVE ApprovalsInv'
  <1> USE DEF ApprovalsInv, CreateIssue
  <1> DEFINE s == SourceOf[k]
  <1>1. k \in ask /\ s \in Sources /\ ask = {k} /\ astep = "issue" /\ UNCHANGED <<register, trees, pushed, pulls>>
    BY DEF AskInv, Sources
  <1>2. s \notin listing.issues /\ k \notin queued /\ pulls[s] # "none" /\ k \in Due(s)
    BY <1>1 DEF AskInv, Asking, Due, InHand
  <1>3. IsFiniteSet(Due(s)) /\ Cardinality(Due(s) \ {k}) = Cardinality(Due(s)) - 1 /\ Cardinality(Due(s) \ {k}) \in Nat
    <2>1. IsFiniteSet(Due(s)) BY DueIsFinite
    <2> QED BY <1>2, <2>1, FS_RemoveElement, FS_CardinalityType
  <1>4. issues[s] + Cardinality(Due(s)) <= Cardinality(Classes(s)) /\ issues[s] \in Nat /\ Cardinality(Classes(s)) \in Nat
    BY <1>1, <1>2, ClassesAreFinite DEF AskInv, Asking
  <1>5. issues[s] + 1 <= Cardinality(Classes(s))
    <2>1. Cardinality(Due(s)) \in Nat
      BY DueIsFinite
    <2> HIDE DEF CreateIssue, ApprovalsInv, s
    <2> QED BY <1>3, <1>4, <2>1
  <1>6. issues' \in [Sources -> Nat] /\ (\A t \in Sources \ {s} : issues'[t] = issues[t]) /\ issues'[s] \in {issues[s], issues[s] + 1}
    BY <1>1 DEF AskInv
  <1>7. \A t \in Sources : issues'[t] <= Cardinality(Classes(t)) /\ (issues'[t] > 0 => pulls[t] # "none")
    BY <1>2, <1>4, <1>5, <1>6 DEF AskInv
  <1>8. CASE Unanswered
    BY <1>1, <1>6, <1>7, <1>8, RegisterKept DEF Unanswered, Rest, NoAsk, NoListing, Listings, AskInv, Steps, Asking, Classes
  <1>9. CASE issues' = [issues EXCEPT ![s] = @ + 1] /\ Answered("ask")
    <2>1. astep' = "ask" /\ UNCHANGED <<queued, listing, ask>>
      BY <1>9 DEF Answered, Then
    <2>2. Due(s)' = Due(s) \ {k} /\ \A t \in Sources \ {s} : Due(t)' = Due(t)
      BY <1>1, <1>2, <2>1 DEF Due, InHand
    <2>3. issues'[s] = issues[s] + 1
      BY <1>1, <1>9 DEF AskInv
    <2>4. \A t \in Sources : t \notin listing'.issues =>
                               issues'[t] + Cardinality(Due(t)') <= Cardinality(Classes(t))
      <3>1. issues'[s] + Cardinality(Due(s)') <= Cardinality(Classes(s))
        <4>1. Cardinality(Due(s)) \in Nat
          BY DueIsFinite
        <4> HIDE DEF CreateIssue, ApprovalsInv, s
        <4> QED BY <1>3, <1>4, <2>2, <2>3, <4>1
      <3>2. ASSUME NEW t \in Sources \ {s}, t \notin listing.issues
            PROVE  issues'[t] + Cardinality(Due(t)') <= Cardinality(Classes(t))
        <4>1. issues[t] + Cardinality(Due(t)) <= Cardinality(Classes(t))
          BY <1>1, <3>2 DEF AskInv, Asking
        <4> QED BY <1>6, <2>2, <3>2, <4>1
      <3> QED BY <2>1, <3>1, <3>2
    <2>5. AskInv'
      BY <1>1, <1>6, <1>7, <2>1, <2>4 DEF AskInv, Steps, Asking, Classes
    <2> QED BY <1>1, <2>5, RegisterKept
  <1> QED BY <1>8, <1>9

LEMMA CloseDecidedKeeps == ASSUME ApprovalsInv, NEW s \in Sources, CloseDecided(s) PROVE ApprovalsInv'
  <1> USE DEF ApprovalsInv, CloseDecided
  <1>1. astep = "ask" /\ queued = {} /\ UNCHANGED <<register, trees, pushed, pulls>>
    OBVIOUS
  <1>2. CASE issues' = issues /\ Unanswered
    BY <1>1, <1>2, NotAsking, RegisterKept DEF Unanswered, Rest, Steps, Asking
  <1>3. CASE ~(issues' = issues /\ Unanswered)
    <2>1. /\ issues' = [issues EXCEPT ![s] = IF @ = 0 THEN 0 ELSE @ - 1]
          /\ UNCHANGED <<astep, queued, ask>>
      BY <1>3
    <2>0. listing'.pulls = listing.pulls /\ listing' \in Listings
      <3>1. listing \in Listings
        BY DEF AskInv
      <3>2. PICK others \in SUBSET {s} : listing' = [listing EXCEPT !.issues = (@ \ {s}) \cup others]
        BY <1>3
      <3> QED BY <3>1, <3>2 DEF Listings
    <2>2. issues' \in [Sources -> Nat] /\ \A t \in Sources : issues'[t] <= issues[t]
      BY <2>1 DEF AskInv
    <2>3. \A t : Due(t)' = {}
      BY <1>1, <2>1 DEF Due, InHand
    <2>4. \A t \in Sources : Cardinality(Classes(t)) \in Nat
      BY ClassesAreFinite
    <2>5. \A t \in Sources : issues'[t] + Cardinality(Due(t)') <= Cardinality(Classes(t))
      <3>1. \A t : Cardinality(Due(t)') = 0
        BY <2>3, FS_EmptySet
      <3> QED BY <2>2, <2>4, <3>1 DEF AskInv
    <2>6. \A t \in Sources : issues'[t] <= Cardinality(Classes(t)) /\ (issues'[t] > 0 => pulls[t] # "none")
      BY <2>2, <2>4 DEF AskInv
    <2>7. AskInv'
      BY <1>1, <2>0, <2>1, <2>2, <2>5, <2>6 DEF AskInv, Steps, Asking, Classes
    <2> QED BY <1>1, <2>7, RegisterKept
  <1> QED BY <1>2, <1>3

\* A branch is of a block that live had, so a commit here carries it.
LEMMA PushBranchKeeps == ASSUME ApprovalsInv, NEW k \in Keys, PushBranch(k) PROVE ApprovalsInv'
  <1> USE DEF ApprovalsInv, PushBranch
  <1>1. k \in ask /\ SourceOf[k] \in Sources /\ astep = "branch" /\ Has(head, k)
    BY DEF AskInv, Sources
  <1>2. Flip(k) \in [Keys -> {"same", "pending", "master"}] /\ \A x \in Keys : Flip(k)[x] # "same" => x = k
    BY DEF Flip
  <1>3. pushed' \in {pushed, [pushed EXCEPT ![SourceOf[k]] = Flip(k)]} /\ UNCHANGED <<here, head, track, live, moved, ahead>>
    BY DEF register
  <1>4. /\ pushed' \in [Sources -> [Keys -> {"same", "pending", "master"}]]
        /\ \A s \in Sources, x \in Keys : pushed'[s][x] # "same" => Has(head, x)
    BY <1>1, <1>2, <1>3 DEF RegisterInv
  <1>5. RegisterInv'
    BY <1>3, <1>4 DEF RegisterInv, Has
  <1>6. AskInv'
    BY <1>1, CallKeeps
  <1> QED BY <1>5, <1>6

LEMMA CreatePullKeeps == ASSUME ApprovalsInv, NEW k \in Keys, CreatePull(k) PROVE ApprovalsInv'
  <1> USE DEF ApprovalsInv, CreatePull
  <1>1. k \in ask /\ astep = "pull"
    OBVIOUS
  <1>2. Answered("issue") => ~Unanswered
    BY DEF Answered, Unanswered, Then, Rest
  <1>3. AskInv'
    BY <1>1, <1>2, CallKeeps
  <1> QED BY <1>3, RegisterKept

LEMMA SyncKeeps == ASSUME ApprovalsInv, Sync PROVE ApprovalsInv'
  <1> USE DEF ApprovalsInv
  <1>1. ASSUME NEW k \in Keys, SkipAsked(k) \/ NotOnLive(k) PROVE ApprovalsInv'
    BY <1>1, SkipsKeeps DEF SkipAsked, NotOnLive, Raises
  <1>2. ASSUME NEW k \in Keys, FindPull(k) PROVE ApprovalsInv'
    <2>1. pulls[SourceOf[k]] # "none"
      BY <1>2 DEF FindPull, AskInv, Sources
    <2> QED BY <1>2, <2>1, TakesKeeps DEF FindPull, AskInv
  <1>3. ASSUME NEW k \in Keys, Branch(k) PROVE ApprovalsInv'
    <2>1. CASE SourceOf[k] \in trees
      BY <1>3, <2>1, NotAsking, RegisterKept DEF Branch, Rest, Steps, Asking, github
    <2>2. CASE SourceOf[k] \notin trees
      <3>1. trees' \subseteq Sources
        BY <1>3, <2>2 DEF Branch, AskInv, Sources
      <3>2. Has(head, k)
        BY <1>3 DEF Branch, RegisterInv, Has
      <3> QED BY <1>3, <2>2, <3>1, <3>2, TakesKeeps DEF Branch, Raises
    <2> QED BY <2>1, <2>2
  <1>4. CASE SyncEnds
    BY <1>4, NotAsking, RegisterKept DEF SyncEnds, Rest, Steps, Asking, github
  <1> QED BY <1>1, <1>2, <1>3, <1>4, ListKeeps, CloseDecidedKeeps, PushBranchKeeps, CreatePullKeeps,
             CreateIssueKeeps DEF Sync

\* For any register, sources, prices and bar, and any number of lost answers, kills and clicks: a
\* source has at most one open issue for each of its classes, each with its pull request, and live
\* holds no block that this clone has not committed (sync_approvals.py).
THEOREM ApprovalsAskWhole == ApprovalsSpec => []AsksAreWhole
  <1>1. ASSUME ApprovalsInit PROVE ApprovalsInv
    <2> USE <1>1 DEF ApprovalsInit
    <2>1. moved \in BOOLEAN /\ ahead \in BOOLEAN
      OBVIOUS
    <2>2. RegisterInv
      BY <2>1 DEF RegisterInv, Register, Blank, Nowhere, Has
    <2>3. \A s \in Sources : Cardinality(Classes(s)) \in Nat
      BY ClassesAreFinite
    <2>4. AskInv
      BY <2>3 DEF AskInv, Steps, Asking, NoAsk, NoListing, Listings
    <2> QED BY <2>2, <2>4 DEF ApprovalsInv
  <1>2. ApprovalsInv /\ [ApprovalsNext]_approvalVars => ApprovalsInv'
    <2> SUFFICES ASSUME ApprovalsInv, [ApprovalsNext]_approvalVars PROVE ApprovalsInv'
      OBVIOUS
    <2>1. CASE UNCHANGED approvalVars
      <3>1. UNCHANGED <<register, pushed, head, astep, queued, listing, ask, trees, issues, pulls>>
        BY <2>1 DEF approvalVars, register, run, github
      <3>2. AskInv'
        BY <3>1, PullsMove DEF ApprovalsInv, AskInv
      <3> QED BY <3>1, <3>2, RegisterKept DEF ApprovalsInv
    <2> QED BY <2>1, BankingKeeps, SyncKeeps, OwnerKeeps DEF ApprovalsNext
  <1>3. ApprovalsInv => AsksAreWhole
    <2> SUFFICES ASSUME ApprovalsInv PROVE AsksAreWhole
      OBVIOUS
    <2> USE DEF ApprovalsInv
    <2>1. Cardinality(ask) <= 1 /\ ask \subseteq Keys
      <3>1. CASE ask = {} BY <3>1, FS_EmptySet
      <3>2. ASSUME NEW k \in Keys, ask = {k} PROVE Cardinality(ask) <= 1 /\ ask \subseteq Keys
        <4>1. Cardinality({k}) = 1 BY FS_Singleton
        <4> QED BY <3>2, <4>1
      <3> QED BY <3>1, <3>2 DEF AskInv
    <2>2. {moved, ahead} \subseteq BOOLEAN
      BY DEF RegisterInv
    <2>3. ApprovalsTypeOK
      BY <2>1, <2>2 DEF ApprovalsTypeOK, RegisterInv, AskInv, Steps
    <2> QED BY <2>3 DEF AsksAreWhole, OneIssuePerClass, AskHasItsPull, LiveIsCommitted, RegisterInv, AskInv, Has
  <1> QED BY <1>1, <1>2, <1>3, PTL DEF ApprovalsSpec
=============================================================================
