-------------------------------- MODULE Agent --------------------------------
(***************************************************************************)
(* The resident agent: one run an hour from its timer, or one by hand,     *)
(* under a lock (run_agent.sh); the work queue's items, tried three times  *)
(* and parked (work_queue.py); the pace of the account (pacer.py).         *)
(***************************************************************************)
EXTENDS Naturals, FiniteSets, Sequences, SequencesExt

CONSTANTS Hours,      \* the day, shortened
          Schedule,   \* hour -> the scheduled mode, or "none"
          Items,      \* queue ids, the most urgent first
          Umbrella,   \* those an umbrella issue lists
          Longest,    \* mode -> the hours its wall clock lets a call span
          MaxAdds, MaxHands, MaxRefusals,
          MaxLost     \* bound on runs lost to the hold or to a kill

ASSUME AgentAssumption ==
  /\ Hours \in Nat \ {0} /\ Schedule \in [0..Hours - 1 -> {"none", "scout", "cdx"}]
  /\ Items \in Seq(Range(Items))
  /\ Umbrella \subseteq Range(Items) /\ {MaxAdds, MaxHands, MaxRefusals, MaxLost} \subseteq Nat
  /\ Longest \in [{"work", "triage", "scout", "cdx"} -> Nat]

Modes == {"none", "work", "triage", "scout", "cdx"}

VARIABLES
  hour,
  queue,     \* id -> its newest row
  due,       \* the modes with a .due file
  worked,    \* the ledger's last row is a work run's
  backoff,   \* a refusal's back-off stands
  runner,    \* who holds the lock: the timer's unit, a hand, or nobody
  mode, item, resume,   \* what the run does, and whether it resumes a session
  rstep,
  spent,     \* the hours of this call
  calls,     \* model calls made on the row
  resumed,   \* of its kept session
  adds, hands, refusals, lost

running   == <<runner, mode, item, resume, rstep, spent>>
agentVars == <<hour, queue, due, worked, backoff, running, calls, resumed, adds, hands, refusals, lost>>

NoItem == "none"
Fresh  == [state |-> "open", attempts |-> 0, session |-> FALSE]
Absent == [state |-> "absent", attempts |-> 0, session |-> FALSE]
Opens  == {i \in DOMAIN Items : queue[Items[i]].state = "open"}
Top    == IF Opens = {} THEN NoItem ELSE Items[CHOOSE i \in Opens : \A j \in Opens : i <= j]
DueAt(h) == Schedule[h % Hours]

AgentInit ==
  /\ hour = 0 /\ queue = [i \in Range(Items) |-> Absent] /\ due = {} /\ worked = FALSE
  /\ backoff = FALSE /\ runner = "none" /\ mode = "none" /\ item = NoItem /\ resume = FALSE
  /\ rstep = "idle" /\ calls = [i \in Range(Items) |-> 0] /\ resumed = [i \in Range(Items) |-> 0]
  /\ adds = 0 /\ hands = 0 /\ spent = 0 /\ refusals = 0 /\ lost = 0
-----------------------------------------------------------------------------
(* The queue. *)

\* `add`: an id that is open already is left alone.
Add(id) ==
  /\ adds < MaxAdds /\ queue[id].state # "open"
  /\ adds' = adds + 1
  /\ queue' = [queue EXCEPT ![id] = Fresh]
  /\ calls' = [calls EXCEPT ![id] = 0] /\ resumed' = [resumed EXCEPT ![id] = 0]
  /\ UNCHANGED <<hour, due, worked, backoff, running, hands, refusals, lost>>

Ends(outcome) ==
  /\ rstep' = "idle" /\ runner' = "none" /\ mode' = "none" /\ item' = NoItem /\ resume' = FALSE /\ spent' = 0
  /\ worked' = outcome
-----------------------------------------------------------------------------
(* run_agent.sh *)

\* The hour turns.  The timer starts its unit unless that still runs; a run by hand
\* holds the lock, and then the mode due at this hour leaves its mark.
HourTurns ==
  /\ rstep = "idle" \/ (rstep = "call" /\ spent < Longest[mode])
  /\ hour' = (hour + 1) % Hours /\ spent' = IF rstep = "call" THEN spent + 1 ELSE 0
  /\ CASE runner = "none" -> /\ runner' = "timer" /\ rstep' = "pick"
                             /\ UNCHANGED <<due, worked>>
       [] runner = "hand" -> /\ due' = due \cup ({DueAt(hour')} \ {"none"})
                             /\ worked' = FALSE /\ UNCHANGED <<runner, rstep>>
       [] OTHER -> UNCHANGED <<due, worked, runner, rstep>>
  /\ UNCHANGED <<queue, backoff, mode, item, resume, calls, resumed, adds, hands, refusals, lost>>

\* `just agent <mode>`.
ByHand(m) ==
  /\ runner = "none" /\ hands < MaxHands
  /\ hands' = hands + 1
  /\ runner' = "hand" /\ mode' = m /\ rstep' = "item"
  /\ UNCHANGED <<hour, queue, due, worked, backoff, item, resume, spent, calls, resumed, adds,
                 refusals, lost>>

\* The hold is on: a row, and nothing else.
Held ==
  /\ rstep = "pick" /\ lost < MaxLost
  /\ lost' = lost + 1
  /\ Ends(FALSE)
  /\ UNCHANGED <<hour, queue, due, backoff, calls, resumed, adds, hands, refusals>>

\* The mode due now, else one a busy lock left, consumed as it is picked.
PickDue ==
  \E m \in IF DueAt(hour) # "none" THEN {DueAt(hour)} ELSE due :
    mode' = m /\ due' = due \ {m}

\* With an empty queue the umbrella's next issue that no row names is queued first.
Queued(id) == queue' = [queue EXCEPT ![id] = Fresh]

PickWork ==
  /\ DueAt(hour) = "none" /\ due = {}
  /\ \/ Opens # {} /\ queue' = queue
     \/ Opens = {} /\ \E id \in Umbrella : queue[id].state = "absent" /\ Queued(id)
  /\ mode' = IF ~worked /\ DueAt(hour + 1) = "none" THEN "work" ELSE "triage"
  /\ due' = due

PickTriage ==
  /\ DueAt(hour) = "none" /\ due = {} /\ Opens = {}
  /\ mode' = "triage" /\ UNCHANGED <<due, queue>>

Pick ==
  /\ rstep = "pick"
  /\ (PickDue /\ queue' = queue) \/ PickWork \/ PickTriage
  /\ rstep' = "item"
  /\ UNCHANGED <<hour, worked, backoff, runner, item, resume, spent, calls, resumed, adds, hands,
                 refusals, lost>>

\* The item and its session; a back-off stops the run before any call.
TakeItem ==
  /\ rstep = "item"
  /\ IF (mode = "work" /\ Top = NoItem) \/ backoff
       THEN Ends(mode = "work")
       ELSE /\ item' = IF mode = "work" THEN Top ELSE NoItem
            /\ resume' = (mode = "work" /\ queue[Top].session)
            /\ rstep' = "preflight" /\ UNCHANGED <<runner, mode, worked, spent>>
  /\ UNCHANGED <<hour, queue, due, backoff, calls, resumed, adds, hands, refusals, lost>>

\* The server may refuse a call for its limit; the back-off is kept to its reset.
Refused ==
  \/ UNCHANGED <<backoff, refusals>>
  \/ refusals < MaxRefusals /\ backoff' = TRUE /\ refusals' = refusals + 1

\* No token, no answer, a window over its line: the run ends as a row.
Turned ==
  /\ rstep = "preflight"
  /\ Refused
  /\ Ends(mode = "work")
  /\ UNCHANGED <<hour, queue, due, calls, resumed, adds, hands, lost>>

\* Mutant: the attempt is not saved before the call.
MutStart ==
  /\ rstep = "preflight"
  /\ IF item # NoItem /\ queue[item].attempts >= 3
       THEN queue' = [queue EXCEPT ![item].state = "parked"] /\ Ends(mode = "work") /\ calls' = calls
       ELSE /\ calls' = IF item = NoItem THEN calls ELSE [calls EXCEPT ![item] = @ + 1]
            /\ queue' = queue
            /\ rstep' = "call" /\ UNCHANGED <<runner, mode, item, resume, spent, worked>>
  /\ resumed' = IF resume /\ rstep' = "call" THEN [resumed EXCEPT ![item] = @ + 1] ELSE resumed
  /\ UNCHANGED <<hour, due, backoff, adds, hands, refusals, lost>>

\* Mutant: a fourth attempt is an attempt.
MutStartNoPark ==
  /\ rstep = "preflight"
  /\ queue' = IF item = NoItem THEN queue
              ELSE [queue EXCEPT ![item].attempts = IF @ > 3 THEN @ ELSE @ + 1]
  /\ calls' = calls
  /\ rstep' = "call" /\ UNCHANGED <<runner, mode, item, resume, spent, worked>>
  /\ resumed' = resumed
  /\ UNCHANGED <<hour, due, backoff, adds, hands, refusals, lost>>

\* The attempt is counted, and the fourth parks the item; then the call begins.
Start ==
  /\ rstep = "preflight"
  /\ IF item # NoItem /\ queue[item].attempts >= 3
       THEN /\ queue' = [queue EXCEPT ![item].state = "parked", ![item].attempts = @ + 1]
            /\ Ends(mode = "work") /\ calls' = calls
       ELSE /\ IF item = NoItem THEN UNCHANGED <<queue, calls>>
               ELSE /\ queue' = [queue EXCEPT ![item].attempts = @ + 1]
                    /\ calls' = [calls EXCEPT ![item] = @ + 1]
            /\ rstep' = "call" /\ UNCHANGED <<runner, mode, item, resume, spent, worked>>
  /\ resumed' = IF resume /\ rstep' = "call" THEN [resumed EXCEPT ![item] = @ + 1] ELSE resumed
  /\ UNCHANGED <<hour, due, backoff, adds, hands, refusals, lost>>

\* The model marks its item done, or parks it for the owner.
Settles ==
  /\ rstep = "call" /\ item # NoItem /\ queue[item].state = "open"
  /\ queue' = [queue EXCEPT ![item].state = "done"]
  /\ UNCHANGED <<hour, due, worked, backoff, running, calls, resumed, adds, hands,
                 refusals, lost>>

\* A call that ends at a cap keeps its session for one more run; a resumed one
\* clears it.
CallEnds ==
  /\ rstep = "call"
  /\ queue' = IF item = NoItem THEN queue
              ELSE [queue EXCEPT ![item].session = ~resume]
  /\ resumed' = IF item = NoItem THEN resumed ELSE [resumed EXCEPT ![item] = 0]
  /\ Ends(mode = "work")
  /\ UNCHANGED <<hour, due, backoff, calls, adds, hands, refusals, lost>>

\* The call ends by itself or is refused: no session is kept.
CallEndsClean ==
  /\ rstep = "call"
  /\ Refused
  /\ queue' = IF resume THEN [queue EXCEPT ![item].session = FALSE] ELSE queue
  /\ resumed' = IF resume THEN [resumed EXCEPT ![item] = 0] ELSE resumed
  /\ Ends(mode = "work")
  /\ UNCHANGED <<hour, due, calls, adds, hands, lost>>

\* The unit is killed, by its memory limit or a reboot, without a row.
KillRun ==
  /\ rstep # "idle" /\ lost < MaxLost
  /\ lost' = lost + 1
  /\ rstep' = "idle" /\ runner' = "none" /\ mode' = "none" /\ item' = NoItem /\ resume' = FALSE /\ spent' = 0
  /\ UNCHANGED <<hour, queue, due, worked, backoff, calls, resumed, adds, hands, refusals>>

\* The window a refusal named resets.
Resets ==
  /\ backoff
  /\ backoff' = FALSE
  /\ UNCHANGED <<hour, queue, due, worked, running, calls, resumed, adds, hands,
                 refusals, lost>>

Proceeds == Pick \/ TakeItem \/ Start

AgentNext ==
  \/ (\E id \in Range(Items) : Add(id)) \/ HourTurns \/ (\E m \in Modes \ {"none"} : ByHand(m))
  \/ Held \/ Proceeds \/ Turned \/ Settles \/ CallEnds \/ CallEndsClean \/ KillRun \/ Resets

\* Hours turn, each run's steps end, and the account's windows do not turn every
\* work run away for ever.
AgentFair ==
  /\ WF_agentVars(HourTurns) /\ WF_agentVars(Held \/ Pick) /\ WF_agentVars(TakeItem)
  /\ WF_agentVars(Start \/ Turned) /\ WF_agentVars(CallEnds \/ CallEndsClean) /\ WF_agentVars(Resets)
  /\ SF_agentVars(mode = "work" /\ Start)

AgentSpec == AgentInit /\ [][AgentNext]_agentVars /\ AgentFair
-----------------------------------------------------------------------------
AgentTypeOK ==
  /\ hour \in 0..Hours - 1 /\ due \subseteq {"scout", "cdx"} /\ mode \in Modes
  /\ queue \in [Range(Items) -> [state : {"absent", "open", "done", "parked"}, attempts : 0..4,
                                 session : BOOLEAN]]
  /\ runner \in {"none", "timer", "hand"} /\ item \in Range(Items) \cup {NoItem}
  /\ rstep \in {"idle", "pick", "item", "preflight", "call"} /\ {worked, backoff, resume} \subseteq BOOLEAN

(***************************************************************************)
(* No row of the queue is given to the model more than three times, over   *)
(* kills, caps, refusals and runs by hand (run_agent.sh:15, 167).          *)
(***************************************************************************)
TriedThrice == \A id \in Range(Items) : calls[id] <= 3

(***************************************************************************)
(* Whatever is queued is done or parked in the end, the most urgent first  *)
(* after holds, kills, back-offs and runs by hand (run_agent.sh:15-17,     *)
(* 102-123).                                                               *)
(***************************************************************************)
QueueDrains == <>(\A id \in Range(Items) : [](queue[id].state # "open"))

(***************************************************************************)
(* Said at work_queue.py:7-9 of an item whose run hit its cap: the next    *)
(* run resumes that session once at most.  Not kept over kills.            *)
(***************************************************************************)
ResumedOnce == \A id \in Range(Items) : resumed[id] <= 1

(***************************************************************************)
(* A row's attempts are counted through whatever cuts its runs off         *)
(* (run_agent.sh:167), so it is given to the model three times at most.    *)
(***************************************************************************)
AttemptsAreKept == AgentTypeOK /\ TriedThrice
=============================================================================
