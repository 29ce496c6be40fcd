------------------------------ MODULE SyncProofs ------------------------------
(***************************************************************************)
(* Proofs about the hourly sync: what it exchanges with the fleet, its     *)
(* push to main (FleetPush) and its drain of findings (Drain), and the     *)
(* lock its runs take (SyncLock).                                          *)
(*                                                                         *)
(* The push: every copy of the fleet's files keeps a banked lead beside    *)
(* its line, and while no push is pending every copy of the claim is the   *)
(* staged one, in the clone, on main and in the script's own saved file.   *)
(* The drain: a run to be marked is fetched or was missed, the pages only  *)
(* grow on the committed ones, and once the scribe has been there every    *)
(* lead in the drain is booked.                                            *)
(***************************************************************************)
EXTENDS SyncLock, FleetPush, Drain, FiniteSetTheorems, SequenceTheorems, WellFoundedInduction, TLAPS

(* The push to fleet main. *)

LinesKept(files) == \A s \in Slug : files.lead[s] = "banked" => s \in files.ledger

Replaying == {"push", "diff", "fetch", "reset", "restore", "replay", "again"}

FleetTyped ==
  /\ main \in Files /\ remote \in Files /\ clone \in Files
  /\ stale \subseteq {"remote", "clone"} /\ saved \in 0..MaxWork /\ lines \subseteq Slug
  /\ artifact \in [Slug -> Finding] /\ incoming \in [Slug -> Finding] /\ moved \subseteq Slug
  /\ booked \subseteq Slug /\ ingested \subseteq Slug
  /\ legs \in 0..MaxWork /\ pushKills \in 0..MaxPushKills

ShellTyped ==
  /\ exported \in 0..MaxWork /\ staged \in 0..exported /\ pending \in BOOLEAN
  /\ unmarked \in BOOLEAN
  /\ pushStep \in PushSteps /\ mode \in Modes
  /\ tries \in 0..3 /\ (pushStep # "again" => tries < 3)

\* Without a pending push every claim is the staged one; a snapshot's push carries the staged
\* claim, which the script saved before a reset could take it from the clone.
ClaimInv ==
  /\ main.claim = remote.claim
  /\ ~pending => /\ main.claim = staged /\ clone.claim = staged /\ (staged = exported \/ unmarked)
                 /\ mode \in {"tick", "bank"} \/ pushStep = "touch"
  /\ mode = "snapshot" => pushStep \in Replaying \cup {"stage", "claim", "commit", "settle"}
  /\ pushStep \in {"stage", "claim", "settle"} => mode = "snapshot"
  /\ mode = "snapshot" /\ pushStep # "stage" => staged = exported
  /\ mode = "snapshot" /\ pushStep \in {"commit", "settle"} => clone.claim = staged
  /\ pushStep \in Replaying \ {"restore"} => saved = clone.claim
  /\ pushStep \in Replaying /\ (~pending \/ mode = "snapshot") => saved = staged

FleetInv == FleetTyped /\ ShellTyped /\ LinesKept(main) /\ LinesKept(remote) /\ LinesKept(clone) /\ ClaimInv

\* fleet_leads.py banks a lead only of a line it reads, and leaves the rest of the files.
LEMMA WrittenKeeps ==
  ASSUME clone \in Files, LinesKept(clone)
  PROVE  Written(clone) \in Files /\ LinesKept(Written(clone)) /\ Written(clone).claim = clone.claim
  <1> DEFINE Settled(s) == LET v == incoming[s]
                               settled == StatusFor(v, s, clone)
                               now == clone.finding[s]
                           IN  IF v = "none" THEN (IF s \in clone.ledger THEN "banked" ELSE "none")
                               ELSE IF now # "none" /\ StatusFor(now, s, clone) # settled THEN "none"
                               ELSE settled
             lead(s) == IF clone.lead[s] = "gone" \/ Settled(s) = "none" THEN clone.lead[s]
                        ELSE IF Settled(s) = "closed" /\ s \in booked THEN "gone"
                        ELSE Settled(s)
  <1>1. \A s \in Slug : Settled(s) \in {"none", "closed", "banked"} /\ (Settled(s) = "banked" => s \in clone.ledger)
    BY DEF StatusFor
  <1>2. \A s \in Slug : lead(s) \in Status /\ (lead(s) = "banked" => s \in clone.ledger)
    <2> HIDE DEF Settled
    <2> QED BY <1>1 DEF Files, Status, LinesKept
  <1>3. Written(clone) = [clone EXCEPT !.lead = [s \in Slug |-> lead(s)]]
    BY DEF Written
  <1> HIDE DEF lead
  <1> QED BY <1>2, <1>3 DEF Files, LinesKept

LEMMA ElsewhereKeeps == ASSUME FleetInv, Elsewhere PROVE FleetInv'
  <1> USE DEF FleetInv, drains, store, claims, shell
  <1>1. ASSUME NEW s \in Slug, NEW v \in LegVerdict, Leg(s, v) PROVE FleetInv'
    <2>1. main' \in Files /\ main'.claim = main.claim /\ LinesKept(main)'
      BY <1>1 DEF Leg, FleetTyped, Files, Finding, LinesKept
    <2>0. legs' \in 0..MaxWork
      BY <1>1, BoundsAssumption DEF Leg, FleetTyped, ShellTyped
    <2>2. FleetTyped'
      BY <1>1, <2>0, <2>1, BoundsAssumption DEF Leg, FleetTyped, Finding
    <2>3. ShellTyped' /\ LinesKept(remote)' /\ LinesKept(clone)'
      BY <1>1 DEF Leg, ShellTyped, LinesKept
    <2>4. ClaimInv'
      BY <1>1, <2>1 DEF Leg, ClaimInv
    <2> QED BY <2>1, <2>2, <2>3, <2>4
  <1>2. ASSUME NEW s \in Slug, Approve(s) PROVE FleetInv'
    BY <1>2 DEF Approve, FleetTyped, ShellTyped, LinesKept, ClaimInv
  <1> QED BY <1>1, <1>2 DEF Elsewhere

LEMMA BeginKeeps == ASSUME FleetInv, Begin PROVE FleetInv'
  <1> USE DEF FleetInv, drains, store, claims, shell
  <1>1. ASSUME NEW arrived \in SUBSET Slug, Tick(arrived) PROVE FleetInv'
    <2>1. incoming' \in [Slug -> Finding] /\ artifact' \in [Slug -> Finding] /\ booked' \subseteq Slug
      BY <1>1 DEF Tick, FleetTyped, Finding
    <2>2. pushStep = "idle" /\ pushStep' \in {"idle", "leads"} /\ mode' = "tick"
          /\ UNCHANGED <<main, remote, clone, stale, saved, lines, moved, ingested, claims, tries, legs, pushKills>>
      BY <1>1 DEF Tick
    <2>3. FleetTyped' BY <2>1, <2>2 DEF FleetTyped
    <2>4. ShellTyped' BY <2>2 DEF ShellTyped, PushSteps, Modes
    <2>5. LinesKept(main)' /\ LinesKept(remote)' /\ LinesKept(clone)' BY <2>2 DEF LinesKept
    <2>6. ClaimInv' BY <2>2 DEF ClaimInv, Replaying
    <2> QED BY <2>3, <2>4, <2>5, <2>6
  <1>2. CASE Bank
    <2>1. FleetTyped' /\ LinesKept(main)' /\ LinesKept(remote)' /\ LinesKept(clone)'
      BY <1>2 DEF Bank, FleetTyped, LinesKept
    <2>2. ShellTyped' BY <1>2 DEF Bank, ShellTyped, PushSteps, Modes
    <2>3. ClaimInv' BY <1>2 DEF Bank, ClaimInv, Replaying
    <2> QED BY <2>1, <2>2, <2>3
  <1>4. CASE Export \/ TakeBack
    <2>1. FleetTyped' /\ LinesKept(main)' /\ LinesKept(remote)' /\ LinesKept(clone)'
      BY <1>4 DEF Export, TakeBack, NewExport, FleetTyped, LinesKept
    <2>2. exported' \in 0..MaxWork /\ staged' \in 0..exported'
      BY <1>4, BoundsAssumption DEF Export, TakeBack, NewExport, ShellTyped, FleetTyped
    <2>3. pending' \in BOOLEAN /\ unmarked' \in BOOLEAN
      BY <1>4 DEF Export, TakeBack, NewExport, ShellTyped
    <2>4. ShellTyped'
      BY <1>4, <2>2, <2>3 DEF Export, TakeBack, ShellTyped, PushSteps, Modes
    <2>5. pushStep = "idle" /\ (~pending' => unmarked') /\ UNCHANGED <<main, remote, clone, saved, staged, pending>>
      BY <1>4 DEF Export, TakeBack, NewExport, ShellTyped
    <2>6. \/ pushStep' = "touch" /\ mode' = "export"
          \/ pushStep' = "idle" /\ mode' = mode
      BY <1>4 DEF Export, TakeBack
    <2>7. ClaimInv' BY <2>5, <2>6 DEF ClaimInv, Replaying
    <2> QED BY <2>1, <2>4, <2>7
  <1>3. CASE RetrySnapshot
    <2>1. FleetTyped' /\ LinesKept(main)' /\ LinesKept(remote)' /\ LinesKept(clone)'
      BY <1>3 DEF RetrySnapshot, FleetTyped, LinesKept
    <2>2. ShellTyped' BY <1>3 DEF RetrySnapshot, ShellTyped, PushSteps, Modes
    <2>3. ClaimInv' BY <1>3 DEF RetrySnapshot, ClaimInv, Replaying
    <2> QED BY <2>1, <2>2, <2>3
  <1> QED BY <1>1, <1>2, <1>3, <1>4 DEF Begin

\* The steps that write what the callers bring, and those after the push.
LEMMA CallersKeep ==
  ASSUME FleetInv, Touch \/ BookOutcomes \/ WriteLeads \/ Stage \/ PublishExpected \/ Move \/ Settle
  PROVE  FleetInv'
  <1> USE DEF FleetInv, drains, store, claims, shell
  <1>1. CASE BookOutcomes
    <2>1. clone' \in Files /\ clone'.claim = clone.claim /\ LinesKept(clone)'
      BY <1>1 DEF BookOutcomes, FleetTyped, Files, LinesKept
    <2>2. FleetTyped' /\ LinesKept(main)' /\ LinesKept(remote)'
      BY <1>1, <2>1 DEF BookOutcomes, FleetTyped, LinesKept
    <2>3. ShellTyped' BY <1>1 DEF BookOutcomes, ShellTyped, PushSteps
    <2>4. ClaimInv' BY <1>1, <2>1 DEF BookOutcomes, ClaimInv, Replaying
    <2> QED BY <2>1, <2>2, <2>3, <2>4
  <1>2. CASE WriteLeads
    <2>1. clone' \in Files /\ clone'.claim = clone.claim /\ LinesKept(clone')
      BY <1>2, WrittenKeeps DEF WriteLeads, FleetTyped
    <2>2. FleetTyped' /\ LinesKept(main)' /\ LinesKept(remote)' /\ LinesKept(clone)'
      BY <1>2, <2>1 DEF WriteLeads, FleetTyped, LinesKept
    <2>3. ShellTyped' BY <1>2 DEF WriteLeads, ShellTyped, PushSteps
    <2>4. mode # "snapshot"
      BY <1>2 DEF WriteLeads, ClaimInv, Replaying
    <2>5. ClaimInv' BY <1>2, <2>1, <2>4 DEF WriteLeads, ClaimInv, Replaying
    <2> QED BY <2>2, <2>3, <2>5
  <1>3. CASE Stage
    <2>1. FleetTyped' /\ LinesKept(main)' /\ LinesKept(remote)' /\ LinesKept(clone)'
      BY <1>3 DEF Stage, FleetTyped, LinesKept
    <2>2. staged' \in 0..exported
      BY <1>3 DEF Stage, ShellTyped
    <2>3. ShellTyped' BY <1>3, <2>2 DEF Stage, ShellTyped, PushSteps, Modes
    <2>4. ClaimInv' BY <1>3 DEF Stage, ClaimInv, Replaying
    <2> QED BY <2>1, <2>3, <2>4
  <1>4. CASE PublishExpected
    <2>0. staged \in 0..MaxWork BY BoundsAssumption DEF ShellTyped
    <2>1. clone' \in Files /\ clone'.claim = staged /\ LinesKept(clone)'
      BY <1>4, <2>0 DEF PublishExpected, FleetTyped, Files, LinesKept
    <2>2. FleetTyped' /\ LinesKept(main)' /\ LinesKept(remote)'
      BY <1>4, <2>1 DEF PublishExpected, FleetTyped, LinesKept
    <2>3. ShellTyped' BY <1>4 DEF PublishExpected, ShellTyped, PushSteps
    <2>4. ClaimInv' BY <1>4, <2>1 DEF PublishExpected, ClaimInv, Replaying
    <2> QED BY <2>1, <2>2, <2>3, <2>4
  <1>5. CASE Move
    <2>1. incoming' \in [Slug -> Finding] /\ moved' \subseteq Slug
      BY <1>5 DEF Move, FleetTyped, Finding
    <2>2. FleetTyped' /\ LinesKept(main)' /\ LinesKept(remote)' /\ LinesKept(clone)'
      BY <1>5, <2>1 DEF Move, FleetTyped, LinesKept
    <2>3. ShellTyped' BY <1>5 DEF Move, ShellTyped, PushSteps, Modes
    <2>4. ClaimInv' BY <1>5 DEF Move, ClaimInv, Replaying
    <2> QED BY <2>2, <2>3, <2>4
  <1>6. CASE Settle
    <2>1. FleetTyped' /\ LinesKept(main)' /\ LinesKept(remote)' /\ LinesKept(clone)'
      BY <1>6 DEF Settle, FleetTyped, LinesKept
    <2>2. pending' \in BOOLEAN
      BY <1>6 DEF Settle
    <2>3. ShellTyped' BY <1>6, <2>2 DEF Settle, ShellTyped, PushSteps, Modes
    <2>4. ~pending' => remote.claim = clone.claim
      BY <1>6 DEF Settle
    <2>5. /\ pushStep = "settle" /\ pushStep' = "idle" /\ mode' = "tick"
          /\ UNCHANGED <<main, remote, clone, exported, staged, saved>>
      BY <1>6 DEF Settle
    <2>6. ClaimInv' BY <2>4, <2>5 DEF ClaimInv, Replaying
    <2> QED BY <2>1, <2>3, <2>6
  <1>7. CASE Touch
    <2>1. FleetTyped' /\ LinesKept(main)' /\ LinesKept(remote)' /\ LinesKept(clone)'
      BY <1>7 DEF Touch, FleetTyped, LinesKept
    <2>2. ShellTyped' BY <1>7 DEF Touch, ShellTyped, PushSteps, Modes
    <2>3. ClaimInv' BY <1>7 DEF Touch, ClaimInv, Replaying
    <2> QED BY <2>1, <2>2, <2>3
  <1> QED BY <1>1, <1>2, <1>3, <1>4, <1>5, <1>6, <1>7

LEMMA PushedKeeps ==
  ASSUME ShellTyped, Pushed, UNCHANGED <<claims, mode>>
  PROVE  ShellTyped' /\ saved' \in 0..MaxWork /\ lines' \subseteq Slug
         /\ pushStep' = IF mode = "snapshot" THEN "settle" ELSE "move"
  BY BoundsAssumption DEF ShellTyped, Pushed, PushSteps, claims

LEMMA PushKeeps == ASSUME FleetInv, Push PROVE FleetInv'
  <1> USE DEF FleetInv, drains, store, claims
  <1>1. CASE CommitPaths
    <2>1. clone.claim \in 0..MaxWork BY DEF FleetTyped, Files
    <2>2. FleetTyped' /\ LinesKept(main)' /\ LinesKept(remote)' /\ LinesKept(clone)'
      BY <1>1, <2>1 DEF CommitPaths, FleetTyped, LinesKept
    <2>3. ShellTyped' BY <1>1 DEF CommitPaths, ShellTyped, PushSteps
    <2>4. ClaimInv' BY <1>1 DEF CommitPaths, ClaimInv, Replaying
    <2> QED BY <2>2, <2>3, <2>4
  <1>2. CASE PushOk
    <2>1. ShellTyped' /\ saved' \in 0..MaxWork /\ lines' \subseteq Slug
          /\ pushStep' = IF mode = "snapshot" THEN "settle" ELSE "move"
      BY <1>2, PushedKeeps DEF PushOk
    <2>2. FleetTyped' /\ LinesKept(main)' /\ LinesKept(remote)' /\ LinesKept(clone)'
      BY <1>2, <2>1 DEF PushOk, FleetTyped, LinesKept
    <2>3. ClaimInv' BY <1>2, <2>1 DEF PushOk, ClaimInv, Replaying
    <2> QED BY <2>1, <2>2, <2>3
  <1>3. CASE PushRejected
    <2>1. FleetTyped' /\ LinesKept(main)' /\ LinesKept(remote)' /\ LinesKept(clone)'
      BY <1>3 DEF PushRejected, FleetTyped, LinesKept
    <2>2. ShellTyped' BY <1>3 DEF PushRejected, ShellTyped, PushSteps
    <2>3. ClaimInv' BY <1>3 DEF PushRejected, ClaimInv, Replaying
    <2> QED BY <2>1, <2>2, <2>3
  <1>4. CASE Diff
    <2>1. lines' \subseteq Slug BY <1>4 DEF Diff, FleetTyped, Files
    <2>2. FleetTyped' /\ LinesKept(main)' /\ LinesKept(remote)' /\ LinesKept(clone)'
      BY <1>4, <2>1 DEF Diff, FleetTyped, LinesKept
    <2>3. ShellTyped' BY <1>4 DEF Diff, ShellTyped, PushSteps
    <2>4. ClaimInv' BY <1>4 DEF Diff, ClaimInv, Replaying
    <2> QED BY <2>2, <2>3, <2>4
  <1>5. CASE Fetch
    <2>1. FleetTyped' /\ LinesKept(main)' /\ LinesKept(remote)' /\ LinesKept(clone)'
      BY <1>5 DEF Fetch, FleetTyped, LinesKept
    <2>2. ShellTyped' BY <1>5 DEF Fetch, ShellTyped, PushSteps
    <2>3. ClaimInv' BY <1>5 DEF Fetch, ClaimInv, Replaying
    <2> QED BY <2>1, <2>2, <2>3
  <1>6. CASE FetchFails
    <2>1. FleetTyped' /\ LinesKept(main)' /\ LinesKept(remote)' /\ LinesKept(clone)'
      BY <1>6 DEF FetchFails, FleetTyped, LinesKept
    <2>2. ShellTyped' BY <1>6 DEF FetchFails, ShellTyped, PushSteps
    <2>3. ClaimInv' BY <1>6 DEF FetchFails, ClaimInv, Replaying
    <2> QED BY <2>1, <2>2, <2>3
  <1>7. CASE Reset
    <2>1. FleetTyped' /\ LinesKept(main)' /\ LinesKept(remote)' /\ LinesKept(clone)'
      BY <1>7 DEF Reset, FleetTyped, LinesKept
    <2>2. ShellTyped' BY <1>7 DEF Reset, ShellTyped, PushSteps
    <2>3. ClaimInv' BY <1>7 DEF Reset, ClaimInv, Replaying
    <2> QED BY <2>1, <2>2, <2>3
  <1>8. CASE Restore
    <2>1. clone' \in Files /\ clone'.claim = saved /\ LinesKept(clone)'
      BY <1>8 DEF Restore, FleetTyped, Files, LinesKept
    <2>2. FleetTyped' /\ LinesKept(main)' /\ LinesKept(remote)'
      BY <1>8, <2>1 DEF Restore, FleetTyped, LinesKept
    <2>3. ShellTyped' BY <1>8 DEF Restore, ShellTyped, PushSteps
    <2>4. ClaimInv' BY <1>8, <2>1 DEF Restore, ClaimInv, Replaying
    <2> QED BY <2>1, <2>2, <2>3, <2>4
  <1>9. CASE Replay
    <2>1. clone' \in Files /\ clone'.claim = clone.claim /\ LinesKept(clone')
      BY <1>9, WrittenKeeps DEF Replay, FleetTyped
    <2>2. FleetTyped' /\ LinesKept(main)' /\ LinesKept(remote)' /\ LinesKept(clone)'
      BY <1>9, <2>1 DEF Replay, FleetTyped, LinesKept
    <2>3. ShellTyped' BY <1>9 DEF Replay, ShellTyped, PushSteps
    <2>4. ClaimInv' BY <1>9, <2>1 DEF Replay, ClaimInv, Replaying
    <2> QED BY <2>2, <2>3, <2>4
  <1>10. CASE Again
    <2>1. /\ ShellTyped' /\ saved' \in 0..MaxWork /\ lines' \subseteq Slug
          /\ \/ pushStep' = "push" /\ saved' = saved
             \/ pushStep' = IF mode = "snapshot" THEN "settle" ELSE "move"
      <3>1. CASE tries < 3
        BY <1>10, <3>1 DEF Again, ShellTyped, PushSteps, FleetTyped
      <3>2. CASE ~(tries < 3)
        BY <1>10, <3>2, PushedKeeps DEF Again
      <3> QED BY <3>1, <3>2
    <2>2. FleetTyped' /\ LinesKept(main)' /\ LinesKept(remote)' /\ LinesKept(clone)'
      BY <1>10, <2>1 DEF Again, FleetTyped, LinesKept
    <2>3. ClaimInv' BY <1>10, <2>1 DEF Again, ClaimInv, Replaying
    <2> QED BY <2>1, <2>2, <2>3
  <1> QED BY <1>1, <1>2, <1>3, <1>4, <1>5, <1>6, <1>7, <1>8, <1>9, <1>10 DEF Push

LEMMA PushKillKeeps == ASSUME FleetInv, KillPush PROVE FleetInv'
  <1> USE DEF FleetInv, drains, store, claims
  <1>1. FleetTyped' /\ LinesKept(main)' /\ LinesKept(remote)' /\ LinesKept(clone)'
    BY BoundsAssumption DEF KillPush, FleetTyped, LinesKept
  <1>2. ShellTyped' BY DEF KillPush, ShellTyped, PushSteps, Modes
  <1>3. ClaimInv' BY DEF KillPush, ClaimInv, Replaying
  <1> QED BY <1>1, <1>2, <1>3

LEMMA FleetStarts == FleetInit => FleetInv
  <1> SUFFICES ASSUME FleetInit PROVE FleetInv
    OBVIOUS
  <1> USE BoundsAssumption DEF FleetInit
  <1>1. main \in Files BY DEF Files, Status, Finding
  <1>2. FleetTyped BY <1>1 DEF FleetTyped, Finding
  <1>3. ShellTyped
    <2>1. pending \in BOOLEAN /\ unmarked \in BOOLEAN OBVIOUS
    <2> QED BY <2>1 DEF ShellTyped, PushSteps, Modes
  <1>4. LinesKept(main) /\ LinesKept(remote) /\ LinesKept(clone) BY DEF LinesKept
  <1>5. ClaimInv BY DEF ClaimInv, Replaying
  <1> QED BY <1>2, <1>3, <1>4, <1>5 DEF FleetInv

LEMMA FleetGoesOn == FleetInv /\ [FleetNext]_fleetVars => FleetInv'
  <1> SUFFICES ASSUME FleetInv, [FleetNext]_fleetVars PROVE FleetInv'
    OBVIOUS
  <1>1. CASE UNCHANGED fleetVars
    BY <1>1 DEF fleetVars, drains, store, claims, shell, FleetInv, FleetTyped, ShellTyped, LinesKept, ClaimInv
  <1> QED BY <1>1, ElsewhereKeeps, BeginKeeps, CallersKeep, PushKeeps, PushKillKeeps DEF FleetNext, Pushes

\* For any leads, exports and legs of the fleet, and however many pushes are rejected, given up or
\* cut off: without a pending mark main holds the claim that is staged, and that is the last export's
\* unless a kill fell between it and its mark or a red's take-back made it; and a lead is banked there only beside its
\* line (push_fleet.sh, fleet_leads.py, justfile).
THEOREM FleetKeepsLeads == FleetSpec => []LeadsAreKept
  <1>1. FleetInit => FleetInv
    BY FleetStarts
  <1>2. FleetInv /\ [FleetNext]_fleetVars => FleetInv'
    BY FleetGoesOn
  <1>3. FleetInv => LeadsAreKept
    BY DEF FleetInv, FleetTyped, ShellTyped, LinesKept, ClaimInv, LeadsAreKept, FleetTypeOK, UnpendingIsHeld,
           BankedHasLine
  <1> QED BY <1>1, <1>2, <1>3, PTL DEF FleetSpec

\* A copy not marked stale stands on main: the same findings, and a lead it settles as a negative
\* that main still has open was found to be one.
FoundInv ==
  /\ "remote" \notin stale => remote = main
  /\ "clone" \notin stale =>
       /\ clone.finding = main.finding
       /\ \A s \in Slug : main.lead[s] = "open" /\ clone.lead[s] \in {"closed", "gone"} => main.finding[s] = "CLOSED"
  /\ \A s \in Slug : artifact[s] # "none" \/ incoming[s] # "none" => main.finding[s] # "none"

\* fleet_leads.py closes a lead only when its finding is the negative, or not in the clone yet.
LEMMA WrittenCloses ==
  ASSUME clone \in Files
  PROVE  /\ Written(clone).finding = clone.finding
         /\ \A s \in Slug : Written(clone).lead[s] \in {"closed", "gone"} =>
              clone.lead[s] \in {"closed", "gone"}
              \/ (incoming[s] = "CLOSED" /\ clone.finding[s] \in {"none", "CLOSED"})
  <1> DEFINE Settled(s) == LET v == incoming[s]
                               settled == StatusFor(v, s, clone)
                               now == clone.finding[s]
                           IN  IF v = "none" THEN (IF s \in clone.ledger THEN "banked" ELSE "none")
                               ELSE IF now # "none" /\ StatusFor(now, s, clone) # settled THEN "none"
                               ELSE settled
             lead(s) == IF clone.lead[s] = "gone" \/ Settled(s) = "none" THEN clone.lead[s]
                        ELSE IF Settled(s) = "closed" /\ s \in booked THEN "gone"
                        ELSE Settled(s)
  <1>1. \A s \in Slug : /\ Settled(s) \in {"none", "closed", "banked"}
                        /\ Settled(s) = "closed" => incoming[s] = "CLOSED" /\ clone.finding[s] \in {"none", "CLOSED"}
    BY DEF StatusFor
  <1>2. \A s \in Slug : lead(s) \in {"closed", "gone"} =>
          clone.lead[s] \in {"closed", "gone"} \/ (incoming[s] = "CLOSED" /\ clone.finding[s] \in {"none", "CLOSED"})
    <2> HIDE DEF Settled
    <2> QED BY <1>1
  <1>3. Written(clone) = [clone EXCEPT !.lead = [s \in Slug |-> lead(s)]]
    BY DEF Written
  <1> HIDE DEF lead
  <1> QED BY <1>2, <1>3 DEF Files

LEMMA FoundKeeps == ASSUME FleetInv, FoundInv, [FleetNext]_fleetVars PROVE FoundInv'
  <1> USE DEF FoundInv, drains, store, claims, shell
  <1>1. clone \in Files /\ main \in Files /\ remote \in Files
        /\ artifact \in [Slug -> Finding] /\ incoming \in [Slug -> Finding]
    BY DEF FleetInv, FleetTyped
  <1>2. CASE Elsewhere
    <2>1. ASSUME NEW s \in Slug, NEW v \in LegVerdict, Leg(s, v) PROVE FoundInv'
      BY <1>1, <2>1 DEF Leg, Files, LegVerdict
    <2> QED BY <1>2, <2>1 DEF Elsewhere, Approve
  <1>3. CASE Begin
    <2>1. ASSUME NEW arrived \in SUBSET Slug, Tick(arrived) PROVE FoundInv'
      BY <1>1, <2>1 DEF Tick
    <2> QED BY <1>3, <2>1 DEF Begin, Bank, Export, TakeBack, RetrySnapshot
  <1>4. CASE BookOutcomes \/ PublishExpected \/ Restore
    <2>1. clone'.finding = clone.finding /\ clone'.lead = clone.lead
          /\ UNCHANGED <<main, remote, stale, artifact, incoming>>
      BY <1>1, <1>4 DEF BookOutcomes, PublishExpected, Restore, Files
    <2> QED BY <2>1
  <1>5. CASE WriteLeads \/ Replay
    <2>1. /\ clone' = Written(clone) /\ UNCHANGED <<main, remote, stale, artifact, incoming>>
      BY <1>5 DEF WriteLeads, Replay
    <2> QED BY <1>1, <2>1, WrittenCloses DEF Files, Finding
  <1>6. CASE PushOk
    BY <1>1, <1>6 DEF PushOk, Files
  <1>7. CASE Fetch
    BY <1>7 DEF Fetch
  <1>8. CASE Reset
    <2>1. "clone" \notin stale' => remote = main /\ clone' = main
      BY <1>8 DEF Reset
    <2>2. "remote" \notin stale' => "remote" \notin stale
      BY <1>8 DEF Reset
    <2>3. UNCHANGED <<main, remote, artifact, incoming>>
      BY <1>8 DEF Reset
    <2> QED BY <2>1, <2>2, <2>3
  <1>9. CASE Move
    BY <1>1, <1>9 DEF Move
  <1>10. CASE Touch \/ Stage \/ Settle \/ CommitPaths \/ PushRejected \/ Diff \/ FetchFails \/ Again \/ KillPush
              \/ UNCHANGED fleetVars
    <2>1. UNCHANGED <<main, remote, clone, stale, artifact, incoming>>
      BY <1>10 DEF Touch, Stage, Settle, CommitPaths, PushRejected, Diff, FetchFails, Again, KillPush, fleetVars
    <2> QED BY <2>1
  <1> QED BY <1>2, <1>3, <1>4, <1>5, <1>6, <1>7, <1>8, <1>9, <1>10 DEF FleetNext, Pushes, Push

\* For any leads and any interleaving of legs, drains and pushes: a push that closes a lead main
\* has open lands only where the newest finding is the negative (fleet_leads.py:140-144).
THEOREM FleetClosesNothingNewer == FleetSpec => NoStaleClose
  <1> DEFINE Closes == \A s \in Slug : main.lead[s] = "open" /\ main'.lead[s] \in {"closed", "gone"}
                                      => main.finding[s] = "CLOSED"
  <1>1. FleetInit => FleetInv /\ FoundInv
    <2>1. FleetInit => FleetInv BY FleetStarts
    <2>2. FleetInit => FoundInv BY DEF FleetInit, FoundInv
    <2> QED BY <2>1, <2>2
  <1>2. FleetInv /\ FoundInv /\ [FleetNext]_fleetVars => (FleetInv /\ FoundInv)'
    BY FleetGoesOn, FoundKeeps
  <1>3. FleetInv /\ FoundInv /\ [FleetNext]_fleetVars => [Closes]_fleetVars
    <2> SUFFICES ASSUME FleetInv, FoundInv, [FleetNext]_fleetVars, NEW s \in Slug,
                        main.lead[s] = "open", main'.lead[s] \in {"closed", "gone"}
                 PROVE  main.finding[s] = "CLOSED"
      BY DEF Closes
    <2>1. main' = main \/ PushOk \/ Elsewhere
      BY DEF FleetNext, Begin, Tick, Bank, Export, TakeBack, RetrySnapshot, Pushes, Touch, BookOutcomes, WriteLeads, Stage, PublishExpected,
             Push, CommitPaths, PushRejected, Diff, Fetch, FetchFails, Reset, Restore, Replay, Again, Move, Settle,
             KillPush, fleetVars
    <2>2. CASE PushOk
      BY <2>2 DEF PushOk, FoundInv
    <2>3. CASE Elsewhere
      <3>1. main'.lead = main.lead
        BY <2>3 DEF Elsewhere, Leg, Approve, FleetInv, FleetTyped, Files
      <3> QED BY <3>1
    <2> QED BY <2>1, <2>2, <2>3
  <1> QED BY <1>1, <1>2, <1>3, PTL DEF FleetSpec, NoStaleClose

-----------------------------------------------------------------------------
(* The drain. *)

\* A set of numbers has a least, and a finite one a greatest.
LEMMA LeastNumber ==
  ASSUME NEW S \in SUBSET Nat, S # {} PROVE \E x \in S : \A y \in S : x <= y
  <1> DEFINE R == OpToRel(<, Nat)
  <1>1. ASSUME NEW x \in Nat, NEW y \in Nat, x < y PROVE <<x, y>> \in R
    BY <1>1 DEF OpToRel
  <1>2. IsWellFoundedOn(R, Nat)
    BY NatLessThanWellFounded DEF R
  <1> HIDE DEF R
  <1>3. PICK x \in S : \A y \in S : <<y, x>> \notin R
    BY <1>2, WFMin
  <1>4. \A y \in S : ~(y < x)
    BY <1>1, <1>3
  <1> QED BY <1>4

LEMMA CommonBound == ASSUME NEW x \in Nat, NEW y \in Nat PROVE \E z \in Nat : x <= z /\ y <= z
  <1>1. CASE x <= y BY <1>1
  <1>2. CASE y <= x BY <1>2
  <1> QED BY <1>1, <1>2

LEMMA AtMostIsTransitive ==
  ASSUME NEW x \in Nat, NEW y \in Nat, NEW z \in Nat, x <= y, y <= z PROVE x <= z
  OBVIOUS

LEMMA GreatestNumber ==
  ASSUME NEW S \in SUBSET Nat, S # {}, IsFiniteSet(S) PROVE \E x \in S : \A y \in S : y <= x
  <1>1. PICK seq \in Seq(S) : \A x \in S : \E n \in 1..Len(seq) : seq[n] = x
    BY DEF IsFiniteSet
  <1> DEFINE Above(n, b) == \A i \in 1..n : seq[i] <= b
             Open == {n \in 0..Len(seq) : \A b \in Nat : ~Above(n, b)}
  <1>2. Len(seq) \in Nat
    OBVIOUS
  <1>3. \A i \in 1..Len(seq) : seq[i] \in Nat
    BY ElementOfSeq
  <1>4. Open = {}
    <2> SUFFICES ASSUME Open # {} PROVE FALSE
      OBVIOUS
    <2>1. Open \in SUBSET Nat
      BY <1>2
    <2>2. PICK n \in Open : \A m \in Open : n <= m
      <3> HIDE DEF Open
      <3> QED BY <2>1, LeastNumber
    <2>3. n # 0
      <3>1. Above(0, 0) OBVIOUS
      <3> QED BY <2>2, <3>1
    <2>4. n \in 1..Len(seq) /\ n - 1 \in 0..Len(seq)
      BY <1>2, <2>2, <2>3
    <2>5. n - 1 \notin Open
      <3> HIDE DEF Open
      <3> QED BY <2>2, <2>4
    <2>6. PICK b \in Nat : Above(n - 1, b)
      BY <2>4, <2>5
    <2>7. PICK c \in Nat : b <= c /\ seq[n] <= c
      <3>1. seq[n] \in Nat BY <1>3, <2>4
      <3> QED BY <3>1, CommonBound
    <2>8. Above(n, c)
      <3> SUFFICES ASSUME NEW i \in 1..n PROVE seq[i] <= c
        OBVIOUS
      <3>1. i = n \/ i \in 1..(n - 1)
        BY <2>4
      <3>2. seq[i] \in Nat
        BY <1>3, <2>4
      <3>3. CASE i \in 1..(n - 1)
        <4>1. seq[i] <= b BY <2>6, <3>3
        <4> QED BY <2>7, <3>2, <4>1, AtMostIsTransitive
      <3> QED BY <2>7, <3>1, <3>3
    <2> QED BY <2>2, <2>8
  <1>5. PICK b \in Nat : Above(Len(seq), b)
    <2>1. Len(seq) \in 0..Len(seq)
      BY <1>2
    <2> QED BY <1>4, <2>1
  <1> DEFINE Bounds == {c \in Nat : \A x \in S : x <= c}
  <1>6. b \in Bounds
    BY <1>1, <1>5
  <1>7. PICK c \in Bounds : \A d \in Bounds : c <= d
    BY <1>6, LeastNumber
  <1>8. c \in S
    <2> SUFFICES ASSUME c \notin S PROVE FALSE
      OBVIOUS
    <2>1. \A x \in S : x <= c - 1 /\ c - 1 \in Nat
      BY <1>7
    <2>2. c - 1 \in Bounds
      BY <2>1
    <2> QED BY <1>7, <2>2
  <1> QED BY <1>7, <1>8

\* A page that grew: no lead lost its row, and none its closed row.
Grew(p, q) == \A s \in DrainSlug : /\ p[s] # NoRow => q[s] # NoRow
                                   /\ p[s].on = "closed" => q[s].on = "closed"
OnPage(p, s) == p[s] # NoRow \/ Named(p, s)

DrainTyped ==
  /\ github \in [Runs -> {"running", "uploaded", "completed"}]
  /\ processed \subseteq Runs /\ fetched \subseteq Runs /\ missed \subseteq Runs /\ drained \subseteq Runs
  /\ inbox \in [DrainSlug -> Runs \cup {None}] /\ checked \subseteq DrainSlug
  /\ page \in [DrainSlug -> Row] /\ head \in [DrainSlug -> Row]
TickTyped ==
  /\ drainStep \in DrainSteps /\ fresh \in BOOLEAN /\ committed \in BOOLEAN
  /\ drainKills \in 0..MaxDrainKills

\* What is listed as completed is, and is fetched or missed once it is tried.
ListInv ==
  /\ todo \subseteq Runs \X BOOLEAN
  /\ \A t \in todo : t[2] => github[t[1]] = "completed"
  /\ drainStep \in {"get", "mark"} => todo # {}
  /\ drainStep = "mark" /\ Current[2] => Current[1] \in fetched \cup missed
  /\ drainStep = "move" => fetched # {}

HeldRun(r) == Booked(r) \/ inbox[Copy[r].slug] # None \/ \E q \in fetched : Copy[q].slug = Copy[r].slug

PagesInv ==
  /\ Grew(head, page)
  /\ drainStep \in {"commit", "archive"} => \A s \in Present : OnPage(page, s)
  /\ drainStep = "archive" => head = page
  /\ \A r \in processed \ missed : HeldRun(r)

DrainInv == DrainTyped /\ TickTyped /\ ListInv /\ PagesInv

LEMMA CurrentIsListed == ASSUME todo \subseteq Runs \X BOOLEAN, todo # {} PROVE Current \in todo
  <1> DEFINE S == {t[1] : t \in todo}
  <1>1. S \subseteq Runs /\ S \subseteq Nat /\ S # {}
    BY RunAssumption
  <1>2. IsFiniteSet(S)
    BY <1>1, RunAssumption, FS_Subset
  <1>3. PICK x \in S : \A y \in S : y <= x
    BY <1>1, <1>2, GreatestNumber
  <1>4. PICK t \in todo : t[1] = x
    OBVIOUS
  <1>5. \A u \in todo : u[1] <= t[1]
    BY <1>3, <1>4
  <1> QED BY <1>5 DEF Current

LEMMA FirstIsFetched == ASSUME fetched \subseteq Runs, fetched # {} PROVE Min(fetched) \in fetched
  <1>1. PICK x \in fetched : \A y \in fetched : x <= y
    BY RunAssumption, LeastNumber
  <1> QED BY <1>1 DEF Min

LEMMA SlugOfRun == ASSUME NEW r \in Runs PROVE Copy[r].slug \in DrainSlug
  BY DEF DrainSlug

LEMMA OnGrownPage ==
  ASSUME NEW p, NEW q, Grew(p, q), NEW s \in DrainSlug, OnPage(p, s) PROVE OnPage(q, s)
  BY DEF Grew, OnPage, Named

\* The scribe writes a row for every lead in the drain that no page names, and takes none away.
LEMMA BookGrows ==
  ASSUME DrainTyped
  PROVE  /\ Book(page) \in [DrainSlug -> Row] /\ Grew(page, Book(page))
         /\ \A s \in Present : OnPage(Book(page), s)
  <1>1. \A s \in Present : NewRow(s) \in Row /\ NewRow(s) # NoRow
          /\ (RowVerdict(s) # "FIND" => NewRow(s).on = "closed")
    BY RunAssumption DEF Present, NewRow, Row, NoRow, DrainTyped, None
  <1>2. \A s \in Present : Fate(page, s) # "booked" => page[s].on # "closed"
    BY DEF Fate
  <1>3. \A s \in DrainSlug : Book(page)[s] = IF Writes(page, s) THEN NewRow(s) ELSE page[s]
    BY DEF Book
  <1>4. \A s \in DrainSlug : Writes(page, s) => s \in Present /\ Fate(page, s) # "booked"
    BY DEF Writes
  <1>5. Book(page) \in [DrainSlug -> Row]
    BY <1>1, <1>4 DEF Book, DrainTyped
  <1>6. Grew(page, Book(page))
    BY <1>1, <1>2, <1>3, <1>4 DEF Grew
  <1>7. ASSUME NEW s \in Present PROVE OnPage(Book(page), s)
    <2>1. CASE page[s] # NoRow \/ Named(page, s)
      BY <1>6, <2>1, OnGrownPage DEF OnPage, Present
    <2>2. CASE page[s] = NoRow /\ ~Named(page, s)
      <3>1. Fate(page, s) = "new"
        BY <2>2 DEF Fate, NoRow
      <3>2. CASE RowVerdict(s) = "FIND"
        BY <1>1, <1>3, <3>1, <3>2 DEF Writes, OnPage, Present
      <3>3. CASE RowVerdict(s) # "FIND"
        <4> DEFINE first == CHOOSE t \in Negatives(page, Artifact[s]) : TRUE
        <4>1. s \in Negatives(page, Artifact[s])
          BY <3>1, <3>3 DEF Negatives
        <4>2. first \in Negatives(page, Artifact[s])
          BY <4>1
        <4> HIDE DEF first
        <4>3. first \in Present /\ RowVerdict(first) # "FIND" /\ Fate(page, first) = "new"
              /\ Artifact[first] = Artifact[s]
          BY <4>2 DEF Negatives
        <4>4. Writes(page, first)
          BY <4>3 DEF Writes, first
        <4>5. first \in DrainSlug /\ Book(page)[first].on = "closed"
          BY <1>1, <1>3, <4>3, <4>4 DEF Present
        <4> QED BY <4>3, <4>5 DEF OnPage, Named
      <3> QED BY <3>2, <3>3
    <2> QED BY <2>1, <2>2
  <1> QED BY <1>5, <1>6, <1>7

\* Steps that leave the drain on disk and the pages as they are.
LEMMA DiskKept ==
  ASSUME DrainTyped, PagesInv, UNCHANGED <<processed, disk, page, head, missed, drained>>,
         drainStep' \in {"commit", "archive"} => drainStep' = drainStep,
         github' \in [Runs -> {"running", "uploaded", "completed"}]
  PROVE  DrainTyped' /\ PagesInv'
  <1> USE DEF disk
  <1>1. DrainTyped' BY DEF DrainTyped
  <1>2. Present' = Present BY DEF Present
  <1>3. \A r : HeldRun(r)' <=> HeldRun(r)
    BY DEF HeldRun, Booked, Named
  <1>4. Grew(head, page)' /\ \A s : OnPage(page, s)' <=> OnPage(page, s)
    BY DEF PagesInv, Grew, OnPage, Named
  <1> HIDE DEF disk
  <1>5. \A r \in processed' \ missed' : HeldRun(r)'
    BY <1>3 DEF PagesInv
  <1>6. drainStep' = "archive" => head' = page'
    BY DEF PagesInv
  <1>7. drainStep' \in {"commit", "archive"} => \A s \in Present' : OnPage(page, s)'
    BY <1>2, <1>4 DEF PagesInv
  <1> QED BY <1>1, <1>4, <1>5, <1>6, <1>7 DEF PagesInv

\* Steps that mark nothing and take no lead and no row away.
LEMMA HeldGrows ==
  ASSUME DrainTyped, PagesInv, processed' = processed, missed \subseteq missed', Grew(head, head'),
         \A s \in DrainSlug : inbox[s] # None => inbox'[s] # None \/ OnPage(head', s)
                                                \/ \E q \in fetched' : Copy[q].slug = s,
         \A q \in fetched : \/ q \in fetched' \/ inbox'[Copy[q].slug] # None
  PROVE  \A r \in processed' \ missed' : HeldRun(r)'
  <1> SUFFICES ASSUME NEW r \in processed \ missed PROVE HeldRun(r)'
    OBVIOUS
  <1> DEFINE s == Copy[r].slug
  <1>1. HeldRun(r) /\ s \in DrainSlug
    BY SlugOfRun DEF PagesInv, DrainTyped
  <1>2. HeldRun(r)' <=> OnPage(head', s) \/ inbox'[s] # None \/ \E q \in fetched' : Copy[q].slug = s
    BY DEF HeldRun, Booked, OnPage, Named
  <1>3. CASE Booked(r)
    <2>1. OnPage(head, s) BY <1>3 DEF Booked, OnPage
    <2> HIDE DEF s
    <2> QED BY <1>1, <1>2, <2>1, OnGrownPage
  <1>4. CASE inbox[s] # None
    BY <1>1, <1>2, <1>4
  <1>5. CASE \E q \in fetched : Copy[q].slug = s
    BY <1>2, <1>5
  <1> QED BY <1>1, <1>3, <1>4, <1>5 DEF HeldRun

LEMMA RunsGoOn == ASSUME DrainInv, NEW r \in Runs, Upload(r) \/ Complete(r) PROVE DrainInv'
  <1> USE DEF DrainInv, disk, tick, past
  <1>1. /\ github' \in [Runs -> {"running", "uploaded", "completed"}]
        /\ \A q \in Runs : github[q] = "completed" => github'[q] = "completed"
    BY DEF Upload, Complete, DrainTyped
  <1>2. UNCHANGED <<processed, disk, page, head, drainStep, tick, past, drainKills>>
    BY DEF Upload, Complete
  <1>3. DrainTyped' /\ PagesInv'
    BY <1>1, <1>2, DiskKept
  <1>4. TickTyped' BY <1>2 DEF TickTyped
  <1>5. ListInv'
    <2>1. \A t \in todo : t[2] => github'[t[1]] = "completed"
      BY <1>1 DEF ListInv
    <2> QED BY <1>2, <2>1 DEF ListInv, Current
  <1> QED BY <1>3, <1>4, <1>5

LEMMA ListingKeeps ==
  ASSUME DrainInv, BeginDrain \/ \E wf \in {"leg", "read"}, ok \in BOOLEAN : List(wf, ok) PROVE DrainInv'
  <1> USE DEF DrainInv, disk, tick, past
  <1>1. CASE BeginDrain
    <2>1. DrainTyped' /\ PagesInv' BY <1>1, DiskKept DEF BeginDrain, DrainTyped
    <2>2. TickTyped' /\ ListInv' BY <1>1 DEF BeginDrain, TickTyped, ListInv, DrainSteps
    <2> QED BY <2>1, <2>2
  <1>2. ASSUME NEW wf \in {"leg", "read"}, NEW ok \in BOOLEAN, List(wf, ok) PROVE DrainInv'
    <2> DEFINE runs == {r \in Runs : Workflow[r] = wf} \ processed
    <2>1. UNCHANGED <<github, processed, disk, page, head, fresh, committed, past, drainKills>>
      BY <1>2 DEF List
    <2>2. drainStep' \in {"get", "read", "drain"}
      BY <1>2 DEF List, After
    <2>3. DrainTyped' /\ PagesInv' BY <2>1, <2>2, DiskKept DEF DrainTyped
    <2>4. TickTyped' BY <2>1, <2>2 DEF TickTyped, DrainSteps
    <2>5. CASE ok /\ runs # {}
      <3> DEFINE ended == [q \in Runs |-> github[q] = "completed"]
      <3>1. todo' = {<<q, ended[q]>> : q \in runs} /\ drainStep' = "get"
        BY <1>2, <2>5 DEF List
      <3>0. ended \in [Runs -> BOOLEAN] /\ \A q \in Runs : ended[q] => github[q] = "completed"
        OBVIOUS
      <3> HIDE DEF ended
      <3>2. todo' \subseteq Runs \X BOOLEAN
        BY <3>0, <3>1
      <3>3. \A t \in todo' : t[2] => github'[t[1]] = "completed"
        BY <2>1, <3>0, <3>1
      <3>4. todo' # {}
        BY <2>5, <3>1
      <3> QED BY <2>1, <2>3, <2>4, <3>1, <3>2, <3>3, <3>4 DEF ListInv
    <2>6. CASE ~(ok /\ runs # {})
      <3>1. todo' = todo /\ drainStep' \in {"read", "drain"}
        BY <1>2, <2>6 DEF List, After
      <3>2. ListInv' BY <2>1, <3>1 DEF ListInv
      <3> QED BY <2>3, <2>4, <3>2
    <2> QED BY <2>5, <2>6
  <1> QED BY <1>1, <1>2

\* A download that was tried leaves the run on disk or in the history of those missed.
LEMMA DownloadKeeps == ASSUME DrainInv, NEW ok \in BOOLEAN, Download(ok) PROVE DrainInv'
  <1> USE DEF DrainInv, tick
  <1> DEFINE r == Current[1]
  <1>1. Current \in todo /\ r \in Runs /\ Current[2] \in BOOLEAN
    <2>1. Current \in todo BY CurrentIsListed DEF Download, ListInv
    <2> QED BY <2>1 DEF ListInv
  <1>2. Current' = Current
    BY DEF Download, Current
  <1>3. Current[2] => github[r] = "completed"
    BY <1>1 DEF ListInv
  <1>4. /\ fetched' \in {fetched, fetched \cup {r}} /\ missed' \in {missed, missed \cup {r}}
        /\ Current[2] => r \in fetched' \cup missed'
    BY <1>3 DEF Download
  <1>5. drainStep' = "mark" /\ UNCHANGED <<github, processed, inbox, checked, page, head, tick, drained, drainKills>>
    BY DEF Download
  <1> HIDE DEF r
  <1>6. DrainTyped' /\ TickTyped'
    BY <1>1, <1>4, <1>5 DEF DrainTyped, TickTyped, DrainSteps
  <1>7. ListInv'
    <2>1. todo # {} BY <1>1
    <2> QED BY <1>1, <1>2, <1>4, <1>5, <2>1 DEF ListInv, r
  <1>8. PagesInv'
    <2>1. \A q \in processed' \ missed' : HeldRun(q)'
      BY <1>4, <1>5, HeldGrows DEF PagesInv, Grew
    <2> QED BY <1>5, <2>1 DEF PagesInv, Grew
  <1> QED BY <1>6, <1>7, <1>8

LEMMA MarkKeeps == ASSUME DrainInv, Mark PROVE DrainInv'
  <1> USE DEF DrainInv, tick, past, disk
  <1> DEFINE r == Current[1]
  <1>1. Current \in todo /\ r \in Runs
    <2>1. Current \in todo BY CurrentIsListed DEF Mark, ListInv
    <2> QED BY <2>1 DEF ListInv
  <1>2. /\ processed' = (IF Current[2] THEN processed \cup {r} ELSE processed) /\ todo' = todo \ {Current}
        /\ drainStep' \in {"get", "read", "drain"} /\ (drainStep' = "get" => todo' # {})
        /\ UNCHANGED <<github, disk, page, head, fresh, committed, past, drainKills>>
    <2>1. drainStep' = IF todo = {Current} THEN After(Workflow[r]) ELSE "get"
      BY DEF Mark
    <2>2. todo' = {} => todo = {Current}
      BY <1>1 DEF Mark
    <2> QED BY <2>1, <2>2 DEF Mark, After
  <1>3. Current[2] => r \in fetched \cup missed
    BY DEF Mark, ListInv
  <1> HIDE DEF r
  <1>4. DrainTyped' /\ TickTyped'
    BY <1>1, <1>2 DEF DrainTyped, TickTyped, DrainSteps
  <1>5. ListInv'
    BY <1>2 DEF ListInv
  <1>6. PagesInv'
    <2>1. \A q : HeldRun(q)' <=> HeldRun(q)
      BY <1>2 DEF HeldRun, Booked, Named
    <2>2. r \in fetched => HeldRun(r)
      BY DEF HeldRun
    <2>3. \A q \in processed' \ missed' : HeldRun(q)'
      BY <1>2, <1>3, <2>1, <2>2 DEF PagesInv
    <2> QED BY <1>2, <2>3 DEF PagesInv, Grew
  <1> QED BY <1>4, <1>5, <1>6

LEMMA UnpackKeeps == ASSUME DrainInv, DrainRun \/ MoveLead \/ Validate PROVE DrainInv'
  <1> USE DEF DrainInv, tick, past, disk
  <1>1. ASSUME fetched # {} PROVE Min(fetched) \in fetched /\ Min(fetched) \in Runs /\ Min(fetched) # None
                                  /\ Copy[Min(fetched)].slug \in DrainSlug
    BY <1>1, FirstIsFetched, SlugOfRun, RunAssumption DEF DrainTyped
  <1>2. CASE DrainRun
    <2> DEFINE r == Min(fetched)
               s == Copy[r].slug
    <2>1. r \in fetched /\ r \in Runs /\ r # None /\ s \in DrainSlug
      BY <1>1, <1>2 DEF DrainRun
    <2>2. UNCHANGED <<github, processed, page, head, tick, past, drainKills>> /\ drainStep = "drain"
      BY <1>2 DEF DrainRun
    <2>3. \/ inbox[s] = None /\ inbox' = [inbox EXCEPT ![s] = r] /\ fetched' = fetched \ {r}
             /\ UNCHANGED <<checked, drainStep>>
          \/ inbox[s] # None /\ fetched' = fetched \ {r} /\ UNCHANGED <<inbox, checked, drainStep>>
          \/ inbox' = [inbox EXCEPT ![s] = None] /\ checked' = checked \ {s} /\ drainStep' = "move" /\ fetched' = fetched
      BY <1>2 DEF DrainRun
    <2> HIDE DEF r, s
    <2>4. DrainTyped' /\ TickTyped' /\ ListInv'
      BY <2>1, <2>2, <2>3 DEF DrainTyped, TickTyped, ListInv, DrainSteps
    <2>5. \A q \in processed' \ missed' : HeldRun(q)'
      <3>1. \A x \in DrainSlug : inbox[x] # None => inbox'[x] # None \/ \E q \in fetched' : Copy[q].slug = x
        BY <2>1, <2>3 DEF DrainTyped, s
      <3>2. \A q \in fetched : q \in fetched' \/ inbox'[Copy[q].slug] # None
        BY <2>1, <2>3 DEF DrainTyped, s
      <3> QED BY <2>2, <3>1, <3>2, HeldGrows DEF Grew
    <2> QED BY <2>2, <2>3, <2>4, <2>5 DEF PagesInv, Grew
  <1>3. CASE MoveLead
    <2> DEFINE r == Min(fetched)
               s == Copy[r].slug
    <2>1. r \in fetched /\ r \in Runs /\ r # None /\ s \in DrainSlug
      BY <1>1, <1>3 DEF MoveLead, ListInv
    <2>2. UNCHANGED <<github, processed, checked, page, head, tick, past, drainKills>> /\ drainStep' = "drain"
          /\ inbox' = [inbox EXCEPT ![s] = r] /\ fetched' = fetched \ {r}
      BY <1>3 DEF MoveLead
    <2> HIDE DEF r, s
    <2>3. DrainTyped' /\ TickTyped' /\ ListInv'
      BY <2>1, <2>2 DEF DrainTyped, TickTyped, ListInv, DrainSteps
    <2>4. \A q \in processed' \ missed' : HeldRun(q)'
      <3>1. \A x \in DrainSlug : inbox[x] # None => inbox'[x] # None
        BY <2>1, <2>2 DEF DrainTyped
      <3>2. \A q \in fetched : q \in fetched' \/ inbox'[Copy[q].slug] # None
        BY <2>1, <2>2 DEF DrainTyped, s
      <3> QED BY <2>2, <3>1, <3>2, HeldGrows DEF Grew
    <2> QED BY <2>2, <2>3, <2>4 DEF PagesInv, Grew
  <1>4. CASE Validate
    <2>1. UNCHANGED <<github, processed, fetched, inbox, page, head, tick, past, drainKills>> /\ drainStep' = "choose"
      BY <1>4 DEF Validate
    <2>2. checked' \subseteq DrainSlug
      BY <1>4 DEF Validate, DrainTyped, Present
    <2>3. DrainTyped' /\ TickTyped' /\ ListInv'
      BY <2>1, <2>2 DEF DrainTyped, TickTyped, ListInv, DrainSteps
    <2>4. \A q \in processed' \ missed' : HeldRun(q)'
      BY <2>1, HeldGrows DEF Grew
    <2> QED BY <2>1, <2>3, <2>4 DEF PagesInv, Grew
  <1> QED BY <1>2, <1>3, <1>4

LEMMA BookKeeps ==
  ASSUME DrainInv, (\E bank \in BOOLEAN : Choose(bank)) \/ Scribe \/ RedBank PROVE DrainInv'
  <1> USE DEF DrainInv, tick, past, disk
  <1>1. ASSUME NEW bank \in BOOLEAN, Choose(bank) PROVE DrainInv'
    <2>1. DrainTyped' /\ PagesInv' BY <1>1, DiskKept DEF Choose, DrainTyped
    <2>2. TickTyped' /\ ListInv' BY <1>1 DEF Choose, TickTyped, ListInv, DrainSteps
    <2> QED BY <2>1, <2>2
  <1>2. CASE Scribe
    <2>1. page' = Book(page) /\ drainStep' = "commit"
          /\ UNCHANGED <<github, processed, disk, head, todo, committed, past, drainKills>>
      BY <1>2 DEF Scribe
    <2>2. Book(page) \in [DrainSlug -> Row] /\ Grew(page, Book(page)) /\ \A s \in Present : OnPage(Book(page), s)
      BY BookGrows
    <2>3. fresh' \in BOOLEAN BY <1>2 DEF Scribe, NewRows
    <2>4. DrainTyped' /\ TickTyped' /\ ListInv'
      BY <2>1, <2>2, <2>3 DEF DrainTyped, TickTyped, ListInv, DrainSteps
    <2>5. Grew(head', page')
      BY <2>1, <2>2 DEF PagesInv, Grew
    <2>6. \A q \in processed' \ missed' : HeldRun(q)'
      BY <2>1, HeldGrows DEF Grew
    <2>7. \A s \in Present' : OnPage(page', s)
      BY <2>1, <2>2 DEF Present
    <2> QED BY <2>1, <2>4, <2>5, <2>6, <2>7 DEF PagesInv, Grew, OnPage, Named
  <1>3. CASE RedBank
    <2>1. page' = head /\ fresh' = FALSE /\ drainStep' = "idle"
          /\ UNCHANGED <<github, processed, disk, head, todo, committed, past, drainKills>>
      BY <1>3 DEF RedBank
    <2>2. fresh' \in BOOLEAN BY <2>1
    <2>3. DrainTyped' /\ TickTyped' /\ ListInv'
      BY <2>1, <2>2 DEF DrainTyped, TickTyped, ListInv, DrainSteps
    <2>4. \A q \in processed' \ missed' : HeldRun(q)'
      BY <2>1, HeldGrows DEF Grew
    <2> QED BY <2>1, <2>3, <2>4 DEF PagesInv, Grew
  <1> QED BY <1>1, <1>2, <1>3

LEMMA CommitKeeps ==
  ASSUME DrainInv, CommitRows \/ (\E pushed \in BOOLEAN : CommitFails(pushed)) \/ \E keep \in BOOLEAN : Clean(keep)
  PROVE  DrainInv'
  <1> USE DEF DrainInv, tick, past, disk
  <1>1. CASE CommitRows
    <2>1. /\ head' = page /\ drainStep = "commit" /\ drainStep' = "archive"
          /\ UNCHANGED <<github, processed, disk, page, todo, fresh, past, drainKills>>
      BY <1>1 DEF CommitRows
    <2>2. committed' \in BOOLEAN BY <1>1 DEF CommitRows
    <2>3. DrainTyped' /\ TickTyped' /\ ListInv'
      BY <2>1, <2>2 DEF DrainTyped, TickTyped, ListInv, DrainSteps
    <2>4. \A q \in processed' \ missed' : HeldRun(q)'
      BY <2>1, HeldGrows DEF PagesInv
    <2>5. \A s \in Present' : OnPage(page, s)'
      BY <2>1 DEF PagesInv, Present, OnPage, Named
    <2> QED BY <2>1, <2>3, <2>4, <2>5 DEF PagesInv, Grew
  <1>2. ASSUME NEW pushed \in BOOLEAN, CommitFails(pushed) PROVE DrainInv'
    <2>1. /\ head' \in {page, head} /\ drainStep' = "idle" /\ fresh' = FALSE
          /\ UNCHANGED <<github, processed, disk, page, todo, committed, past, drainKills>>
      BY <1>2 DEF CommitFails
    <2>2. fresh' \in BOOLEAN BY <2>1
    <2>3. DrainTyped' /\ TickTyped' /\ ListInv'
      BY <2>1, <2>2 DEF DrainTyped, TickTyped, ListInv, DrainSteps
    <2>4. Grew(head, head')
      BY <2>1 DEF PagesInv, Grew
    <2>5. \A q \in processed' \ missed' : HeldRun(q)'
      BY <2>1, <2>4, HeldGrows
    <2> QED BY <2>1, <2>3, <2>5 DEF PagesInv, Grew
  <1>3. ASSUME NEW keep \in BOOLEAN, Clean(keep) PROVE DrainInv'
    <2>1. /\ head' \in {page, head} /\ page' = head' /\ drainStep = "idle"
          /\ UNCHANGED <<github, processed, disk, drainStep, tick, past, drainKills>>
      BY <1>3 DEF Clean
    <2>2. DrainTyped' /\ TickTyped' /\ ListInv'
      BY <2>1 DEF DrainTyped, TickTyped, ListInv
    <2>3. Grew(head, head')
      BY <2>1 DEF PagesInv, Grew
    <2>4. \A q \in processed' \ missed' : HeldRun(q)'
      BY <2>1, <2>3, HeldGrows
    <2> QED BY <2>1, <2>2, <2>4 DEF PagesInv, Grew
  <1> QED BY <1>1, <1>2, <1>3

\* What a drain takes out of incoming/ is on the committed pages.
LEMMA ArchiveKeeps == ASSUME DrainInv, Archive PROVE DrainInv'
  <1> USE DEF DrainInv, tick, past, disk
  <1>1. /\ fresh' = FALSE /\ committed' = FALSE /\ drainStep' = "idle" /\ drainStep = "archive"
        /\ UNCHANGED <<github, processed, fetched, page, head, todo, missed, drainKills>>
    BY DEF Archive
  <1>2. /\ inbox' \in {inbox, [s \in DrainSlug |-> None]} /\ checked' \in {checked, {}}
        /\ drained' \in {drained, drained \cup {inbox[s] : s \in Present}}
    BY DEF Archive
  <1>3. drained' \subseteq Runs
    BY <1>2 DEF DrainTyped, Present
  <1>4. fresh' \in BOOLEAN /\ committed' \in BOOLEAN
    BY <1>1
  <1>5. DrainTyped' /\ TickTyped' /\ ListInv'
    BY <1>1, <1>2, <1>3, <1>4 DEF DrainTyped, TickTyped, ListInv, DrainSteps
  <1>6. \A s \in DrainSlug : inbox[s] # None => inbox'[s] # None \/ OnPage(head', s)
    BY <1>1 DEF PagesInv, Present
  <1>7. \A q \in processed' \ missed' : HeldRun(q)'
    BY <1>1, <1>6, HeldGrows DEF Grew
  <1> QED BY <1>1, <1>5, <1>7 DEF PagesInv, Grew

LEMMA DrainKillKeeps == ASSUME DrainInv, KillDrain PROVE DrainInv'
  <1> USE DEF DrainInv, tick, past, disk
  <1>1. /\ drainStep' = "idle" /\ todo' = {} /\ fresh' = FALSE /\ committed' = FALSE
        /\ drainKills < MaxDrainKills /\ drainKills' = drainKills + 1
        /\ UNCHANGED <<github, processed, disk, page, head, past>>
    BY DEF KillDrain
  <1>2. DrainTyped' /\ PagesInv'
    BY <1>1, DiskKept DEF DrainTyped
  <1>3. fresh' \in BOOLEAN /\ committed' \in BOOLEAN
    BY <1>1
  <1>4. TickTyped' /\ ListInv'
    BY <1>1, <1>3, RunAssumption DEF TickTyped, ListInv, DrainSteps
  <1> QED BY <1>2, <1>4

\* For any runs, whatever their artifacts say, and any kills, failed lists, downloads and commits:
\* the lead of a run no tick downloads again is booked or in a directory a later tick reads, but
\* for a run whose download failed as it was marked (justfile, fleet_findings.py, bank_findings.py).
THEOREM DrainHoldsProcessed == DrainSpec => []ProcessedIsHeld
  <1>1. ASSUME DrainInit PROVE DrainInv
    <2> USE <1>1 DEF DrainInit
    <2>1. NoRow \in Row BY DEF Row
    <2>2. DrainTyped BY <2>1 DEF DrainTyped
    <2>3. fresh \in BOOLEAN /\ committed \in BOOLEAN OBVIOUS
    <2>4. TickTyped BY <2>3, RunAssumption DEF TickTyped, DrainSteps
    <2>5. ListInv /\ PagesInv BY DEF ListInv, PagesInv, Grew
    <2> QED BY <2>2, <2>4, <2>5 DEF DrainInv
  <1>2. DrainInv /\ [DrainNext]_drainVars => DrainInv'
    <2> SUFFICES ASSUME DrainInv, [DrainNext]_drainVars PROVE DrainInv'
      OBVIOUS
    <2>1. CASE UNCHANGED drainVars
      <3>1. DrainTyped' /\ PagesInv'
        BY <2>1, DiskKept DEF drainVars, disk, tick, past, DrainInv, DrainTyped
      <3>2. TickTyped' /\ ListInv'
        BY <2>1 DEF drainVars, disk, tick, past, DrainInv, TickTyped, ListInv, Current
      <3> QED BY <3>1, <3>2 DEF DrainInv
    <2> QED BY <2>1, RunsGoOn, ListingKeeps, DownloadKeeps, MarkKeeps, UnpackKeeps, BookKeeps, CommitKeeps,
               ArchiveKeeps, DrainKillKeeps DEF DrainNext, DrainTick
  <1>3. DrainInv => ProcessedIsHeld
    BY DEF DrainInv, DrainTyped, TickTyped, ListInv, PagesInv, HeldRun, ProcessedIsHeld, DrainTypeOK
  <1> QED BY <1>1, <1>2, <1>3, PTL DEF DrainSpec
-----------------------------------------------------------------------------
(* The sync lock, for any set of pids and any number of faults. *)

USE PidAssumption, MaxFaultsAssumption DEF PidAssumption, MaxFaultsAssumption

\* A run past the point where it may only go on to hold or to free the lock.
Committed == {"unlink", "rmdir", "remkdir", "write", "dropUnlink", "dropRmdir"}

\* Why the lock excludes while no two runs are in the script together: the
\* holder's pid stays in the file, what a take read is still what the file
\* says, and nobody frees or makes the directory beside a holder.
Serial ==
  /\ \A p, q \in Pid : pc[p] \in Script /\ pc[q] \in Script => p = q
  /\ \A p \in Pid : pc[p] \in Writing => dir /\ pidFile = p
  /\ \A p \in Pid : pc[p] = "probe" => seen[p] = pidFile
  /\ \A p \in Pid : pc[p] = "write" => dir
  /\ \A p, q \in Pid : pc[p] \in Committed => pc[q] \notin Writing

IInv == TypeOK /\ (overlapped \/ Serial)

USE DEF Taking, Dropping, Script, Writing, Steps

-----------------------------------------------------------------------------
LEMMA InitIInv == Init => IInv
  <1> SUFFICES ASSUME Init PROVE TypeOK /\ Serial
    BY DEF IInv
  <1>1. TypeOK
    <2>1. faults \in 0..MaxFaults BY DEF Init
    <2>2. pc \in [Pid -> Steps] BY DEF Init
    <2>3. seen \in [Pid -> Pid \cup {NoPid}] BY DEF Init
    <2>4. overlapped \in BOOLEAN /\ dir \in BOOLEAN BY DEF Init
    <2>5. pidFile # NoPid => dir BY DEF Init
    <2>6. pidFile \in Pid \cup {NoPid} BY DEF Init
    <2> QED BY <2>1, <2>2, <2>3, <2>4, <2>5, <2>6 DEF TypeOK
  <1>2. Serial
    BY DEF Init, Serial, Committed
  <1> QED BY <1>1, <1>2

\* A pid file exists only inside the lock directory, whatever runs interleave
\* in the script and whoever is killed (sync_lock.sh:36, rm -rf and mkdir).
LEMMA TypeInductive == TypeOK /\ [Next]_vars => TypeOK'
  <1> SUFFICES ASSUME TypeOK, [Next]_vars PROVE TypeOK'
    OBVIOUS
  <1> USE DEF TypeOK, Goto
  <1>1. ASSUME NEW p \in Pid, Take(p) PROVE TypeOK'
    <2>1. CASE Start(p)    BY <2>1 DEF Start
    <2>2. CASE Mkdir(p)    BY <2>2 DEF Mkdir
    <2>3. CASE Read(p)     BY <2>3 DEF Read
    <2>4. CASE Probe(p)    BY <2>4 DEF Probe
    <2>5. CASE Unlink(p)   BY <2>5 DEF Unlink
    <2>6. CASE Rmdir(p)    BY <2>6 DEF Rmdir
    <2>7. CASE Remkdir(p)  BY <2>7 DEF Remkdir
    <2>8. CASE WritePid(p) BY <2>8 DEF WritePid
    <2> QED BY <1>1, <2>1, <2>2, <2>3, <2>4, <2>5, <2>6, <2>7, <2>8 DEF Take
  <1>2. ASSUME NEW p \in Pid, NestedBank(p) PROVE TypeOK'
    BY <1>2 DEF NestedBank
  <1>3. ASSUME NEW p \in Pid, Drop(p) PROVE TypeOK'
    BY <1>3 DEF Drop, BeginDrop, DropUnlink, DropRmdir
  <1>4. ASSUME NEW p \in Pid, Kill(p) \/ Recycle(p) \/ ForeignExit(p) PROVE TypeOK'
    BY <1>4 DEF Kill, Recycle, ForeignExit
  <1>5. CASE UNCHANGED vars
    BY <1>5 DEF vars
  <1> QED BY <1>1, <1>2, <1>3, <1>4, <1>5 DEF Next

\* While no step makes two runs meet in the script, seriality is kept.
LEMMA SerialInductive ==
  ASSUME TypeOK, Serial, ~overlapped, ~overlapped', [Next]_vars
  PROVE  Serial'
  <1> USE DEF TypeOK, Serial, Goto, Committed
  <1>1. ASSUME NEW p \in Pid, Take(p) PROVE Serial'
    <2>1. CASE Start(p)
      <3>1. pc' = [pc EXCEPT ![p] = "mkdir"] /\ UNCHANGED <<dir, pidFile, seen>>
        BY <2>1 DEF Start
      <3>2. \A q \in Pid \ {p} : pc[q] \notin Script
        BY <2>1 DEF Start
      <3> QED BY <3>1, <3>2
    <2>2. CASE Mkdir(p)    BY <2>2 DEF Mkdir
    <2>3. CASE Read(p)     BY <2>3 DEF Read
    <2>4. CASE Probe(p)
      <3>1. (\E q \in Pid : pc[q] \in Writing) => pc'[p] = "idle"
        BY <2>4 DEF Probe, Alive
      <3> QED BY <2>4, <3>1 DEF Probe
    <2>5. CASE Unlink(p)   BY <2>5 DEF Unlink
    <2>6. CASE Rmdir(p)    BY <2>6 DEF Rmdir
    <2>7. CASE Remkdir(p)  BY <2>7 DEF Remkdir
    <2>8. CASE WritePid(p) BY <2>8 DEF WritePid
    <2> QED BY <1>1, <2>1, <2>2, <2>3, <2>4, <2>5, <2>6, <2>7, <2>8 DEF Take
  <1>2. ASSUME NEW p \in Pid, NestedBank(p) PROVE Serial'
    BY <1>2 DEF NestedBank
  <1>3. ASSUME NEW p \in Pid, Drop(p) PROVE Serial'
    <2>1. CASE BeginDrop(p)  BY <2>1 DEF BeginDrop
    <2>2. CASE DropUnlink(p) BY <2>2 DEF DropUnlink
    <2>3. CASE DropRmdir(p)  BY <2>3 DEF DropRmdir
    <2> QED BY <1>3, <2>1, <2>2, <2>3 DEF Drop
  <1>4. ASSUME NEW p \in Pid, Kill(p) \/ Recycle(p) \/ ForeignExit(p) PROVE Serial'
    BY <1>4 DEF Kill, Recycle, ForeignExit
  <1>5. CASE UNCHANGED vars
    BY <1>5 DEF vars
  <1> QED BY <1>1, <1>2, <1>3, <1>4, <1>5 DEF Next

LEMMA OverlapStays == TypeOK /\ overlapped /\ [Next]_vars => overlapped'
  BY DEF Next, vars, TypeOK, Goto, Take, Start, Mkdir, Read, Probe, Unlink, Rmdir, Remkdir,
         WritePid, NestedBank, Drop, BeginDrop, DropUnlink, DropRmdir, Kill, Recycle, ForeignExit

LEMMA NextIInv == IInv /\ [Next]_vars => IInv'
  <1> SUFFICES ASSUME IInv, [Next]_vars PROVE IInv'
    OBVIOUS
  <1>1. TypeOK'
    BY TypeInductive DEF IInv
  <1>2. overlapped \in BOOLEAN /\ overlapped' \in BOOLEAN
    BY <1>1 DEF IInv, TypeOK
  <1>3. overlapped' \/ Serial'
    BY <1>2, SerialInductive, OverlapStays DEF IInv
  <1> QED BY <1>1, <1>3 DEF IInv

LEMMA IInvExcludes == IInv => ExclusionUnlessOverlap
  BY DEF IInv, Serial, ExclusionUnlessOverlap, Exclusion, Holders

-----------------------------------------------------------------------------
\* The lock's variables keep their types and a pid is never left outside the
\* directory, in every behaviour of sync_lock.sh.
THEOREM LockTypeOK == Spec => []TypeOK
  <1>1. IInv => TypeOK
    BY DEF IInv
  <1> QED BY <1>1, InitIInv, NextIInv, PTL DEF Spec

\* Two runs write to the store together only after two runs overlapped inside
\* sync_lock.sh: kills and recycled pids alone never break the exclusion.
THEOREM LockExclusion == Spec => []ExclusionUnlessOverlap
  BY InitIInv, NextIInv, IInvExcludes, PTL DEF Spec
=============================================================================
