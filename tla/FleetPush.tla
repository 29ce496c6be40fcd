------------------------------ MODULE FleetPush ------------------------------
(***************************************************************************)
(* What the tick and the bank write into the fleet's clone and push to its *)
(* main: lead statuses (fleet_leads.py), outcome lines (fleet_findings.py  *)
(* `outcome`, fleet_ledger.py) and the snapshot's claim, through           *)
(* push_fleet.sh, which replays them onto the remote when a push is        *)
(* rejected.                                                               *)
(*                                                                         *)
(* The clone is never pulled, so it lags main until a rejected push        *)
(* fetches.  The fleet's legs push to main at any time: a leg on an open   *)
(* lead leaves its finding there and an artifact a later drain brings      *)
(* here.  One sync runs at a time (module SyncLock) and may be killed      *)
(* between any two commands.                                               *)
(***************************************************************************)
EXTENDS Naturals, FiniteSets

CONSTANTS Slug,       \* leads, all open on main at first
          MaxWork,    \* bound on legs the fleet runs and exports, each a new claim, together
          MaxPushKills    \* bound on syncs killed part way

ASSUME BoundsAssumption == MaxWork \in Nat /\ MaxPushKills \in Nat

VARIABLES
  main,      \* the remote's files
  remote,    \* the clone's origin/main: main as it was last fetched or pushed
  clone,     \* the clone's files
  stale,     \* which of "remote" and "clone" stand on an older commit than main's
  saved, lines,                 \* push_fleet.sh's copies under $TMP, while it runs
  artifact, incoming, moved,    \* a leg's newest artifact, data/fleet_findings/{incoming,banked}
  booked, ingested,             \* slugs on sources-closed.md, FINDs whose rows are in the store
  exported, staged, pending,    \* output/'s claim, output/fleet_snapshot's, data/logs/.push_pending
  unmarked,  \* history: the export in output/ was cut off from its mark, or was a red's
  pushStep, mode, tries,              \* the running sync, what it is, and its rejected pushes
  legs, pushKills

drains == <<artifact, incoming, moved>>
store  == <<booked, ingested>>
claims == <<exported, staged, pending, unmarked>>
shell  == <<pushStep, mode, tries>>
fleetVars == <<main, remote, clone, stale, saved, lines, drains, store, claims, shell, legs, pushKills>>

LegVerdict == {"FIND", "CLOSED"}         \* a FIND its verify confirmed; a measured negative
Finding == LegVerdict \cup {"none"}
Status  == {"open", "banked", "closed", "gone"}     \* gone: left `leads/`
Files   == [lead : [Slug -> Status], finding : [Slug -> Finding], ledger : SUBSET Slug,
            claim : 0..MaxWork]
PushSteps   == {"idle", "touch", "book", "leads", "stage", "claim", "commit", "push", "diff", "fetch", "reset",
            "restore", "replay", "again", "move", "settle"}
Modes   == {"tick", "bank", "export", "snapshot"}

FleetTypeOK ==
  /\ main \in Files /\ remote \in Files /\ clone \in Files
  /\ stale \subseteq {"remote", "clone"}
  /\ saved \in 0..MaxWork /\ lines \subseteq Slug
  /\ artifact \in [Slug -> Finding] /\ incoming \in [Slug -> Finding] /\ moved \subseteq Slug
  /\ booked \subseteq Slug /\ ingested \subseteq Slug
  /\ exported \in 0..MaxWork /\ staged \in 0..exported /\ pending \in BOOLEAN
  /\ unmarked \in BOOLEAN
  /\ pushStep \in PushSteps /\ mode \in Modes /\ tries \in 0..3
  /\ legs \in 0..MaxWork /\ pushKills \in 0..MaxPushKills

FleetInit ==
  /\ main = [lead |-> [s \in Slug |-> "open"], finding |-> [s \in Slug |-> "none"],
             ledger |-> {}, claim |-> 0]
  /\ remote = main /\ clone = main /\ stale = {}
  /\ saved = 0 /\ lines = {}
  /\ artifact = [s \in Slug |-> "none"] /\ incoming = artifact /\ moved = {}
  /\ booked = {} /\ ingested = {}
  /\ exported = 0 /\ staged = 0 /\ pending = FALSE /\ unmarked = FALSE
  /\ pushStep = "idle" /\ mode = "tick" /\ tries = 0
  /\ legs = 0 /\ pushKills = 0
-----------------------------------------------------------------------------
(* The fleet and the owner. *)

\* A leg takes an open lead off main, and pushes its finding there.
Leg(s, v) ==
  /\ legs + exported < MaxWork /\ main.lead[s] = "open"
  /\ legs' = legs + 1
  /\ main' = [main EXCEPT !.finding[s] = v]
  /\ stale' = {"remote", "clone"}
  /\ artifact' = [artifact EXCEPT ![s] = v]
  /\ UNCHANGED <<remote, clone, saved, lines, incoming, moved, store, claims, shell, pushKills>>

\* The owner approves a drained FIND and a bank ingests its source.
Approve(s) ==
  /\ s \notin ingested /\ (incoming[s] = "FIND" \/ s \in moved)
  /\ ingested' = ingested \cup {s}
  /\ UNCHANGED <<main, remote, clone, stale, saved, lines, drains, booked, claims, shell, legs, pushKills>>

Elsewhere == (\E s \in Slug, v \in LegVerdict : Leg(s, v)) \/ (\E s \in Slug : Approve(s))
-----------------------------------------------------------------------------
(* The two callers. *)

\* The tick drains what arrived and books it unless a FIND sends it to the bank.
Tick(arrived) ==
  /\ pushStep = "idle"
  /\ arrived \subseteq {s \in Slug : artifact[s] # "none"}
  /\ incoming' = [s \in Slug |-> IF s \in arrived THEN artifact[s] ELSE incoming[s]]
  /\ artifact' = [s \in Slug |-> IF s \in arrived THEN "none" ELSE artifact[s]]
  /\ \E closed \in SUBSET {s \in Slug : incoming'[s] = "CLOSED"} : booked' = booked \cup closed
  /\ pushStep' = IF \E s \in Slug : incoming'[s] = "FIND" THEN "idle"
           ELSE IF \E s \in Slug : incoming'[s] # "none" THEN "leads" ELSE "idle"
  /\ mode' = "tick"
  /\ UNCHANGED <<main, remote, clone, stale, saved, lines, moved, ingested, claims, tries, legs, pushKills>>

\* A bank that exports nothing only books outcomes.
Bank ==
  /\ pushStep = "idle"
  /\ pushStep' = "book" /\ mode' = "bank"
  /\ UNCHANGED <<main, remote, clone, stale, saved, lines, drains, store, claims, tries, legs, pushKills>>

\* `ark export --claim` writes output/, which the older mark, if one stands, covers too.
NewExport == legs + exported < MaxWork /\ exported' = exported + 1 /\ unmarked' = ~pending /\ UNCHANGED <<staged, pending>>

\* A bank that exports: the export, then its mark.
Export ==
  /\ pushStep = "idle" /\ NewExport
  /\ pushStep' = "touch" /\ mode' = "export"
  /\ UNCHANGED <<main, remote, clone, stale, saved, lines, drains, store, tries, legs, pushKills>>

\* The mark.  The check after it may be red, and the bank stops there.
Touch ==
  /\ pushStep = "touch"
  /\ pending' = TRUE /\ unmarked' = FALSE
  /\ \/ pushStep' = "book" /\ UNCHANGED mode
     \/ pushStep' = "idle" /\ mode' = "tick"
  /\ UNCHANGED <<main, remote, clone, stale, saved, lines, drains, store, exported, staged, tries, legs, pushKills>>

\* A red takes its rows back and exports again, with no mark of its own, and the bank stops.
\* `just ship build` makes such an export too, when the last one is not a claim.
TakeBack ==
  /\ pushStep = "idle" /\ NewExport
  /\ UNCHANGED <<main, remote, clone, stale, saved, lines, drains, store, shell, legs, pushKills>>

\* The tick's last step, while a snapshot is pending and no red stands (module Bank).
RetrySnapshot ==
  /\ pushStep = "idle" /\ pending
  /\ pushStep' = "stage" /\ mode' = "snapshot"
  /\ UNCHANGED <<main, remote, clone, stale, saved, lines, drains, store, claims, tries, legs, pushKills>>

\* Mutant: only this drain's finds are booked.
MutBookOutcomes ==
  /\ pushStep = "book"
  /\ LET held == {s \in Slug : incoming[s] = "FIND" /\ s \in ingested}
     IN  clone' = [clone EXCEPT !.ledger = @ \cup held]
  /\ pushStep' = "leads"
  /\ UNCHANGED <<main, remote, stale, saved, lines, drains, store, claims, mode, tries, legs, pushKills>>

\* `outcome`: every drained FIND the store has ingested gets its banked line,
\* whichever drain brought it; the append keeps a line it holds already.
BookOutcomes ==
  /\ pushStep = "book"
  /\ LET finds == moved \cup {s \in Slug : incoming[s] = "FIND"}
         held  == {s \in finds : s \in ingested}
     IN  clone' = [clone EXCEPT !.ledger = @ \cup held]
  /\ pushStep' = "leads"
  /\ UNCHANGED <<main, remote, stale, saved, lines, drains, store, claims, mode, tries, legs, pushKills>>

-----------------------------------------------------------------------------
(* fleet_leads.py over `incoming`: which statuses it writes into `files`. *)

StatusFor(v, s, files) == CASE v = "CLOSED" -> "closed"
                            [] v = "FIND" /\ s \in files.ledger -> "banked"
                            [] OTHER -> "none"

\* Mutant: the drain's verdict is written whatever the fleet found since.
MutWritten(files) ==
  LET Settles(s) == IF incoming[s] = "none" THEN (IF s \in files.ledger THEN "banked" ELSE "none")
                    ELSE StatusFor(incoming[s], s, files)
      After(s) == IF files.lead[s] = "gone" \/ Settles(s) = "none" THEN files.lead[s]
                  ELSE IF Settles(s) = "closed" /\ s \in booked THEN "gone"
                  ELSE Settles(s)
  IN  [files EXCEPT !.lead = [s \in Slug |-> After(s)]]

\* The drain's own verdict decides its slugs, unless the fleet moved on past it;
\* the ledger decides every other lead.  A lead booked closed leaves the queue.
Written(files) ==
  LET Settles(s) == LET v == incoming[s]
                        settled == StatusFor(v, s, files)
                        now == files.finding[s]
                    IN  IF v = "none" THEN (IF s \in files.ledger THEN "banked" ELSE "none")
                        ELSE IF now # "none" /\ StatusFor(now, s, files) # settled THEN "none"
                        ELSE settled
      After(s) == IF files.lead[s] = "gone" \/ Settles(s) = "none" THEN files.lead[s]
                  ELSE IF Settles(s) = "closed" /\ s \in booked THEN "gone"
                  ELSE Settles(s)
  IN  [files EXCEPT !.lead = [s \in Slug |-> After(s)]]

WriteLeads ==
  /\ pushStep = "leads"
  /\ clone' = Written(clone)
  /\ pushStep' = "commit"
  /\ UNCHANGED <<main, remote, stale, saved, lines, drains, store, claims, mode, tries, legs, pushKills>>
-----------------------------------------------------------------------------
(* The snapshot: the stage, then the claim it holds into the clone. *)

Stage ==
  /\ pushStep = "stage"
  /\ \/ staged' = exported /\ unmarked' = FALSE /\ pushStep' = "claim" /\ UNCHANGED mode
     \/ UNCHANGED <<staged, unmarked>> /\ pushStep' = "idle" /\ mode' = "tick"   \* refused: the push stays pending
  /\ UNCHANGED <<main, remote, clone, stale, saved, lines, drains, store, exported, pending, tries,
                 legs, pushKills>>

\* push_fleet.sh --snapshot.
PublishExpected ==
  /\ pushStep = "claim"
  /\ clone' = [clone EXCEPT !.claim = staged]
  /\ pushStep' = "commit"
  /\ UNCHANGED <<main, remote, stale, saved, lines, drains, store, claims, mode, tries, legs, pushKills>>
-----------------------------------------------------------------------------
(* push_fleet.sh: commit, push, and the replay of a rejected push. *)

\* Keep a copy of snapshot.json and commit; nothing to commit is no error.
CommitPaths ==
  /\ pushStep = "commit"
  /\ saved' = clone.claim
  /\ pushStep' = "push"
  /\ UNCHANGED <<main, remote, clone, stale, lines, drains, store, claims, mode, tries, legs, pushKills>>

\* push_fleet.sh ends, and its copies with it; its callers go on either way.
Pushed ==
  /\ pushStep' = IF mode = "snapshot" THEN "settle" ELSE "move"
  /\ saved' = 0 /\ lines' = {} /\ tries' = 0

\* Main takes the push when the clone's branch stands on it.
PushOk ==
  /\ pushStep = "push" /\ "clone" \notin stale
  /\ main' = clone /\ remote' = clone /\ stale' = {}
  /\ Pushed
  /\ UNCHANGED <<clone, drains, store, claims, mode, legs, pushKills>>

\* Main moved, or the network failed.
PushRejected ==
  /\ pushStep = "push"
  /\ pushStep' = "diff"
  /\ UNCHANGED <<main, remote, clone, stale, saved, lines, drains, store, claims, mode, tries, legs, pushKills>>

\* The ledger lines this clone added, read before the fetch moves origin/main.
Diff ==
  /\ pushStep = "diff"
  /\ lines' = clone.ledger \ remote.ledger
  /\ pushStep' = "fetch"
  /\ UNCHANGED <<main, remote, clone, stale, saved, drains, store, claims, mode, tries, legs, pushKills>>

Fetch ==
  /\ pushStep = "fetch"
  /\ remote' = main /\ stale' = stale \ {"remote"}
  /\ pushStep' = "reset"
  /\ UNCHANGED <<main, clone, saved, lines, drains, store, claims, mode, tries, legs, pushKills>>

\* Without the fetch the reset is skipped and the replay runs on the clone.
FetchFails ==
  /\ pushStep = "fetch"
  /\ pushStep' = "restore"
  /\ UNCHANGED <<main, remote, clone, stale, saved, lines, drains, store, claims, mode, tries, legs, pushKills>>

Reset ==
  /\ pushStep = "reset"
  /\ clone' = remote
  /\ stale' = IF "remote" \in stale THEN {"remote", "clone"} ELSE {}
  /\ pushStep' = "restore"
  /\ UNCHANGED <<main, remote, saved, lines, drains, store, claims, mode, tries, legs, pushKills>>

\* Mutant: snapshot.json is not put back after the reset.
MutRestore ==
  /\ pushStep = "restore"
  /\ clone' = [clone EXCEPT !.ledger = @ \cup lines]
  /\ pushStep' = "replay"
  /\ UNCHANGED <<main, remote, stale, saved, lines, drains, store, claims, mode, tries, legs, pushKills>>

\* snapshot.json is put back and the ledger lines are appended again.
Restore ==
  /\ pushStep = "restore"
  /\ clone' = [clone EXCEPT !.claim = saved, !.ledger = @ \cup lines]
  /\ pushStep' = "replay"
  /\ UNCHANGED <<main, remote, stale, saved, lines, drains, store, claims, mode, tries, legs, pushKills>>

\* fleet_leads.py runs again over `incoming`, and the replay is committed.
Replay ==
  /\ pushStep = "replay"
  /\ clone' = Written(clone)
  /\ tries' = tries + 1
  /\ pushStep' = "again"
  /\ UNCHANGED <<main, remote, stale, saved, lines, drains, store, claims, mode, legs, pushKills>>

\* Three attempts, then the push is given up, shouted, and exits 0.
Again ==
  /\ pushStep = "again"
  /\ IF tries < 3 THEN pushStep' = "push" /\ UNCHANGED <<saved, lines, tries>> ELSE Pushed
  /\ UNCHANGED <<main, remote, clone, stale, drains, store, claims, mode, legs, pushKills>>

Push == CommitPaths \/ PushOk \/ PushRejected \/ Diff \/ Fetch \/ FetchFails \/ Reset \/ Restore \/ Replay \/ Again
-----------------------------------------------------------------------------
\* The drain leaves `incoming/` once its rows are committed here, whatever the
\* fleet's push did; a bank without a FIND leaves it.  A bank that exported goes
\* on to the snapshot.
Move ==
  /\ pushStep = "move"
  /\ LET finds == {s \in Slug : incoming[s] = "FIND"}
     IN  IF mode = "tick" \/ finds # {}
           THEN moved' = moved \cup finds /\ incoming' = [s \in Slug |-> "none"]
           ELSE UNCHANGED <<moved, incoming>>
  /\ IF mode = "export" THEN pushStep' = "stage" /\ mode' = "snapshot"
                        ELSE pushStep' = "idle" /\ mode' = "tick"
  /\ UNCHANGED <<main, remote, clone, stale, saved, lines, artifact, store, claims, tries, legs, pushKills>>

\* The stage is settled when origin/main, as last seen, holds the clone's claim.
Settle ==
  /\ pushStep = "settle"
  /\ pending' = (remote.claim # clone.claim)
  /\ pushStep' = "idle" /\ mode' = "tick"
  /\ UNCHANGED <<main, remote, clone, stale, saved, lines, drains, store, exported, staged, unmarked, tries,
                 legs, pushKills>>

KillPush ==
  /\ pushStep # "idle" /\ pushKills < MaxPushKills
  /\ pushKills' = pushKills + 1
  /\ pushStep' = "idle" /\ mode' = "tick" /\ saved' = 0 /\ lines' = {} /\ tries' = 0
  /\ UNCHANGED <<main, remote, clone, stale, drains, store, claims, legs>>

Begin == \/ \E arrived \in SUBSET Slug : Tick(arrived)
         \/ Bank \/ Export \/ TakeBack
         \/ RetrySnapshot

Pushes == Touch \/ BookOutcomes \/ WriteLeads \/ Stage \/ PublishExpected \/ Push \/ Move \/ Settle

FleetNext == Elsewhere \/ Begin \/ Pushes \/ KillPush

FleetSpec == FleetInit /\ [][FleetNext]_fleetVars

\* The timer starts the next sync, banks come and a drain takes what arrived; a
\* started sync goes on; the network is back again and again.
FleetFair ==
  /\ WF_fleetVars(Pushes) /\ SF_fleetVars(Bank) /\ SF_fleetVars(PushOk) /\ SF_fleetVars(Fetch)
  /\ \A s \in Slug : SF_fleetVars(Tick({s}))

FleetFairSpec == FleetSpec /\ FleetFair
-----------------------------------------------------------------------------
(***************************************************************************)
(* Without a pending push, fleet main expects the claim that is staged,    *)
(* and that is the claim of the last export (justfile:479-480: the mark    *)
(* goes once fleet main holds that), unless the export never got its mark. *)
(***************************************************************************)
UnpendingIsHeld == ~pending => main.claim = staged /\ (staged = exported \/ unmarked)

(***************************************************************************)
(* A lead is banked on main only beside the ledger line that says so       *)
(* (fleet_leads.py:8-9), through rejected pushes and replays.              *)
(***************************************************************************)
BankedHasLine == \A s \in Slug : main.lead[s] = "banked" => s \in main.ledger

(***************************************************************************)
(* A lead the fleet found again is never closed by an older drain          *)
(* (fleet_leads.py:140-144): what main holds of it when the push lands is  *)
(* a negative.                                                             *)
(***************************************************************************)
NoStaleClose ==
  [][\A s \in Slug : main.lead[s] = "open" /\ main'.lead[s] \in {"closed", "gone"}
                       => main.finding[s] = "CLOSED"]_fleetVars

(***************************************************************************)
(* The outcome of every banked find lands on main and settles its lead,    *)
(* whichever push was given up and wherever a sync was killed              *)
(* (justfile:463-464).                                                     *)
(***************************************************************************)
OutcomesLand ==
  \A s \in Slug : (s \in moved \cap ingested) ~> (s \in main.ledger /\ main.lead[s] # "open")

\* A lead left open on main though its negative is booked here and no drain
\* holds it any more.
Stranded(s) == /\ s \in booked /\ main.finding[s] = "CLOSED" /\ main.lead[s] = "open"
               /\ artifact[s] = "none" /\ incoming[s] = "none"

(***************************************************************************)
(* No booked negative is dealt for ever: the replay after a rejected push  *)
(* loses nothing, as the writer reads the drain again                      *)
(* (push_fleet.sh:32-36), while no push is given up after its third        *)
(* attempt.                                                                *)
(***************************************************************************)
ClosedLeavesQueueUnlessGivenUp ==
  [](pushStep = "again" => tries < 3) => \A s \in Slug : ~<>[]Stranded(s)

(***************************************************************************)
(* Whatever push is cut off, given up or replayed, fleet main holds the    *)
(* claim no push is pending for, that of the last export unless it was cut *)
(* off from its mark or a red made it, and no bank of a lead without its   *)
(* line (justfile:479-480, fleet_leads.py:8-9), in a state of its type.    *)
(***************************************************************************)
LeadsAreKept == FleetTypeOK /\ UnpendingIsHeld /\ BankedHasLine

(***************************************************************************)
(* A lead found again is not closed by an older drain, and every banked    *)
(* find and every booked negative settles its lead in the end              *)
(* (fleet_leads.py:140-144, justfile:463-464, push_fleet.sh:32-36).        *)
(***************************************************************************)
LeadsSettle == NoStaleClose /\ OutcomesLand /\ ClosedLeavesQueueUnlessGivenUp
=============================================================================
