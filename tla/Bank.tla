-------------------------------- MODULE Bank --------------------------------
(***************************************************************************)
(* `just bank`, the one job that writes the store, and the last steps of   *)
(* the hourly tick that calls it (justfile `sync`, `bank`, `red-clear`;    *)
(* scripts/harness/bank_trigger.py, bank_approved.py, unbank_source.py).   *)
(*                                                                         *)
(* A bank is a shell script under `set -e`: a sequence of commands, each   *)
(* committing its own write to the store, the registers, output/ or        *)
(* data/logs, and it may be killed between any two of them.  Journals land *)
(* in data/raw while it runs.  The sync lock keeps a second bank out (that *)
(* is module SyncLock), so one bank is in flight at most.                  *)
(***************************************************************************)
EXTENDS Naturals, FiniteSets

CONSTANTS Lead,        \* leads whose confirmed FIND asks for a source of its own
          Covered,     \* the leads inside every standing clause
          OldSource,   \* the leads whose source held rows before any bank here
          Journal,     \* journals the collectors write under data/raw
          Cdx,         \* those in the globs the bank's own steps also write
          MaxKills,    \* bound on banks killed part way
          MaxMarker,   \* bound on new baselines
          NoStamp      \* no bank has stamped on this machine yet

ASSUME SetsAssumption == Covered \subseteq Lead /\ OldSource \subseteq Lead
                           /\ Cdx \subseteq Journal /\ Lead \cap Journal = {}
ASSUME BoundsAssumption == MaxKills \in Nat /\ MaxMarker \in Nat

VARIABLES
  landed, young, marker, \* data/raw, its partials still written to, data/baseline.json
  incoming, banked,      \* drained leads, and leads whose drain was moved aside
  page, live,            \* decision per lead: the working tree, and branch `live`
  folded, rows,          \* the store: journals and approved sources ingested
  output, fleet,         \* state of the export in output/, and of the one published
  seen, stamp, red, retry, push,                     \* data/logs
  pc, why, failed, decided, absent, todo, ingested, exported, \* the shell of the running bank
  bad,                   \* what `ark check` refuses once it is in the store
  gated, cut, kills      \* history

world == <<landed, young, marker>>
drains == <<incoming, banked>>
registers == <<page, live>>
store == <<folded, rows>>
logs == <<seen, stamp, red, retry, push>>
shell == <<why, failed, decided, absent, todo, ingested, exported>>
vars == <<world, drains, registers, store, output, fleet, logs, pc, shell, bad, gated, cut, kills>>

Decision == {"absent", "pending", "master"}
Reason   == {"find", "approvals", "baseline", "plain", "cdx"}
Export   == {"none", "raw", "green", "refused"}   \* raw: not yet checked; refused: red or half written
Item     == Lead \cup Journal
Stamps   == [fold : SUBSET Journal, page : [Lead -> Decision], marker : Nat]
Ungated  == {"touchC", "checkC", "ingest", "outcome", "exportB", "touchB", "checkB",
             "unbank", "checkout", "redB"}
Steps    == {"idle", "trigger", "foldPlain", "foldCdx", "exportC", "request", "decide", "plan",
             "reexport", "recheck", "stamp", "commit", "move", "publish", "retryPush"} \cup Ungated

WorldOK ==
  /\ landed \subseteq Journal /\ young \subseteq landed \cap Cdx /\ marker \in 0..MaxMarker
  /\ incoming \subseteq Lead /\ banked \subseteq Lead
  /\ page \in [Lead -> Decision] /\ live \in [Lead -> Decision]

StoreOK ==
  /\ folded \subseteq landed /\ rows \subseteq Lead
  /\ output \in Export /\ fleet \in Export
  /\ bad \subseteq Item /\ gated \subseteq Item

LogsOK ==
  /\ seen \subseteq landed /\ stamp \in Stamps \cup {NoStamp}
  /\ red \in {"none", "b", "c"} /\ retry \in BOOLEAN /\ push \in BOOLEAN
  /\ cut \in BOOLEAN /\ kills \in 0..MaxKills

ShellOK ==
  /\ why \subseteq Reason /\ failed \in BOOLEAN /\ exported \in BOOLEAN
  /\ decided \subseteq Lead /\ absent \subseteq Lead /\ todo \subseteq Lead /\ ingested \subseteq Lead

\* Types; what is seen, folded or still written to has landed.
TypeOK == pc \in Steps /\ WorldOK /\ StoreOK /\ LogsOK /\ ShellOK

Stored == folded \cup rows
Green  == Stored \cap bad = {}       \* `ark check` passes
Checked(export) == IF export = "refused" \/ ~Green THEN "refused" ELSE "green"
Masters == {l \in Lead : page[l] = "master"}

\* A shell that runs nothing holds nothing.
ExitShell == why' = {} /\ failed' = FALSE /\ exported' = FALSE
               /\ decided' = {} /\ absent' = {} /\ todo' = {} /\ ingested' = {}

Init ==
  /\ landed = {} /\ young = {} /\ marker = 0
  /\ incoming = {} /\ banked = {}
  /\ page = [l \in Lead |-> "absent"] /\ live = page
  /\ folded = {} /\ rows = {}
  /\ output = "none" /\ fleet = "none"
  /\ seen = {} /\ stamp = NoStamp /\ red = "none" /\ retry = FALSE /\ push = FALSE
  /\ pc = "idle" /\ why = {} /\ failed = FALSE
  /\ decided = {} /\ absent = {} /\ todo = {} /\ ingested = {} /\ exported = FALSE
  /\ bad \in SUBSET Item
  /\ gated = {} /\ cut = FALSE /\ kills = 0
-----------------------------------------------------------------------------
(* What goes on around the bank. *)

\* A collector ends a journal, or dies and leaves a partial of it.
Land(j) ==
  /\ j \notin landed
  /\ landed' = landed \cup {j}
  /\ young' \in {young, young \cup ({j} \cap Cdx)}
  /\ UNCHANGED <<marker, drains, registers, store, output, fleet, logs, pc, shell, bad, gated, cut, kills>>

\* Ninety minutes go by without a write to a partial.
Age(j) ==
  /\ j \in young
  /\ young' = young \ {j}
  /\ UNCHANGED <<landed, marker, drains, registers, store, output, fleet, logs, pc, shell, bad, gated, cut, kills>>

NewBaseline ==
  /\ marker < MaxMarker
  /\ marker' = marker + 1
  /\ UNCHANGED <<landed, young, drains, registers, store, output, fleet, logs, pc, shell, bad, gated, cut, kills>>

World == NewBaseline \/ \E j \in Journal : Land(j) \/ Age(j)

\* A clone the preflight refuses is committed or restored by hand.
Clean ==
  /\ pc = "idle" /\ page # live
  /\ \/ page' = live /\ live' = live
     \/ live' = page /\ page' = page
  /\ UNCHANGED <<world, drains, store, output, fleet, logs, pc, shell, bad, gated, cut, kills>>

\* Somebody reads the red and fixes what it named.
Fix ==
  /\ pc = "idle" /\ red # "none"
  /\ bad # {} /\ bad' = {}
  /\ UNCHANGED <<world, drains, registers, store, output, fleet, logs, pc, shell, gated, cut, kills>>

\* `just red-clear`: the export, the check, and the clear only on green.
RedClear ==
  /\ pc = "idle" /\ red # "none"
  /\ \E export \in {"raw", "refused"} :
       /\ output' = Checked(export)
       /\ red' = IF Checked(export) = "green" THEN "none" ELSE red
       /\ gated' = IF Checked(export) = "green" THEN gated \cup Stored ELSE gated
  /\ UNCHANGED <<world, drains, registers, store, fleet, seen, stamp, retry, push, pc, shell, bad, cut, kills>>
-----------------------------------------------------------------------------
(* The run up to the journals. *)

\* The tick's preflight (a dirty clone is refused), its pull, which brings the
\* approvals merged meanwhile, and its drain, which brings new leads.
Start ==
  /\ pc = "idle" /\ page = live
  /\ \E merged \in SUBSET {l \in Lead : live[l] = "pending"} :
       live' = [l \in Lead |-> IF l \in merged THEN "master" ELSE live[l]]
  /\ page' = live'
  /\ \E drained \in SUBSET (Lead \ banked) : incoming' = incoming \cup drained
  /\ pc' = "trigger"
  /\ UNCHANGED <<world, banked, store, output, fleet, logs, shell, bad, gated, cut, kills>>

MovedGlobs == {r \in {"plain", "cdx"} :
                 LET glob == IF r = "cdx" THEN Cdx ELSE Journal \ Cdx
                 IN  stamp = NoStamp \/ landed \cap glob # stamp.fold \cap glob}

\* The reasons that never wait.
Prompt == {r \in {"find", "approvals", "baseline"} :
             CASE r = "find"      -> incoming # {}
               [] r = "approvals" -> stamp = NoStamp \/ page # stamp.page
               [] r = "baseline"  -> stamp = NoStamp \/ marker # stamp.marker}

\* Moved journals and a retried approval, which alone wait for the pacing.
Paced == MovedGlobs \cup {r \in {"approvals"} : retry}

\* Mutant: --force passes a red.
MutTrigger(due, force) ==
  /\ pc = "trigger"
  /\ seen' = landed
  /\ why' = IF force THEN Reason \ {"find"} ELSE {}
  /\ pc' = IF force THEN "foldPlain" ELSE "retryPush"
  /\ UNCHANGED <<failed, exported, decided, absent, todo, ingested>>
  /\ UNCHANGED <<world, drains, registers, store, output, fleet, stamp, red, retry, push, bad, gated, cut, kills>>

\* `check`, by the bank itself: SEEN is what it measured, and a red stops it.
\* `due` is the pacing, a clock; `force` is `just bank --force`, by hand.
Trigger(due, force) ==
  /\ pc = "trigger"
  /\ seen' = IF red = "none" THEN landed ELSE seen
  /\ LET paced == IF due \/ Prompt # {} \/ stamp = NoStamp THEN Paced ELSE {}
         asked == IF force THEN (Reason \ {"find"}) \cup (Prompt \cap {"find"})
                           ELSE Prompt \cup paced
         runs  == red = "none" /\ (force \/ asked # {})
     IN  /\ why' = IF runs THEN asked ELSE {}
         /\ pc' = IF ~runs THEN "retryPush"
                  ELSE IF asked \cap {"plain", "cdx"} # {} THEN "foldPlain"
                  ELSE IF "baseline" \in asked THEN "exportC"
                  ELSE "request"
  /\ UNCHANGED <<failed, exported, decided, absent, todo, ingested>>
  /\ UNCHANGED <<world, drains, registers, store, output, fleet, stamp, red, retry, push, bad, gated, cut, kills>>

\* One ingest of step c: all its files, each in the ledger once, or a failure.
Fold(files, next) ==
  /\ \/ folded' = folded \cup files /\ failed' = failed
     \/ folded' = folded /\ failed' = TRUE
  /\ pc' = next
  /\ UNCHANGED <<world, drains, registers, rows, output, fleet, logs, why, decided, absent, todo, ingested,
                 exported, bad, gated, cut, kills>>

FoldPlain ==
  /\ pc = "foldPlain"
  /\ Fold(IF "plain" \in why THEN landed \ Cdx ELSE {}, "foldCdx")

\* Idle partials are promoted, then the glob is ingested, moved or not.
FoldCdx ==
  /\ pc = "foldCdx"
  /\ Fold((landed \cap Cdx) \ young, "exportC")
-----------------------------------------------------------------------------
(* The export and the gate, after the journals (c) and after an approval (b). *)

\* A failed export counts as the step failed, and as exported all the same.
ExportClaim(from, next) ==
  /\ pc = from
  /\ \/ output' = "raw" /\ failed' = failed
     \/ output' = "refused" /\ failed' = TRUE
  /\ exported' = TRUE
  /\ pc' = next
  /\ UNCHANGED <<world, drains, registers, store, fleet, logs, why, decided, absent, todo, ingested,
                 bad, gated, cut, kills>>

Touch(from, next) ==
  /\ pc = from
  /\ push' = TRUE
  /\ pc' = next
  /\ UNCHANGED <<world, drains, registers, store, output, fleet, seen, stamp, red, retry, shell,
                 bad, gated, cut, kills>>

CheckC ==
  /\ pc = "checkC"
  /\ output' = Checked(output)
  /\ gated' = IF Green THEN gated \cup Stored ELSE gated
  /\ IF Green /\ ~failed THEN red' = red /\ pc' = "request"
                         ELSE red' = "c" /\ pc' = "retryPush"
  /\ UNCHANGED <<world, drains, registers, store, fleet, seen, stamp, retry, push, shell, bad, cut, kills>>

\* Mutant: the status of a red gate is lost in the pipe to `tee`.
MutCheckB ==
  /\ pc = "checkB"
  /\ output' = Checked(output)
  /\ gated' = IF Green THEN gated \cup Stored ELSE gated
  /\ pc' = "stamp"
  /\ UNCHANGED <<world, drains, registers, store, fleet, logs, shell, bad, cut, kills>>

CheckB ==
  /\ pc = "checkB"
  /\ output' = Checked(output)
  /\ gated' = IF Green THEN gated \cup Stored ELSE gated
  /\ pc' = IF Green THEN "stamp" ELSE "unbank"
  /\ UNCHANGED <<world, drains, registers, store, fleet, logs, shell, bad, cut, kills>>

Gate == \/ ExportClaim("exportC", "touchC") \/ Touch("touchC", "checkC") \/ CheckC
        \/ ExportClaim("exportB", "touchB") \/ Touch("touchB", IF failed THEN "unbank" ELSE "checkB") \/ CheckB
-----------------------------------------------------------------------------
(* a. A FIND is booked and asked for, and the standing rule decides it. *)

Request ==
  /\ pc = "request"
  /\ page' = IF "find" \in why
               THEN [l \in Lead |-> IF l \in incoming /\ page[l] = "absent" THEN "pending" ELSE page[l]]
               ELSE page
  /\ pc' = "decide"
  /\ UNCHANGED <<world, drains, live, store, output, fleet, logs, shell, bad, gated, cut, kills>>

Decide ==
  /\ pc = "decide"
  /\ decided' = IF "find" \in why THEN {l \in incoming \cap Covered : page[l] = "pending"} ELSE {}
  /\ page' = [l \in Lead |-> IF l \in decided' THEN "master" ELSE page[l]]
  /\ pc' = IF "approvals" \in why \/ decided' # {} THEN "plan" ELSE "stamp"
  /\ UNCHANGED <<world, drains, live, store, output, fleet, logs, why, failed, absent, todo, ingested, exported,
                 bad, gated, cut, kills>>
-----------------------------------------------------------------------------
(* b. What is approved and not in the ledger is ingested, then gated. *)

\* The plan asks the ledger; the journal of an approval in `gone` is not on
\* this machine, or its refetch is refused.
Plan(gone) ==
  /\ pc = "plan"
  /\ gone \subseteq Masters \ rows
  /\ absent' = gone
  /\ todo' = (Masters \ rows) \ gone
  /\ failed' = FALSE
  /\ pc' = "ingest"
  /\ UNCHANGED <<world, drains, registers, store, output, fleet, logs, why, decided,
                 ingested, exported, bad, gated, cut, kills>>

\* `ingested` is read from the log, which names an ingest before it runs.
Ingest(l) ==
  /\ pc = "ingest" /\ l \in todo
  /\ ingested' = ingested \cup {l}
  /\ \/ rows' = rows \cup {l} /\ todo' = todo \ {l} /\ failed' = failed
     \/ rows' = rows /\ todo' = {} /\ failed' = TRUE    \* stopping before anything else runs
  /\ UNCHANGED <<world, drains, registers, folded, output, fleet, logs, pc, why, decided, absent, exported,
                 bad, gated, cut, kills>>

\* Mutant: only an approval that was retried before is retried again.
MutIngestsDone ==
  /\ pc = "ingest" /\ todo = {}
  /\ retry' = (absent # {} /\ retry)
  /\ pc' = "outcome"
  /\ UNCHANGED <<world, drains, registers, store, output, fleet, seen, stamp, red, push, shell,
                 bad, gated, cut, kills>>

\* An absent journal leaves its approval a reason for the trigger.
IngestsDone ==
  /\ pc = "ingest" /\ todo = {}
  /\ retry' = (absent # {})
  /\ pc' = "outcome"
  /\ UNCHANGED <<world, drains, registers, store, output, fleet, seen, stamp, red, push, shell, bad, gated, cut, kills>>

\* Nothing ingested and nothing decided: no export and no gate.
Outcome ==
  /\ pc = "outcome"
  /\ pc' = IF failed THEN "unbank"
           ELSE IF ingested = {} /\ decided = {} THEN "stamp" ELSE "exportB"
  /\ UNCHANGED <<world, drains, registers, store, output, fleet, logs, shell, bad, gated, cut, kills>>

\* A red gate takes back the rows this bank ingested, but no source that held
\* rows before it, then the registers, and records the red.
Unbank ==
  /\ pc = "unbank"
  /\ rows' = rows \ (ingested \ OldSource)
  /\ gated' = gated \ (ingested \ OldSource)
  /\ pc' = "checkout"
  /\ UNCHANGED <<world, drains, registers, folded, output, fleet, logs, shell, bad, cut, kills>>

Checkout ==
  /\ pc = "checkout"
  /\ page' = live
  /\ pc' = "redB"
  /\ UNCHANGED <<world, drains, live, store, output, fleet, logs, shell, bad, gated, cut, kills>>

RedB ==
  /\ pc = "redB"
  /\ red' = "b"
  /\ pc' = "reexport"
  /\ UNCHANGED <<world, drains, registers, store, output, fleet, seen, stamp, retry, push, shell,
                 bad, gated, cut, kills>>

Recheck ==
  /\ pc = "recheck"
  /\ output' = Checked(output)
  /\ gated' = IF Green THEN gated \cup Stored ELSE gated
  /\ pc' = "retryPush"
  /\ UNCHANGED <<world, drains, registers, store, fleet, logs, shell, bad, cut, kills>>

Rollback == Unbank \/ Checkout \/ RedB \/ ExportClaim("reexport", "recheck") \/ Recheck
Approve  == (\E gone \in SUBSET Lead : Plan(gone)) \/ (\E l \in Lead : Ingest(l)) \/ IngestsDone \/ Outcome \/ Rollback
-----------------------------------------------------------------------------
(* d and e. The stamp, the commit, the drain moved aside, the snapshot. *)

\* Mutant: the stamp measures every glob afresh.
MutStampFresh ==
  /\ pc = "stamp"
  /\ stamp' = [fold |-> landed, page |-> page, marker |-> marker]
  /\ pc' = "commit"
  /\ UNCHANGED <<world, drains, registers, store, output, fleet, seen, red, retry, push, shell,
                 bad, gated, cut, kills>>

\* Every glob as `check` saw it, but the bank's own output as it stands now.
Stamp ==
  /\ pc = "stamp"
  /\ stamp' = [fold |-> (seen \ Cdx) \cup (landed \cap Cdx), page |-> page, marker |-> marker]
  /\ pc' = "commit"
  /\ UNCHANGED <<world, drains, registers, store, output, fleet, seen, red, retry, push, shell,
                 bad, gated, cut, kills>>

Commit ==
  /\ pc = "commit"
  /\ live' = page
  /\ pc' = "move"
  /\ UNCHANGED <<world, drains, page, store, output, fleet, logs, shell, bad, gated, cut, kills>>

Move ==
  /\ pc = "move"
  /\ IF "find" \in why THEN incoming' = {} /\ banked' = banked \cup incoming
                       ELSE UNCHANGED drains
  /\ pc' = IF exported THEN "publish" ELSE "retryPush"
  /\ UNCHANGED <<world, registers, store, output, fleet, logs, shell, bad, gated, cut, kills>>

\* Stage the export and push its claim; either may fail and leave it pending.
Stage == \/ fleet' = output /\ push' = FALSE
         \/ UNCHANGED <<fleet, push>>

Publish ==
  /\ pc = "publish"
  /\ Stage
  /\ pc' = "retryPush"
  /\ UNCHANGED <<world, drains, registers, store, output, seen, stamp, red, retry, shell,
                 bad, gated, cut, kills>>

\* Mutant: the tick's retry ignores a red.
MutRetryPush ==
  /\ pc = "retryPush"
  /\ IF push THEN Stage ELSE UNCHANGED <<fleet, push>>
  /\ pc' = "idle" /\ ExitShell
  /\ UNCHANGED <<world, drains, registers, store, output, seen, stamp, red, retry,
                 bad, gated, cut, kills>>

\* The tick's last step, never while a red stands.
RetryPush ==
  /\ pc = "retryPush"
  /\ IF push /\ red = "none" THEN Stage ELSE UNCHANGED <<fleet, push>>
  /\ pc' = "idle" /\ ExitShell
  /\ UNCHANGED <<world, drains, registers, store, output, seen, stamp, red, retry,
                 bad, gated, cut, kills>>

Finish == Stamp \/ Commit \/ Move \/ Publish \/ RetryPush
-----------------------------------------------------------------------------
\* kill -9, an out-of-memory kill or a reboot between two commands.
Kill ==
  /\ pc # "idle" /\ kills < MaxKills
  /\ kills' = kills + 1
  /\ cut' = (cut \/ pc \in Ungated)
  /\ pc' = "idle" /\ ExitShell
  /\ UNCHANGED <<world, drains, registers, store, output, fleet, logs, bad, gated>>

Step == \/ (\E due, force \in BOOLEAN : Trigger(due, force)) \/ FoldPlain \/ FoldCdx
        \/ Gate \/ Request \/ Decide \/ Approve \/ Finish

Next == World \/ Clean \/ Fix \/ RedClear \/ Start \/ Step \/ Kill

Spec == Init /\ [][Next]_vars

\* The timer starts the next run and a started run goes on; its pacing comes
\* due, an approved journal is there or its refetch answers, and a clone the
\* preflight refuses is cleaned.
Fairness == /\ WF_vars(Start) /\ WF_vars(Step) /\ WF_vars(Clean)
            /\ SF_vars(Trigger(TRUE, FALSE)) /\ SF_vars(Plan({}))

FairSpec == Spec /\ Fairness
-----------------------------------------------------------------------------
(* Safety. *)

(***************************************************************************)
(* What the stamp records as seen was folded ("the stamp it writes         *)
(* afterwards records them as seen", bank_trigger.py:8-10), but for the    *)
(* globs the bank's own steps write: a journal landing after its fold is   *)
(* still new to the next bank (bank_trigger.py:37-39, 196-207), kills and  *)
(* reds included.                                                          *)
(***************************************************************************)
StampedPlainIsFolded == stamp # NoStamp => stamp.fold \ Cdx \subseteq folded

(***************************************************************************)
(* The snapshot the fleet prices against is an export that passed its      *)
(* check (justfile:215-228, runbook.md:76-78).                             *)
(***************************************************************************)
PublishedIsGated == fleet \in {"none", "green"}

(***************************************************************************)
(* It is, unless a bank was killed between a write and the gate or the red *)
(* that answers it: the red keeps step 9 from pushing, whoever exported.   *)
(***************************************************************************)
PublishedIsGatedUnlessCut == cut \/ PublishedIsGated

(***************************************************************************)
(* Between banks, with no red standing, every approved row in the store    *)
(* passed a check there, whether or not its line is stamped yet, unless a  *)
(* bank was killed between a write and the gate or the red that answers    *)
(* it (justfile:376-440).                                                  *)
(***************************************************************************)
GreenMeansGated == ~cut /\ pc = "idle" /\ red = "none" => rows \subseteq gated

(***************************************************************************)
(* A red after an approved ingest takes the rows and the lines together    *)
(* (unbank_source.py:3-9): what is left ungated in the store is a source   *)
(* that held rows before, and the registers are those of HEAD.             *)
(***************************************************************************)
RedTakesBoth ==
  ~cut /\ red = "b" /\ pc = "idle" => page = live /\ rows \ gated \subseteq OldSource

(***************************************************************************)
(* Both at once, in a state of its type: what a bank at rest left in the   *)
(* store passed a check there, or the red that stands took it back with    *)
(* its line (justfile:376-440, unbank_source.py:3-9).                      *)
(***************************************************************************)
GateSettles == TypeOK /\ GreenMeansGated /\ RedTakesBoth

(***************************************************************************)
(* While a red stands nothing is folded, stamped, moved aside or published *)
(* and no row is added (bank_trigger.py:19-20), the run that raised it     *)
(* included.                                                               *)
(***************************************************************************)
NothingBanksUnderRed ==
  [][red # "none" /\ red' # "none"
       => UNCHANGED <<stamp, fleet, folded, banked>> /\ rows' \subseteq rows]_vars
-----------------------------------------------------------------------------
(* Liveness. *)

(***************************************************************************)
(* Once reds stop, every journal outside the bank's own globs is folded,   *)
(* whenever it landed and wherever banks were killed (bank_trigger.py:3).  *)
(***************************************************************************)
LandedIsFolded ==
  <>[](red = "none") => \A j \in Journal \ Cdx : (j \in landed) ~> (j \in folded)

(***************************************************************************)
(* "An approval whose journal is absent or whose refetch was refused stays *)
(* a reason for the trigger until a bank ingests it" (justfile:387-389):   *)
(* it does while no bank is red and none is killed.                        *)
(***************************************************************************)
ApprovedIsIngestedWhileGreen ==
  [](red = "none" /\ kills = 0) => \A l \in Lead : (live[l] = "master") ~> (l \in rows)

(***************************************************************************)
(* Both: nothing that landed and nothing that was approved waits for ever  *)
(* (bank_trigger.py:3, justfile:387-389).                                  *)
(***************************************************************************)
BankSettles == LandedIsFolded /\ ApprovedIsIngestedWhileGreen
=============================================================================
