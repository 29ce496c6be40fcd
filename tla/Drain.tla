-------------------------------- MODULE Drain --------------------------------
(***************************************************************************)
(* What the hourly sync does with the findings of the fleet's runs: it     *)
(* downloads the artifact of every run it has not marked as processed,     *)
(* flattens them to one directory per lead (fleet_findings.py `drain`),    *)
(* replaces what the schema refuses (`validate`), books a row per lead     *)
(* into the two register pages (bank_findings.py, the scribe), commits     *)
(* them and moves the drain aside.                                         *)
(*                                                                         *)
(* A run uploads before it ends, so it may be drained more than once; a    *)
(* workflow may not be listed and a download may fail at any tick; and a   *)
(* tick may be killed between any two commands, after which its register   *)
(* edits wait for a human, since the preflight refuses a dirty clone.      *)
(***************************************************************************)
EXTENDS Naturals, FiniteSets, FiniteSetsExt

CONSTANTS Runs,        \* numbers of fleet runs, in the order GitHub gave them
          Copy,       \* what the artifact of each run says of its lead, see Copies
          Workflow,   \* which workflow a run belongs to, leg.yaml or read.yaml
          Broken,     \* runs whose sidecar the fleet's schema refuses
          Artifact,   \* the artifact URL a lead names
          MaxDrainKills    \* bound on ticks killed part way

DrainSlug   == {Copy[r].slug : r \in Runs}
\* A lead directory with a sidecar, or a lead the fleet closed at filing (`scout.md`).
Copies == [slug : DrainSlug, verdict : {"FIND", "CLOSED"}, confirmed : BOOLEAN, sidecar : BOOLEAN]
None   == 0

ASSUME RunAssumption ==
  /\ Runs \subseteq Nat \ {None} /\ IsFiniteSet(Runs) /\ Broken \subseteq Runs /\ MaxDrainKills \in Nat
  /\ Copy \in [Runs -> Copies]

VARIABLES
  github,      \* "running", "uploaded" or "completed", on GitHub
  processed,   \* data/fleet_findings/processed_runs.txt
  fetched,     \* incoming/run_<id> directories
  inbox,       \* the run whose copy is the lead directory incoming/<slug>
  checked,     \* leads whose copy was replaced by a BLOCKED fallback
  page, head,  \* the two register pages, in the clone and as committed
  drainStep, todo,    \* the tick and what is left of its listing: runs with the status listed
  fresh,       \* the scribe said it wrote new rows
  committed,   \* this tick committed the registers
  missed,      \* history: runs marked as processed at a tick whose download failed
  drained,     \* history: runs whose copy a drain moved aside
  drainKills

disk  == <<fetched, inbox, checked>>
tick  == <<todo, fresh, committed>>
past  == <<missed, drained>>
drainVars  == <<github, processed, disk, page, head, drainStep, tick, past, drainKills>>

NoRow == [on |-> "neither", by |-> None]
Row  == [on : {"sources", "closed"}, by : Runs] \cup {NoRow}
DrainSteps == {"idle", "leg", "read", "get", "mark", "drain", "move", "choose", "scribe",
          "commit", "archive"}

DrainTypeOK ==
  /\ github \in [Runs -> {"running", "uploaded", "completed"}]
  /\ processed \subseteq Runs /\ fetched \subseteq Runs /\ missed \subseteq Runs
  /\ inbox \in [DrainSlug -> Runs \cup {None}] /\ checked \subseteq DrainSlug
  /\ page \in [DrainSlug -> Row] /\ head \in [DrainSlug -> Row]
  /\ drainStep \in DrainSteps /\ todo \subseteq Runs \X BOOLEAN /\ fresh \in BOOLEAN /\ committed \in BOOLEAN
  /\ drained \subseteq Runs /\ drainKills \in 0..MaxDrainKills

DrainInit ==
  /\ github = [r \in Runs |-> "running"]
  /\ processed = {} /\ fetched = {}
  /\ inbox = [s \in DrainSlug |-> None] /\ checked = {}
  /\ page = [s \in DrainSlug |-> NoRow] /\ head = page
  /\ drainStep = "idle" /\ todo = {} /\ fresh = FALSE /\ committed = FALSE
  /\ missed = {} /\ drained = {} /\ drainKills = 0
-----------------------------------------------------------------------------
(* What a lead directory says. *)

Present  == {s \in DrainSlug : inbox[s] # None}
\* The fallback a refused sidecar is replaced by has no verify and no figure.
Blocked(s)   == s \in checked
RowVerdict(s)   == IF Blocked(s) THEN "BLOCKED" ELSE Copy[inbox[s]].verdict
Confirmed(s) == ~Blocked(s) /\ Copy[inbox[s]].sidecar /\ Copy[inbox[s]].confirmed

\* `freshness`: a second opinion first, then the run that wrote it; a scout's copy has neither.
Freshness(r, blocked) ==
  IF ~Copy[r].sidecar THEN <<0, 0>>
  ELSE <<IF Copy[r].confirmed /\ ~blocked THEN 1 ELSE 0, r>>
Below(a, b) == a[1] < b[1] \/ (a[1] = b[1] /\ a[2] <= b[2])

\* `bank_trigger.py check --find`: a confirmed FIND in the drain goes to the bank.
HasFind == \E s \in Present : RowVerdict(s) = "FIND" /\ Confirmed(s)

\* A closed row names its artifact, and a second lead on it is booked under the first.
Named(p, s) == \E t \in DrainSlug : p[t].on = "closed" /\ Artifact[t] = Artifact[s]

\* `fate` of the lead's row on the pages as they stand.  Rows of two runs differ in figure or
\* in verify status, which are the two cells compared.
Fate(p, s) ==
  IF p[s].on = "closed" THEN "booked"
  ELSE IF p[s] = NoRow
       THEN IF RowVerdict(s) # "FIND" /\ Named(p, s) THEN "booked" ELSE "new"
  ELSE IF RowVerdict(s) = "FIND" /\ p[s].by # inbox[s] THEN "replace" ELSE "booked"

NewRow(s) == [on |-> IF RowVerdict(s) = "FIND" THEN "sources" ELSE "closed", by |-> inbox[s]]

\* The scribe's loop, in one fixed order of the leads: of several negatives on one artifact the
\* first gets the closed row, and keeps the others.
Negatives(p, a) == {t \in Present : RowVerdict(t) # "FIND" /\ Fate(p, t) = "new" /\ Artifact[t] = a}
Writes(p, s) == /\ s \in Present /\ Fate(p, s) # "booked"
                /\ RowVerdict(s) = "FIND" \/ s = CHOOSE t \in Negatives(p, Artifact[s]) : TRUE
Book(p) == [s \in DrainSlug |-> IF Writes(p, s) THEN NewRow(s) ELSE p[s]]
\* What the sync's recipe reads off the scribe's last line.
NewRows(p) == \E s \in Present : p[s] = NoRow /\ Book(p)[s] # NoRow
-----------------------------------------------------------------------------
(* The fleet. *)

Upload(r) ==
  /\ github[r] = "running"
  /\ github' = [github EXCEPT ![r] = "uploaded"]
  /\ UNCHANGED <<processed, disk, page, head, drainStep, tick, past, drainKills>>

Complete(r) ==
  /\ github[r] = "uploaded"
  /\ github' = [github EXCEPT ![r] = "completed"]
  /\ UNCHANGED <<processed, disk, page, head, drainStep, tick, past, drainKills>>
-----------------------------------------------------------------------------
(* The tick. *)

\* The preflight refuses a clone whose registers are dirty.
BeginDrain ==
  /\ drainStep = "idle" /\ page = head
  /\ drainStep' = "leg"
  /\ UNCHANGED <<github, processed, disk, page, head, tick, past, drainKills>>

\* `gh run list` of one workflow.  A list that fails skips the workflow, not the tick.
After(wf) == IF wf = "leg" THEN "read" ELSE "drain"
List(wf, ok) ==
  /\ drainStep = wf /\ todo = {}
  /\ LET runs == {r \in Runs : Workflow[r] = wf} \ processed IN
     IF ok /\ runs # {}
     THEN /\ todo' = {<<r, github[r] = "completed">> : r \in runs}
          /\ drainStep' = "get"
     ELSE drainStep' = After(wf) /\ UNCHANGED todo
  /\ UNCHANGED <<github, processed, disk, page, head, fresh, committed, past, drainKills>>

Current == CHOOSE t \in todo : \A u \in todo : u[1] <= t[1]    \* newest first, as gh lists

\* `gh run download ... || true`: nothing to download yet, or nothing came.
Download(ok) ==
  /\ drainStep = "get"
  /\ LET r == Current[1] IN
     /\ fetched' = IF ok /\ github[r] # "running" THEN fetched \cup {r} ELSE fetched
     /\ missed' = IF Current[2] /\ ~ok /\ r \notin fetched THEN missed \cup {r} ELSE missed
  /\ drainStep' = "mark"
  /\ UNCHANGED <<github, processed, inbox, checked, page, head, tick, drained, drainKills>>

MutMark ==
  /\ drainStep = "mark"
  /\ processed' = processed \cup {Current[1]}
  /\ todo' = todo \ {Current}
  /\ drainStep' = IF todo = {Current} THEN After(Workflow[Current[1]]) ELSE "get"
  /\ UNCHANGED <<github, disk, page, head, fresh, committed, past, drainKills>>

\* A run is marked once it was listed as completed, whatever the download did.
Mark ==
  /\ drainStep = "mark"
  /\ processed' = IF Current[2] THEN processed \cup {Current[1]} ELSE processed
  /\ todo' = todo \ {Current}
  /\ drainStep' = IF todo = {Current} THEN After(Workflow[Current[1]]) ELSE "get"
  /\ UNCHANGED <<github, disk, page, head, fresh, committed, past, drainKills>>

\* `drain` over one run directory: its lead takes the slug's place unless the copy there is
\* at least as settled.  A copy replaced is removed before the new one moves in.
DrainRun ==
  /\ drainStep = "drain" /\ fetched # {}
  /\ LET r == Min(fetched)
         s == Copy[r].slug IN
     IF inbox[s] = None
     THEN inbox' = [inbox EXCEPT ![s] = r] /\ fetched' = fetched \ {r} /\ UNCHANGED <<checked, drainStep>>
     ELSE IF Below(Freshness(r, FALSE), Freshness(inbox[s], Blocked(s)))
     THEN fetched' = fetched \ {r} /\ UNCHANGED <<inbox, checked, drainStep>>
     ELSE /\ inbox' = [inbox EXCEPT ![s] = None]
          /\ checked' = checked \ {s} /\ drainStep' = "move" /\ UNCHANGED fetched
  /\ UNCHANGED <<github, processed, page, head, tick, past, drainKills>>

MoveLead ==
  /\ drainStep = "move"
  /\ inbox' = [inbox EXCEPT ![Copy[Min(fetched)].slug] = Min(fetched)]
  /\ fetched' = fetched \ {Min(fetched)}
  /\ drainStep' = "drain"
  /\ UNCHANGED <<github, processed, checked, page, head, tick, past, drainKills>>

\* Every sidecar against the fleet's schema; one that fails becomes a BLOCKED fallback.
Validate ==
  /\ drainStep = "drain" /\ fetched = {}
  /\ checked' = checked \cup {s \in Present : Copy[inbox[s]].sidecar /\ inbox[s] \in Broken}
  /\ drainStep' = "choose"
  /\ UNCHANGED <<github, processed, fetched, inbox, page, head, tick, past, drainKills>>

\* Nothing came, or a drain to book.  A confirmed FIND leaves the whole drain to the bank,
\* which books it as the tick does after its prices and its gate, or does not run at all.
Choose(bank) ==
  /\ drainStep = "choose"
  /\ drainStep' = IF Present = {} \/ (HasFind /\ ~bank) THEN "idle" ELSE "scribe"
  /\ UNCHANGED <<github, processed, disk, page, head, tick, past, drainKills>>

Scribe ==
  /\ drainStep = "scribe"
  /\ page' = Book(page)
  /\ fresh' = NewRows(page)
  /\ drainStep' = "commit"
  /\ UNCHANGED <<github, processed, disk, head, todo, committed, past, drainKills>>

MutRedBank ==
  /\ drainStep = "commit" /\ HasFind
  /\ page' = head
  /\ inbox' = [s \in DrainSlug |-> None] /\ checked' = {}
  /\ fresh' = FALSE /\ drainStep' = "idle"
  /\ UNCHANGED <<github, processed, fetched, head, todo, committed, past, drainKills>>

\* A bank that turns red puts the registers back to HEAD and ends.
RedBank ==
  /\ drainStep = "commit" /\ HasFind
  /\ page' = head
  /\ fresh' = FALSE /\ drainStep' = "idle"
  /\ UNCHANGED <<github, processed, disk, head, todo, committed, past, drainKills>>

CommitRows ==
  /\ drainStep = "commit"
  /\ committed' = (page # head)
  /\ head' = page
  /\ drainStep' = "archive"
  /\ UNCHANGED <<github, processed, disk, page, todo, fresh, past, drainKills>>

\* A hook or the push refuses, and `set -e` ends the tick: the edits stay, staged or committed.
CommitFails(pushed) ==
  /\ drainStep = "commit"
  /\ head' = IF pushed THEN page ELSE head
  /\ fresh' = FALSE /\ drainStep' = "idle"
  /\ UNCHANGED <<github, processed, disk, page, todo, committed, past, drainKills>>

\* A drain leaves incoming/ only once its rows are committed, or when none was new.
Archive ==
  /\ drainStep = "archive"
  /\ IF committed \/ ~fresh
     THEN /\ inbox' = [s \in DrainSlug |-> None] /\ checked' = {}
          /\ drained' = drained \cup {inbox[s] : s \in Present}
     ELSE UNCHANGED <<inbox, checked, drained>>
  /\ fresh' = FALSE /\ committed' = FALSE /\ drainStep' = "idle"
  /\ UNCHANGED <<github, processed, fetched, page, head, todo, missed, drainKills>>

KillDrain ==
  /\ drainStep # "idle" /\ drainKills < MaxDrainKills
  /\ drainStep' = "idle" /\ todo' = {} /\ fresh' = FALSE /\ committed' = FALSE
  /\ drainKills' = drainKills + 1
  /\ UNCHANGED <<github, processed, disk, page, head, past>>

\* A human commits what a dead tick left in the registers, or drops it.
Clean(keep) ==
  /\ drainStep = "idle" /\ page # head
  /\ IF keep THEN head' = page /\ UNCHANGED page ELSE page' = head /\ UNCHANGED head
  /\ UNCHANGED <<github, processed, disk, drainStep, tick, past, drainKills>>

DrainTick ==
  \/ BeginDrain
  \/ \E wf \in {"leg", "read"}, ok \in BOOLEAN : List(wf, ok)
  \/ \E ok \in BOOLEAN : Download(ok)
  \/ Mark \/ DrainRun \/ MoveLead \/ Validate
  \/ \E bank \in BOOLEAN : Choose(bank)
  \/ Scribe \/ RedBank \/ CommitRows
  \/ \E pushed \in BOOLEAN : CommitFails(pushed)
  \/ Archive

DrainNext ==
  \/ \E r \in Runs : Upload(r) \/ Complete(r)
  \/ DrainTick \/ KillDrain
  \/ \E keep \in BOOLEAN : Clean(keep)

DrainSpec == DrainInit /\ [][DrainNext]_drainVars

(***************************************************************************)
(* Runs end, a started tick runs on and the next one starts, a human       *)
(* cleans up; a workflow that is listed again and again, a bank that runs  *)
(* again and again and a commit that is tried again and again succeed.     *)
(***************************************************************************)
DrainFair ==
  /\ WF_drainVars(DrainTick)
  /\ \A r \in Runs : WF_drainVars(Upload(r)) /\ WF_drainVars(Complete(r))
  /\ WF_drainVars(\E keep \in BOOLEAN : Clean(keep))
  /\ SF_drainVars(List("leg", TRUE)) /\ SF_drainVars(List("read", TRUE))
  /\ SF_drainVars(Choose(TRUE)) /\ SF_drainVars(CommitRows)

DrainFairSpec == DrainSpec /\ DrainFair
-----------------------------------------------------------------------------
(* Properties. *)

\* The register has a committed row for the lead of this run, its own or its artifact's.
Booked(r) == head[Copy[r].slug] # NoRow \/ Named(head, Copy[r].slug)

\* However ticks are killed, in a state of its type, a lead whose run will not be downloaded again
\* is in a directory a later tick reads, in the copy of some run, until the register holds it; but
\* for a run whose download failed at the tick that marked it.
ProcessedIsHeld ==
  /\ DrainTypeOK
  /\ \A r \in processed \ missed :
       LET s == Copy[r].slug IN
       Booked(r) \/ inbox[s] # None \/ \E q \in fetched : Copy[q].slug = s

\* Every run's finding is booked in the end, but for one whose download failed.  A committed row
\* is never taken away, so the runs need not be booked apart.
CompletedIsBooked == <>(\A r \in Runs : Booked(r) \/ r \in missed)

\* A re-drained run writes nothing, as the sync recipe says: a row never goes back to a copy
\* a drain already booked and moved aside.
RedrainWritesNothing ==
  [][drainStep = "scribe" => \A s \in DrainSlug : page'[s] # page[s] => page'[s].by \notin drained]_drainVars
=============================================================================
