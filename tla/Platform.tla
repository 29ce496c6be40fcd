------------------------------ MODULE Platform ------------------------------
(***************************************************************************)
(* cdx_platform_walk.py on one platform of its lane: the index is asked    *)
(* page after page from a saved resume key, each page's new host-years go  *)
(* to a journal that is a .part until it is closed, and the platform ends  *)
(* done or refused.                                                        *)
(*                                                                         *)
(* The index has Pages pages, page p holding the host-years {p, p + 1}: a  *)
(* host's captures run over a page's end.  The key is the last page of     *)
(* which the walk was told there is more.  An answer may be cut short: its *)
(* rows end early and it carries no key.                                   *)
(***************************************************************************)
EXTENDS Naturals, FiniteSets

CONSTANTS Pages,         \* pages of the platform's index
          MaxThrottled, MaxFails, MaxFailedRuns, Rotate,
          MaxKills, MaxFaults    \* bounds on the world: kills, and answers that are not whole

ASSUME PlatformAssumption ==
  /\ {Pages, MaxThrottled, MaxFails, MaxFailedRuns, Rotate} \subseteq Nat \ {0}
  /\ {MaxKills, MaxFaults} \subseteq Nat

VARIABLES
  disk,     \* the state file: key and failed runs
  parts,    \* host-years in .part journals
  journals, \* host-years in closed journals
  fate,     \* "open", "done" or "refused"
  paused,   \* pause-platform is there
  walk,     \* the process: where it is and what it holds
  firstCut, \* history: the answer to this walk's first page of all was cut short
  faults, deaths

platformVars == <<disk, parts, journals, fate, paused, walk, firstCut, faults, deaths>>

NoWalk  == [at |-> "off", key |-> 0, failedRuns |-> 0, throttled |-> 0, fails |-> 0,
            endedOnce |-> FALSE, seen |-> {}, since |-> 0, next |-> 0, more |-> FALSE]
OnPage(p) == {p, p + 1}
Index     == UNION {OnPage(p) : p \in 1..Pages}

PlatformInit ==
  /\ disk = [key |-> 0, failedRuns |-> 0] /\ parts = {} /\ journals = {} /\ fate = "open"
  /\ paused = FALSE /\ walk = NoWalk /\ firstCut = FALSE /\ faults = 0 /\ deaths = 0
-----------------------------------------------------------------------------
\* A lane takes up a platform neither done nor refused; what a killed walk left is promoted.
BeginWalk ==
  /\ walk.at = "off" /\ fate = "open"
  /\ walk' = [NoWalk EXCEPT !.at = "ask", !.key = disk.key, !.failedRuns = disk.failedRuns]
  /\ journals' = journals \cup parts /\ parts' = {} /\ firstCut' = FALSE
  /\ UNCHANGED <<disk, fate, paused, faults, deaths>>

\* Before every page; the pause closes the journal.
Hold ==
  /\ walk.at = "ask" /\ paused
  /\ journals' = journals \cup parts /\ parts' = {}
  /\ walk' = [walk EXCEPT !.since = 0]
  /\ UNCHANGED <<disk, fate, paused, firstCut, faults, deaths>>

Asking == walk.at = "ask" /\ ~paused
Fault  == faults < MaxFaults /\ faults' = faults + 1

\* close, on every way out of a run.
Leave(w) == walk' = w /\ journals' = journals \cup parts /\ parts' = {}

\* write: the rows not seen by this walk, flushed.
Answered(rows, more) ==
  /\ parts' = parts \cup (rows \ walk.seen)
  /\ walk' = [walk EXCEPT !.at = "save", !.throttled = 0, !.fails = 0, !.failedRuns = 0,
                          !.seen = @ \cup rows, !.next = IF more THEN walk.key + 1 ELSE 0,
                          !.more = more]
  /\ UNCHANGED disk

Page ==
  /\ Asking
  /\ Answered(OnPage(walk.key + 1), walk.key + 1 < Pages)
  /\ UNCHANGED <<journals, fate, paused, firstCut, faults, deaths>>

\* An answer that ends early says nothing of more.  Two to one page are not both cut.
ShortPage ==
  /\ Asking /\ Fault /\ ~walk.endedOnce
  /\ firstCut' = (walk.key = 0)
  /\ Answered({walk.key + 1}, FALSE)
  /\ UNCHANGED <<journals, fate, paused, deaths>>

\* Mutant: one answer without a key is the end.
MutUnended == FALSE

\* A resumed page without a key is asked for once more.
Unended == ~walk.more /\ walk.key > 0 /\ ~walk.endedOnce

AskAgain ==
  /\ walk.at = "save" /\ Unended
  /\ walk' = [walk EXCEPT !.at = "ask", !.endedOnce = TRUE]
  /\ UNCHANGED <<disk, parts, journals, fate, paused, firstCut, faults, deaths>>

\* The key is saved; a journal of Rotate pages is closed, and the walk's end is its last.
Save ==
  /\ walk.at = "save" /\ ~Unended
  /\ disk' = [key |-> walk.next, failedRuns |-> walk.failedRuns]
  /\ IF walk.more
     THEN /\ walk' = [walk EXCEPT !.at = "ask", !.key = walk.next, !.endedOnce = FALSE,
                                  !.since = IF @ + 1 >= Rotate THEN 0 ELSE @ + 1]
          /\ IF walk.since + 1 >= Rotate THEN journals' = journals \cup parts /\ parts' = {}
             ELSE UNCHANGED <<journals, parts>>
     ELSE walk' = [walk EXCEPT !.at = "end"] /\ UNCHANGED <<journals, parts>>
  /\ UNCHANGED <<fate, paused, firstCut, faults, deaths>>

FinishWalk ==
  /\ walk.at = "end"
  /\ Leave(NoWalk) /\ fate' = "done"
  /\ UNCHANGED <<disk, paused, firstCut, faults, deaths>>
-----------------------------------------------------------------------------
\* 429, 503 or a refused connection: five in a row stop the process.
ThrottlePage ==
  /\ Asking /\ Fault
  /\ IF walk.throttled + 1 >= MaxThrottled THEN Leave(NoWalk)
     ELSE walk' = [walk EXCEPT !.throttled = @ + 1] /\ UNCHANGED <<parts, journals>>
  /\ UNCHANGED <<disk, fate, paused, firstCut, deaths>>

\* 400, 403 or 404 parks the platform.
RefusePage ==
  /\ Asking /\ Fault
  /\ walk' = [walk EXCEPT !.at = "refuse"]
  /\ UNCHANGED <<disk, parts, journals, fate, paused, firstCut, deaths>>

\* Any other failure: so many end the run, which is counted in the state file, and so many such
\* runs park the platform.
Fail ==
  /\ Asking /\ Fault
  /\ IF walk.fails + 1 < MaxFails
     THEN walk' = [walk EXCEPT !.fails = @ + 1] /\ UNCHANGED disk
     ELSE /\ disk' = [key |-> walk.key, failedRuns |-> walk.failedRuns + 1]
          /\ walk' = [walk EXCEPT !.at = IF walk.failedRuns + 1 >= MaxFailedRuns
                                         THEN "refuse" ELSE "close"]
  /\ UNCHANGED <<parts, journals, fate, paused, firstCut, deaths>>

\* The .refused file, a write of its own.
WriteRefused ==
  /\ walk.at = "refuse"
  /\ fate' = "refused" /\ walk' = [walk EXCEPT !.at = "close"]
  /\ UNCHANGED <<disk, parts, journals, paused, firstCut, faults, deaths>>

CloseJournal ==
  /\ walk.at = "close"
  /\ Leave(NoWalk)
  /\ UNCHANGED <<disk, fate, paused, firstCut, faults, deaths>>

PauseWalk ==
  /\ paused' = ~paused /\ walk.at = "ask"
  /\ UNCHANGED <<disk, parts, journals, fate, walk, firstCut, faults, deaths>>

\* The machine or a SIGKILL: nothing is closed.
Die ==
  /\ deaths < MaxKills /\ walk.at # "off"
  /\ deaths' = deaths + 1 /\ walk' = NoWalk
  /\ UNCHANGED <<disk, parts, journals, fate, paused, firstCut, faults>>

\* The deadline, SIGTERM or SIGHUP.
Stop ==
  /\ deaths < MaxKills /\ walk.at # "off"
  /\ deaths' = deaths + 1 /\ Leave(NoWalk)
  /\ UNCHANGED <<disk, fate, paused, firstCut, faults>>

Working == BeginWalk \/ Hold \/ Page \/ AskAgain \/ Save \/ FinishWalk \/ WriteRefused \/ CloseJournal
PlatformNext == Working \/ ShortPage \/ ThrottlePage \/ RefusePage \/ Fail \/ PauseWalk \/ Die \/ Stop
PlatformSpec == PlatformInit /\ [][PlatformNext]_platformVars
-----------------------------------------------------------------------------
PlatformTypeOK ==
  /\ disk \in [key : 0..Pages, failedRuns : Nat]
  /\ parts \subseteq Index /\ journals \subseteq Index /\ fate \in {"open", "done", "refused"}
  /\ walk.at \in {"off", "ask", "save", "end", "refuse", "close"} /\ walk.key \in 0..Pages /\ firstCut \in BOOLEAN

(***************************************************************************)
(* Every host-year before the saved key is in a journal on disk, whatever  *)
(* killed the walk and however often (cdx_platform_walk.py:270-295).       *)
(***************************************************************************)
NothingIsSkipped == UNION {OnPage(p) : p \in 1..disk.key} \subseteq journals \cup parts

(***************************************************************************)
(* A platform that is done holds its whole index, though an answer to a    *)
(* resumed page was cut short (cdx_platform_walk.py:276-281).  It may not  *)
(* when the answer to its first page was: that one is not asked again,     *)
(* although the walk is said to end only when the index says twice that    *)
(* there is no more (:4-7).                                                *)
(***************************************************************************)
DoneIsWhole == fate = "done" /\ ~firstCut => journals = Index

(***************************************************************************)
(* Up to its saved key a walk has every host-year in a file, whatever      *)
(* killed it, and a finished platform is whole (cdx_platform_walk.py).     *)
(***************************************************************************)
PagesAreKept == PlatformTypeOK /\ NothingIsSkipped /\ DoneIsWhole
=============================================================================
