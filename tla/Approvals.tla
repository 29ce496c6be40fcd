------------------------------ MODULE Approvals ------------------------------
(***************************************************************************)
(* From a confirmed find to the owner's decision: the register's blocks    *)
(* (fleet_request.py, request_approval.py), the standing rule, and the one *)
(* issue and one pull request each pending source gets                     *)
(* (sync_approvals.py).                                                    *)
(*                                                                         *)
(* The register is one file in four places: the checkout, its HEAD, the    *)
(* clone's idea of origin/live, and live itself, which a merge from a      *)
(* phone moves.  GitHub may refuse a call, or do it and not say so.  One   *)
(* run of sync_approvals.py goes at a time.                                *)
(***************************************************************************)
EXTENDS Naturals, FiniteSets, FiniteSetsExt

CONSTANTS Keys,      \* the (source, evidence type) heads of the blocks
          SourceOf,  \* key -> its source
          Price,     \* key -> its `potential` line
          Bar,       \* the 1996 to 2001 gate, in the same unit
          Admitted,  \* the keys the fleet's standing clauses admit
          MaxFails, MaxKills, MaxClicks

Sources == {SourceOf[k] : k \in Keys}
Classes(s) == {k \in Keys : SourceOf[k] = s}

ASSUME ApprovalsAssumption ==
  /\ IsFiniteSet(Keys) /\ Price \in [Keys -> Nat] /\ Bar \in Nat /\ Admitted \subseteq Keys
  /\ {MaxFails, MaxKills, MaxClicks} \subseteq Nat

VARIABLES
  here, head, track, live,  \* the register: checkout, HEAD, origin/live here, live
  moved, ahead,             \* live has commits this clone lacks, and the reverse
  astep,                    \* the running step
  queued, listing,             \* requests left; the issues and pull requests as listed
  ask,                      \* the request being raised
  trees,                    \* sources with a local approve/ branch
  pushed,                   \* source -> the blocks its remote branch rewrites
  pulls,                    \* source -> its pull request: none, open, merged, closed
  issues,                   \* source -> its open issues
  fails, kills, clicks

register == <<here, head, track, live, moved, ahead>>
run      == <<astep, queued, listing, ask>>
github   == <<pushed, pulls, issues>>
bounds   == <<fails, kills, clicks>>
approvalVars == <<register, run, trees, github, bounds>>

NoListing == [issues |-> {}, pulls |-> {}, decided |-> {}]
Blank     == [k \in Keys |-> "none"]
NoAsk     == {}
Nowhere   == [k \in Keys |-> "same"]

ApprovalsInit ==
  /\ here = Blank /\ head = Blank /\ track = Blank /\ live = Blank /\ moved = FALSE /\ ahead = FALSE
  /\ astep = "idle" /\ queued = {} /\ listing = NoListing /\ ask = NoAsk
  /\ trees = {} /\ pushed = [s \in Sources |-> Nowhere]
  /\ pulls = [s \in Sources |-> "none"] /\ issues = [s \in Sources |-> 0]
  /\ fails = 0 /\ kills = 0 /\ clicks = 0

PendingIn(text) == {k \in Keys : text[k] = "pending"}
Rest == astep' = "idle" /\ queued' = {} /\ listing' = NoListing /\ ask' = NoAsk
Then(step) == astep' = step /\ UNCHANGED <<queued, listing, ask>>
-----------------------------------------------------------------------------
(* The bank, as far as the register goes. *)

\* The preflight refuses a dirty or diverged clone, then takes what live has.
Preflight ==
  /\ astep = "idle" /\ here = head /\ ~(moved /\ ahead)
  /\ IF moved THEN here' = live /\ head' = live /\ track' = live /\ moved' = FALSE
     ELSE UNCHANGED <<here, head, track, moved>>
  /\ Then("request")
  /\ UNCHANGED <<live, ahead, trees, github, bounds>>

\* A confirmed find without a block gets one, short or with its sample; his held sets
\* missing, it gets none.
Request ==
  /\ astep = "request"
  /\ \E found \in SUBSET {k \in Keys : here[k] = "none"} :
       here' = [k \in Keys |-> IF k \in found THEN "pending" ELSE here[k]]
  /\ Then("rule")
  /\ UNCHANGED <<head, track, live, moved, ahead, trees, github, bounds>>

\* The standing rule writes the decision of what the fleet admitted; a class nobody
\* approved yet parks.
Rule ==
  /\ astep = "rule"
  /\ \E decided \in SUBSET (PendingIn(here) \cap Admitted) :
       here' = [k \in Keys |-> IF k \in decided THEN "master" ELSE here[k]]
  /\ Then("gate")
  /\ UNCHANGED <<head, track, live, moved, ahead, trees, github, bounds>>

\* A red takes every line back and ends the bank; a green one commits.
Red ==
  /\ astep = "gate"
  /\ here' = head
  /\ Rest
  /\ UNCHANGED <<head, track, live, moved, ahead, trees, github, bounds>>

Commit ==
  /\ astep = "gate"
  /\ head' = here /\ ahead' = (ahead \/ here # head)
  /\ Then("push")
  /\ UNCHANGED <<here, track, live, moved, trees, github, bounds>>

\* A push that live outran is refused, and the bank ends there.
Push ==
  /\ astep = "push"
  /\ IF ahead /\ moved THEN Rest /\ UNCHANGED <<track, live, ahead>>
     ELSE /\ Then("list") /\ ahead' = FALSE
          /\ IF ahead THEN live' = head /\ track' = head ELSE UNCHANGED <<track, live>>
  /\ UNCHANGED <<here, head, moved, trees, github, bounds>>

\* `just approve` writes a block in the checkout; a person commits it, or takes it out,
\* and reconciles a clone that diverged.
ApproveByHand(k) ==
  /\ astep = "idle" /\ clicks < MaxClicks /\ here[k] = "none"
  /\ clicks' = clicks + 1
  /\ here' = [here EXCEPT ![k] = "pending"]
  /\ UNCHANGED <<head, track, live, moved, ahead, run, trees, github, fails, kills>>

CleanByHand ==
  /\ astep = "idle" /\ here # head
  /\ \/ here' = head /\ UNCHANGED <<head, ahead>>
     \/ head' = here /\ ahead' = TRUE /\ UNCHANGED here
  /\ UNCHANGED <<track, live, moved, run, trees, github, bounds>>

Strongest(a, b) == IF "master" \in {a, b} THEN "master" ELSE IF a = "none" THEN b ELSE a

ReconcileByHand ==
  /\ astep = "idle" /\ here = head /\ moved /\ ahead
  /\ LET both == [k \in Keys |-> Strongest(head[k], live[k])]
     IN  here' = both /\ head' = both /\ live' = both /\ track' = both
  /\ moved' = FALSE /\ ahead' = FALSE
  /\ UNCHANGED <<run, trees, github, bounds>>

\* sync_approvals.py by hand, in whatever state the checkout is.
RunByHand ==
  /\ astep = "idle" /\ clicks < MaxClicks
  /\ clicks' = clicks + 1
  /\ Then("list")
  /\ UNCHANGED <<register, trees, github, fails, kills>>
-----------------------------------------------------------------------------
(* sync_approvals.py *)

Wanted == LET asked == {k \in PendingIn(here) : Price[k] > 0}
          IN  IF MapThenSumSet(LAMBDA k : Price[k], asked) < Bar THEN {} ELSE asked

\* The asks, if they reach the gate; the open pull requests, issues and decisions.
List ==
  /\ astep = "list"
  /\ queued' = Wanted
  /\ listing' = [issues  |-> {s \in Sources : issues[s] > 0},
                pulls   |-> {s \in Sources : pulls[s] = "open"},
                decided |-> {SourceOf[k] : k \in {x \in Keys : here[x] \notin {"none", "pending"}}}]
  /\ astep' = "ask" /\ ask' = NoAsk
  /\ UNCHANGED <<register, trees, github, bounds>>

Takes(k, step) == astep' = step /\ ask' = {k} /\ queued' = queued \ {k} /\ listing' = listing
Skips(k)       == astep' = "ask" /\ ask' = NoAsk /\ queued' = queued \ {k} /\ listing' = listing

\* One issue is open for the source already.
SkipAsked(k) ==
  /\ astep = "ask" /\ k \in queued /\ SourceOf[k] \in listing.issues
  /\ Skips(k)
  /\ UNCHANGED <<register, trees, github, bounds>>

\* Mutant: a source with an open issue is asked about again.
MutFindPull(k) ==
  /\ astep = "ask" /\ k \in queued
  /\ SourceOf[k] \in listing.pulls
  /\ Takes(k, "issue")
  /\ UNCHANGED <<register, trees, github, bounds>>

\* Its pull request is open, and only the issue is missing.
FindPull(k) ==
  /\ astep = "ask" /\ k \in queued /\ SourceOf[k] \notin listing.issues
  /\ SourceOf[k] \in listing.pulls
  /\ Takes(k, "issue")
  /\ UNCHANGED <<register, trees, github, bounds>>

Raises(k) ==
  /\ astep = "ask" /\ k \in queued
  /\ SourceOf[k] \notin listing.issues \cup listing.pulls

\* Its block is not on live yet: a later run files it.
NotOnLive(k) ==
  /\ Raises(k) /\ track[k] # "pending"
  /\ Skips(k)
  /\ UNCHANGED <<register, trees, github, bounds>>

\* A worktree on a new branch; `git worktree add -b` fails on one that exists, and the
\* run with it.
Branch(k) ==
  /\ Raises(k) /\ track[k] = "pending"
  /\ IF SourceOf[k] \in trees THEN Rest /\ trees' = trees
     ELSE Takes(k, "branch") /\ trees' = trees \cup {SourceOf[k]}
  /\ UNCHANGED <<register, github, bounds>>

\* Live's copy with this one line flipped.
Flip(k) == [x \in Keys |-> IF x = k THEN "master" ELSE "same"]

\* A call GitHub answers, or one it does not: then the run dies, whether it was done or not.
Answered(step) == Then(step) /\ fails' = fails
Unanswered     == fails < MaxFails /\ fails' = fails + 1 /\ Rest

PushBranch(k) ==
  /\ astep = "branch" /\ k \in ask
  /\ \/ pushed' = [pushed EXCEPT ![SourceOf[k]] = Flip(k)] /\ Answered("pull")
     \/ pushed' \in {pushed, [pushed EXCEPT ![SourceOf[k]] = Flip(k)]} /\ Unanswered
  /\ UNCHANGED <<register, trees, pulls, issues, kills, clicks>>

CreatePull(k) ==
  /\ astep = "pull" /\ k \in ask
  /\ \/ pulls' = [pulls EXCEPT ![SourceOf[k]] = "open"] /\ Answered("issue")
     \/ pulls' \in {pulls, [pulls EXCEPT ![SourceOf[k]] = "open"]} /\ Unanswered
  /\ UNCHANGED <<register, trees, pushed, issues, kills, clicks>>

CreateIssue(k) ==
  /\ astep = "issue" /\ k \in ask
  /\ \/ issues' = [issues EXCEPT ![SourceOf[k]] = @ + 1] /\ Answered("ask")
     \/ issues' \in {issues, [issues EXCEPT ![SourceOf[k]] = @ + 1]} /\ Unanswered
  /\ UNCHANGED <<register, trees, pushed, pulls, kills, clicks>>

\* The issues listed at the start whose source is decided are closed, two of one title as one,
\* and the run ends.
CloseDecided(s) ==
  /\ astep = "ask" /\ queued = {} /\ s \in listing.issues \cap listing.decided
  /\ \/ /\ issues' = [issues EXCEPT ![s] = IF @ = 0 THEN 0 ELSE @ - 1] /\ fails' = fails
        /\ \E others \in IF issues[s] > 1 THEN {{s}, {}} ELSE {{}} :
             listing' = [listing EXCEPT !.issues = (@ \ {s}) \cup others]
        /\ UNCHANGED <<astep, queued, ask>>
     \/ issues' = issues /\ Unanswered
  /\ UNCHANGED <<register, trees, pushed, pulls, kills, clicks>>

SyncEnds ==
  /\ astep = "ask" /\ queued = {} /\ listing.issues \cap listing.decided = {}
  /\ Rest
  /\ UNCHANGED <<register, trees, github, bounds>>

Sync ==
  \/ List \/ SyncEnds \/ (\E s \in Sources : CloseDecided(s))
  \/ \E k \in Keys : \/ SkipAsked(k) \/ FindPull(k) \/ NotOnLive(k) \/ Branch(k)
                     \/ PushBranch(k) \/ CreatePull(k) \/ CreateIssue(k)
-----------------------------------------------------------------------------
\* The owner merges a pull request from a phone, or closes it unmerged.
Merge(s) ==
  /\ pulls[s] = "open"
  /\ pulls' = [pulls EXCEPT ![s] = "merged"]
  /\ live' = [k \in Keys |-> IF pushed[s][k] = "same" THEN live[k] ELSE pushed[s][k]]
  /\ moved' = TRUE
  /\ UNCHANGED <<here, head, track, ahead, run, trees, pushed, issues, bounds>>

CloseUnmerged(s) ==
  /\ pulls[s] = "open"
  /\ pulls' = [pulls EXCEPT ![s] = "closed"]
  /\ UNCHANGED <<register, run, trees, pushed, issues, bounds>>

\* The machine stops in the middle of a run.
Stop ==
  /\ astep # "idle" /\ kills < MaxKills
  /\ kills' = kills + 1
  /\ Rest
  /\ UNCHANGED <<register, trees, github, fails, clicks>>

Banking == Preflight \/ Request \/ Rule \/ Red \/ Commit \/ Push
Clicked  == (\E k \in Keys : ApproveByHand(k)) \/ CleanByHand \/ ReconcileByHand \/ RunByHand
Owner   == \E s \in Sources : Merge(s) \/ CloseUnmerged(s)

ApprovalsNext == Banking \/ Clicked \/ Sync \/ Owner \/ Stop

\* Banks keep coming, go green now and then, and a person cleans a clone they refuse.
ApprovalsFair ==
  /\ WF_approvalVars(Preflight \/ Request \/ Rule \/ Push) /\ SF_approvalVars(Commit)
  /\ WF_approvalVars(Sync) /\ WF_approvalVars(CleanByHand) /\ WF_approvalVars(ReconcileByHand)

ApprovalsSpec == ApprovalsInit /\ [][ApprovalsNext]_approvalVars /\ ApprovalsFair
-----------------------------------------------------------------------------
Register == [Keys -> {"none", "pending", "master"}]

ApprovalsTypeOK ==
  /\ {here, head, track, live} \subseteq Register /\ {moved, ahead} \subseteq BOOLEAN
  /\ astep \in {"idle", "request", "rule", "gate", "push", "list", "ask", "branch", "pull", "issue"}
  /\ queued \subseteq Keys /\ ask \subseteq Keys /\ Cardinality(ask) <= 1 /\ trees \subseteq Sources
  /\ pushed \in [Sources -> [Keys -> {"same", "pending", "master"}]]
  /\ pulls \in [Sources -> {"none", "open", "merged", "closed"}] /\ issues \in [Sources -> Nat]

(***************************************************************************)
(* A source has an open issue for each of its classes at most, so one of   *)
(* one class never has two, over calls that were done and not answered,    *)
(* kills and runs by hand (sync_approvals.py:336-338).                     *)
(***************************************************************************)
OneIssuePerClass == \A s \in Sources : issues[s] <= Cardinality(Classes(s))

(***************************************************************************)
(* Said at sync_approvals.py:1: every source waiting on a human is turned  *)
(* into one issue and one pull request.  Not kept for a source pending in  *)
(* two classes: a run that finds its pull request and no issue files two.  *)
(***************************************************************************)
OneIssuePerSource == \A s \in Sources : issues[s] <= 1

(***************************************************************************)
(* An issue always has its pull request: there was one to merge when it    *)
(* was filed (sync_approvals.py:339-344).                                  *)
(***************************************************************************)
AskHasItsPull == \A s \in Sources : issues[s] > 0 => pulls[s] # "none"

(***************************************************************************)
(* Live holds no block that no commit of this clone carries: a merged      *)
(* approval brings along nothing a red could still take back and nothing a *)
(* person has not committed (sync_approvals.py:203-207).                   *)
(***************************************************************************)
LiveIsCommitted == \A k \in Keys : live[k] # "none" => head[k] # "none"

(***************************************************************************)
(* Said at sync_approvals.py:14-16: at the gate every ask files.  A block  *)
(* pending on live for good has its pull request.  Not kept, see README.   *)
(***************************************************************************)
EveryAskFiles ==
  \A k \in Keys :
    <>[](live[k] = "pending" /\ Price[k] > 0 /\ Price[k] >= Bar) => <>(pulls[SourceOf[k]] # "none")

(***************************************************************************)
(* The asks GitHub holds are one per class of a source, each with its pull *)
(* request, and of blocks that a commit here carries, over calls whose     *)
(* answer was lost (sync_approvals.py).                                    *)
(***************************************************************************)
AsksAreWhole == ApprovalsTypeOK /\ OneIssuePerClass /\ AskHasItsPull /\ LiveIsCommitted
=============================================================================
