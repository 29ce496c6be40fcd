----------------------------- MODULE ReachProofs -----------------------------
(***************************************************************************)
(* Proofs about asking the web, for any number of threads and pages and    *)
(* any bounds: the pace of the CDX lookups and the platform walk.          *)
(***************************************************************************)
EXTENDS Fetch, Governor, Platform, Lookup, FiniteSetTheorems, SequenceTheorems, WellFoundedInduction, TLAPS

-----------------------------------------------------------------------------
(* The rate governor. *)

\* `early` is kept while the breaker pauses only; a start reserved during a pause waits it
\* out because the next start lies behind the pause.
PaceInv ==
  /\ GovernorTypeOK /\ StartsApart /\ HeldOff
  /\ next >= pause

LEMMA PaceInit == GovernorInit => PaceInv
  BY GovernorAssumption
     DEF GovernorInit, PaceInv, GovernorTypeOK, StartsApart, HeldOff, Sleeping

\* The ends of an attempt leave every other thread alone, and wake nobody.
Kept ==
  /\ doing' \in [Thread -> {"idle", "wait", "sleep", "ask"}]
  /\ tried' \in [Thread -> 0..Retries]
  /\ \A u \in Thread : doing'[u] = "sleep" <=> doing[u] = "sleep"

LEMMA FinishKeeps ==
  ASSUME GovernorTypeOK, NEW t \in Thread, doing[t] = "ask", FinishLookup(t)
  PROVE  Kept
  BY GovernorAssumption DEF GovernorTypeOK, FinishLookup, Kept

LEMMA RetryKeeps ==
  ASSUME GovernorTypeOK, NEW t \in Thread, doing[t] = "ask", NEW stop \in BOOLEAN, Retry(t, stop)
  PROVE  Kept
  <1>1. CASE FinishLookup(t)
    BY <1>1, FinishKeeps
  <1>2. CASE Again(t) /\ tried[t] # Retries
    <2>1. tried[t] + 1 \in 0..Retries
      BY <1>2, GovernorAssumption DEF GovernorTypeOK
    <2> QED BY <1>2, <2>1 DEF GovernorTypeOK, Again, Kept
  <1> QED BY <1>1, <1>2 DEF Retry

LEMMA PaceNext == PaceInv /\ [GovernorNext]_governorVars => PaceInv'
  <1> SUFFICES ASSUME PaceInv, [GovernorNext]_governorVars PROVE PaceInv'
    OBVIOUS
  <1> USE GovernorAssumption DEF PaceInv, GovernorTypeOK, StartsApart, HeldOff, Sleeping
  <1>1. CASE Tick
    <2>1. \A t \in Thread : at'[t] \in Nat /\ (doing[t] = "sleep" => at'[t] = at[t] - 1)
      BY <1>1 DEF Tick, Less
    <2>2. next' = next - 1 /\ next' \in Nat /\ pause' \in 0..Pause
      BY <1>1 DEF Tick, Less
    <2>3. pause > 0 => pause' = pause - 1
      BY <1>1 DEF Tick, Less
    <2> QED BY <1>1, <2>1, <2>2, <2>3 DEF Tick, Less
  <1>2. ASSUME NEW t \in Thread, Lookup(t) PROVE PaceInv'
    BY <1>2 DEF Lookup
  <1>3. ASSUME NEW t \in Thread, Reserve(t) PROVE PaceInv'
    <2>1. at' \in [Thread -> Nat] /\ next' \in Nat /\ next' >= next + MinDelay /\ at'[t] = next
      BY <1>3 DEF Reserve
    <2>2. \A u \in Thread \ {t} : at'[u] = at[u] /\ doing'[u] = doing[u]
      BY <1>3 DEF Reserve
    <2>3. GovernorTypeOK'
      BY <1>3, <2>1 DEF Reserve
    <2>4. StartsApart'
      BY <1>3, <2>1, <2>2 DEF Reserve
    <2>5. HeldOff' /\ (next >= pause)'
      BY <1>3, <2>1, <2>2 DEF Reserve
    <2> QED BY <2>3, <2>4, <2>5
  <1>4. ASSUME NEW t \in Thread, BeginRequest(t) PROVE PaceInv'
    BY <1>4 DEF BeginRequest
  <1>5. ASSUME NEW t \in Thread, Success(t) PROVE PaceInv'
    <2>1. delay' \in MinDelay..MaxDelay /\ successes' \in 0..Ramp /\ refusals' = 0
      BY <1>5 DEF Success, Shorter, Greater, Lesser
    <2>2. Kept
      BY <1>5, FinishKeeps DEF Success
    <2> QED BY <1>5, <2>1, <2>2 DEF Success, Kept
  <1>6. ASSUME NEW t \in Thread, NEW after \in {0, MaxWait}, NEW stop \in BOOLEAN,
               Throttled429(t, after, stop)
        PROVE PaceInv'
    <2>1. delay' \in MinDelay..MaxDelay /\ next' \in Nat /\ next' >= next
      BY <1>6 DEF Throttled429, Longer, Greater, Lesser
    <2>2. Kept
      BY <1>6, RetryKeeps DEF Throttled429
    <2> QED BY <1>6, <2>1, <2>2 DEF Throttled429, Kept
  <1>7. ASSUME NEW t \in Thread, Refused(t) PROVE PaceInv'
    <2>1. delay' \in MinDelay..MaxDelay /\ refusals' \in 0..Breaker - 1
      BY <1>7 DEF Refused, Longer, Lesser
    <2>2. next' \in Nat /\ next' >= next /\ pause' \in 0..Pause
      BY <1>7 DEF Refused, Greater
    <2>3. early' \subseteq Thread
      BY <1>7 DEF Refused
    <2>4. Kept /\ successes' = 0 /\ UNCHANGED at
      BY <1>7, RetryKeeps DEF Refused
    <2>5. \A u \in Thread : pause' > 0 /\ doing[u] = "sleep" /\ u \notin early' => at[u] >= pause'
      BY <1>7 DEF Refused
    <2>6. GovernorTypeOK'
      BY <2>1, <2>2, <2>3, <2>4 DEF Kept
    <2>7. StartsApart' /\ HeldOff'
      BY <2>2, <2>4, <2>5 DEF Kept
    <2>8. (next >= pause)'
      BY <1>7 DEF Refused, Greater
    <2> QED BY <2>6, <2>7, <2>8
  <1>8. ASSUME NEW t \in Thread, Give(t) \/ ServerError(t) PROVE PaceInv'
    <2>1. Kept /\ UNCHANGED <<delay, next, successes, refusals, at, pause, early>>
      BY <1>8, FinishKeeps, RetryKeeps DEF Give, ServerError
    <2> QED BY <2>1 DEF Kept
  <1>9. CASE UNCHANGED governorVars
    BY <1>9 DEF governorVars
  <1> QED BY <1>1, <1>2, <1>3, <1>4, <1>5, <1>6, <1>7, <1>8, <1>9 DEF GovernorNext, Step

\* For any number of threads and any delays: the starts two threads reserved lie the shortest
\* delay apart, and a start reserved while the breaker pauses waits the pause out (cdx.py, the
\* governor's `wait` and `on_throttle`).
THEOREM GovernorKeepsPace == GovernorSpec => []PaceIsKept
  <1>1. PaceInv => PaceIsKept
    BY DEF PaceInv, PaceIsKept
  <1> QED BY <1>1, PaceInit, PaceNext, PTL DEF GovernorSpec

-----------------------------------------------------------------------------
(* The platform walk. *)

Upto(k) == UNION {OnPage(p) : p \in 1..k}
OnDisk  == journals \cup parts

WalkTyped ==
  walk \in [at : {"off", "ask", "save", "end", "refuse", "close"}, key : 0..Pages - 1, failedRuns : Nat,
            throttled : Nat, fails : Nat, endedOnce : BOOLEAN, seen : SUBSET Index,
            since : Nat, next : 0..Pages - 1, more : BOOLEAN]

\* A walk that still asks is of an open platform, and what it has seen is on disk.
WalkIsOpen ==
  /\ walk.at \notin {"off", "close"} => fate = "open"
  /\ disk.key < Pages
  /\ walk.seen \subseteq OnDisk

\* Until its answer is saved the walk is where the state file is. An answer with a key was whole;
\* one without, the second to this page or the first of all, ended the index, unless it was cut.
AnswerIsKnown ==
  /\ walk.at \in {"ask", "save"} => walk.key = disk.key
  /\ walk.at = "save" /\ walk.more =>
       walk.next = walk.key + 1 /\ OnPage(walk.key + 1) \subseteq walk.seen
  /\ walk.at = "save" /\ ~walk.more =>
       /\ walk.next = 0
       /\ ~Unended /\ ~firstCut => walk.key + 1 = Pages /\ OnPage(Pages) \subseteq walk.seen
  /\ walk.at = "end" /\ ~firstCut => Index \subseteq OnDisk

PagesInv == PlatformTypeOK /\ WalkTyped /\ WalkIsOpen /\ AnswerIsKnown /\ NothingIsSkipped /\ DoneIsWhole

LEMMA UptoNext ==
  ASSUME NEW k \in Nat PROVE Upto(k + 1) = Upto(k) \cup OnPage(k + 1)
  <1>1. 1..k + 1 = 1..k \cup {k + 1}
    OBVIOUS
  <1> QED BY <1>1 DEF Upto

LEMMA OnPageInIndex ==
  ASSUME NEW k \in 0..Pages - 1 PROVE OnPage(k + 1) \subseteq Index /\ k + 1 \in OnPage(k + 1)
  <1>1. k + 1 \in 1..Pages
    BY PlatformAssumption
  <1> QED BY <1>1 DEF Index, OnPage

LEMMA PagesInit == PlatformInit => PagesInv
  <1> SUFFICES ASSUME PlatformInit PROVE PagesInv
    OBVIOUS
  <1> USE PlatformAssumption DEF PlatformInit, NoWalk
  <1>1. PlatformTypeOK
    <2>1. disk \in [key : 0..Pages, failedRuns : Nat] OBVIOUS
    <2>2. walk.at = "off" /\ walk.key \in 0..Pages OBVIOUS
    <2>3. firstCut \in BOOLEAN OBVIOUS
    <2>4. parts \subseteq Index /\ journals \subseteq Index /\ fate = "open" OBVIOUS
    <2> QED BY <2>1, <2>2, <2>3, <2>4 DEF PlatformTypeOK
  <1>2. WalkTyped BY DEF WalkTyped
  <1>3. WalkIsOpen BY DEF WalkIsOpen, OnDisk
  <1>4. AnswerIsKnown BY DEF AnswerIsKnown
  <1>5. NothingIsSkipped BY DEF NothingIsSkipped
  <1>6. DoneIsWhole BY DEF DoneIsWhole
  <1> QED BY <1>1, <1>2, <1>3, <1>4, <1>5, <1>6 DEF PagesInv

\* A walk that leaves, or is killed, changes nothing of what is on disk.
LEMMA LeaveKeeps ==
  ASSUME PagesInv, walk' = NoWalk, disk' = disk, OnDisk' = OnDisk,
         parts' \subseteq OnDisk, journals' \subseteq OnDisk, journals \subseteq journals',
         fate' = fate, firstCut' = firstCut
  PROVE  PagesInv'
  <1> USE PlatformAssumption DEF PagesInv, NoWalk
  <1>1. PlatformTypeOK' BY DEF PlatformTypeOK, OnDisk
  <1>2. WalkTyped' BY DEF WalkTyped
  <1>3. WalkIsOpen' BY DEF WalkIsOpen
  <1>4. AnswerIsKnown' BY DEF AnswerIsKnown
  <1>5. NothingIsSkipped' BY DEF NothingIsSkipped, OnDisk
  <1>6. DoneIsWhole' BY DEF DoneIsWhole, PlatformTypeOK, OnDisk
  <1> QED BY <1>1, <1>2, <1>3, <1>4, <1>5, <1>6

LEMMA AnsweredTyped ==
  ASSUME WalkTyped, NEW s \in SUBSET Index, NEW n \in 0..Pages - 1, NEW more \in BOOLEAN,
         walk' = [walk EXCEPT !.at = "save", !.throttled = 0, !.fails = 0, !.failedRuns = 0,
                              !.seen = s, !.next = n, !.more = more]
  PROVE  WalkTyped'
  BY DEF WalkTyped

\* An answer, whole or cut, is flushed before the key that follows it is saved.
LEMMA AnsweredKeeps ==
  ASSUME PagesInv, Asking, UNCHANGED <<journals, fate>>, firstCut' \in BOOLEAN,
         NEW rows \in SUBSET OnPage(walk.key + 1), NEW more \in BOOLEAN, Answered(rows, more),
         more => rows = OnPage(walk.key + 1) /\ walk.key + 1 < Pages,
         ~more => \/ firstCut'
                  \/ walk.key > 0 /\ ~walk.endedOnce
                  \/ walk.key + 1 = Pages /\ rows = OnPage(Pages)
  PROVE  PagesInv'
  <1> USE PlatformAssumption DEF PagesInv
  <1>0. /\ walk.at = "ask" /\ walk.key \in 0..Pages - 1 /\ rows \subseteq Index
        /\ walk' = [walk EXCEPT !.at = "save", !.throttled = 0, !.fails = 0, !.failedRuns = 0,
                          !.seen = @ \cup rows, !.next = IF more THEN walk.key + 1 ELSE 0,
                          !.more = more]
        /\ parts' = parts \cup (rows \ walk.seen) /\ disk' = disk
    BY OnPageInIndex DEF Asking, Answered, WalkTyped
  <1>1. PlatformTypeOK' BY <1>0 DEF PlatformTypeOK, WalkTyped
  <1>2. WalkTyped'
    <2>1. (walk.seen \cup rows) \in SUBSET Index BY <1>0 DEF WalkTyped
    <2>2. (IF more THEN walk.key + 1 ELSE 0) \in 0..Pages - 1 BY <1>0
    <2> QED BY <1>0, <2>1, <2>2, AnsweredTyped
  <1>3. WalkIsOpen' BY <1>0 DEF WalkIsOpen, OnDisk, WalkTyped
  <1>4. AnswerIsKnown' BY <1>0 DEF AnswerIsKnown, WalkTyped, Unended
  <1>5. NothingIsSkipped' BY <1>0 DEF NothingIsSkipped
  <1>6. DoneIsWhole' BY <1>0 DEF DoneIsWhole, WalkIsOpen
  <1> QED BY <1>1, <1>2, <1>3, <1>4, <1>5, <1>6

\* The key is saved, and the last page ends the walk.
LEMMA SaveKeeps == ASSUME PagesInv, Save PROVE PagesInv'
  <1> USE PlatformAssumption DEF PagesInv, Save
  <1>0. OnDisk' = OnDisk /\ parts' \subseteq OnDisk /\ journals' \subseteq OnDisk
    BY DEF OnDisk
  <1>1. CASE walk.more
    <2>0. /\ walk'.at = "ask" /\ walk'.key = walk.next /\ walk'.seen = walk.seen
          /\ disk' = [key |-> walk.next, failedRuns |-> walk.failedRuns]
          /\ walk.next = walk.key + 1 /\ walk.key = disk.key /\ walk.next \in 0..Pages - 1
          /\ walk.failedRuns \in Nat
      BY <1>1 DEF WalkTyped, AnswerIsKnown
    <2>1. PlatformTypeOK' BY <1>0, <2>0 DEF PlatformTypeOK, OnDisk
    <2>2. WalkTyped'
      <3> DEFINE n == IF walk.since + 1 >= Rotate THEN 0 ELSE walk.since + 1
      <3>1. n \in Nat BY DEF WalkTyped
      <3>2. walk' = [walk EXCEPT !.at = "ask", !.key = walk.next, !.endedOnce = FALSE, !.since = n]
        BY <1>1
      <3> HIDE DEF n
      <3> QED BY <2>0, <3>1, <3>2 DEF WalkTyped
    <2>3. WalkIsOpen' BY <1>0, <2>0 DEF WalkIsOpen
    <2>4. AnswerIsKnown' BY <2>0 DEF AnswerIsKnown
    <2>5. NothingIsSkipped'
      <3>1. Upto(disk.key) \subseteq OnDisk BY DEF NothingIsSkipped, Upto, OnDisk
      <3>2. OnPage(disk.key + 1) \subseteq OnDisk BY <1>1, <2>0 DEF AnswerIsKnown, WalkIsOpen
      <3>3. Upto(disk'.key) \subseteq OnDisk'
        BY <1>0, <2>0, <3>1, <3>2, UptoNext DEF PlatformTypeOK
      <3> QED BY <3>3 DEF NothingIsSkipped, Upto, OnDisk
    <2>6. DoneIsWhole' BY DEF DoneIsWhole, WalkIsOpen
    <2> QED BY <2>1, <2>2, <2>3, <2>4, <2>5, <2>6
  <1>2. CASE ~walk.more
    <2>0. /\ walk' = [walk EXCEPT !.at = "end"] /\ UNCHANGED <<parts, journals>>
          /\ disk' = [key |-> 0, failedRuns |-> walk.failedRuns]
          /\ walk.failedRuns \in Nat
      BY <1>2 DEF WalkTyped, AnswerIsKnown
    <2>1. PlatformTypeOK' BY <2>0 DEF PlatformTypeOK, WalkTyped
    <2>2. WalkTyped' BY <2>0 DEF WalkTyped
    <2>3. WalkIsOpen' BY <1>0, <2>0 DEF WalkIsOpen, WalkTyped
    <2>4. AnswerIsKnown'
      <3>1. ASSUME ~firstCut PROVE Index \subseteq OnDisk
        <4>1. walk.key = disk.key /\ walk.key + 1 = Pages /\ OnPage(Pages) \subseteq OnDisk
          BY <1>2, <3>1 DEF AnswerIsKnown, WalkIsOpen
        <4>2. Upto(disk.key) \subseteq OnDisk BY DEF NothingIsSkipped, Upto, OnDisk
        <4>3. Upto(Pages) \subseteq OnDisk BY <4>1, <4>2, UptoNext DEF PlatformTypeOK
        <4> QED BY <4>3 DEF Upto, Index
      <3> QED BY <1>0, <2>0, <3>1 DEF AnswerIsKnown, WalkTyped
    <2>5. NothingIsSkipped' BY <2>0 DEF NothingIsSkipped
    <2>6. DoneIsWhole' BY DEF DoneIsWhole, WalkIsOpen
    <2> QED BY <2>1, <2>2, <2>3, <2>4, <2>5, <2>6
  <1> QED BY <1>1, <1>2

\* A failure the walk rides out only counts.
LEMMA CountKeeps ==
  ASSUME PagesInv, WalkTyped', walk'.at = walk.at, walk'.key = walk.key, walk'.seen = walk.seen,
         walk'.next = walk.next, walk'.more = walk.more, walk'.endedOnce = walk.endedOnce,
         UNCHANGED <<disk, parts, journals, fate, firstCut>>
  PROVE  PagesInv'
  BY DEF PagesInv, PlatformTypeOK, WalkIsOpen, AnswerIsKnown, NothingIsSkipped, DoneIsWhole, OnDisk, Unended

LEMMA PagesNext == PagesInv /\ [PlatformNext]_platformVars => PagesInv'
  <1> SUFFICES ASSUME PagesInv, [PlatformNext]_platformVars PROVE PagesInv'
    OBVIOUS
  <1> USE PlatformAssumption
  <1>1. CASE BeginWalk
    <2>0. /\ walk' = [NoWalk EXCEPT !.at = "ask", !.key = disk.key, !.failedRuns = disk.failedRuns]
          /\ walk'.seen = {} /\ OnDisk' = OnDisk /\ journals' = OnDisk /\ parts' = {}
          /\ fate = "open" /\ UNCHANGED <<disk, fate>> /\ firstCut' = FALSE
      BY <1>1 DEF BeginWalk, NoWalk, OnDisk
    <2> USE DEF PagesInv
    <2>1. PlatformTypeOK' BY <2>0 DEF PlatformTypeOK, NoWalk, OnDisk
    <2>2. WalkTyped'
      <3>1. disk.key \in 0..Pages - 1 /\ disk.failedRuns \in Nat
        BY <2>0 DEF WalkIsOpen, PlatformTypeOK
      <3>2. NoWalk \in [at : {"off", "ask", "save", "end", "refuse", "close"}, key : 0..Pages - 1,
                        failedRuns : Nat, throttled : Nat, fails : Nat,
                        endedOnce : BOOLEAN, seen : SUBSET Index, since : Nat,
                        next : 0..Pages - 1, more : BOOLEAN]
        BY DEF NoWalk
      <3> QED BY <2>0, <3>1, <3>2 DEF WalkTyped
    <2>3. WalkIsOpen' BY <2>0 DEF WalkIsOpen, NoWalk
    <2>4. AnswerIsKnown' BY <2>0 DEF AnswerIsKnown, NoWalk
    <2>5. NothingIsSkipped' BY <2>0 DEF NothingIsSkipped, OnDisk
    <2>6. DoneIsWhole' BY <2>0 DEF DoneIsWhole
    <2> QED BY <2>1, <2>2, <2>3, <2>4, <2>5, <2>6
  <1>2. CASE Hold \/ AskAgain \/ PauseWalk \/ UNCHANGED platformVars
    <2>0. /\ OnDisk' = OnDisk /\ parts' \subseteq OnDisk /\ journals' \subseteq OnDisk
          /\ UNCHANGED <<disk, fate, firstCut>>
      BY <1>2 DEF Hold, AskAgain, PauseWalk, platformVars, OnDisk
    <2> USE DEF PagesInv
    <2>1. /\ walk'.key = walk.key /\ walk'.seen = walk.seen
          /\ \/ walk'.at = "ask" /\ walk.at \in {"ask", "save"}
             \/ walk' = walk /\ parts' = parts /\ journals' = journals
          /\ WalkTyped'
      <3>1. CASE Hold
        <4>1. walk' = [walk EXCEPT !.since = 0] /\ walk.at = "ask" BY <3>1 DEF Hold
        <4>2. WalkTyped' BY <4>1 DEF WalkTyped
        <4>3. walk'.key = walk.key /\ walk'.seen = walk.seen /\ walk'.at = "ask" BY <4>1 DEF WalkTyped
        <4> QED BY <4>1, <4>2, <4>3
      <3>2. CASE AskAgain
        BY <3>2 DEF AskAgain, WalkTyped
      <3>3. CASE PauseWalk \/ UNCHANGED platformVars
        BY <3>3 DEF PauseWalk, platformVars, WalkTyped
      <3> QED BY <1>2, <3>1, <3>2, <3>3
    <2>2. PlatformTypeOK' BY <2>0, <2>1 DEF PlatformTypeOK, WalkTyped, OnDisk
    <2>3. WalkIsOpen'
      <3>1. walk'.at # "off" => walk.at # "off" BY <2>1
      <3> QED BY <2>0, <2>1, <3>1 DEF WalkIsOpen
    <2>4. AnswerIsKnown'
      <3>1. CASE walk'.at = "ask" BY <2>0, <2>1, <3>1 DEF AnswerIsKnown
      <3>2. CASE walk' = walk BY <2>0, <2>1, <3>2 DEF AnswerIsKnown, Unended
      <3> QED BY <2>1, <3>1, <3>2
    <2>5. NothingIsSkipped' BY <2>0 DEF NothingIsSkipped, OnDisk
    <2>6. DoneIsWhole' BY <2>0, <2>1 DEF DoneIsWhole, WalkIsOpen
    <2> QED BY <2>1, <2>2, <2>3, <2>4, <2>5, <2>6
  <1>3. CASE Page
    <2>1. walk.key \in 0..Pages - 1 BY DEF PagesInv, WalkTyped
    <2>2. ~(walk.key + 1 < Pages) => walk.key + 1 = Pages BY <2>1
    <2>3. firstCut' \in BOOLEAN BY <1>3 DEF Page, PagesInv, PlatformTypeOK
    <2>4. (walk.key + 1 < Pages) \in BOOLEAN /\ OnPage(walk.key + 1) \in SUBSET OnPage(walk.key + 1)
      OBVIOUS
    <2> QED BY <1>3, <2>1, <2>2, <2>3, <2>4, AnsweredKeeps DEF Page
  <1>4. CASE ShortPage
    <2>1. walk.key \in 0..Pages - 1 /\ ~walk.endedOnce BY <1>4 DEF PagesInv, WalkTyped, ShortPage
    <2>2. {walk.key + 1} \in SUBSET OnPage(walk.key + 1) BY <2>1, OnPageInIndex
    <2>3. firstCut' = (walk.key = 0) BY <1>4 DEF ShortPage
    <2>4. firstCut' \/ walk.key > 0
      <3>1. CASE walk.key = 0 BY <2>3, <3>1, Zenon
      <3> QED BY <2>1, <3>1
    <2>5. firstCut' \in BOOLEAN BY <2>3, Zenon
    <2> QED BY <1>4, <2>1, <2>2, <2>4, <2>5, AnsweredKeeps DEF ShortPage
  <1>5. CASE Save BY <1>5, SaveKeeps
  <1>6. CASE FinishWalk
    <2>0. /\ walk.at = "end" /\ walk' = NoWalk /\ journals' = OnDisk /\ parts' = {} /\ OnDisk' = OnDisk
          /\ fate' = "done" /\ UNCHANGED <<disk, firstCut>>
      BY <1>6 DEF FinishWalk, Leave, OnDisk
    <2> USE DEF PagesInv
    <2>1. PlatformTypeOK' BY <2>0 DEF PlatformTypeOK, NoWalk, OnDisk
    <2>2. WalkTyped' BY <2>0 DEF WalkTyped, NoWalk
    <2>3. WalkIsOpen' BY <2>0 DEF WalkIsOpen, NoWalk
    <2>4. AnswerIsKnown' BY <2>0 DEF AnswerIsKnown, NoWalk
    <2>5. NothingIsSkipped' BY <2>0 DEF NothingIsSkipped, OnDisk
    <2>6. DoneIsWhole'
      <3>1. OnDisk \subseteq Index BY DEF OnDisk, PlatformTypeOK
      <3> QED BY <2>0, <3>1 DEF DoneIsWhole, AnswerIsKnown
    <2> QED BY <2>1, <2>2, <2>3, <2>4, <2>5, <2>6
  <1>7. CASE ThrottlePage
    <2>1. CASE Leave(NoWalk)
      BY <1>7, <2>1, LeaveKeeps DEF ThrottlePage, Leave, OnDisk, PagesInv, WalkIsOpen, Asking
    <2>2. CASE walk' = [walk EXCEPT !.throttled = @ + 1] /\ UNCHANGED <<parts, journals>>
      BY <1>7, <2>2, CountKeeps DEF ThrottlePage, WalkTyped, PagesInv
    <2> QED BY <1>7, <2>1, <2>2 DEF ThrottlePage
  <1>8. CASE RefusePage \/ WriteRefused \/ (Fail /\ walk'.at # walk.at)
    <2>0. /\ UNCHANGED <<parts, journals, firstCut>> /\ OnDisk' = OnDisk
          /\ \/ fate' = fate /\ walk'.at \in {"refuse", "close"} /\ fate = "open"
             \/ fate' = "refused" /\ walk'.at = "close"
          /\ walk'.key = walk.key /\ walk'.seen = walk.seen /\ disk'.key = disk.key
          /\ disk' \in [key : 0..Pages, failedRuns : Nat] /\ WalkTyped'
      <3>1. CASE RefusePage
        BY <3>1 DEF RefusePage, Asking, OnDisk, WalkTyped, PagesInv, WalkIsOpen, PlatformTypeOK
      <3>2. CASE WriteRefused
        BY <3>2 DEF WriteRefused, OnDisk, WalkTyped, PagesInv, PlatformTypeOK
      <3>3. CASE Fail /\ walk'.at # walk.at
        <4>1. /\ walk.at = "ask" /\ disk' = [key |-> walk.key, failedRuns |-> walk.failedRuns + 1]
              /\ \E step \in {"refuse", "close"} : walk' = [walk EXCEPT !.at = step]
          BY <3>3 DEF Fail, Asking, WalkTyped, PagesInv
        <4>2. walk.key = disk.key /\ walk.key \in 0..Pages - 1 /\ walk.failedRuns \in Nat /\ fate = "open"
          BY <4>1 DEF PagesInv, AnswerIsKnown, WalkTyped, WalkIsOpen
        <4> QED BY <3>3, <4>1, <4>2 DEF Fail, OnDisk, WalkTyped, PagesInv, PlatformTypeOK
      <3> QED BY <1>8, <3>1, <3>2, <3>3
    <2> USE DEF PagesInv
    <2>1. PlatformTypeOK' BY <2>0 DEF PlatformTypeOK, WalkTyped
    <2>2. WalkIsOpen' BY <2>0 DEF WalkIsOpen
    <2>3. AnswerIsKnown' BY <2>0 DEF AnswerIsKnown
    <2>4. NothingIsSkipped' BY <2>0 DEF NothingIsSkipped
    <2>5. DoneIsWhole' BY <2>0 DEF DoneIsWhole
    <2> QED BY <2>0, <2>1, <2>2, <2>3, <2>4, <2>5
  <1>9. CASE Fail /\ walk'.at = walk.at
    <2>1. walk.at = "ask" /\ walk' = [walk EXCEPT !.fails = @ + 1] /\ UNCHANGED <<disk, parts, journals, fate>>
      BY <1>9 DEF Fail, Asking, WalkTyped, PagesInv
    <2> QED BY <1>9, <2>1, CountKeeps DEF Fail, WalkTyped, PagesInv
  <1>12. CASE CloseJournal
    BY <1>12, LeaveKeeps DEF CloseJournal, Leave, OnDisk, PagesInv, PlatformTypeOK
  <1>10. CASE Die
    BY <1>10, LeaveKeeps DEF Die, OnDisk, PagesInv, WalkIsOpen
  <1>11. CASE Stop
    BY <1>11, LeaveKeeps DEF Stop, Leave, OnDisk, PagesInv, WalkIsOpen
  <1> QED BY <1>1, <1>2, <1>3, <1>4, <1>5, <1>6, <1>7, <1>8, <1>9, <1>10, <1>11, <1>12 DEF PlatformNext, Working

\* For any number of pages, kills and faults: up to its saved key a walk has every host-year in a
\* file, and a finished platform whose first answer was not cut short holds its whole index
\* (cdx_platform_walk.py).
THEOREM PlatformKeepsPages == PlatformSpec => []PagesAreKept
  <1>1. PagesInv => PagesAreKept
    BY DEF PagesInv, PagesAreKept
  <1> QED BY <1>1, PagesInit, PagesNext, PTL DEF PlatformSpec

-----------------------------------------------------------------------------
(* One domain's lookup. *)

\* What the tiers have settled of one another when each is asked.
TierInv ==
  /\ ltodo # "idle" => record.status # "answered"
  /\ ltodo # "probe" => failures = 0 /\ ~sweep
  /\ ltodo # "www" => answers = 0
  /\ ltodo = "www" => answers \in {0, 1}
  /\ ltodo = "host" => hostFirst /\ ~heard
  /\ ltodo = "scan" /\ ~hostFirst => ~heard
  /\ ltodo = "scan" /\ hostFirst =>
       heard /\ hostStatus = "answered" /\ hostYears = {} /\ Covered("host") = {}
  /\ ltodo \in {"apex", "www"} => (heard <=> answers > 0) /\ Failed # "answered"

\* Of the years not left to be probed, the missing ones have a failed probe, and a sweep has an
\* answer unless as many probes failed as were sent.
Sent == Cardinality(Year \ left)
ProbeInv ==
  ltodo = "probe" =>
    /\ left # {}
    /\ Covered("scan") \ (years \cup left) \subseteq unproved
    /\ ~sweep => heard /\ failures = 0
    /\ sweep => failures <= Sent /\ (heard <=> failures # Sent)

LookupInv == LookupTypeOK /\ TierInv /\ ProbeInv /\ SettledIsAnswered /\ MissedIsExplained

\* A non-empty set of years has a first one.
LEMMA FirstYear ==
  ASSUME NEW S \in SUBSET Nat, S # {} PROVE \E x \in S : \A y \in S : x <= y
  <1> DEFINE R == OpToRel(<, Nat)
  <1>1. ASSUME NEW x \in Nat, NEW y \in Nat, x < y PROVE <<x, y>> \in R
    BY <1>1 DEF OpToRel
  <1>2. IsWellFoundedOn(R, Nat)
    BY NatLessThanWellFounded DEF R
  <1> HIDE DEF R
  <1>3. PICK x \in S : \A y \in S : <<y, x>> \notin R
    BY <1>2, WFMin
  <1>4. \A y \in S : ~(y < x)
    BY <1>1, <1>3
  <1> QED BY <1>4

\* A wider question sees what a narrower one does, and nothing but years.
LEMMA CoveredYears ==
  ASSUME LookupTypeOK
  PROVE  /\ \A l \in Level : Covered(l) \subseteq Year
         /\ Covered("host") \subseteq Covered("scan")
  <1>1. domain.archived \in [Level -> SUBSET Year]
    BY LookupAssumption DEF LookupTypeOK
  <1>2. "host" \in Level /\ "apex" \in Level /\ "www" \in Level /\ "scan" \in Level
    BY DEF Level, Prefix
  <1>3. Covered("scan") = UNION {domain.archived[k] : k \in Level}
    BY DEF Covered, Prefix
  <1>4. Covered("host") = domain.archived["host"] \cup domain.archived["apex"] \cup domain.archived["www"]
    BY DEF Covered, Prefix
  <1>5. \A p \in Prefix : Covered(p) = domain.archived[p]
    BY DEF Covered, Prefix
  <1> QED BY <1>1, <1>2, <1>3, <1>4, <1>5 DEF Level

LEMMA ReplyYears ==
  ASSUME LookupTypeOK, NEW l \in {"host", "scan"}, NEW reply \in Replies(l)
  PROVE  /\ reply \subseteq Covered(l) /\ reply \subseteq Year
         /\ ~Wide(l) => reply = Covered(l)
         /\ reply = {} => ~Wide(l)
  <1>1. Covered(l) \subseteq Year
    BY CoveredYears DEF Level
  <1>2. CASE Wide(l)
    BY <1>1, <1>2 DEF Replies, Wide
  <1>3. CASE ~Wide(l)
    <2>1. reply = Covered(l) BY <1>3 DEF Replies, Wide
    <2> QED BY <1>1, <1>3, <2>1
  <1> QED BY <1>2, <1>3

NextYear == CHOOSE x \in left : \A z \in left : x <= z

LEMMA NextYearIsLeft == ASSUME LookupTypeOK, left # {} PROVE NextYear \in left
  <1>1. left \in SUBSET Nat
    BY LookupAssumption DEF LookupTypeOK
  <1> QED BY <1>1, FirstYear DEF NextYear

\* One more probe has been sent after one of a year that was left.
LEMMA ProbedYear ==
  ASSUME LookupTypeOK, NEW y \in left
  PROVE  /\ y \in Year
         /\ Sent \in Nat /\ Sent < Cardinality(Year)
         /\ Cardinality(Year \ (left \ {y})) = Sent + 1
         /\ left = {y} => Sent + 1 = Cardinality(Year)
  <1> USE LookupAssumption
  <1>1. left \in SUBSET Nat /\ left \subseteq Year
    BY DEF LookupTypeOK
  <1>2. IsFiniteSet(Year \ left)
    BY FS_Subset
  <1>3. Year \ (left \ {y}) = (Year \ left) \cup {y} /\ y \notin Year \ left
    BY <1>1
  <1>4. Sent \in Nat /\ Cardinality(Year \ (left \ {y})) = Sent + 1
    <2>1. Sent \in Nat BY <1>2, FS_CardinalityType DEF Sent
    <2>2. Cardinality((Year \ left) \cup {y}) = Cardinality(Year \ left) + 1
      BY <1>2, <1>3, FS_AddElement
    <2> QED BY <1>3, <2>1, <2>2 DEF Sent
  <1>5. Year \ (left \ {y}) \subseteq Year
    OBVIOUS
  <1>6. Cardinality(Year \ (left \ {y})) <= Cardinality(Year) /\ Cardinality(Year) \in Nat
    BY <1>5, FS_Subset, FS_CardinalityType
  <1>7. ASSUME left = {y} PROVE Cardinality(Year \ (left \ {y})) = Cardinality(Year)
    <2>1. Year \ (left \ {y}) = Year BY <1>7
    <2> QED BY <2>1
  <1>8. Sent < Cardinality(Year)
    BY <1>4, <1>6
  <1> QED BY <1>1, <1>4, <1>7, <1>8

LEMMA LookupStarts == LookupInit => LookupInv
  <1> SUFFICES ASSUME LookupInit PROVE LookupInv
    OBVIOUS
  <1> USE LookupAssumption DEF LookupInit, NoRecord
  <1>1. LookupTypeOK
    <2>1. record \in Record BY DEF Record, Status
    <2>2. failures \in 0..Cardinality(Year) BY FS_CardinalityType
    <2>3. heard \in BOOLEAN /\ cut \in BOOLEAN /\ sweep \in BOOLEAN OBVIOUS
    <2> QED BY <2>1, <2>2, <2>3 DEF LookupTypeOK
  <1>2. TierInv BY DEF TierInv
  <1>3. ProbeInv BY DEF ProbeInv
  <1>4. SettledIsAnswered BY DEF SettledIsAnswered
  <1>5. MissedIsExplained BY DEF MissedIsExplained
  <1> QED BY <1>1, <1>2, <1>3, <1>4, <1>5 DEF LookupInv

\* A record that is journalled ends the lookup; whether it may is the tier's to show.
LEMMA Journalled ==
  ASSUME LookupTypeOK, NEW status \in Status \cup {"none"}, NEW ys \in SUBSET Year, NEW truncated \in BOOLEAN,
         NEW by \in {"by_host", "by_root", "scan", "per_year", "none"}, Journal(status, ys, truncated, by),
         UNCHANGED <<domain, hostFirst>>,
         heard' \in BOOLEAN, cut' \in BOOLEAN, unproved' \subseteq Year,
         status = "answered" <=> heard',
         status = "answered" =>
           \A y \in Covered("scan") \ ys :
             \/ by \in {"by_host", "by_root"} /\ (y \notin Covered("host") \/ cut' \/ by = "by_root")
             \/ by \in {"scan", "per_year"} /\ y \in unproved'
  PROVE  LookupInv'
  <1> USE LookupAssumption DEF Journal, Clear
  <1>1. LookupTypeOK'
    <2>1. record' \in Record BY DEF Record, Status
    <2>2. failures' \in 0..Cardinality(Year) BY FS_CardinalityType
    <2>3. ltodo' = "idle" /\ domain' \in Domains /\ hostFirst' \in BOOLEAN BY DEF LookupTypeOK
    <2>4. /\ years' \subseteq Year /\ hostYears' \subseteq Year /\ left' \subseteq Year
          /\ hostStatus' = "none" /\ scanned' = "none" /\ answers' = 0 /\ sweep' \in BOOLEAN
      OBVIOUS
    <2> QED BY <2>1, <2>2, <2>3, <2>4 DEF LookupTypeOK
  <1>2. TierInv' BY DEF TierInv
  <1>3. ProbeInv' BY DEF ProbeInv
  <1>4. SettledIsAnswered' BY DEF SettledIsAnswered
  <1>5. MissedIsExplained'
    <2>1. Covered("scan")' = Covered("scan") /\ Covered("host")' = Covered("host")
      BY DEF Covered
    <2>2. record'.status = status /\ record'.years = ys /\ record'.by = by
      OBVIOUS
    <2> QED BY <2>1, <2>2 DEF MissedIsExplained
  <1> QED BY <1>1, <1>2, <1>3, <1>4, <1>5 DEF LookupInv

\* A lookup that goes on has no settled record yet.
LEMMA GoesOn ==
  ASSUME LookupTypeOK', TierInv', ProbeInv', ltodo' # "idle"
  PROVE  LookupInv'
  BY DEF LookupInv, SettledIsAnswered, MissedIsExplained, TierInv

LEMMA AskKeeps == ASSUME LookupInv, NEW s \in BOOLEAN, Ask(s) PROVE LookupInv'
  <1> USE LookupAssumption DEF LookupInv, Ask
  <1>1. LookupTypeOK'
    <2>1. failures' \in 0..Cardinality(Year) BY FS_CardinalityType
    <2>2. heard' \in BOOLEAN /\ cut' \in BOOLEAN /\ sweep' \in BOOLEAN OBVIOUS
    <2>3. ltodo' \in {"probe", "host", "scan"} /\ left' \subseteq Year OBVIOUS
    <2>4. /\ domain' \in Domains /\ hostFirst' \in BOOLEAN /\ years' \subseteq Year
          /\ hostYears' \subseteq Year /\ unproved' \subseteq Year /\ answers' \in 0..2
          /\ record' \in Record
      BY DEF LookupTypeOK
    <2>5. hostStatus' \in Status \cup {"none"} /\ scanned' \in Status \cup {"none"}
      BY DEF LookupTypeOK
    <2> QED BY <2>1, <2>2, <2>3, <2>4, <2>5 DEF LookupTypeOK
  <1>2. TierInv' BY DEF TierInv
  <1>3. ProbeInv'
    <2>1. Covered("scan")' \subseteq Year
      <3>1. Covered("scan")' = Covered("scan") BY DEF Covered
      <3> QED BY <3>1, CoveredYears DEF Level
    <2>2. CASE s
      <3>1. left' = Year /\ Year \ left' = {} /\ failures' = 0 /\ ~heard' BY <2>2
      <3>2. Sent' = 0 BY <3>1, FS_EmptySet DEF Sent
      <3> QED BY <2>1, <2>2, <3>1, <3>2 DEF ProbeInv
    <2>3. CASE ~s BY <2>3 DEF ProbeInv
    <2> QED BY <2>2, <2>3
  <1>4. ltodo' # "idle" OBVIOUS
  <1> QED BY <1>1, <1>2, <1>3, <1>4, GoesOn

LEMMA HostKeeps ==
  ASSUME LookupInv, NEW status \in Status, NEW reply \in Replies("host"), Host(status, reply)
  PROVE  LookupInv'
  <1> USE DEF LookupInv, Host
  <1>1. heard' \in BOOLEAN /\ cut' \in BOOLEAN
    BY Zenon
  <1>2. /\ reply \subseteq Covered("host") /\ reply \subseteq Year
        /\ ~Wide("host") => reply = Covered("host")
        /\ reply = {} => ~Wide("host")
    BY ReplyYears
  <1>3. ~heard /\ unproved' \subseteq Year
    BY DEF TierInv, LookupTypeOK
  <1>4. heard' <=> status = "answered"
    BY <1>3
  <1>5. Covered("host")' = Covered("host") /\ Covered("scan")' = Covered("scan")
    BY DEF Covered
  <1>6. CASE status = "answered" /\ reply # {}
    <2>1. cut' \/ reply = Covered("host")
      BY <1>2, <1>6
    <2> QED BY <1>1, <1>2, <1>3, <1>4, <1>6, <2>1, Journalled
  <1>7. CASE status = "answered" /\ reply = {}
    <2>0. ltodo' = "scan" /\ hostStatus' = status /\ hostYears' = {}
          /\ UNCHANGED <<domain, hostFirst, unproved, years, scanned, answers, left, sweep, failures, record>>
      BY <1>7
    <2>1. LookupTypeOK' BY <1>1, <1>2, <2>0 DEF LookupTypeOK
    <2>2. TierInv' BY <1>2, <1>4, <1>5, <1>7 DEF TierInv, LookupTypeOK
    <2>3. ProbeInv' BY <1>7 DEF ProbeInv
    <2> QED BY <1>7, <2>1, <2>2, <2>3, GoesOn
  <1>8. CASE status = "big"
    <2>0. ltodo' = "apex" /\ hostStatus' = status
          /\ UNCHANGED <<domain, hostFirst, unproved, years, hostYears, scanned, answers, left, sweep,
                         failures, record>>
      BY <1>8
    <2>1. LookupTypeOK' BY <1>1, <1>2, <2>0 DEF LookupTypeOK
    <2>2. TierInv' BY <1>4, <1>8 DEF TierInv, LookupTypeOK, Failed
    <2>3. ProbeInv' BY <1>8 DEF ProbeInv
    <2> QED BY <1>8, <2>1, <2>2, <2>3, GoesOn
  <1>9. CASE status \in {"refused", "error"}
    BY <1>1, <1>3, <1>4, <1>9, Journalled
  <1> QED BY <1>6, <1>7, <1>8, <1>9 DEF Status

LEMMA RootKeeps ==
  ASSUME LookupInv, NEW p \in Prefix, NEW status \in Status, Root(p, status)
  PROVE  LookupInv'
  <1> USE DEF LookupInv, Root
  <1> DEFINE n  == answers + IF status = "answered" THEN 1 ELSE 0
             ys == years \cup IF status = "answered" THEN Covered(p) ELSE {}
  <1>1. heard' \in BOOLEAN
    BY Zenon
  <1>2. ys \in SUBSET Year /\ unproved' \subseteq Year /\ cut' \in BOOLEAN
    BY CoveredYears DEF LookupTypeOK, Level
  <1>3. n \in 0..2 /\ (heard' <=> n > 0) /\ (p = "apex" => n \in {0, 1}) /\ Failed # "answered"
    <2>1. ltodo = p /\ p \in {"apex", "www"} BY DEF Prefix
    <2>2. answers \in {0, 1} /\ (p = "apex" => answers = 0) /\ (heard <=> answers > 0) /\ Failed # "answered"
      BY <2>1 DEF TierInv
    <2>3. CASE status = "answered"
      <3>1. n = answers + 1 /\ heard' BY <2>3
      <3> QED BY <2>2, <3>1
    <2>4. CASE status # "answered"
      <3>1. n = answers BY <2>2, <2>4
      <3>2. heard' <=> heard BY <2>4, Zenon
      <3> QED BY <2>2, <3>1, <3>2
    <2> QED BY <2>3, <2>4
  <1>4. CASE p = "apex"
    <2>1. LookupTypeOK' BY <1>1, <1>2, <1>3, <1>4 DEF LookupTypeOK
    <2>2. TierInv' BY <1>3, <1>4 DEF TierInv, LookupTypeOK, Failed
    <2>3. ProbeInv' BY <1>4 DEF ProbeInv
    <2> QED BY <1>4, <2>1, <2>2, <2>3, GoesOn
  <1>5. CASE p = "www" /\ n > 0
    BY <1>1, <1>2, <1>3, <1>5, Journalled DEF Status
  <1>6. CASE p = "www" /\ ~(n > 0)
    BY <1>1, <1>2, <1>3, <1>6, Journalled DEF Failed, LookupTypeOK
  <1> QED BY <1>4, <1>5, <1>6 DEF Prefix

LEMMA ScanKeeps ==
  ASSUME LookupInv, NEW status \in Status, NEW reply \in Replies("scan"), Scan(status, reply)
  PROVE  LookupInv'
  <1> USE DEF LookupInv, Scan
  <1>1. heard' \in BOOLEAN /\ cut' \in BOOLEAN
    BY Zenon
  <1>2. /\ reply \subseteq Covered("scan") /\ reply \subseteq Year
        /\ ~Wide("scan") => reply = Covered("scan")
    BY ReplyYears
  <1>3. unproved' = unproved /\ unproved \subseteq Year
    BY DEF LookupTypeOK
  <1>4. Covered("scan")' = Covered("scan") /\ Covered("scan") \subseteq Year
    BY CoveredYears DEF Covered, Level
  <1>5. status = "answered" => heard'
    BY Zenon
  <1>6. status # "answered" => (heard' <=> heard)
    BY Zenon
  <1>7. CASE status # "answered" /\ hostFirst
    <2>1. heard' /\ hostStatus = "answered" /\ hostYears = {} /\ Covered("host") = {}
      BY <1>6, <1>7 DEF TierInv
    <2>2. Journal("answered", {}, FALSE, "by_host")
      BY <1>7, <2>1
    <2> QED BY <1>1, <1>3, <2>1, <2>2, Journalled DEF Status
  <1>8. CASE status # "answered" /\ ~hostFirst
    <2>0. /\ ltodo' = "apex" /\ scanned' = status
          /\ UNCHANGED <<domain, hostFirst, unproved, years, hostYears, hostStatus, answers, left, sweep,
                         failures, record>>
      BY <1>8
    <2>1. LookupTypeOK' BY <1>1, <2>0 DEF LookupTypeOK
    <2>2. ~heard' /\ answers = 0 /\ failures = 0 /\ record.status # "answered"
      BY <1>6, <1>8 DEF TierInv
    <2>3. TierInv' BY <1>8, <2>0, <2>2 DEF TierInv, Failed
    <2>4. ProbeInv' BY <2>0 DEF ProbeInv
    <2> QED BY <2>0, <2>1, <2>3, <2>4, GoesOn
  <1>9. CASE status = "answered" /\ Wide("scan") /\ reply # Year
    <2>0. /\ ltodo' = "probe" /\ years' = reply /\ left' = Year \ reply
          /\ UNCHANGED <<domain, hostFirst, unproved, hostYears, hostStatus, scanned, answers, sweep,
                         failures, record>>
      BY <1>9
    <2>1. LookupTypeOK' BY <1>1, <1>2, <2>0 DEF LookupTypeOK
    <2>2. heard' /\ answers = 0 /\ failures = 0 /\ record.status # "answered" /\ ~sweep
      BY <1>5, <1>9 DEF TierInv
    <2>3. TierInv' BY <2>0, <2>2 DEF TierInv
    <2>4. ProbeInv' BY <1>2, <1>4, <1>9, <2>0, <2>2 DEF ProbeInv
    <2> QED BY <2>0, <2>1, <2>3, <2>4, GoesOn
  <1>10. CASE status = "answered" /\ ~(Wide("scan") /\ reply # Year)
    <2>1. Covered("scan") \ reply = {}
      BY <1>2, <1>4, <1>10
    <2>2. Journal(status, reply, Wide("scan"), "scan")
      BY <1>10
    <2>3. Wide("scan") \in BOOLEAN
      BY DEF Wide
    <2> QED BY <1>1, <1>2, <1>3, <1>5, <1>10, <2>1, <2>2, <2>3, Journalled
  <1> QED BY <1>7, <1>8, <1>9, <1>10

LEMMA ProbeKeeps ==
  ASSUME LookupInv, NEW status \in Status, Probe(status)
  PROVE  LookupInv'
  <1> USE DEF LookupInv
  <1> DEFINE y   == NextYear
             ok  == status = "answered"
             ys  == IF ok /\ y \in Covered("scan") THEN years \cup {y} ELSE years
             bad == failures + IF sweep /\ ~ok THEN 1 ELSE 0
  <1>1. /\ ltodo = "probe"
        /\ heard' = (heard \/ ok)
        /\ unproved' = IF ok THEN unproved ELSE unproved \cup {y}
        /\ IF left = {y}
           THEN IF sweep /\ bad = Cardinality(Year) THEN Journal(status, ys, FALSE, "per_year")
                ELSE Journal("answered", ys, ~sweep, IF sweep THEN "per_year" ELSE "scan")
           ELSE /\ years' = ys /\ left' = left \ {y} /\ failures' = bad
                /\ UNCHANGED <<ltodo, hostYears, hostStatus, scanned, answers, sweep, record>>
        /\ UNCHANGED <<domain, hostFirst, cut>>
    BY Zenon DEF Probe, NextYear
  <1>2. y \in left /\ y \in Year
    BY <1>1, NextYearIsLeft, ProbedYear DEF ProbeInv
  <1>3. /\ Sent \in Nat /\ Sent < Cardinality(Year) /\ Cardinality(Year) \in Nat
        /\ Cardinality(Year \ (left \ {y})) = Sent + 1
        /\ left = {y} => Sent + 1 = Cardinality(Year)
    BY <1>2, ProbedYear, FS_CardinalityType, LookupAssumption
  <1> HIDE DEF y
  <1>4. heard' \in BOOLEAN /\ (ok => heard') /\ (~ok => (heard' <=> heard))
    BY <1>1, Zenon
  <1>5. ys \in SUBSET Year /\ unproved' \subseteq Year /\ cut' \in BOOLEAN
    BY <1>1, <1>2 DEF LookupTypeOK
  <1>6. Covered("scan")' = Covered("scan")
    BY <1>1 DEF Covered
  <1>7. Covered("scan") \ (ys \cup (left \ {y})) \subseteq unproved'
    BY <1>1 DEF ProbeInv
  <1>8. failures \in Nat /\ bad \in Nat
    BY <1>3 DEF LookupTypeOK
  <1>9. ~sweep => heard /\ failures = 0 /\ heard' /\ bad = 0
    BY <1>1, <1>4, <1>8 DEF ProbeInv
  <1>10. sweep => bad <= Sent + 1 /\ (heard' <=> bad # Sent + 1)
    <2>1. ASSUME sweep PROVE failures <= Sent /\ (heard <=> failures # Sent)
      BY <1>1, <2>1 DEF ProbeInv
    <2>2. CASE ok
      BY <1>3, <1>4, <1>8, <2>1, <2>2
    <2>3. CASE ~ok
      BY <1>3, <1>4, <1>8, <2>1, <2>3
    <2> QED BY <2>2, <2>3
  <1>11. CASE left = {y} /\ sweep /\ bad = Cardinality(Year)
    <2>1. ~heard' /\ ~ok
      BY <1>3, <1>4, <1>10, <1>11
    <2> QED BY <1>1, <1>4, <1>5, <1>11, <2>1, Journalled
  <1>12. CASE left = {y} /\ ~(sweep /\ bad = Cardinality(Year))
    <2>1. heard'
      BY <1>3, <1>9, <1>10, <1>12
    <2>2. Covered("scan") \ ys \subseteq unproved'
      BY <1>7, <1>12
    <2>3. (~sweep) \in BOOLEAN /\ (IF sweep THEN "per_year" ELSE "scan") \in {"per_year", "scan"}
      OBVIOUS
    <2>4. Journal("answered", ys, ~sweep, IF sweep THEN "per_year" ELSE "scan")
      BY <1>1, <1>12
    <2> QED BY <1>1, <1>4, <1>5, <2>1, <2>2, <2>3, <2>4, Journalled DEF Status
  <1>13. CASE left # {y}
    <2>0. /\ years' = ys /\ left' = left \ {y} /\ failures' = bad /\ ltodo' = "probe"
          /\ UNCHANGED <<hostYears, hostStatus, scanned, answers, sweep, record, domain, hostFirst>>
      BY <1>1, <1>13
    <2>1. LookupTypeOK'
      <3>1. failures' \in 0..Cardinality(Year)
        BY <1>3, <1>8, <1>9, <1>10, <2>0
      <3> QED BY <1>4, <1>5, <2>0, <3>1 DEF LookupTypeOK
    <2>2. TierInv' BY <1>1, <2>0 DEF TierInv
    <2>3. ProbeInv'
      <3>1. left' # {} BY <1>2, <1>13, <2>0
      <3>2. Sent' = Sent + 1 BY <1>3, <2>0 DEF Sent
      <3> QED BY <1>6, <1>7, <1>9, <1>10, <2>0, <3>1, <3>2 DEF ProbeInv
    <2> QED BY <2>0, <2>1, <2>2, <2>3, GoesOn
  <1> QED BY <1>11, <1>12, <1>13

\* For any years and whatever is archived of a domain: a record says answered exactly when one of
\* its questions was, and lacks a year only for a reason of its tier, whatever order the tiers are
\* asked in and whatever fails (cdx.py, `lookup_years` and `lookup_years_per_year`).
THEOREM LookupExplainsRecord == LookupSpec => []RecordIsExplained
  <1>1. LookupInv /\ [LookupNext]_lookupVars => LookupInv'
    <2> SUFFICES ASSUME LookupInv, [LookupNext]_lookupVars PROVE LookupInv'
      OBVIOUS
    <2>1. ASSUME NEW s \in BOOLEAN, Ask(s) PROVE LookupInv'
      BY <2>1, AskKeeps
    <2>2. ASSUME NEW s \in Status, NEW r \in Replies("host"), Host(s, r) PROVE LookupInv'
      BY <2>2, HostKeeps
    <2>3. ASSUME NEW s \in Status, NEW p \in Prefix, Root(p, s) PROVE LookupInv'
      BY <2>3, RootKeeps
    <2>4. ASSUME NEW s \in Status, NEW r \in Replies("scan"), Scan(s, r) PROVE LookupInv'
      BY <2>4, ScanKeeps
    <2>5. ASSUME NEW s \in Status, Probe(s) PROVE LookupInv'
      BY <2>5, ProbeKeeps
    <2>6. CASE UNCHANGED lookupVars
      BY <2>6 DEF lookupVars, work, ghost, LookupInv, LookupTypeOK, TierInv, ProbeInv, Sent, Failed,
                  SettledIsAnswered, MissedIsExplained, Covered
    <2> QED BY <2>1, <2>2, <2>3, <2>4, <2>5, <2>6 DEF LookupNext
  <1>2. LookupInv => RecordIsExplained
    BY DEF LookupInv, RecordIsExplained
  <1> QED BY <1>1, <1>2, LookupStarts, PTL DEF LookupSpec
-----------------------------------------------------------------------------
(* One download path. *)

Hosts == {HostOf[u] : u \in Url}
Marks == {Unread, Unreadable}

\* Bytes in order, each of a version the artifact has had.
Written(s) ==
  /\ s \in Seq(Byte) /\ Len(s) <= Size + 1
  /\ \A i \in 1..Len(s) : s[i].at = i /\ s[i].v \in 1..version

\* What is on disk and in hand, whatever the run is doing.
HeldInv ==
  /\ robots \in [Hosts -> Marks \cup SUBSET Url]
  /\ sink = NoFile \/ Written(sink)
  /\ Written(hashed)
  /\ began = NoFile \/ began \in Seq(Byte)

\* How far the run is: what is hashed is what is written, no more is to come than the answer
\* declared, and a part an earlier run left is still the start of the file.
FlowInv ==
  /\ fstep # "idle" => exit = "running"
  /\ fstep \in {"check", "ask"} => to = "pipe" \/ began = sink
  /\ fstep \in {"check", "ask"} => tries = 0 /\ got = 0
  /\ fstep \in {"stream", "resume"} =>
       /\ Written(sink) /\ hashed = sink /\ got <= Len(sink) /\ (tries = 0 => got = 0)
       /\ older => began # NoFile /\ IsPrefix(began, sink)
  /\ fstep = "stream" =>
       /\ body.v \in 1..version /\ Len(sink) + body.left <= Size + 1
       /\ declared # None => Len(sink) + body.left <= declared
       /\ tries > 0 => declared # None
  /\ fstep = "resume" => declared # None /\ Len(sink) <= declared

\* What is written is of one version until a range of another is appended, and no range is
\* appended before one is asked for.
VersionInv ==
  /\ ~spliced => OneVersion(sink)
  /\ fstep = "stream" /\ ~spliced => \A i \in 1..Len(sink) : sink[i].v = body.v
  /\ fstep = "stream" /\ tries = 0 => ~spliced
  /\ fstep = "resume" /\ tries = 0 => Len(sink) < declared

\* The rest of the type invariant.
Scalars ==
  /\ version \in 1..MaxVersions /\ to \in {"pipe", "probe", "approved", "outside"}
  /\ fstep \in {"idle", "check", "ask", "stream", "resume"}
  /\ url \in Url /\ hops \in 0..MaxHops /\ attempt \in 0..Attempts
  /\ declared \in 0..Size /\ body \in [left : 0..Size + 1, v : 0..MaxVersions, ends : Ends]
  /\ tries \in 0..MaxResumes /\ stalled \in 0..1 /\ got \in 0..Size /\ older \in BOOLEAN
  /\ spliced \in BOOLEAN /\ exit \in Codes /\ runs \in 0..MaxRuns

FetchInv ==
  Scalars /\ HeldInv /\ FlowInv /\ VersionInv /\ OkIsWhole /\ FailureLeavesNothing /\ AskedAsAllowed

LEMMA BoundedIsSeq ==
  ASSUME NEW S, NEW n \in Nat, NEW s PROVE s \in BoundedSeq(S, n) <=> s \in Seq(S) /\ Len(s) <= n
  <1>1. ASSUME s \in BoundedSeq(S, n) PROVE s \in Seq(S) /\ Len(s) <= n
    <2>1. PICK m \in 0..n : s \in [1..m -> S]
      BY <1>1 DEF BoundedSeq, SeqOf
    <2>2. m \in Nat /\ s \in Seq(S) /\ Len(s) = m
      BY <2>1
    <2> QED BY <2>1, <2>2
  <1>2. ASSUME s \in Seq(S), Len(s) <= n PROVE s \in BoundedSeq(S, n)
    <2>1. s \in [1..Len(s) -> S] /\ Len(s) \in 0..n
      BY <1>2
    <2> QED BY <2>1 DEF BoundedSeq, SeqOf
  <1> QED BY <1>1, <1>2

LEMMA PrefixOfItself == ASSUME NEW S, NEW s \in Seq(S) PROVE IsPrefix(s, s)
  BY DEF IsPrefix

LEMMA PrefixOfMore ==
  ASSUME NEW S, NEW s \in Seq(S), NEW t \in Seq(S), NEW b \in S, IsPrefix(s, t)
  PROVE  IsPrefix(s, Append(t, b))
  <1>1. Len(s) <= Len(t) /\ SubSeq(s, 1, Len(s)) = SubSeq(t, 1, Len(s))
    BY DEF IsPrefix
  <1>2. Len(Append(t, b)) = Len(t) + 1 /\ Append(t, b) \in Seq(S)
    OBVIOUS
  <1>3. SubSeq(Append(t, b), 1, Len(s)) = SubSeq(t, 1, Len(s))
    <2>1. \A i \in 1..Len(s) : Append(t, b)[i] = t[i]
      BY <1>1
    <2>2. Len(s) \in Nat /\ (\A i \in 1..Len(s) : t[i] \in S)
      BY <1>1
    <2>3. \A u \in Seq(S) : Len(u) >= Len(s) =>
            /\ SubSeq(u, 1, Len(s)) \in Seq(S) /\ Len(SubSeq(u, 1, Len(s))) = Len(s)
            /\ \A i \in 1..Len(s) : SubSeq(u, 1, Len(s))[i] = u[i]
      <3> SUFFICES ASSUME NEW u \in Seq(S), Len(u) >= Len(s)
                   PROVE  /\ SubSeq(u, 1, Len(s)) \in Seq(S) /\ Len(SubSeq(u, 1, Len(s))) = Len(s)
                          /\ \A i \in 1..Len(s) : SubSeq(u, 1, Len(s))[i] = u[i]
        OBVIOUS
      <3>1. \A i \in 1..Len(s) : u[i] \in S
        BY <2>2
      <3>2. /\ SubSeq(u, 1, Len(s)) \in Seq(S)
            /\ Len(SubSeq(u, 1, Len(s))) = IF 1 <= Len(s) THEN Len(s) - 1 + 1 ELSE 0
            /\ \A i \in 1..Len(s) - 1 + 1 : SubSeq(u, 1, Len(s))[i] = u[1 + i - 1]
        BY <2>2, <3>1, SubSeqProperties
      <3> QED BY <2>2, <3>2
    <2>4. \A i \in 1..Len(s) : SubSeq(Append(t, b), 1, Len(s))[i] = SubSeq(t, 1, Len(s))[i]
      BY <1>1, <1>2, <2>1, <2>2, <2>3
    <2>5. /\ SubSeq(Append(t, b), 1, Len(s)) \in Seq(S) /\ SubSeq(t, 1, Len(s)) \in Seq(S)
          /\ Len(SubSeq(Append(t, b), 1, Len(s))) = Len(s) /\ Len(SubSeq(t, 1, Len(s))) = Len(s)
      BY <1>1, <1>2, <2>2, <2>3
    <2> QED BY <2>4, <2>5, SeqEqual
  <1> QED BY <1>1, <1>2, <1>3 DEF IsPrefix

LEMMA NothingIsWritten == Written(<<>>) /\ <<>> # NoFile /\ (\A s : Written(s) => s # NoFile)
  <1>1. Written(<<>>)
    BY FetchAssumption DEF Written
  <1>2. Len(NoFile) = 1 /\ NoFile[1].at = 0 /\ Len(<<>>) = 0
    BY DEF NoFile
  <1>3. ASSUME NEW s, Written(s) PROVE s # NoFile
    <2>1. 1 \in 1..Len(s) => s[1].at = 1
      BY <1>3 DEF Written
    <2> QED BY <1>2, <2>1
  <1> QED BY <1>1, <1>2, <1>3

LEMMA WrittenMore ==
  ASSUME NEW s, Written(s), Len(s) + 1 <= Size + 1, NEW w \in 1..version, version \in 1..MaxVersions
  PROVE  LET b == [v |-> w, at |-> Len(s) + 1] IN
         b \in Byte /\ Written(Append(s, b)) /\ Len(Append(s, b)) = Len(s) + 1
  <1> DEFINE b == [v |-> w, at |-> Len(s) + 1]
  <1>1. s \in Seq(Byte) /\ Len(s) \in Nat
    BY DEF Written
  <1>2. b \in Byte
    BY <1>1, FetchAssumption DEF Byte
  <1>3. Append(s, b) \in Seq(Byte) /\ Len(Append(s, b)) = Len(s) + 1
    BY <1>1, <1>2
  <1>4. \A i \in 1..Len(s) + 1 : Append(s, b)[i] = IF i = Len(s) + 1 THEN b ELSE s[i]
    BY <1>1, <1>2
  <1>5. Written(Append(s, b))
    BY <1>1, <1>3, <1>4 DEF Written
  <1> QED BY <1>2, <1>3, <1>5

LEMMA BoundsAreNumbers ==
  /\ Size \in Nat /\ Cap \in Nat /\ Attempts \in Nat \ {0} /\ MaxVersions \in Nat \ {0}
  /\ MaxHops \in Nat /\ MaxResumes \in Nat /\ MaxRuns \in Nat
  BY FetchAssumption

LEMMA NothingOpen == NoBody \in [left : 0..Size + 1, v : 0..MaxVersions, ends : Ends]
  BY BoundsAreNumbers DEF NoBody, Ends

\* What a run at rest has of the rest of the type invariant.
LEMMA RestIsTyped ==
  ASSUME AtRest
  PROVE  /\ url' \in Url /\ hops' \in 0..MaxHops /\ attempt' \in 0..Attempts /\ declared' \in 0..Size
         /\ body' \in [left : 0..Size + 1, v : 0..MaxVersions, ends : Ends]
         /\ tries' \in 0..MaxResumes /\ stalled' \in 0..1 /\ got' \in 0..Size /\ older' \in BOOLEAN
  <1>1. body' \in [left : 0..Size + 1, v : 0..MaxVersions, ends : Ends]
    BY NothingOpen DEF AtRest
  <1>2. older' \in BOOLEAN
    BY DEF AtRest
  <1>3. url' \in Url
    BY FetchAssumption DEF AtRest
  <1>4. /\ hops' \in 0..MaxHops /\ attempt' \in 0..Attempts /\ declared' \in 0..Size
        /\ tries' \in 0..MaxResumes /\ stalled' \in 0..1 /\ got' \in 0..Size
    BY BoundsAreNumbers DEF AtRest, None
  <1> QED BY <1>1, <1>2, <1>3, <1>4

LEMMA FewAreOneVersion == OneVersion(NoFile) /\ OneVersion(<<>>)
  <1>1. Len(NoFile) = 1 /\ Len(<<>>) = 0 /\ 1..1 = {1} /\ 1..0 = {}
    BY DEF NoFile
  <1> QED BY <1>1 DEF OneVersion

LEMMA FetchStarts == FetchInit => FetchInv
  <1> SUFFICES ASSUME FetchInit PROVE FetchInv
    OBVIOUS
  <1> USE FetchAssumption DEF FetchInit
  <1>1. Scalars
    <2>1. older \in BOOLEAN
      OBVIOUS
    <2>2. body \in [left : 0..Size + 1, v : 0..MaxVersions, ends : Ends]
      BY NothingOpen
    <2>3. url \in Url /\ exit \in Codes /\ fstep = "idle"
      BY DEF Codes
    <2>4. version \in 1..MaxVersions /\ declared \in 0..Size /\ hops \in 0..MaxHops /\ attempt \in 0..Attempts
      BY BoundsAreNumbers DEF None
    <2>5. tries \in 0..MaxResumes /\ stalled \in 0..1 /\ got \in 0..Size /\ runs \in 0..MaxRuns
      BY BoundsAreNumbers
    <2> QED BY <2>1, <2>2, <2>3, <2>4, <2>5 DEF Scalars
  <1>2. HeldInv
    <2>1. NoRules \in [Hosts -> Marks \cup SUBSET Url]
      BY DEF NoRules, Hosts, Marks
    <2> QED BY <2>1, NothingIsWritten DEF HeldInv
  <1>3. FlowInv /\ VersionInv
    BY FewAreOneVersion DEF FlowInv, VersionInv
  <1>4. OkIsWhole /\ FailureLeavesNothing /\ AskedAsAllowed
    BY DEF OkIsWhole, FailureLeavesNothing, AskedAsAllowed
  <1> QED BY <1>1, <1>2, <1>3, <1>4 DEF FetchInv

\* A run that ends without a receipt of its bytes is at rest, whatever it leaves.
LEMMA Ended ==
  ASSUME FetchInv, NEW code \in Codes \ {"running", "ok"}, Exit(code), UNCHANGED <<version, to, began, spliced, runs>>,
         sink' \in {sink, NoFile},
         to # "pipe" /\ code \notin {"killed", "traceback"} =>
           sink' = NoFile \/ (began # NoFile /\ IsPrefix(began, sink'))
  PROVE  FetchInv'
  <1> USE FetchAssumption DEF FetchInv, Exit, AtRest
  <1>1. Scalars'
    BY RestIsTyped DEF Scalars
  <1>2. HeldInv'
    <2>1. NoRules \in [Hosts -> Marks \cup SUBSET Url]
      BY DEF NoRules, Hosts, Marks
    <2>2. Written(<<>>)'
      BY NothingIsWritten DEF Written
    <2>3. (sink = NoFile \/ Written(sink))' /\ (began = NoFile \/ began \in Seq(Byte))'
      BY DEF HeldInv, Written
    <2> QED BY <2>1, <2>2, <2>3 DEF HeldInv
  <1>3. FlowInv'
    BY DEF FlowInv
  <1>4. OkIsWhole' /\ AskedAsAllowed'
    BY DEF OkIsWhole, AskedAsAllowed
  <1>5. FailureLeavesNothing'
    BY DEF FailureLeavesNothing
  <1>6. VersionInv'
    BY FewAreOneVersion DEF VersionInv, OneVersion
  <1> QED BY <1>1, <1>2, <1>3, <1>4, <1>5, <1>6

\* A run that ends well has written what it hashed, as much as was declared.
LEMMA EndedWell ==
  ASSUME FetchInv, Exit("ok"), Keep, UNCHANGED <<version, to, began, spliced, runs>>,
         fstep \in {"stream", "resume"}, declared # None => Len(sink) = declared
  PROVE  FetchInv'
  <1> USE DEF FetchInv, Exit, Keep, place, transfer
  <1>1. Scalars'
    BY DEF Scalars, Codes
  <1>2. HeldInv'
    BY DEF HeldInv, Written
  <1>3. FlowInv'
    BY DEF FlowInv
  <1>4. OkIsWhole'
    <2>1. hashed = sink /\ Written(sink)
      BY DEF FlowInv
    <2>2. DOMAIN sink = 1..Len(sink) /\ \A i \in DOMAIN sink : sink[i].at = i /\ sink[i].v \in 1..version
      BY <2>1 DEF Written
    <2>3. tries = 0 /\ declared # None => ~spliced
      <3>1. Len(sink) \in Nat /\ declared \in Nat
        BY <2>1, BoundsAreNumbers DEF Written, Scalars
      <3> QED BY <3>1 DEF VersionInv
    <2>4. ~spliced => OneVersion(sink)
      BY DEF VersionInv
    <2> QED BY <2>1, <2>2, <2>3, <2>4 DEF OkIsWhole, OneVersion
  <1>5. FailureLeavesNothing' /\ AskedAsAllowed'
    BY DEF FailureLeavesNothing, AskedAsAllowed
  <1>6. VersionInv'
    BY DEF VersionInv, OneVersion
  <1> QED BY <1>1, <1>2, <1>3, <1>4, <1>5, <1>6

\* A step of a run that does not end it.
LEMMA GoesOnFetching ==
  ASSUME Scalars', HeldInv', FlowInv', VersionInv', AskedAsAllowed', exit' = "running"
  PROVE  FetchInv'
  BY DEF FetchInv, OkIsWhole, FailureLeavesNothing

\* Before anything is written, a run that ends leaves what it found.
LEMMA EndedEarly ==
  ASSUME FetchInv, NEW code \in Codes \ {"running", "ok"}, fstep \in {"check", "ask"}, Exit(code), Keep,
         UNCHANGED <<version, to, began, spliced, runs>>
  PROVE  FetchInv'
  <1>1. to # "pipe" => sink = NoFile \/ (began # NoFile /\ IsPrefix(began, sink))
    BY PrefixOfItself DEF FetchInv, FlowInv, HeldInv, Written
  <1> QED BY <1>1, Ended DEF Keep

\* A resume that is given up leaves what it found, or nothing.
LEMMA Abandoned ==
  ASSUME FetchInv, NEW code \in {"failed", "cap"}, fstep \in {"stream", "resume"}, Exit(code),
         IF older THEN Keep ELSE Discard, UNCHANGED <<version, to, began, spliced, runs>>
  PROVE  FetchInv'
  <1>1. sink' \in {sink, NoFile}
    BY DEF Keep, Discard
  <1>2. to # "pipe" => sink' = NoFile \/ (began # NoFile /\ IsPrefix(began, sink'))
    BY DEF FetchInv, FlowInv, Keep, Discard
  <1> QED BY <1>1, <1>2, Ended DEF Codes

LEMMA StartKeeps == ASSUME FetchInv, Start PROVE FetchInv'
  <1> USE FetchAssumption DEF FetchInv, Start, AtRest
  <1>1. HeldInv' /\ Written(<<>>)'
    <2>1. NoRules \in [Hosts -> Marks \cup SUBSET Url]
      BY DEF NoRules, Hosts, Marks
    <2>2. Written(<<>>)'
      BY NothingIsWritten DEF Written
    <2>3. (sink = NoFile \/ Written(sink))' /\ (began = NoFile \/ began \in Seq(Byte))'
      BY <2>2 DEF HeldInv, Written
    <2> QED BY <2>1, <2>2, <2>3 DEF HeldInv
  <1>2. Scalars'
    <2>1. fstep' \in {"check", "idle"} /\ exit' \in Codes
      BY DEF Scalars, Codes
    <2>2. runs' \in 0..MaxRuns
      BY BoundsAreNumbers DEF Scalars
    <2> QED BY <2>1, <2>2, RestIsTyped DEF Scalars
  <1>3. FlowInv'
    BY DEF FlowInv
  <1>4. OkIsWhole' /\ AskedAsAllowed'
    BY DEF OkIsWhole, AskedAsAllowed, Scalars
  <1>5. FailureLeavesNothing'
    BY PrefixOfItself DEF FailureLeavesNothing, HeldInv, Written
  <1>6. VersionInv'
    <2>1. fstep' \in {"check", "idle"}
      BY DEF Scalars
    <2>2. CASE sink' = sink /\ spliced' = spliced
      BY <2>1, <2>2 DEF VersionInv, OneVersion
    <2>3. CASE sink' = <<>>
      BY <2>1, <2>3, FewAreOneVersion DEF VersionInv, OneVersion
    <2>4. to # "pipe" /\ to # "outside" => sink' = sink /\ spliced' = (TRUE /\ spliced)
      OBVIOUS
    <2>5. spliced \in BOOLEAN => (TRUE /\ spliced) = spliced
      OBVIOUS
    <2> QED BY <2>2, <2>3, <2>4, <2>5 DEF Scalars
  <1> QED BY <1>1, <1>2, <1>3, <1>4, <1>5, <1>6

LEMMA CheckKeeps ==
  ASSUME FetchInv, NEW rules \in {Unreadable} \cup SUBSET Url, Check(rules) PROVE FetchInv'
  <1> USE DEF Check
  <1> DEFINE h     == HostOf[url]
             known == IF robots[h] = Unread THEN rules ELSE robots[h]
  <1>1. fstep = "check" /\ Keep /\ UNCHANGED <<version, to, began, spliced, runs>>
    OBVIOUS
  <1>2. CASE url \in Cdx \/ known = Unreadable \/ url \notin known
    <2>1. PICK code \in {"cdx", "unreadable", "refused"} : Exit(code)
      BY <1>2
    <2> QED BY <1>1, <2>1, EndedEarly DEF Codes
  <1>3. CASE url \notin Cdx /\ known # Unreadable /\ url \in known
    <2> USE FetchAssumption DEF FetchInv, Keep
    <2>1. /\ robots' = [robots EXCEPT ![h] = known] /\ attempt' = 1 /\ fstep' = "ask" /\ sink' = sink
          /\ UNCHANGED <<url, hops, transfer, exit>> /\ exit = "running"
      BY <1>1, <1>3 DEF FlowInv
    <2>2. url \in Url /\ h \in Hosts /\ robots \in [Hosts -> Marks \cup SUBSET Url]
      BY DEF Scalars, HeldInv, Hosts
    <2>3. known \in Marks \cup SUBSET Url /\ known # Unread
      BY <1>3, <2>2 DEF Marks, Unread
    <2>4. Scalars'
      BY <1>1, <2>1, <2>2 DEF Scalars, transfer
    <2>5. HeldInv'
      BY <1>1, <2>1, <2>2, <2>3 DEF HeldInv, Written, transfer
    <2>6. FlowInv'
      BY <1>1, <2>1 DEF FlowInv, transfer
    <2>7. AskedAsAllowed'
      BY <1>3, <2>1, <2>2, <2>3 DEF AskedAsAllowed
    <2>8. VersionInv'
      BY <1>1, <2>1 DEF VersionInv, OneVersion
    <2> QED BY <2>1, <2>4, <2>5, <2>6, <2>7, <2>8, GoesOnFetching
  <1> QED BY <1>2, <1>3

LEMMA AskEnds ==
  ASSUME FetchInv, NEW code \in {"failed", "cap", "type"}, fstep = "ask", Exit(code), Keep,
         UNCHANGED <<version, to, began, spliced, runs>>
  PROVE  FetchInv'
  BY EndedEarly DEF Codes

LEMMA ThrottledKeeps == ASSUME FetchInv, NEW long \in BOOLEAN, Throttled(long) PROVE FetchInv'
  <1> USE DEF Throttled
  <1>1. CASE long \/ attempt = Attempts
    BY <1>1, AskEnds
  <1>2. CASE ~(long \/ attempt = Attempts)
    <2> USE DEF FetchInv
    <2>1. /\ attempt' = attempt + 1 /\ exit = "running" /\ fstep = "ask"
          /\ UNCHANGED <<sink, url, hops, robots, fstep, transfer, exit, version, to, began, spliced, runs>>
      BY <1>2 DEF Keep, FlowInv
    <2>2. attempt' \in 0..Attempts
      BY <1>2, <2>1, BoundsAreNumbers DEF Scalars
    <2>3. Scalars' BY <2>1, <2>2 DEF Scalars, transfer
    <2>4. HeldInv' BY <2>1 DEF HeldInv, Written, transfer
    <2>5. FlowInv' BY <2>1 DEF FlowInv, transfer
    <2>6. AskedAsAllowed' BY <2>1 DEF AskedAsAllowed
    <2>7. VersionInv' BY <2>1 DEF VersionInv, OneVersion
    <2> QED BY <2>1, <2>3, <2>4, <2>5, <2>6, <2>7, GoesOnFetching
  <1> QED BY <1>1, <1>2

LEMMA RedirectedKeeps == ASSUME FetchInv, NEW next_ \in Url, Redirected(next_) PROVE FetchInv'
  <1> USE DEF Redirected
  <1>1. CASE hops = MaxHops
    BY <1>1, AskEnds
  <1>2. CASE hops # MaxHops
    <2> USE DEF FetchInv
    <2>1. /\ hops' = hops + 1 /\ url' = next_ /\ attempt' = 0 /\ fstep' = "check" /\ exit = "running"
          /\ UNCHANGED <<sink, robots, transfer, exit, version, to, began, spliced, runs>> /\ fstep = "ask"
      BY <1>2 DEF Keep, FlowInv
    <2>2. hops' \in 0..MaxHops /\ attempt' \in 0..Attempts
      BY <1>2, <2>1, BoundsAreNumbers DEF Scalars
    <2>3. Scalars' BY <2>1, <2>2 DEF Scalars, transfer
    <2>4. HeldInv' BY <2>1 DEF HeldInv, Written, transfer
    <2>5. FlowInv' BY <2>1 DEF FlowInv, transfer
    <2>6. AskedAsAllowed' BY <2>1 DEF AskedAsAllowed
    <2>7. VersionInv' BY <2>1 DEF VersionInv, OneVersion
    <2> QED BY <2>1, <2>3, <2>4, <2>5, <2>6, <2>7, GoesOnFetching
  <1> QED BY <1>1, <1>2

LEMMA ServedKeeps ==
  ASSUME FetchInv, NEW length \in {None, Size}, NEW kind \in {"text", "risky", "bad"}, NEW n \in 0..Size + 1,
         NEW e \in Ends, Served(length, kind, n, e)
  PROVE  FetchInv'
  <1> USE DEF Served
  <1>1. CASE length > Cap \/ kind = "bad" \/ (kind = "risky" /\ to = "probe")
    <2>1. PICK code \in {"cap", "type"} : Exit(code) /\ Keep /\ UNCHANGED spliced
      BY <1>1
    <2> QED BY <2>1, AskEnds
  <1>2. CASE ~(length > Cap) /\ kind # "bad" /\ ~(kind = "risky" /\ to = "probe")
    <2> USE DEF FetchInv
    <2>0. /\ fstep = "ask" /\ (length # None => n <= length) /\ declared' = length /\ exit = "running"
          /\ UNCHANGED <<place, exit, stalled, tries, got, version, to, began, runs>>
      BY <1>2 DEF FlowInv
    <2>1. AskedAsAllowed' BY <2>0 DEF AskedAsAllowed, place
    <2>2. tries = 0 /\ got = 0 /\ (to = "pipe" \/ began = sink)
      BY <2>0 DEF FlowInv
    <2>3. length \in 0..Size
      BY BoundsAreNumbers DEF None
    <2>4. CASE to # "pipe" /\ 0 < Length(sink) /\ Length(sink) < length
      <3>1. /\ hashed' = sink /\ older' = TRUE /\ fstep' = "resume" /\ body' = NoBody
            /\ UNCHANGED <<sink, spliced>>
        BY <1>2, <2>4 DEF Keep
      <3>2. sink # NoFile
        BY <2>4 DEF Length
      <3>3. Written(sink) /\ Length(sink) = Len(sink)
        BY <3>2 DEF HeldInv, Length
      <3>4. older' \in BOOLEAN
        BY <3>1
      <3>5. Scalars'
        BY <2>0, <2>3, <3>1, <3>4, NothingOpen DEF Scalars, place
      <3>6. HeldInv'
        BY <2>0, <3>1, <3>3 DEF HeldInv, Written, place
      <3>7. length # None
        BY <2>4, <3>3, BoundsAreNumbers DEF None, Written
      <3>8. IsPrefix(began, sink) /\ began # NoFile
        BY <2>2, <2>4, <3>2, <3>3, PrefixOfItself DEF Written
      <3>9. Len(sink) <= length /\ got <= Len(sink)
        BY <2>2, <2>3, <2>4, <3>3 DEF Written
      <3>10. Written(sink)'
        BY <2>0, <3>1, <3>3 DEF Written
      <3>11. FlowInv'
        BY <2>0, <2>2, <3>1, <3>7, <3>8, <3>9, <3>10 DEF FlowInv
      <3>12. VersionInv'
        BY <2>0, <2>4, <3>1, <3>3 DEF VersionInv, OneVersion
      <3> QED BY <2>0, <2>1, <3>5, <3>6, <3>11, <3>12, GoesOnFetching
    <2>5. CASE ~(to # "pipe" /\ 0 < Length(sink) /\ Length(sink) < length)
      <3>1. /\ hashed' = <<>> /\ older' = FALSE /\ fstep' = "stream" /\ body' = Answer(n, e) /\ sink' = <<>>
            /\ spliced' = FALSE
        BY <1>2, <2>5
      <3>2. older' \in BOOLEAN
        BY <3>1
      <3>3. body' \in [left : 0..Size + 1, v : 0..MaxVersions, ends : Ends] /\ body'.v = version /\ body'.left = n
        BY <3>1, BoundsAreNumbers DEF Answer, Scalars
      <3>4. Scalars'
        BY <2>0, <2>3, <3>1, <3>2, <3>3 DEF Scalars, place
      <3>5. Written(<<>>)' /\ Len(<<>>) = 0
        BY NothingIsWritten DEF Written
      <3>6. HeldInv'
        BY <2>0, <3>1, <3>5 DEF HeldInv, place
      <3>7. FlowInv'
        BY <2>0, <2>2, <2>3, <3>1, <3>3, <3>5, BoundsAreNumbers DEF FlowInv, Scalars
      <3>8. VersionInv'
        BY <3>1, <3>5, FewAreOneVersion DEF VersionInv, OneVersion
      <3> QED BY <2>0, <2>1, <3>1, <3>4, <3>6, <3>7, <3>8, GoesOnFetching
    <2> QED BY <2>4, <2>5
  <1> QED BY <1>1, <1>2

LEMMA OneByteLess ==
  ASSUME NEW r \in [left : 0..Size + 1, v : 0..MaxVersions, ends : Ends], r.left > 0
  PROVE  LET q == [r EXCEPT !.left = @ - 1] IN
         /\ r.left \in 1..Size + 1
         /\ q \in [left : 0..Size + 1, v : 0..MaxVersions, ends : Ends] /\ q.left = r.left - 1 /\ q.v = r.v
  BY BoundsAreNumbers

LEMMA ReadKeeps == ASSUME FetchInv, Read PROVE FetchInv'
  <1> USE DEF Read
  <1>1. CASE Len(hashed) + 1 > Cap
    BY <1>1, Abandoned
  <1>2. CASE ~(Len(hashed) + 1 > Cap)
    <2> USE DEF FetchInv
    <2> DEFINE b == [v |-> body.v, at |-> Len(sink) + 1]
    <2>1. hashed = sink /\ exit = "running" /\ Written(sink) /\ version \in 1..MaxVersions /\ fstep = "stream"
      BY DEF FlowInv, Scalars
    <2>2. /\ hashed' = Append(sink, b) /\ sink' = Append(sink, b) /\ body' = [body EXCEPT !.left = @ - 1]
          /\ got' = IF tries = 0 THEN got ELSE got + 1
          /\ UNCHANGED <<fstep, place, declared, tries, stalled, older, exit, version, to, began, spliced, runs>>
      BY <1>2, <2>1
    <2>3. /\ body.left \in 1..Size + 1 /\ body.v \in 1..version /\ Len(sink) \in Nat
          /\ Len(sink) + body.left <= Size + 1 /\ (declared # None => Len(sink) + body.left <= declared)
      <3>1. body.left \in 1..Size + 1
        BY OneByteLess DEF Scalars
      <3>2. Len(sink) \in Nat
        BY <2>1 DEF Written
      <3> QED BY <2>1, <3>1, <3>2 DEF FlowInv
    <2>4. /\ body' \in [left : 0..Size + 1, v : 0..MaxVersions, ends : Ends]
          /\ body'.left = body.left - 1 /\ body'.v = body.v
      BY <2>2, OneByteLess DEF Scalars
    <2>5. b \in Byte /\ Written(Append(sink, b)) /\ Len(Append(sink, b)) = Len(sink) + 1
      BY <2>1, <2>3, WrittenMore, BoundsAreNumbers
    <2>6. Written(sink)'
      BY <2>2, <2>5 DEF Written
    <2>7. got' \in 0..Size /\ got' <= Len(sink') /\ (tries = 0 => got' = 0)
      <3>1. got \in Nat /\ got <= Len(sink) /\ (tries = 0 => got = 0) /\ (tries > 0 => declared # None) /\ tries \in Nat
            /\ declared \in 0..Size
        BY <2>1 DEF FlowInv, Scalars
      <3>2. CASE tries = 0
        BY <2>2, <2>3, <2>5, <3>1, <3>2, BoundsAreNumbers
      <3>3. CASE tries # 0
        <4>1. declared # None /\ got' = got + 1
          BY <2>2, <3>1, <3>3
        <4>2. Len(sink) + body.left <= declared /\ Len(sink') = Len(sink) + 1
          BY <2>2, <2>3, <2>5, <4>1
        <4>3. got' <= Len(sink') /\ got' \in Nat /\ Len(sink') <= Size
          <5> HIDE DEF Read, FetchInv
          <5> QED BY <2>3, <3>1, <4>1, <4>2, BoundsAreNumbers
        <4> QED BY <3>3, <4>3, <2>3, <4>2, BoundsAreNumbers
      <3> QED BY <3>2, <3>3
    <2>8. Scalars'
      BY <2>2, <2>4, <2>7 DEF Scalars, place
    <2>9. HeldInv'
      BY <2>2, <2>6 DEF HeldInv, place
    <2>10. older => began # NoFile /\ IsPrefix(began, sink')
      <3>1. ASSUME older PROVE began \in Seq(Byte) /\ began # NoFile /\ IsPrefix(began, sink) /\ sink \in Seq(Byte)
        BY <2>1, <3>1 DEF HeldInv, FlowInv, Written
      <3> QED BY <2>2, <2>5, <3>1, PrefixOfMore
    <2>11. FlowInv'
      BY <2>1, <2>2, <2>3, <2>4, <2>5, <2>6, <2>7, <2>10 DEF FlowInv
    <2>12. AskedAsAllowed'
      BY <2>2 DEF AskedAsAllowed, place
    <2>13. VersionInv'
      <3>1. \A i \in 1..Len(sink) + 1 : Append(sink, b)[i] = IF i = Len(sink) + 1 THEN b ELSE sink[i]
        BY <2>1, <2>5 DEF Written
      <3>2. ASSUME ~spliced PROVE \A i \in 1..Len(sink') : sink'[i].v = body'.v
        BY <2>1, <2>2, <2>3, <2>4, <2>5, <3>1, <3>2 DEF VersionInv
      <3>3. fstep' = "stream" /\ spliced' = spliced /\ tries' = tries /\ fstep = "stream"
        BY <2>1, <2>2
      <3> QED BY <3>2, <3>3 DEF VersionInv, OneVersion
    <2> QED BY <2>1, <2>2, <2>8, <2>9, <2>11, <2>12, <2>13, GoesOnFetching
  <1> QED BY <1>1, <1>2

LEMMA FirstEndsKeeps == ASSUME FetchInv, FirstEnds PROVE FetchInv'
  <1> USE DEF FirstEnds
  <1>1. CASE body.ends = "broken" /\ (to # "pipe" \/ declared = None)
    <2>1. sink' \in {sink, NoFile} /\ (to # "pipe" => sink' = NoFile)
      BY <1>1 DEF Discard
    <2> QED BY <1>1, <2>1, Ended DEF Codes
  <1>2. CASE ~(body.ends = "broken" /\ (to # "pipe" \/ declared = None)) /\ declared # None /\ Len(hashed) < declared
    <2> USE DEF FetchInv
    <2>1. /\ fstep' = "resume" /\ exit = "running" /\ fstep = "stream"
          /\ UNCHANGED <<sink, place, transfer, exit, version, to, began, spliced, runs>>
      BY <1>2 DEF Keep, FlowInv
    <2>2. hashed = sink
      BY <2>1 DEF FlowInv
    <2>3. Len(sink) <= declared
      BY <1>2, <2>2, BoundsAreNumbers DEF Scalars, HeldInv, Written
    <2>4. Scalars' BY <2>1 DEF Scalars, place, transfer
    <2>5. HeldInv' BY <2>1 DEF HeldInv, Written, place, transfer
    <2>6. FlowInv' BY <1>2, <2>1, <2>3 DEF FlowInv, Written, transfer
    <2>7. AskedAsAllowed' BY <2>1 DEF AskedAsAllowed, place
    <2>8. VersionInv' BY <1>2, <2>1, <2>2 DEF VersionInv, OneVersion, transfer
    <2> QED BY <2>1, <2>4, <2>5, <2>6, <2>7, <2>8, GoesOnFetching
  <1>3. CASE ~(body.ends = "broken" /\ (to # "pipe" \/ declared = None)) /\ ~(declared # None /\ Len(hashed) < declared)
    <2>1. hashed = sink /\ Len(sink) \in Nat /\ (declared # None => Len(sink) + body.left <= declared) /\ body.left = 0
          /\ declared \in Nat
      BY BoundsAreNumbers DEF FetchInv, FlowInv, Scalars, Written
    <2>2. declared # None => Len(sink) = declared
      BY <1>3, <2>1
    <2> QED BY <1>3, <2>2, EndedWell
  <1> QED BY <1>1, <1>2, <1>3

LEMMA RangeEndsKeeps == ASSUME FetchInv, RangeEnds PROVE FetchInv'
  <1> USE DEF RangeEnds
  <1>1. CASE got = 0 /\ stalled = 1
    BY <1>1, Abandoned DEF Abandon
  <1>2. CASE ~(got = 0 /\ stalled = 1)
    <2> USE DEF FetchInv
    <2>1. /\ stalled' \in 0..1 /\ got' = 0 /\ fstep' = "resume" /\ exit = "running" /\ fstep = "stream" /\ tries > 0
          /\ UNCHANGED <<sink, place, declared, hashed, body, tries, older, exit, version, to, began, spliced, runs>>
      BY <1>2 DEF Keep, FlowInv
    <2>2. Written(sink) /\ Len(sink) \in Nat /\ declared # None /\ Len(sink) <= declared
      BY <2>1, BoundsAreNumbers DEF FlowInv, Scalars, Written
    <2>3. Scalars' BY <2>1, BoundsAreNumbers DEF Scalars, place
    <2>4. HeldInv' BY <2>1 DEF HeldInv, Written, place
    <2>5. FlowInv' BY <2>1, <2>2 DEF FlowInv, Written
    <2>6. AskedAsAllowed' BY <2>1 DEF AskedAsAllowed, place
    <2>7. VersionInv' BY <2>1 DEF VersionInv, OneVersion
    <2> QED BY <2>1, <2>3, <2>4, <2>5, <2>6, <2>7, GoesOnFetching
  <1> QED BY <1>1, <1>2

LEMMA ResumedKeeps == ASSUME FetchInv, Resumed PROVE FetchInv'
  <1>1. fstep = "resume" /\ Len(sink) >= declared /\ Len(sink) <= declared /\ Len(sink) \in Nat /\ declared \in Nat
    BY BoundsAreNumbers DEF FetchInv, FlowInv, Resumed, Scalars, Written
  <1> QED BY <1>1, EndedWell DEF Resumed

LEMMA RangedKeeps ==
  ASSUME FetchInv, NEW n \in 0..Size, NEW e \in Ends, Ranged(n, e)
  PROVE  FetchInv'
  <1> USE DEF FetchInv, Ranged, AskRange
  <1>1. /\ tries' = tries + 1 /\ body' = Answer(n, e) /\ got' = 0 /\ fstep' = "stream" /\ exit = "running"
        /\ fstep = "resume" /\ tries < MaxResumes /\ n <= declared - Len(sink)
        /\ UNCHANGED <<sink, place, declared, hashed, stalled, older, exit, version, to, began, runs>>
    BY DEF Keep, FlowInv
  <1>2. body' \in [left : 0..Size + 1, v : 0..MaxVersions, ends : Ends] /\ body'.v = version /\ body'.left = n
    BY <1>1, BoundsAreNumbers DEF Answer, Scalars
  <1>3. /\ Written(sink) /\ Len(sink) \in Nat /\ declared # None /\ declared \in 0..Size /\ tries \in 0..MaxResumes
        /\ version \in 1..MaxVersions
    BY <1>1 DEF FlowInv, Scalars, Written
  <1>4. tries' \in 0..MaxResumes /\ Len(sink) + n <= declared /\ Len(sink) + n <= Size + 1
    BY <1>1, <1>3, BoundsAreNumbers
  <1>5. Scalars'
    <2>1. spliced' \in BOOLEAN
      OBVIOUS
    <2> QED BY <1>1, <1>2, <1>4, <2>1, BoundsAreNumbers DEF Scalars, place
  <1>6. HeldInv' BY <1>1 DEF HeldInv, Written, place
  <1>7. FlowInv' BY <1>1, <1>2, <1>3, <1>4 DEF FlowInv, Written
  <1>8. AskedAsAllowed' BY <1>1 DEF AskedAsAllowed, place
  <1>9. VersionInv'
    <2>1. spliced' = (spliced \/ (sink # <<>> /\ Last(sink).v # version))
      BY <1>1 DEF FlowInv
    <2>2. ASSUME ~spliced' PROVE ~spliced /\ \A i \in 1..Len(sink) : sink[i].v = version
      <3>1. CASE sink = <<>>
        <4>1. ~spliced
          <5> HIDE DEF Ranged, FetchInv
          <5> QED BY <2>1, <2>2, Zenon
        <4>2. Len(sink) = 0
          BY <3>1
        <4> QED BY <4>1, <4>2
      <3>2. CASE sink # <<>>
        <4>1. Last(sink).v = version /\ ~spliced /\ Last(sink) = sink[Len(sink)]
          BY <2>1, <2>2, <3>2 DEF Last
        <4>2. Len(sink) \in 1..Len(sink)
          BY <1>3, <3>2 DEF Written
        <4> QED BY <4>1, <4>2 DEF VersionInv, OneVersion
      <3> QED BY <3>1, <3>2
    <2>3. tries' # 0 /\ fstep' = "stream" /\ sink' = sink /\ body'.v = version
      BY <1>1, <1>2, <1>3
    <2> QED BY <2>2, <2>3 DEF VersionInv, OneVersion
  <1> QED BY <1>1, <1>5, <1>6, <1>7, <1>8, <1>9, GoesOnFetching

LEMMA RangeThrottledKeeps == ASSUME FetchInv, RangeThrottled PROVE FetchInv'
  <1> USE DEF FetchInv, RangeThrottled, AskRange
  <1>1. /\ tries' = tries + 1 /\ exit = "running" /\ fstep = "resume" /\ tries < MaxResumes
        /\ UNCHANGED <<sink, fstep, place, declared, hashed, body, stalled, got, older, exit,
                       version, to, began, spliced, runs>>
    BY DEF Keep, FlowInv
  <1>2. tries' \in 0..MaxResumes /\ tries' # 0
    BY <1>1, BoundsAreNumbers DEF Scalars
  <1>3. Scalars' BY <1>1, <1>2 DEF Scalars, place
  <1>4. HeldInv' BY <1>1 DEF HeldInv, Written, place
  <1>5. FlowInv' BY <1>1, <1>2 DEF FlowInv, Written
  <1>6. AskedAsAllowed' BY <1>1 DEF AskedAsAllowed, place
  <1>7. VersionInv' BY <1>1, <1>2 DEF VersionInv, OneVersion
  <1> QED BY <1>1, <1>3, <1>4, <1>5, <1>6, <1>7, GoesOnFetching

\* A new version of the artifact takes nothing back from what was written of the old one.
LEMMA ChangeKeeps == ASSUME FetchInv, Change PROVE FetchInv'
  <1> USE DEF FetchInv, Change, place, transfer
  <1>1. version' \in 1..MaxVersions /\ 1..version \subseteq 1..version' /\ version' # 1
    BY BoundsAreNumbers DEF Scalars
  <1>2. Scalars' BY <1>1 DEF Scalars
  <1>3. \A s : Written(s) => s \in Seq(Byte) /\ Len(s) <= Size + 1 /\ \A i \in 1..Len(s) : s[i].at = i /\ s[i].v \in 1..version'
    BY <1>1 DEF Written
  <1>4. Written(hashed)' /\ (sink = NoFile \/ Written(sink))' /\ (Written(sink) => Written(sink)')
    BY <1>3 DEF HeldInv, Written
  <1>5. HeldInv' BY <1>4 DEF HeldInv
  <1>6. FlowInv' BY <1>1, <1>4 DEF FlowInv
  <1>7. OkIsWhole' BY DEF OkIsWhole, OneVersion
  <1>8. FailureLeavesNothing' /\ AskedAsAllowed' BY DEF FailureLeavesNothing, AskedAsAllowed
  <1>9. VersionInv' BY DEF VersionInv, OneVersion
  <1> QED BY <1>2, <1>5, <1>6, <1>7, <1>8, <1>9

\* For any urls, hosts and sizes, and any bounds on attempts, hops and resumes: a receipt of a
\* fetch whose length was known is of the whole artifact, a failure leaves no file of its own and
\* takes nothing from a part it continued, and only what robots.txt allows is asked (fetch.py).
THEOREM FetchReceiptIsSound == FetchSpec => []ReceiptIsSound
  <1>1. FetchInv /\ [FetchNext]_fetchVars => FetchInv'
    <2> SUFFICES ASSUME FetchInv, [FetchNext]_fetchVars PROVE FetchInv'
      OBVIOUS
    <2>1. ASSUME Run PROVE FetchInv'
      <3>1. CASE NotServed
        BY <3>1, AskEnds DEF NotServed
      <3>2. CASE RangeRefused
        BY <3>2, Abandoned DEF RangeRefused, AskRange, Abandon
      <3>3. CASE RangeRaises
        BY <3>3, Ended DEF RangeRaises, Keep, Codes
      <3> QED BY <2>1, <3>1, <3>2, <3>3, CheckKeeps, ThrottledKeeps, RedirectedKeeps, ServedKeeps, ReadKeeps,
                 FirstEndsKeeps, RangeEndsKeeps, ResumedKeeps, RangedKeeps, RangeThrottledKeeps DEF Run
    <2>2. CASE Kill
      BY <2>2, Ended DEF Kill, Exit, Keep, Codes
    <2>3. CASE UNCHANGED fetchVars
      BY <2>3 DEF fetchVars, place, transfer, FetchInv, Scalars, HeldInv, Written, FlowInv, VersionInv,
                  OneVersion, OkIsWhole, FailureLeavesNothing, AskedAsAllowed
    <2> QED BY <2>1, <2>2, <2>3, StartKeeps, ChangeKeeps DEF FetchNext
  <1>2. FetchInv => ReceiptIsSound
    <2> SUFFICES ASSUME FetchInv PROVE ReceiptIsSound
      OBVIOUS
    <2>1. hashed \in BoundedSeq(Byte, Size + 1) /\ (sink = NoFile \/ sink \in BoundedSeq(Byte, Size + 1))
      BY BoundedIsSeq, BoundsAreNumbers DEF FetchInv, HeldInv, Written
    <2>2. \A h \in DOMAIN robots : robots[h] \in {Unread, Unreadable} \/ robots[h] \subseteq Url
      BY DEF FetchInv, HeldInv, Marks
    <2> QED BY <2>1, <2>2 DEF ReceiptIsSound, FetchInv, FetchTypeOK, Scalars
  <1> QED BY <1>1, <1>2, FetchStarts, PTL DEF FetchSpec
=============================================================================
