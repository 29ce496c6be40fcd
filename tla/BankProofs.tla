------------------------------ MODULE BankProofs ------------------------------
(***************************************************************************)
(* Proofs about the bank, for any leads, journals and number of kills.     *)
(***************************************************************************)
EXTENDS Bank, TLAPS

USE SetsAssumption, BoundsAssumption DEF SetsAssumption, BoundsAssumption

USE DEF world, drains, registers, store, logs, shell, vars

-----------------------------------------------------------------------------
(* Types, one group of variables at a time. *)

LEMMA InitType == Init => TypeOK
  <1> SUFFICES ASSUME Init PROVE TypeOK
    OBVIOUS
  <1> USE DEF Init
  <1>1. pc \in Steps BY DEF Steps
  <1>2. WorldOK BY DEF WorldOK, Decision
  <1>3. StoreOK BY DEF StoreOK, Export
  <1>4. LogsOK
    <2>1. kills \in 0..MaxKills OBVIOUS
    <2>2. seen \subseteq landed /\ stamp \in Stamps \cup {NoStamp} OBVIOUS
    <2>3. red \in {"none", "b", "c"} OBVIOUS
    <2>4. retry \in BOOLEAN /\ push \in BOOLEAN /\ cut \in BOOLEAN OBVIOUS
    <2> QED BY <2>1, <2>2, <2>3, <2>4 DEF LogsOK
  <1>5. ShellOK BY DEF ShellOK
  <1> QED BY <1>1, <1>2, <1>3, <1>4, <1>5 DEF TypeOK

\* Every step of the bank goes to a place of its script.
LEMMA PcType == TypeOK /\ [Next]_vars => pc' \in Steps
  <1> SUFFICES ASSUME TypeOK, [Next]_vars PROVE pc' \in Steps
    OBVIOUS
  <1> USE DEF Steps, Ungated
  <1>1. CASE pc' = pc BY <1>1 DEF TypeOK
  <1>2. CASE Start \/ Kill BY <1>2 DEF Start, Kill
  <1>3. CASE Step
    <2>1. ASSUME NEW due \in BOOLEAN, NEW force \in BOOLEAN, Trigger(due, force) PROVE pc' \in Steps
      BY <2>1 DEF Trigger
    <2>2. CASE FoldPlain \/ FoldCdx BY <2>2 DEF FoldPlain, FoldCdx, Fold
    <2>3. CASE Gate BY <2>3 DEF Gate, ExportClaim, Touch, CheckC, CheckB
    <2>4. CASE Request \/ Decide BY <2>4 DEF Request, Decide
    <2>5. CASE Approve
      <3>1. ASSUME NEW gone \in SUBSET Lead, Plan(gone) PROVE pc' \in Steps BY <3>1 DEF Plan
      <3>2. ASSUME NEW l \in Lead, Ingest(l) PROVE pc' \in Steps BY <3>2 DEF Ingest
      <3>3. CASE IngestsDone \/ Outcome BY <3>3 DEF IngestsDone, Outcome
      <3>4. CASE Rollback BY <3>4 DEF Rollback, Unbank, Checkout, RedB, ExportClaim, Recheck
      <3> QED BY <2>5, <3>1, <3>2, <3>3, <3>4 DEF Approve
    <2>6. CASE Finish BY <2>6 DEF Finish, Stamp, Commit, Move, Publish, RetryPush
    <2> QED BY <1>3, <2>1, <2>2, <2>3, <2>4, <2>5, <2>6 DEF Step
  <1>4. CASE World \/ Clean \/ Fix \/ RedClear
    BY <1>1, <1>4 DEF World, NewBaseline, Land, Age, Clean, Fix, RedClear
  <1> QED BY <1>1, <1>2, <1>3, <1>4 DEF Next

LEMMA WorldType == TypeOK /\ [Next]_vars => WorldOK'
  <1> SUFFICES ASSUME TypeOK, [Next]_vars PROVE WorldOK'
    OBVIOUS
  <1>0. ASSUME UNCHANGED <<landed, young, marker, incoming, banked, page, live>> PROVE WorldOK'
    BY <1>0 DEF TypeOK, WorldOK
  <1> USE DEF TypeOK, WorldOK
  <1>1. CASE World
    <2>1. CASE NewBaseline BY <2>1 DEF NewBaseline
    <2>2. ASSUME NEW j \in Journal, Land(j) PROVE WorldOK'
      BY <2>2 DEF Land
    <2>3. ASSUME NEW j \in Journal, Age(j) PROVE WorldOK'
      BY <2>3 DEF Age
    <2> QED BY <1>1, <2>1, <2>2, <2>3 DEF World
  <1>2. CASE Clean BY <1>2 DEF Clean
  <1>3. CASE Start
    <2>1. live' \in [Lead -> Decision] /\ page' = live' BY <1>3 DEF Start, Decision
    <2>2. incoming' \subseteq Lead BY <1>3 DEF Start
    <2> QED BY <1>3, <2>1, <2>2 DEF Start
  <1>4. CASE Request BY <1>4 DEF Request, Decision
  <1>5. CASE Decide BY <1>5 DEF Decide, Decision
  <1>6. CASE Checkout BY <1>6 DEF Checkout
  <1>7. CASE Commit BY <1>7 DEF Commit
  <1>8. CASE Move BY <1>8 DEF Move
  <1>9. CASE Fix \/ RedClear \/ Kill BY <1>0, <1>9 DEF Fix, RedClear, Kill
  <1>10. ASSUME NEW due \in BOOLEAN, NEW force \in BOOLEAN, Trigger(due, force) PROVE WorldOK'
    BY <1>0, <1>10 DEF Trigger
  <1>11. CASE FoldPlain \/ FoldCdx BY <1>0, <1>11 DEF FoldPlain, FoldCdx, Fold
  <1>12. CASE Gate BY <1>0, <1>12 DEF Gate, ExportClaim, Touch, CheckC, CheckB
  <1>13. CASE Approve
    <2>1. ASSUME NEW gone \in SUBSET Lead, Plan(gone) PROVE WorldOK' BY <1>0, <2>1 DEF Plan
    <2>2. ASSUME NEW l \in Lead, Ingest(l) PROVE WorldOK' BY <1>0, <2>2 DEF Ingest
    <2>3. CASE IngestsDone \/ Outcome BY <1>0, <2>3 DEF IngestsDone, Outcome
    <2>4. CASE Rollback
      BY <1>0, <1>6, <2>4 DEF Rollback, Unbank, RedB, ExportClaim, Recheck
    <2> QED BY <1>13, <2>1, <2>2, <2>3, <2>4 DEF Approve
  <1>14. CASE Stamp \/ Publish \/ RetryPush BY <1>0, <1>14 DEF Stamp, Publish, RetryPush
  <1>15. CASE UNCHANGED vars BY <1>0, <1>15
  <1> QED
    BY <1>1, <1>2, <1>3, <1>4, <1>5, <1>7, <1>8, <1>9, <1>10, <1>11, <1>12, <1>13, <1>14,
       <1>15 DEF Next, Step, Finish

LEMMA StoreType == TypeOK /\ [Next]_vars => StoreOK'
  <1> SUFFICES ASSUME TypeOK, [Next]_vars PROVE StoreOK'
    OBVIOUS
  <1>0. ASSUME UNCHANGED <<landed, folded, rows, output, fleet, bad, gated>> PROVE StoreOK'
    BY <1>0 DEF TypeOK, StoreOK
  <1> USE DEF TypeOK, WorldOK, StoreOK, Export, Item
  <1>1. CASE World
    <2>1. CASE NewBaseline BY <1>0, <2>1 DEF NewBaseline
    <2>2. ASSUME NEW j \in Journal, Land(j) PROVE StoreOK'
      BY <2>2 DEF Land
    <2>3. ASSUME NEW j \in Journal, Age(j) PROVE StoreOK'
      BY <1>0, <2>3 DEF Age
    <2> QED BY <1>1, <2>1, <2>2, <2>3 DEF World
  <1>2. CASE Fix BY <1>2 DEF Fix
  <1>3. CASE RedClear BY <1>3 DEF RedClear, Checked, Stored
  <1>4. CASE Start \/ Clean \/ Request \/ Decide \/ Kill
    BY <1>0, <1>4 DEF Start, Clean, Request, Decide, Kill
  <1>5. ASSUME NEW due \in BOOLEAN, NEW force \in BOOLEAN, Trigger(due, force) PROVE StoreOK'
    BY <1>0, <1>5 DEF Trigger
  <1>6. CASE FoldPlain \/ FoldCdx
    <2>1. /\ folded' \subseteq landed
          /\ UNCHANGED <<landed, rows, output, fleet, bad, gated>>
      BY <1>6 DEF FoldPlain, FoldCdx, Fold
    <2> QED BY <2>1
  <1>7. ASSUME NEW from, NEW next, ExportClaim(from, next) PROVE StoreOK'
    BY <1>7 DEF ExportClaim
  <1>8. CASE Gate BY <1>0, <1>7, <1>8 DEF Gate, Touch, CheckC, CheckB, Checked, Stored
  <1>9. CASE Approve
    <2>1. ASSUME NEW gone \in SUBSET Lead, Plan(gone) PROVE StoreOK' BY <1>0, <2>1 DEF Plan
    <2>2. ASSUME NEW l \in Lead, Ingest(l) PROVE StoreOK' BY <2>2 DEF Ingest
    <2>3. CASE IngestsDone \/ Outcome BY <1>0, <2>3 DEF IngestsDone, Outcome
    <2>4. CASE Unbank BY <2>4 DEF Unbank
    <2>5. CASE Checkout \/ RedB BY <1>0, <2>5 DEF Checkout, RedB
    <2>6. CASE Recheck BY <2>6 DEF Recheck, Checked, Stored
    <2> QED BY <1>7, <1>9, <2>1, <2>2, <2>3, <2>4, <2>5, <2>6 DEF Approve, Rollback
  <1>10. CASE Stamp \/ Commit \/ Move BY <1>0, <1>10 DEF Stamp, Commit, Move
  <1>11. CASE Publish \/ RetryPush BY <1>11 DEF Publish, RetryPush, Stage
  <1>12. CASE UNCHANGED vars BY <1>0, <1>12
  <1> QED
    BY <1>1, <1>2, <1>3, <1>4, <1>5, <1>6, <1>8, <1>9, <1>10, <1>11, <1>12
       DEF Next, Step, Finish

LEMMA LogsType == TypeOK /\ [Next]_vars => LogsOK'
  <1> SUFFICES ASSUME TypeOK, [Next]_vars PROVE LogsOK'
    OBVIOUS
  <1>0. ASSUME UNCHANGED <<landed, seen, stamp, red, retry, push, cut, kills>> PROVE LogsOK'
    BY <1>0 DEF TypeOK, LogsOK
  <1> USE DEF TypeOK, LogsOK
  <1>1. CASE World
    <2>1. landed \subseteq landed' /\ UNCHANGED <<seen, stamp, red, retry, push, cut, kills>>
      BY <1>1 DEF World, NewBaseline, Land, Age
    <2>2. seen' \subseteq landed' BY <2>1
    <2>3. red' \in {"none", "b", "c"} /\ stamp' \in Stamps \cup {NoStamp} BY <2>1
    <2>4. retry' \in BOOLEAN /\ push' \in BOOLEAN /\ cut' \in BOOLEAN BY <2>1
    <2>5. kills' \in 0..MaxKills BY <2>1
    <2> QED BY <2>2, <2>3, <2>4, <2>5
  <1>2. CASE RedClear
    <2>1. red' \in {"none", red} BY <1>2 DEF RedClear
    <2>2. UNCHANGED <<landed, seen, stamp, retry, push, cut, kills>> BY <1>2 DEF RedClear
    <2> QED BY <2>1, <2>2
  <1>3. ASSUME NEW due \in BOOLEAN, NEW force \in BOOLEAN, Trigger(due, force) PROVE LogsOK'
    <2>1. seen' \in {landed, seen} BY <1>3 DEF Trigger
    <2>2. UNCHANGED <<landed, stamp, red, retry, push, cut, kills>> BY <1>3 DEF Trigger
    <2> QED BY <2>1, <2>2
  <1>4. CASE FoldPlain \/ FoldCdx BY <1>0, <1>4 DEF FoldPlain, FoldCdx, Fold
  <1>5. ASSUME NEW from, NEW next, ExportClaim(from, next) PROVE LogsOK'
    BY <1>0, <1>5 DEF ExportClaim
  <1>6. ASSUME NEW from, NEW next, Touch(from, next) PROVE LogsOK'
    <2>1. push' = TRUE /\ UNCHANGED <<landed, seen, stamp, red, retry, cut, kills>> BY <1>6 DEF Touch
    <2> QED BY <2>1
  <1>7. CASE CheckC
    <2>1. red' \in {red, "c"} /\ UNCHANGED <<landed, seen, stamp, retry, push, cut, kills>>
      BY <1>7 DEF CheckC
    <2> QED BY <2>1
  <1>8. CASE Gate BY <1>0, <1>5, <1>6, <1>7, <1>8 DEF Gate, CheckB
  <1>9. CASE Approve
    <2>1. ASSUME NEW gone \in SUBSET Lead, Plan(gone) PROVE LogsOK' BY <1>0, <2>1 DEF Plan
    <2>2. ASSUME NEW l \in Lead, Ingest(l) PROVE LogsOK' BY <1>0, <2>2 DEF Ingest
    <2>3. CASE IngestsDone
      <3>1. retry' \in BOOLEAN /\ UNCHANGED <<landed, seen, stamp, red, push, cut, kills>>
        BY <2>3 DEF IngestsDone
      <3> QED BY <3>1
    <2>4. CASE Outcome \/ Unbank \/ Checkout \/ Recheck
      BY <1>0, <2>4 DEF Outcome, Unbank, Checkout, Recheck
    <2>5. CASE RedB
      <3>1. red' = "b" /\ UNCHANGED <<landed, seen, stamp, retry, push, cut, kills>> BY <2>5 DEF RedB
      <3> QED BY <3>1
    <2> QED BY <1>5, <1>9, <2>1, <2>2, <2>3, <2>4, <2>5 DEF Approve, Rollback
  <1>10. CASE Stamp
    <2>1. stamp' \in Stamps BY <1>10 DEF Stamp, Stamps, WorldOK
    <2>2. UNCHANGED <<landed, seen, red, retry, push, cut, kills>> BY <1>10 DEF Stamp
    <2> QED BY <2>1, <2>2
  <1>11. CASE Commit \/ Move BY <1>0, <1>11 DEF Commit, Move
  <1>12. CASE Publish \/ RetryPush
    <2>1. push' \in BOOLEAN BY <1>12 DEF Publish, RetryPush, Stage
    <2>2. UNCHANGED <<landed, seen, stamp, red, retry, cut, kills>> BY <1>12 DEF Publish, RetryPush
    <2> QED BY <2>1, <2>2
  <1>13. CASE Kill
    <2>1. cut' \in BOOLEAN /\ UNCHANGED <<landed, seen, stamp, red, retry, push>> BY <1>13 DEF Kill
    <2>2. kills' \in 0..MaxKills BY <1>13 DEF Kill
    <2> QED BY <2>1, <2>2
  <1>14. CASE Start \/ Clean \/ Fix \/ Request \/ Decide
    BY <1>0, <1>14 DEF Start, Clean, Fix, Request, Decide
  <1>15. CASE UNCHANGED vars BY <1>0, <1>15
  <1> QED
    BY <1>1, <1>2, <1>3, <1>4, <1>8, <1>9, <1>10, <1>11, <1>12, <1>13, <1>14, <1>15
       DEF Next, Step, Finish

LEMMA ShellType == TypeOK /\ [Next]_vars => ShellOK'
  <1> SUFFICES ASSUME TypeOK, [Next]_vars PROVE ShellOK'
    OBVIOUS
  <1>0. ASSUME UNCHANGED <<why, failed, decided, absent, todo, ingested, exported>> PROVE ShellOK'
    BY <1>0 DEF TypeOK, ShellOK
  <1> USE DEF TypeOK, ShellOK
  <1>1. ASSUME NEW due \in BOOLEAN, NEW force \in BOOLEAN, Trigger(due, force) PROVE ShellOK'
    <2>1. why' \subseteq Reason BY <1>1 DEF Trigger, Paced, MovedGlobs, Prompt, Reason
    <2>2. UNCHANGED <<failed, decided, absent, todo, ingested, exported>> BY <1>1 DEF Trigger
    <2> QED BY <2>1, <2>2
  <1>2. CASE FoldPlain \/ FoldCdx
    <2>1. failed' \in BOOLEAN /\ UNCHANGED <<why, decided, absent, todo, ingested, exported>>
      BY <1>2 DEF FoldPlain, FoldCdx, Fold
    <2> QED BY <2>1
  <1>3. ASSUME NEW from, NEW next, ExportClaim(from, next) PROVE ShellOK'
    <2>1. failed' \in BOOLEAN /\ exported' = TRUE /\ UNCHANGED <<why, decided, absent, todo, ingested>>
      BY <1>3 DEF ExportClaim
    <2> QED BY <2>1
  <1>4. CASE Gate BY <1>0, <1>3, <1>4 DEF Gate, Touch, CheckC, CheckB
  <1>5. CASE Request BY <1>0, <1>5 DEF Request
  <1>6. CASE Decide
    <2>1. decided' \subseteq Lead BY <1>6 DEF Decide
    <2>2. UNCHANGED <<why, failed, absent, todo, ingested, exported>> BY <1>6 DEF Decide
    <2> QED BY <2>1, <2>2
  <1>7. CASE Approve
    <2>1. ASSUME NEW gone \in SUBSET Lead, Plan(gone) PROVE ShellOK'
      <3>1. absent' \subseteq Lead /\ todo' \subseteq Lead /\ failed' = FALSE BY <2>1 DEF Plan, Masters
      <3>2. UNCHANGED <<why, decided, ingested, exported>> BY <2>1 DEF Plan
      <3> QED BY <3>1, <3>2
    <2>2. ASSUME NEW l \in Lead, Ingest(l) PROVE ShellOK'
      <3>1. ingested' \subseteq Lead /\ todo' \subseteq Lead /\ failed' \in BOOLEAN BY <2>2 DEF Ingest
      <3>2. UNCHANGED <<why, decided, absent, exported>> BY <2>2 DEF Ingest
      <3> QED BY <3>1, <3>2
    <2>3. CASE IngestsDone \/ Outcome BY <1>0, <2>3 DEF IngestsDone, Outcome
    <2>4. CASE Rollback BY <1>0, <1>3, <2>4 DEF Rollback, Unbank, Checkout, RedB, Recheck
    <2> QED BY <1>7, <2>1, <2>2, <2>3, <2>4 DEF Approve
  <1>8. CASE Stamp \/ Commit \/ Move \/ Publish BY <1>0, <1>8 DEF Stamp, Commit, Move, Publish
  <1>9. CASE RetryPush \/ Kill BY <1>9 DEF RetryPush, Kill, ExitShell
  <1>10. CASE World \/ Start \/ Clean \/ Fix \/ RedClear
    BY <1>0, <1>10 DEF World, NewBaseline, Land, Age, Start, Clean, Fix, RedClear
  <1>11. CASE UNCHANGED vars BY <1>0, <1>11
  <1> QED
    BY <1>1, <1>2, <1>4, <1>5, <1>6, <1>7, <1>8, <1>9, <1>10, <1>11 DEF Next, Step, Finish

LEMMA TypeInductive == TypeOK /\ [Next]_vars => TypeOK'
  BY PcType, WorldType, StoreType, LogsType, ShellType DEF TypeOK

-----------------------------------------------------------------------------
(* Why no journal is called seen before it is folded: from the trigger to  *)
(* the stamp, what the trigger measured is folded, is about to be, or      *)
(* will be red.                                                            *)
FoldInv ==
  /\ StampedPlainIsFolded
  /\ pc = "foldPlain" => "plain" \in why \/ seen \ Cdx \subseteq folded
  /\ pc \in {"foldCdx", "exportC", "touchC", "checkC"} => failed \/ seen \ Cdx \subseteq folded
  /\ pc \in {"request", "decide", "plan", "ingest", "outcome", "exportB", "touchB", "checkB", "stamp"}
        => seen \ Cdx \subseteq folded

\* The places a bank reaches only while no red stands, and only under one.
NoRed   == Steps \ {"idle", "trigger", "retryPush", "reexport", "recheck"}
RedInv  == /\ pc \in NoRed => red = "none"
           /\ pc \in {"reexport", "recheck"} => red = "b"

\* Why only a checked export is published: an unchecked one is in output/
\* only on its way to the gate or under a red.
Exporting == {"touchC", "checkC", "touchB", "checkB", "unbank", "checkout", "redB"}
ExportInv ==
  /\ pc \in {"touchC", "checkC", "touchB"} /\ ~failed => output = "raw"
  /\ pc = "checkB" => output = "raw"
  /\ ~cut => /\ PublishedIsGated
             /\ pc \in Exporting \/ red # "none" \/ output \in {"none", "green"}

\* Why a green bank gated what it ingested and a red took it back: what no
\* check has passed is what this bank ingested.
RowsInv ==
  ~cut => /\ pc \in Ungated \/ red # "none" \/ rows \subseteq gated
          /\ pc \in {"ingest", "outcome", "exportB", "touchB", "checkB", "unbank"}
                => rows \ gated \subseteq ingested
          /\ pc = "checkout" => rows \ gated \subseteq OldSource
          /\ pc = "redB" \/ red = "b" => page = live /\ rows \ gated \subseteq OldSource

BankInv == FoldInv /\ RedInv /\ ExportInv /\ RowsInv

-----------------------------------------------------------------------------
LEMMA InitBankInv == Init => BankInv
  BY DEF Init, BankInv, FoldInv, StampedPlainIsFolded, RedInv, NoRed, Steps, Ungated, ExportInv,
         PublishedIsGated, Exporting, RowsInv

\* What the trigger leaves to fold: a bank that skips the plain journals, or
\* every journal, was stamped when they stood as they stand now.
LEMMA TriggerFolds ==
  ASSUME TypeOK, FoldInv, NEW due \in BOOLEAN, NEW force \in BOOLEAN, Trigger(due, force)
  PROVE  FoldInv'
  <1> DEFINE paced == IF due \/ Prompt # {} \/ stamp = NoStamp THEN Paced ELSE {}
             asked == IF force THEN (Reason \ {"find"}) \cup (Prompt \cap {"find"})
                               ELSE Prompt \cup paced
  <1>1. /\ UNCHANGED <<stamp, folded, failed>>
        /\ pc' \in {"retryPush", "foldPlain", "exportC", "request"}
    BY DEF Trigger
  <1>2. CASE pc' = "retryPush" BY <1>1, <1>2 DEF FoldInv, StampedPlainIsFolded
  <1>3. CASE pc' # "retryPush"
    <2>1. seen' = landed /\ why' = asked /\ (force \/ asked # {})
      BY <1>3 DEF Trigger
    <2>2. pc' = IF asked \cap {"plain", "cdx"} # {} THEN "foldPlain"
                ELSE IF "baseline" \in asked THEN "exportC" ELSE "request"
      BY <1>3 DEF Trigger
    <2>3. CASE "plain" \in asked
      BY <1>1, <2>1, <2>2, <2>3 DEF FoldInv, StampedPlainIsFolded
    <2>4. CASE "plain" \notin asked
      <3>1. ~force /\ asked = Prompt \cup paced BY <2>4 DEF Reason
      <3>2. asked # {} BY <2>1, <3>1
      <3>3. paced = Paced BY <3>1, <3>2
      <3>4. "plain" \notin MovedGlobs BY <2>4, <3>1, <3>3 DEF Paced
      <3>5. stamp # NoStamp /\ landed \cap (Journal \ Cdx) = stamp.fold \cap (Journal \ Cdx)
        BY <3>4 DEF MovedGlobs
      <3>6. seen' \ Cdx \subseteq folded'
        BY <1>1, <2>1, <3>5 DEF FoldInv, StampedPlainIsFolded, TypeOK, WorldOK
      <3> QED BY <1>1, <2>1, <2>2, <3>6 DEF FoldInv, StampedPlainIsFolded
    <2> QED BY <2>3, <2>4
  <1> QED BY <1>2, <1>3

LEMMA FoldInductive == TypeOK /\ FoldInv /\ [Next]_vars => FoldInv'
  <1> SUFFICES ASSUME TypeOK, FoldInv, [Next]_vars PROVE FoldInv'
    OBVIOUS
  <1>0. ASSUME UNCHANGED <<stamp, folded, pc, why, failed, seen>> PROVE FoldInv'
    BY <1>0 DEF FoldInv, StampedPlainIsFolded
  <1> DEFINE Before == {"foldPlain", "foldCdx", "exportC", "touchC", "checkC"}
             After  == {"request", "decide", "plan", "ingest", "outcome", "exportB", "touchB", "checkB", "stamp"}
  <1>a. ASSUME UNCHANGED <<stamp, folded, seen>>, pc' \notin Before, pc' \notin After PROVE FoldInv'
    BY <1>a DEF FoldInv, StampedPlainIsFolded
  <1>b. ASSUME UNCHANGED <<stamp, folded, seen>>, pc \in After, pc' \in After PROVE FoldInv'
    BY <1>b DEF FoldInv, StampedPlainIsFolded
  <1>c. ASSUME NEW from, NEW next, ExportClaim(from, next) PROVE UNCHANGED <<stamp, folded, seen>>
    BY <1>c DEF ExportClaim
  <1>1. CASE World \/ Clean \/ Fix \/ RedClear
    BY <1>0, <1>1 DEF World, NewBaseline, Land, Age, Clean, Fix, RedClear
  <1>2. CASE Start \/ Kill BY <1>a, <1>2 DEF Start, Kill
  <1>3. ASSUME NEW due \in BOOLEAN, NEW force \in BOOLEAN, Trigger(due, force) PROVE FoldInv'
    BY <1>3, TriggerFolds
  <1>4. CASE FoldPlain
    <2>1. /\ pc' = "foldCdx" /\ UNCHANGED <<stamp, seen>>
          /\ folded \subseteq folded'
          /\ failed' \/ folded' = folded \cup (IF "plain" \in why THEN landed \ Cdx ELSE {})
      BY <1>4 DEF FoldPlain, Fold
    <2>2. failed' \/ seen' \ Cdx \subseteq folded'
      BY <1>4, <2>1 DEF FoldInv, FoldPlain, TypeOK, LogsOK
    <2> QED BY <2>1, <2>2 DEF FoldInv, StampedPlainIsFolded
  <1>5. CASE FoldCdx
    <2>1. /\ pc = "foldCdx" /\ pc' = "exportC" /\ UNCHANGED <<stamp, seen>>
          /\ folded \subseteq folded' /\ (failed' = failed \/ failed')
      BY <1>5 DEF FoldCdx, Fold
    <2> QED BY <2>1 DEF FoldInv, StampedPlainIsFolded
  <1>6. CASE Gate
    <2>1. CASE ExportClaim("exportC", "touchC")
      BY <2>1 DEF ExportClaim, FoldInv, StampedPlainIsFolded
    <2>2. CASE Touch("touchC", "checkC")
      BY <2>2 DEF Touch, FoldInv, StampedPlainIsFolded
    <2>3. CASE CheckC
      <3>1. UNCHANGED <<stamp, folded, seen, failed>> BY <2>3 DEF CheckC
      <3>2. CASE pc' = "request"
        <4>1. pc = "checkC" /\ ~failed BY <2>3, <3>2 DEF CheckC
        <4> QED BY <3>1, <3>2, <4>1 DEF FoldInv, StampedPlainIsFolded
      <3>3. CASE pc' = "retryPush" BY <1>a, <3>1, <3>3
      <3> QED BY <2>3, <3>2, <3>3 DEF CheckC
    <2>4. CASE ExportClaim("exportB", "touchB") BY <1>b, <2>4 DEF ExportClaim
    <2>5. CASE Touch("touchB", IF failed THEN "unbank" ELSE "checkB")
      BY <1>a, <1>b, <2>5 DEF Touch
    <2>6. CASE CheckB BY <1>a, <1>b, <2>6 DEF CheckB
    <2> QED BY <1>6, <2>1, <2>2, <2>3, <2>4, <2>5, <2>6 DEF Gate
  <1>7. CASE Request \/ Decide BY <1>b, <1>7 DEF Request, Decide
  <1>8. CASE Approve
    <2>1. ASSUME NEW gone \in SUBSET Lead, Plan(gone) PROVE FoldInv' BY <1>b, <2>1 DEF Plan
    <2>2. ASSUME NEW l \in Lead, Ingest(l) PROVE FoldInv' BY <1>b, <2>2 DEF Ingest
    <2>3. CASE IngestsDone BY <1>b, <2>3 DEF IngestsDone
    <2>4. CASE Outcome BY <1>a, <1>b, <2>4 DEF Outcome
    <2>5. CASE Rollback
      BY <1>a, <1>c, <2>5 DEF Rollback, Unbank, Checkout, RedB, ExportClaim, Recheck
    <2> QED BY <1>8, <2>1, <2>2, <2>3, <2>4, <2>5 DEF Approve
  <1>9. CASE Stamp
    <2>1. /\ pc = "stamp" /\ pc' = "commit" /\ UNCHANGED <<folded, seen>>
          /\ stamp'.fold = (seen \ Cdx) \cup (landed \cap Cdx)
      BY <1>9 DEF Stamp
    <2>2. stamp'.fold \ Cdx \subseteq folded' BY <2>1 DEF FoldInv
    <2> QED BY <2>1, <2>2 DEF FoldInv, StampedPlainIsFolded
  <1>10. CASE Commit \/ Move \/ Publish \/ RetryPush
    BY <1>a, <1>10 DEF Commit, Move, Publish, RetryPush
  <1>11. CASE UNCHANGED vars BY <1>0, <1>11
  <1> QED
    BY <1>1, <1>2, <1>3, <1>4, <1>5, <1>6, <1>7, <1>8, <1>9, <1>10, <1>11 DEF Next, Step, Finish

-----------------------------------------------------------------------------
\* A bank stands past its trigger only while no red does: the trigger stops at
\* a red, and the two steps that write one end the run or its rollback.
LEMMA RedInductive == TypeOK /\ RedInv /\ [Next]_vars => RedInv'
  <1> SUFFICES ASSUME TypeOK, RedInv, [Next]_vars PROVE RedInv'
    OBVIOUS
  <1> USE DEF RedInv, NoRed, Steps, Ungated
  <1>0. ASSUME UNCHANGED <<pc, red>> PROVE RedInv'
    BY <1>0
  <1>1. CASE World \/ Clean \/ Fix
    BY <1>0, <1>1 DEF World, NewBaseline, Land, Age, Clean, Fix
  <1>2. CASE RedClear BY <1>2 DEF RedClear
  <1>3. CASE Start \/ Kill BY <1>3 DEF Start, Kill
  <1>4. ASSUME NEW due \in BOOLEAN, NEW force \in BOOLEAN, Trigger(due, force) PROVE RedInv'
    BY <1>4 DEF Trigger
  <1>5. CASE FoldPlain \/ FoldCdx BY <1>5 DEF FoldPlain, FoldCdx, Fold
  <1>6. CASE Gate BY <1>6 DEF Gate, ExportClaim, Touch, CheckC, CheckB
  <1>7. CASE Request \/ Decide BY <1>7 DEF Request, Decide
  <1>8. CASE Approve
    <2>1. ASSUME NEW gone \in SUBSET Lead, Plan(gone) PROVE RedInv' BY <2>1 DEF Plan
    <2>2. ASSUME NEW l \in Lead, Ingest(l) PROVE RedInv' BY <2>2 DEF Ingest
    <2>3. CASE IngestsDone \/ Outcome BY <2>3 DEF IngestsDone, Outcome
    <2>4. CASE Rollback BY <2>4 DEF Rollback, Unbank, Checkout, RedB, ExportClaim, Recheck
    <2> QED BY <1>8, <2>1, <2>2, <2>3, <2>4 DEF Approve
  <1>9. CASE Finish BY <1>9 DEF Finish, Stamp, Commit, Move, Publish, RetryPush
  <1>10. CASE UNCHANGED vars BY <1>0, <1>10
  <1> QED
    BY <1>1, <1>2, <1>3, <1>4, <1>5, <1>6, <1>7, <1>8, <1>9, <1>10 DEF Next, Step

\* An unchecked export never leaves the gate for the fleet without a kill.
LEMMA ExportInductive == TypeOK /\ RedInv /\ ExportInv /\ [Next]_vars => ExportInv'
  <1> SUFFICES ASSUME TypeOK, RedInv, ExportInv, [Next]_vars PROVE ExportInv'
    OBVIOUS
  <1> USE DEF ExportInv, Exporting, PublishedIsGated
  <1>0. ASSUME UNCHANGED <<pc, failed, output, cut, fleet, red>> PROVE ExportInv'
    BY <1>0
  <1>a. ASSUME UNCHANGED <<output, cut, fleet, red>>, pc \notin Exporting, pc' \notin Exporting
        PROVE ExportInv'
    BY <1>a
  <1>1. CASE World \/ Clean \/ Fix
    BY <1>0, <1>1 DEF World, NewBaseline, Land, Age, Clean, Fix
  <1>2. CASE RedClear
    <2>1. pc = "idle" /\ UNCHANGED <<pc, cut, fleet, failed>> /\ red # "none" BY <1>2 DEF RedClear
    <2>2. output' = "green" \/ red' = red BY <1>2 DEF RedClear
    <2> QED BY <2>1, <2>2
  <1>3. CASE Start BY <1>a, <1>3 DEF Start
  <1>4. ASSUME NEW due \in BOOLEAN, NEW force \in BOOLEAN, Trigger(due, force) PROVE ExportInv'
    BY <1>a, <1>4 DEF Trigger
  <1>5. CASE FoldPlain \/ FoldCdx BY <1>a, <1>5 DEF FoldPlain, FoldCdx, Fold
  <1>6. CASE Gate
    <2>1. ASSUME NEW from, NEW next \in {"touchC", "touchB"}, ExportClaim(from, next) PROVE ExportInv'
      BY <2>1 DEF ExportClaim
    <2>2. CASE Touch("touchC", "checkC") BY <2>2 DEF Touch
    <2>3. CASE CheckC
      <3>1. pc = "checkC" /\ UNCHANGED <<cut, fleet, failed>> BY <2>3 DEF CheckC
      <3>2. CASE Green /\ ~failed
        <4>1. output' = "green" /\ pc' = "request" BY <2>3, <3>1, <3>2 DEF CheckC, Checked
        <4> QED BY <3>1, <4>1
      <3>3. CASE ~(Green /\ ~failed)
        <4>1. red' = "c" /\ pc' = "retryPush" BY <2>3, <3>3 DEF CheckC
        <4> QED BY <3>1, <4>1
      <3> QED BY <3>2, <3>3
    <2>4. CASE Touch("touchB", IF failed THEN "unbank" ELSE "checkB") BY <2>4 DEF Touch
    <2>5. CASE CheckB
      <3>1. pc = "checkB" /\ UNCHANGED <<cut, fleet, failed, red>> BY <2>5 DEF CheckB
      <3>2. CASE Green
        <4>1. output' = "green" /\ pc' = "stamp" BY <2>5, <3>1, <3>2 DEF CheckB, Checked
        <4> QED BY <3>1, <4>1
      <3>3. CASE ~Green
        <4>1. pc' = "unbank" BY <2>5, <3>3 DEF CheckB
        <4> QED BY <3>1, <4>1
      <3> QED BY <3>2, <3>3
    <2> QED BY <1>6, <2>1, <2>2, <2>3, <2>4, <2>5 DEF Gate
  <1>7. CASE Request \/ Decide BY <1>a, <1>7 DEF Request, Decide
  <1>8. CASE Approve
    <2>1. ASSUME NEW gone \in SUBSET Lead, Plan(gone) PROVE ExportInv' BY <1>a, <2>1 DEF Plan
    <2>2. ASSUME NEW l \in Lead, Ingest(l) PROVE ExportInv' BY <1>a, <2>2 DEF Ingest
    <2>3. CASE IngestsDone BY <1>a, <2>3 DEF IngestsDone
    <2>4. CASE Outcome
      <3>1. pc = "outcome" /\ pc' \in {"unbank", "stamp", "exportB"}
            /\ UNCHANGED <<output, cut, fleet, red, failed>>
        BY <2>4 DEF Outcome
      <3> QED BY <3>1
    <2>5. CASE Unbank \/ Checkout BY <2>5 DEF Unbank, Checkout
    <2>6. CASE RedB BY <2>6 DEF RedB
    <2>7. CASE ExportClaim("reexport", "recheck") BY <2>7 DEF ExportClaim, RedInv
    <2>8. CASE Recheck BY <2>8 DEF Recheck, RedInv
    <2> QED BY <1>8, <2>1, <2>2, <2>3, <2>4, <2>5, <2>6, <2>7, <2>8 DEF Approve, Rollback
  <1>9. CASE Stamp \/ Commit \/ Move BY <1>a, <1>9 DEF Stamp, Commit, Move
  <1>10. CASE Publish \/ RetryPush
    <2>1. /\ pc \in {"publish", "retryPush"} /\ pc' \in {"retryPush", "idle"}
          /\ UNCHANGED <<output, cut, red>>
      BY <1>10 DEF Publish, RetryPush
    <2>2. fleet' = fleet \/ (fleet' = output /\ red = "none")
      BY <1>10 DEF Publish, RetryPush, Stage, RedInv, NoRed, Steps
    <2> QED BY <2>1, <2>2
  <1>11. CASE Kill
    <2>1. UNCHANGED <<output, fleet, red>> /\ pc' = "idle" /\ (cut' = (cut \/ pc \in Ungated))
      BY <1>11 DEF Kill
    <2> QED BY <2>1 DEF Ungated
  <1>12. CASE UNCHANGED vars BY <1>0, <1>12
  <1> QED
    BY <1>1, <1>2, <1>3, <1>4, <1>5, <1>6, <1>7, <1>8, <1>9, <1>10, <1>11, <1>12
       DEF Next, Step, Finish

-----------------------------------------------------------------------------
\* What no check has passed in the store is what the running bank ingested,
\* until a check passes it or the rollback takes it back.
LEMMA RowsInductive == TypeOK /\ RedInv /\ RowsInv /\ [Next]_vars => RowsInv'
  <1> SUFFICES ASSUME TypeOK, RedInv, RowsInv, [Next]_vars PROVE RowsInv'
    OBVIOUS
  <1> USE DEF RowsInv, Ungated
  <1> DEFINE Loading == {"ingest", "outcome", "exportB", "touchB", "checkB", "unbank"}
  <1>0. ASSUME UNCHANGED <<pc, rows, gated, ingested, red, page, live, cut>> PROVE RowsInv'
    BY <1>0
  <1>a. ASSUME UNCHANGED <<rows, gated, red, cut>>, pc \notin Ungated, pc' \notin Ungated,
               red = "b" => page' = live'
        PROVE RowsInv'
    BY <1>a
  <1>b. ASSUME UNCHANGED <<rows, gated, ingested, red, page, live, cut>>, pc \in Loading, pc' \in Loading
        PROVE RowsInv'
    BY <1>b
  <1>c. ASSUME UNCHANGED <<rows, red, cut>>, rows' \subseteq gated', pc' \notin Loading, pc' # "redB",
               red = "b" => page' = live'
        PROVE RowsInv'
    BY <1>c
  <1>1. CASE World \/ Fix
    BY <1>0, <1>1 DEF World, NewBaseline, Land, Age, Fix
  <1>2. CASE Clean BY <1>a, <1>2 DEF Clean
  <1>3. CASE RedClear
    <2>1. pc = "idle" /\ UNCHANGED <<pc, rows, ingested, page, live, cut>> BY <1>3 DEF RedClear
    <2>2. \/ red' = "none" /\ gated' = gated \cup Stored
          \/ red' = red /\ gated' = gated
      BY <1>3 DEF RedClear
    <2> QED BY <2>1, <2>2 DEF Stored
  <1>4. CASE Start BY <1>a, <1>4 DEF Start
  <1>5. ASSUME NEW due \in BOOLEAN, NEW force \in BOOLEAN, Trigger(due, force) PROVE RowsInv'
    <2>1. UNCHANGED <<rows, gated, red, cut, page, live>> /\ pc = "trigger"
          /\ pc' \in {"retryPush", "foldPlain", "exportC", "request"}
      BY <1>5 DEF Trigger
    <2> QED BY <1>a, <2>1
  <1>6. CASE FoldPlain \/ FoldCdx BY <1>a, <1>6 DEF FoldPlain, FoldCdx, Fold
  <1>7. CASE Gate
    <2>1. CASE ExportClaim("exportC", "touchC") BY <2>1 DEF ExportClaim
    <2>2. CASE Touch("touchC", "checkC") BY <2>2 DEF Touch
    <2>3. CASE CheckC
      <3>1. pc = "checkC" /\ UNCHANGED <<rows, cut, page, live>> /\ red = "none"
        BY <2>3 DEF CheckC, RedInv, NoRed, Steps
      <3>2. CASE Green /\ ~failed
        <4>1. pc' = "request" /\ gated' = gated \cup Stored /\ red' = red BY <2>3, <3>2 DEF CheckC
        <4> QED BY <1>c, <3>1, <4>1 DEF Stored
      <3>3. CASE ~(Green /\ ~failed)
        <4>1. pc' = "retryPush" /\ red' = "c" BY <2>3, <3>3 DEF CheckC
        <4> QED BY <3>1, <4>1
      <3> QED BY <3>2, <3>3
    <2>4. CASE ExportClaim("exportB", "touchB") BY <1>b, <2>4 DEF ExportClaim
    <2>5. CASE Touch("touchB", IF failed THEN "unbank" ELSE "checkB") BY <1>b, <2>5 DEF Touch
    <2>6. CASE CheckB
      <3>1. pc = "checkB" /\ UNCHANGED <<rows, cut, page, live, red, ingested>> /\ red = "none"
        BY <2>6 DEF CheckB, RedInv, NoRed, Steps, Ungated
      <3>2. CASE Green
        <4>1. pc' = "stamp" /\ gated' = gated \cup Stored BY <2>6, <3>2 DEF CheckB
        <4> QED BY <1>c, <3>1, <4>1 DEF Stored
      <3>3. CASE ~Green
        <4>1. pc' = "unbank" /\ gated' = gated BY <2>6, <3>3 DEF CheckB
        <4> QED BY <1>b, <3>1, <4>1
      <3> QED BY <3>2, <3>3
    <2> QED BY <1>7, <2>1, <2>2, <2>3, <2>4, <2>5, <2>6 DEF Gate
  <1>8. CASE Request \/ Decide
    <2>1. red = "none" BY <1>8 DEF Request, Decide, RedInv, NoRed, Steps
    <2> QED BY <1>a, <1>8, <2>1 DEF Request, Decide
  <1>9. CASE Approve
    <2>1. ASSUME NEW gone \in SUBSET Lead, Plan(gone) PROVE RowsInv'
      <3>1. /\ UNCHANGED <<rows, gated, red, cut, page, live>> /\ pc = "plan" /\ pc' = "ingest"
            /\ red = "none"
        BY <2>1 DEF Plan, RedInv, NoRed, Steps
      <3> QED BY <3>1
    <2>2. ASSUME NEW l \in Lead, Ingest(l) PROVE RowsInv'
      <3>1. /\ UNCHANGED <<gated, red, cut, page, live>> /\ pc = "ingest" /\ pc' = pc
            /\ rows' \subseteq rows \cup {l} /\ ingested' = ingested \cup {l} /\ red = "none"
        BY <2>2 DEF Ingest, RedInv, NoRed, Steps
      <3> QED BY <3>1
    <2>3. CASE IngestsDone BY <1>b, <2>3 DEF IngestsDone
    <2>4. CASE Outcome
      <3>1. pc = "outcome" /\ UNCHANGED <<rows, gated, ingested, red, page, live, cut>> /\ red = "none"
        BY <2>4 DEF Outcome, RedInv, NoRed, Steps
      <3>2. CASE pc' \in {"unbank", "exportB"} BY <1>b, <3>1, <3>2
      <3>3. CASE pc' = "stamp"
        <4>1. ingested = {} BY <2>4, <3>3 DEF Outcome
        <4> QED BY <3>1, <3>3, <4>1
      <3> QED BY <2>4, <3>2, <3>3 DEF Outcome
    <2>5. CASE Unbank
      <3>1. /\ pc = "unbank" /\ pc' = "checkout" /\ UNCHANGED <<red, page, live, cut>> /\ red = "none"
            /\ rows' = rows \ (ingested \ OldSource) /\ gated' = gated \ (ingested \ OldSource)
        BY <2>5 DEF Unbank, RedInv, NoRed, Steps
      <3>2. rows \ gated \subseteq ingested => rows' \ gated' \subseteq OldSource BY <3>1
      <3> QED BY <3>1, <3>2
    <2>6. CASE Checkout
      <3>1. /\ pc = "checkout" /\ pc' = "redB" /\ UNCHANGED <<rows, gated, red, live, cut>>
            /\ page' = live
        BY <2>6 DEF Checkout
      <3> QED BY <3>1
    <2>7. CASE RedB
      <3>1. /\ pc = "redB" /\ pc' = "reexport" /\ UNCHANGED <<rows, gated, page, live, cut>> /\ red' = "b"
        BY <2>7 DEF RedB
      <3> QED BY <3>1
    <2>8. CASE ExportClaim("reexport", "recheck") BY <1>a, <2>8 DEF ExportClaim
    <2>9. CASE Recheck
      <3>1. /\ pc = "recheck" /\ pc' = "retryPush" /\ UNCHANGED <<rows, red, page, live, cut>>
            /\ gated \subseteq gated' /\ red = "b"
        BY <2>9 DEF Recheck, RedInv
      <3> QED BY <3>1
    <2> QED BY <1>9, <2>1, <2>2, <2>3, <2>4, <2>5, <2>6, <2>7, <2>8, <2>9 DEF Approve, Rollback
  <1>10. CASE Stamp \/ Move \/ Publish \/ RetryPush
    BY <1>a, <1>10 DEF Stamp, Move, Publish, RetryPush
  <1>11. CASE Commit BY <1>a, <1>11 DEF Commit
  <1>12. CASE Kill
    <2>1. /\ UNCHANGED <<rows, gated, red, page, live>> /\ pc' = "idle"
          /\ cut' = (cut \/ pc \in Ungated)
      BY <1>12 DEF Kill
    <2> QED BY <2>1
  <1>13. CASE UNCHANGED vars BY <1>0, <1>13
  <1> QED
    BY <1>1, <1>2, <1>3, <1>4, <1>5, <1>6, <1>7, <1>8, <1>9, <1>10, <1>11, <1>12, <1>13
       DEF Next, Step, Finish

IInv == TypeOK /\ BankInv

LEMMA InitIInv == Init => IInv
  BY InitType, InitBankInv DEF IInv

LEMMA NextIInv == IInv /\ [Next]_vars => IInv'
  BY TypeInductive, FoldInductive, RedInductive, ExportInductive, RowsInductive DEF IInv, BankInv

LEMMA SpecIInv == Spec => []IInv
  BY InitIInv, NextIInv, PTL DEF Spec

-----------------------------------------------------------------------------
(* The theorems. *)

\* The bank's state is well typed, and nothing is seen or folded that has not
\* landed (justfile `bank`, bank_trigger.py).
THEOREM BankTypeOK == Spec => []TypeOK
  <1>1. IInv => TypeOK BY DEF IInv
  <1> QED BY <1>1, SpecIInv, PTL

\* No journal outside the bank's own globs is ever stamped as seen that no
\* ingest has folded, whenever it lands (bank_trigger.py `check` and `stamp`).
THEOREM BankStampsFolded == Spec => []StampedPlainIsFolded
  <1>1. IInv => StampedPlainIsFolded BY DEF IInv, BankInv, FoldInv
  <1> QED BY <1>1, SpecIInv, PTL

\* Only a checked export is published, unless a bank was killed between a write
\* and the gate or the red that answers it (justfile `sync` step 9, `bank` e).
THEOREM BankPublishesGated == Spec => []PublishedIsGatedUnlessCut
  <1>1. IInv => PublishedIsGatedUnlessCut
    BY DEF IInv, BankInv, ExportInv, PublishedIsGatedUnlessCut
  <1> QED BY <1>1, SpecIInv, PTL

\* Between banks and without a red, every approved row passed a check there
\* (justfile `bank` b).
THEOREM BankGatesRows == Spec => []GreenMeansGated
  <1>1. IInv => GreenMeansGated
    BY DEF IInv, BankInv, RowsInv, GreenMeansGated, Ungated
  <1> QED BY <1>1, SpecIInv, PTL

\* A red takes back the rows and the lines together (unbank_source.py and the
\* checkout of justfile `bank` b).
THEOREM BankRedTakesBoth == Spec => []RedTakesBoth
  <1>1. IInv => RedTakesBoth
    BY DEF IInv, BankInv, RowsInv, RedTakesBoth
  <1> QED BY <1>1, SpecIInv, PTL

\* A bank at rest left in the store what passed a check, or the red took it back with its line
\* (justfile `bank` b).
THEOREM BankGateSettles == Spec => []GateSettles
  <1>1. IInv => GateSettles
    BY DEF IInv, BankInv, RowsInv, GateSettles, GreenMeansGated, RedTakesBoth, Ungated
  <1> QED BY <1>1, SpecIInv, PTL

\* No step taken under a standing red folds, stamps, publishes or moves a drain
\* aside, nor adds a row (bank_trigger.py:19-20).
THEOREM BankRedHolds == Spec => NothingBanksUnderRed
  <1>1. IInv /\ [Next]_vars
          => [red # "none" /\ red' # "none"
                => UNCHANGED <<stamp, fleet, folded, banked>> /\ rows' \subseteq rows]_vars
    <2> SUFFICES ASSUME IInv, [Next]_vars, red # "none", red' # "none"
                 PROVE  UNCHANGED <<stamp, fleet, folded, banked>> /\ rows' \subseteq rows
      OBVIOUS
    <2>0. pc \notin NoRed BY DEF IInv, BankInv, RedInv
    <2> USE <2>0 DEF NoRed, Steps, Ungated
    <2>1. CASE World \/ Clean \/ Fix \/ RedClear \/ Start \/ Kill
      BY <2>1 DEF World, NewBaseline, Land, Age, Clean, Fix, RedClear, Start, Kill
    <2>2. ASSUME NEW due \in BOOLEAN, NEW force \in BOOLEAN, Trigger(due, force)
          PROVE  UNCHANGED <<stamp, fleet, folded, banked>> /\ rows' \subseteq rows
      BY <2>2 DEF Trigger
    <2>3. CASE FoldPlain \/ FoldCdx \/ Gate \/ Request \/ Decide
      BY <2>3 DEF FoldPlain, FoldCdx, Fold, Gate, ExportClaim, Touch, CheckC, CheckB, Request, Decide
    <2>4. CASE Approve
      BY <2>4 DEF Approve, Plan, Ingest, IngestsDone, Outcome, Rollback, Unbank, Checkout, RedB,
                  ExportClaim, Recheck
    <2>5. CASE Finish
      BY <2>5 DEF Finish, Stamp, Commit, Move, Publish, RetryPush
    <2>6. CASE UNCHANGED vars BY <2>6
    <2> QED BY <2>1, <2>2, <2>3, <2>4, <2>5, <2>6 DEF Next, Step
  <1> QED BY <1>1, SpecIInv, PTL DEF Spec, NothingBanksUnderRed
=============================================================================
