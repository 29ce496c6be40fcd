------------------------------- MODULE Snapshot -------------------------------
(***************************************************************************)
(* The price snapshot: snapshot_manifest.py stages hard links of the       *)
(* export's and the release's files in output/fleet_snapshot, file by      *)
(* file, with their manifest last, while exports replace the sources; a    *)
(* leg prices against the stage by path, as price_snapshot.py does.        *)
(*                                                                         *)
(* A name leads to an inode and a file's bytes are a number: 1 when it is  *)
(* empty.  Linking an inode and unlinking it move its ctime.               *)
(***************************************************************************)
EXTENDS Naturals, Sequences, FiniteSets

CONSTANTS Order,               \* the manifest's paths in their order
          Optional, Lazy,      \* those that may be empty; those checked when they are read
          Stager,              \* who runs the staging: the bank or the tick
          MaxSourceEdits, MaxBytes, MaxStageKills   \* bounds on changes of sources, contents, kills

SnapFile     == {Order[i] : i \in DOMAIN Order}
Required == SnapFile \ Optional
Inode    == 1..Len(Order) + MaxSourceEdits
SnapContent  == 1..MaxBytes
EmptySlot    == 1
AbsentFile   == 0

ASSUME SnapshotAssumption ==
  /\ Order \in Seq(SnapFile) /\ Order # <<>> /\ Cardinality(SnapFile) = Len(Order)
  /\ Optional \subseteq SnapFile /\ Lazy \subseteq SnapFile
  /\ {MaxSourceEdits, MaxBytes, MaxStageKills} \subseteq Nat /\ MaxBytes >= 2

VARIABLES
  inode,     \* bytes, mtime and ctime of each inode made so far
  src,       \* the inode of each source
  linked,    \* the inode of each staged file, or AbsentFile
  snapManifest,  \* what manifest.json lists: an entry by file, or NoManifest
  sstep, pos, newEntries, lastEntries,   \* of each stager
  looked,    \* the stat a stager took of the file it is about to hash
  priceStep, pricePos, cited, used,          \* of the leg: its step, the manifest it cites, the bytes it read
  touched,   \* history: the stage changed since the leg read its manifest
  had,       \* history: what each source has held
  sourceEdits, stageKills

stage == <<inode, linked, snapManifest>>
stager == <<sstep, pos, newEntries, lastEntries, looked>>
leg   == <<priceStep, pricePos, cited, used, touched>>
snapshotVars == <<inode, src, linked, snapManifest, stager, leg, had, sourceEdits, stageKills>>

Stat(i)  == <<i, inode[i].mtime, inode[i].ctime>>
NoStat   == <<0, 0, 0>>
NoManifest == <<>>

SnapshotTypeOK ==
  /\ DOMAIN inode \subseteq Inode /\ src \in [SnapFile -> DOMAIN inode]
  /\ \A i \in DOMAIN inode : inode[i].bytes \in SnapContent
  /\ linked \in [SnapFile -> DOMAIN inode \cup {AbsentFile}]
  /\ DOMAIN snapManifest \subseteq SnapFile
  /\ sstep \in [Stager -> {"idle", "stat", "hash", "unlink", "prune", "link", "write"}]
  /\ pos \in [Stager -> 1..Len(Order) + 1]
  /\ \A s \in Stager : DOMAIN newEntries[s] \subseteq SnapFile /\ DOMAIN lastEntries[s] \subseteq SnapFile
  /\ priceStep \in {"idle", "check", "list", "read", "done", "refused"} /\ pricePos \in 1..Len(Order) + 1
  /\ DOMAIN cited \subseteq SnapFile /\ DOMAIN used \subseteq DOMAIN cited
  /\ touched \in BOOLEAN /\ had \in [SnapFile -> SUBSET SnapContent] /\ sourceEdits \in 0..MaxSourceEdits /\ stageKills \in 0..MaxStageKills

SnapshotInit ==
  /\ inode = [i \in 1..Len(Order) |-> [bytes |-> 2, mtime |-> 1, ctime |-> 1]]
  /\ src = [f \in SnapFile |-> CHOOSE i \in DOMAIN Order : Order[i] = f]
  /\ linked = [f \in SnapFile |-> AbsentFile] /\ snapManifest = NoManifest
  /\ sstep = [s \in Stager |-> "idle"] /\ pos = [s \in Stager |-> 1]
  /\ newEntries = [s \in Stager |-> NoManifest] /\ lastEntries = newEntries
  /\ looked = [s \in Stager |-> NoStat]
  /\ priceStep = "idle" /\ pricePos = 1 /\ cited = NoManifest /\ used = NoManifest /\ touched = FALSE
  /\ had = [f \in SnapFile |-> {2}] /\ sourceEdits = 0 /\ stageKills = 0
-----------------------------------------------------------------------------
(* The sources. *)

\* A table with one more entry.
Entered(table, key, entry) ==
  [k \in DOMAIN table \cup {key} |-> IF k \in DOMAIN table THEN table[k] ELSE entry]

Aged(i, table) == IF i = AbsentFile THEN table ELSE [table EXCEPT ![i].ctime = @ + 1]
Touch == touched' = (touched \/ priceStep # "idle")

\* An export or a release writes a file beside its source and renames it over it.
Replace(f, bytes) ==
  /\ sourceEdits < MaxSourceEdits /\ sourceEdits' = sourceEdits + 1
  /\ LET new == Cardinality(DOMAIN inode) + 1 IN
     /\ inode' = Entered(Aged(src[f], inode), new, [bytes |-> bytes, mtime |-> new, ctime |-> 1])
     /\ src' = [src EXCEPT ![f] = new]
  /\ had' = [had EXCEPT ![f] = @ \cup {bytes}]
  /\ UNCHANGED <<linked, snapManifest, stager, leg, stageKills>>

\* A file put back in place, under its old mtime: through the link the staged one changes too.
PutBack(f, bytes) ==
  /\ sourceEdits < MaxSourceEdits /\ sourceEdits' = sourceEdits + 1 /\ inode[src[f]].bytes # bytes
  /\ inode' = [inode EXCEPT ![src[f]].bytes = bytes, ![src[f]].ctime = @ + 1]
  /\ had' = [had EXCEPT ![f] = @ \cup {bytes}]
  /\ Touch
  /\ UNCHANGED <<src, linked, snapManifest, stager, priceStep, pricePos, cited, used, stageKills>>
-----------------------------------------------------------------------------
(* snapshot_manifest.py. *)

Step(s, to, n) == sstep' = [sstep EXCEPT ![s] = to] /\ pos' = [pos EXCEPT ![s] = n]
End(s) ==
  /\ Step(s, "idle", 1)
  /\ newEntries' = [newEntries EXCEPT ![s] = NoManifest] /\ lastEntries' = [lastEntries EXCEPT ![s] = NoManifest]
  /\ looked' = [looked EXCEPT ![s] = NoStat]
Hand(s) == Order[pos[s]]
MoveOn(s, here, after) ==
  IF pos[s] = Len(Order) THEN Step(s, after, 1) ELSE Step(s, here, pos[s] + 1)

BuildManifest(s) ==
  /\ sstep[s] = "idle"
  /\ Step(s, "stat", 1)
  /\ lastEntries' = [lastEntries EXCEPT ![s] = snapManifest] /\ UNCHANGED <<newEntries, looked>>
  /\ UNCHANGED <<stage, src, leg, had, sourceEdits, stageKills>>

MutSame(old, i) == old.stat[1] = i /\ old.stat[2] = inode[i].mtime

\* `_stat`, and the entry of the previous manifest when it says the same of the source.
Same(old, i) == old.stat = Stat(i)

\* `build_manifest`, one file: the stat, before the hash.
LookAt(s) ==
  /\ sstep[s] = "stat"
  /\ LET f == Hand(s) IN
     IF f \in DOMAIN lastEntries[s] /\ Same(lastEntries[s][f], src[f])
     THEN /\ newEntries' = [newEntries EXCEPT ![s] = Entered(@, f, lastEntries[s][f])]
          /\ MoveOn(s, "stat", "unlink") /\ UNCHANGED looked
     ELSE /\ looked' = [looked EXCEPT ![s] = Stat(src[f])]
          /\ Step(s, "hash", pos[s]) /\ UNCHANGED newEntries
  /\ UNCHANGED <<lastEntries, stage, src, leg, had, sourceEdits, stageKills>>

\* The hash of what the source holds by now.  A required file may not be empty.
Hash(s) ==
  /\ sstep[s] = "hash"
  /\ LET f == Hand(s)
         bytes == inode[src[f]].bytes IN
     IF bytes = EmptySlot /\ f \in Required THEN End(s)
     ELSE /\ newEntries' = IF bytes = EmptySlot THEN newEntries
                        ELSE [newEntries EXCEPT ![s] = Entered(@, f, [bytes |-> bytes, stat |-> looked[s]])]
          /\ looked' = [looked EXCEPT ![s] = NoStat] /\ UNCHANGED lastEntries
          /\ MoveOn(s, "stat", "unlink")
  /\ UNCHANGED <<stage, src, leg, had, sourceEdits, stageKills>>

\* `stage`: the manifest goes first,
Unlink(s) ==
  /\ sstep[s] = "unlink"
  /\ snapManifest' = NoManifest /\ Touch
  /\ Step(s, "prune", 1)
  /\ UNCHANGED <<newEntries, lastEntries, looked, inode, linked, src, priceStep, pricePos, cited, used, had, sourceEdits, stageKills>>

\* then each link that is not listed or not its source any more,
Prune(s) ==
  /\ sstep[s] = "prune"
  /\ LET f == Hand(s)
         stays == f \in DOMAIN newEntries[s] /\ linked[f] = src[f] IN
     IF linked[f] = AbsentFile \/ stays THEN UNCHANGED <<inode, linked, touched>>
     ELSE /\ linked' = [linked EXCEPT ![f] = AbsentFile] /\ inode' = Aged(linked[f], inode) /\ Touch
  /\ MoveOn(s, "prune", "link")
  /\ UNCHANGED <<newEntries, lastEntries, looked, snapManifest, src, priceStep, pricePos, cited, used, had, sourceEdits, stageKills>>

\* then the missing links, of what the sources are by now,
Link(s) ==
  /\ sstep[s] = "link"
  /\ LET f == Hand(s) IN
     IF f \notin DOMAIN newEntries[s] \/ linked[f] # AbsentFile THEN UNCHANGED <<inode, linked, touched>>
     ELSE /\ linked' = [linked EXCEPT ![f] = src[f]] /\ inode' = Aged(src[f], inode) /\ Touch
  /\ MoveOn(s, "link", "write")
  /\ UNCHANGED <<newEntries, lastEntries, looked, snapManifest, src, priceStep, pricePos, cited, used, had, sourceEdits, stageKills>>

\* and the manifest comes back last.
WriteSource(s) ==
  /\ sstep[s] = "write"
  /\ snapManifest' = newEntries[s] /\ Touch
  /\ End(s)
  /\ UNCHANGED <<inode, linked, src, priceStep, pricePos, cited, used, had, sourceEdits, stageKills>>

\* A stager killed between two steps.
KillStager(s) ==
  /\ stageKills < MaxStageKills /\ sstep[s] # "idle"
  /\ stageKills' = stageKills + 1 /\ End(s)
  /\ UNCHANGED <<stage, src, leg, had, sourceEdits>>
-----------------------------------------------------------------------------
(* price_snapshot.py, the pricing of one items file. *)

\* `_check_file`: a stat the manifest knows vouches for the bytes, any other has them hashed.
Fits(f, listing) ==
  /\ linked[f] # AbsentFile
  /\ LET i == linked[f] IN
     Same(listing[f], i) \/ (inode[i].bytes # EmptySlot /\ inode[i].bytes = listing[f].bytes)

ReadManifest ==
  /\ priceStep = "idle" /\ snapManifest # NoManifest
  /\ cited' = snapManifest /\ priceStep' = "check" /\ pricePos' = 1
  /\ UNCHANGED <<used, touched, stage, src, stager, had, sourceEdits, stageKills>>

Refuse == priceStep' = "refused" /\ UNCHANGED pricePos

\* `verify_snapshot`: each listed file is there, and all but the late years are checked;
VerifyEntry ==
  /\ priceStep = "check"
  /\ LET f == Order[pricePos]
         good == f \in DOMAIN cited => linked[f] # AbsentFile /\ (f \in Lazy \/ Fits(f, cited)) IN
     IF ~good THEN Refuse
     ELSE IF pricePos = Len(Order) THEN priceStep' = "list" /\ pricePos' = 1
     ELSE pricePos' = pricePos + 1 /\ UNCHANGED priceStep
  /\ UNCHANGED <<cited, used, touched, stage, src, stager, had, sourceEdits, stageKills>>

\* a file that is not listed is a sync torn halfway.
VerifyUnlisted ==
  /\ priceStep = "list"
  /\ IF \E f \in SnapFile \ DOMAIN cited : linked[f] # AbsentFile THEN Refuse
     ELSE priceStep' = "read" /\ UNCHANGED pricePos
  /\ UNCHANGED <<cited, used, touched, stage, src, stager, had, sourceEdits, stageKills>>

\* `hits`: the files are read one by one, by path; a late year, if asked for, is checked first.
\* A file that is gone fails the price.
ReadSource(asked) ==
  /\ priceStep = "read" /\ (Order[pricePos] \notin Lazy => asked)
  /\ LET f == Order[pricePos]
         reads == asked /\ f \in DOMAIN cited IN
     IF reads /\ (linked[f] = AbsentFile \/ (f \in Lazy /\ ~Fits(f, cited)))
     THEN Refuse /\ UNCHANGED used
     ELSE /\ used' = IF reads THEN Entered(used, f, inode[linked[f]].bytes) ELSE used
          /\ IF pricePos = Len(Order) THEN priceStep' = "done" /\ UNCHANGED pricePos
             ELSE pricePos' = pricePos + 1 /\ UNCHANGED priceStep
  /\ UNCHANGED <<cited, touched, stage, src, stager, had, sourceEdits, stageKills>>

Stages(s) ==
  \/ BuildManifest(s) \/ LookAt(s) \/ Hash(s) \/ Unlink(s) \/ Prune(s) \/ Link(s) \/ WriteSource(s) \/ KillStager(s)

SnapshotNext ==
  \/ \E f \in SnapFile, b \in SnapContent : Replace(f, b) \/ PutBack(f, b)
  \/ \E s \in Stager : Stages(s)
  \/ ReadManifest \/ VerifyEntry \/ VerifyUnlisted \/ \E asked \in BOOLEAN : ReadSource(asked)

SnapshotSpec == SnapshotInit /\ [][SnapshotNext]_snapshotVars
-----------------------------------------------------------------------------
(* Properties. *)

\* A price that ended has read, of every file it asked for, the bytes the manifest it cites names,
\* unless the stage was changed under it: no torn or stale stage is priced against.
SettledPriceIsCited ==
  priceStep = "done" /\ ~touched => \A f \in DOMAIN used : used[f] = cited[f].bytes

\* The same whatever happens to the stage meanwhile (price_snapshot.py, verify_snapshot).
PriceReadsWhatItCites ==
  priceStep = "done" => \A f \in DOMAIN used : used[f] = cited[f].bytes

\* What a leg that came now would accept, as one step.
Accepted ==
  /\ snapManifest # NoManifest
  /\ \A f \in DOMAIN snapManifest : linked[f] # AbsentFile /\ (f \in Lazy \/ Fits(f, snapManifest))
  /\ \A f \in SnapFile \ DOMAIN snapManifest : linked[f] = AbsentFile
Staging == INSTANCE Shown WITH
  Content <- SnapContent, Required <- Required \ Lazy,
  shown <- IF Accepted THEN [f \in DOMAIN snapManifest \ Lazy |-> inode[linked[f]].bytes] ELSE <<>>,
  held <- had

\* The staging, file by file and with its kills, shows a leg nothing or a whole snapshot.
ShownIsWhole == Staging!Spec

(***************************************************************************)
(* A price that ended on an untouched stage read what it cites, in a state *)
(* of its type (price_snapshot.py, verify_snapshot).                       *)
(***************************************************************************)
PriceCitesTheStage == SnapshotTypeOK /\ SettledPriceIsCited
=============================================================================
