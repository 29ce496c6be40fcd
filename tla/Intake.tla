------------------------------- MODULE Intake -------------------------------
(***************************************************************************)
(* Taking a release of his: the `intake` recipe of the justfile, the       *)
(* script it runs (scripts/round/intake.py with releases.py), the held     *)
(* sets `ark intake` prepares (src/ark/held.py), and a reader that loads   *)
(* them and then compares file after file.                                 *)
(*                                                                         *)
(* The recipe takes no lock, so a reader runs through all of it, and a     *)
(* kill may fall between any two writes.  A release is the few files that  *)
(* are treated apart: year files, the first of which makes its folder a    *)
(* tree, and a candidate file.  A small page is written in one step; an    *)
(* archive's member and the copy of an archive are not.                    *)
(***************************************************************************)
EXTENDS Naturals, Sequences, FiniteSets, FiniteSetsExt

CONSTANTS Markers, NoMarker,
          Archives,   \* numbered in the order of their names
          MarkerOf,   \* archive -> the marker its members carry
          Members,    \* the files of a release, in the archive's order
          Core,       \* those the six years are
          Unsorted,   \* those held as a sorted copy
          MaxIntakes, MaxKills, MaxEdits

Files == {Members[i] : i \in 1..Len(Members)}

ASSUME IntakeAssumption ==
  /\ Archives \subseteq Nat \ {0} /\ MarkerOf \in [Archives -> Markers] /\ NoMarker \notin Markers
  /\ Members \in Seq(Files) /\ Members # <<>> /\ Members[1] \in Core
  /\ Core \subseteq Files /\ Unsorted \subseteq Files
  /\ {MaxIntakes, MaxKills, MaxEdits} \subseteq Nat

Gone  == <<>>                       \* no such file
Empty == [f \in Files |-> Gone]

VARIABLES
  tree,     \* marker -> file -> Gone, or <<archive, version, lines>>: version 0 half
            \* written, 1 as extracted, and one more for each mend since
  besides,  \* archive -> its copy under ding/: "none", "part" or "whole"
  current,  \* data/baseline.json: the marker named and the files its figures are of
  shaOf,    \* marker -> the archive whose sha256 its row of the page holds, {0} while the
            \* row is pending, {} without a row
  held,     \* marker -> data/held/<marker>: what its copies and merged sets were made of,
            \* and what its stamp says of his files and of them, if it is there
  istep, archive, previous, nth, figures,   \* the run of the recipe
  reader,   \* at, his files and the sets as loaded, and what was read
  intakes, intakeKills, edits,
  evened    \* history: the markers whose files a mend left with as many lines as the
            \* stored figures were measured on, but not those lines

intakeVars == <<tree, besides, current, shaOf, held, istep, archive, previous, nth, figures,
                reader, intakes, intakeKills, edits, evened>>

NoReader == [at |-> NoMarker, files |-> Empty, sets |-> Empty, seen |-> Empty]
Unheld   == [copies |-> Empty, merged |-> Empty, stamp |-> <<>>]

IntakeInit ==
  /\ tree = [m \in Markers |-> Empty] /\ besides = [a \in Archives |-> "none"]
  /\ current = [marker |-> NoMarker, figures |-> Empty] /\ shaOf = [m \in Markers |-> {}]
  /\ held = [m \in Markers |-> Unheld]
  /\ istep = "idle" /\ archive = 0 /\ previous = NoMarker /\ nth = 0 /\ figures = Empty
  /\ reader = NoReader /\ intakes = 0 /\ intakeKills = 0 /\ edits = 0
  /\ evened = {}

Moves(s) == istep' = s /\ UNCHANGED <<archive, previous, nth, figures>>
Ends    == istep' = "idle" /\ archive' = 0 /\ previous' = NoMarker /\ nth' = 0 /\ figures' = Empty
disk    == <<tree, besides, current, shaOf, held>>
limits  == <<intakes, intakeKills, edits, evened>>
marker  == MarkerOf[archive]

Found(m)     == tree[m][Members[1]] # Gone     \* find_trees: the folder has its first year
IsWhole(c)   == c # Gone /\ c[2] # 0
Cores(files) == [f \in Files |-> IF f \in Core THEN files[f] ELSE Gone]

Half         == <<archive, 0, 1>>
Entire       == <<archive, 1, 2>>

\* All that is asked of the year files before their figures are kept: their lines' sum.
Lines(c)     == IF c = Gone THEN 0 ELSE c[3]
Count(files) == LET of(f) == Lines(files[f]) IN MapThenSumSet(of, Core)
-----------------------------------------------------------------------------
(* scripts/round/intake.py *)

\* An archive from elsewhere, or one put under ding/ by hand.
\* No reader outlasts the intake that replaced its release by another one.
Offer(a) ==
  /\ istep = "idle" /\ intakes < MaxIntakes
  /\ reader = NoReader \/ reader.at = current.marker
  /\ intakes' = intakes + 1
  /\ istep' = "checksum" /\ archive' = a /\ previous' = current.marker
  /\ \/ besides' = besides
     \/ besides[a] = "none" /\ besides' = [besides EXCEPT ![a] = "whole"]
  /\ UNCHANGED <<tree, current, shaOf, held, nth, figures, reader, intakeKills, edits, evened>>

\* Refused when the page records the marker under another sha256.
Checksum ==
  /\ istep = "checksum"
  /\ IF shaOf[marker] \in {{}, {0}, {archive}} THEN Moves("extract") ELSE Ends
  /\ UNCHANGED <<disk, reader, limits>>

\* A tree already there is used as it is.
Extract ==
  /\ istep = "extract"
  /\ Moves(IF Found(marker) THEN "artifact" ELSE "members")
  /\ UNCHANGED <<disk, reader, limits>>

\* Member after member, each for a while half written.
WriteMember ==
  /\ istep = "members"
  /\ IF nth = Len(Members) THEN istep' = "artifact" /\ nth' = 0 /\ tree' = tree
     ELSE LET f == Members[nth + 1]
          IN  /\ istep' = istep
              /\ IF tree[marker][f] = Half
                 THEN tree' = [tree EXCEPT ![marker][f] = Entire] /\ nth' = nth + 1
                 ELSE tree' = [tree EXCEPT ![marker][f] = Half] /\ nth' = nth
  /\ UNCHANGED <<archive, previous, figures, besides, current, shaOf, held, reader, limits>>

\* The archive is kept beside its tree, unless a file of its name is there.
Artifact ==
  /\ istep = "artifact"
  /\ IF besides[archive] = "none"
     THEN besides' = [besides EXCEPT ![archive] = "part"] /\ Moves("copying")
     ELSE besides' = besides /\ Moves("counts")
  /\ UNCHANGED <<tree, current, shaOf, held, reader, limits>>

Copied ==
  /\ istep = "copying"
  /\ besides' = [besides EXCEPT ![archive] = "whole"]
  /\ Moves("counts")
  /\ UNCHANGED <<tree, current, shaOf, held, reader, limits>>

\* Mutant: the stored figures are kept for the marker, whatever its files count.
MutKept == current.marker = marker

\* kept_ee: stored for this marker, over as many lines.
Kept == current.marker = marker /\ Count(current.figures) = Count(tree[marker])

\* A year short ends the run; then the figures are kept or measured anew.
Measure ==
  /\ istep = "counts"
  /\ IF \E f \in Core : tree[marker][f] = Gone THEN Ends /\ evened' = evened
     ELSE /\ istep' = "json" /\ UNCHANGED <<archive, previous, nth>>
          /\ figures' = IF Kept THEN current.figures ELSE Cores(tree[marker])
          /\ evened' = IF Kept THEN evened ELSE evened \ {marker}
  /\ UNCHANGED <<disk, reader, intakes, intakeKills, edits>>

UpdateBaseline ==
  /\ istep = "json"
  /\ current' = [marker |-> marker, figures |-> figures]
  /\ istep' = "page" /\ figures' = Empty /\ UNCHANGED <<archive, previous, nth>>
  /\ UNCHANGED <<tree, besides, shaOf, held, reader, limits>>

\* The release's row and every row still pending takes the sha256 of the first readable
\* archive of its marker.
FillPage ==
  /\ istep = "page"
  /\ LET of(m)    == {a \in Archives : MarkerOf[a] = m /\ besides[a] = "whole"}
         first(m) == IF of(m) = {} THEN {0} ELSE {Min(of(m))}
         open     == {m \in Markers : shaOf[m] = {0} \/ (m = marker /\ shaOf[m] = {})}
     IN  shaOf' = [m \in Markers |-> IF m \in open THEN first(m) ELSE shaOf[m]]
  /\ Moves("prepare")
  /\ UNCHANGED <<tree, besides, current, held, reader, limits>>
-----------------------------------------------------------------------------
(* src/ark/held.py: `ark intake` on the release now named *)

\* An incomplete release is refused before anything goes; else the stamp goes first.
Unstamp ==
  /\ istep = "prepare"
  /\ IF \E f \in Files : tree[current.marker][f] = Gone THEN Ends /\ held' = held
     ELSE Moves("copies") /\ held' = [held EXCEPT ![current.marker].stamp = <<>>]
  /\ UNCHANGED <<tree, besides, current, shaOf, reader, limits>>

\* A sorted copy of each file that needs one, each replaced whole.
CopyNext ==
  /\ istep = "copies"
  /\ IF nth = Len(Members) THEN istep' = "merge" /\ nth' = 0 /\ held' = held
     ELSE /\ nth' = nth + 1 /\ istep' = istep
          /\ LET f == Members[nth + 1]
             IN  held' = [held EXCEPT ![current.marker].copies[f] =
                            IF f \in Unsorted THEN tree[current.marker][f] ELSE Gone]
  /\ UNCHANGED <<archive, previous, figures, tree, besides, current, shaOf, reader, limits>>

\* What a file of the release is read as.
Use(m, f) == IF f \in Unsorted THEN held[m].copies[f] ELSE tree[m][f]

\* all.txt, then candidates.txt.
Merge ==
  /\ istep = "merge"
  /\ LET fs == IF nth = 0 THEN Core ELSE Files \ Core
     IN  held' = [held EXCEPT ![current.marker].merged =
                    [f \in Files |-> IF f \in fs THEN Use(current.marker, f) ELSE @[f]]]
  /\ IF nth = 0 THEN nth' = 1 /\ istep' = istep ELSE nth' = 0 /\ istep' = "stamp"
  /\ UNCHANGED <<archive, previous, figures, tree, besides, current, shaOf, reader, limits>>

Sha ==
  /\ istep = "stamp"
  /\ held' = [held EXCEPT ![current.marker].stamp =
                <<[files |-> tree[current.marker], copies |-> held[current.marker].copies,
                   merged |-> held[current.marker].merged]>>]
  /\ Moves("sweep")
  /\ UNCHANGED <<tree, besides, current, shaOf, reader, limits>>

\* The sets of the other releases that carry a stamp.
SweepHeld ==
  /\ istep = "sweep"
  /\ held' = [m \in Markers |-> IF m # current.marker /\ held[m].stamp # <<>> THEN Unheld ELSE held[m]]
  /\ Moves("drop")
  /\ UNCHANGED <<tree, besides, current, shaOf, reader, limits>>

\* The release replaced, if another is named now.
Dropped == {previous} \ {NoMarker, current.marker}

\* `rm -rf "$PREV"`, the snapshot staged and pushed.
Drop ==
  /\ istep = "drop"
  /\ tree' = [m \in Markers |-> IF m \in Dropped THEN Empty ELSE tree[m]]
  /\ Ends
  /\ UNCHANGED <<besides, current, shaOf, held, reader, limits>>

Recipe ==
  \/ Checksum \/ Extract \/ WriteMember \/ Artifact \/ Copied \/ Measure \/ UpdateBaseline \/ FillPage
  \/ Unstamp \/ CopyNext \/ Merge \/ Sha \/ SweepHeld \/ Drop
-----------------------------------------------------------------------------
\* load: nothing stamped has changed since, his files and the sets alike.
Fresh(m, stamp) ==
  /\ stamp.files = tree[m]
  /\ stamp.copies = held[m].copies /\ stamp.merged = held[m].merged

Load ==
  /\ reader = NoReader /\ current.marker # NoMarker
  /\ LET m == current.marker IN
     /\ held[m].stamp # <<>> /\ Fresh(m, held[m].stamp[1])
     /\ reader' = [at |-> m, files |-> tree[m], sets |-> held[m].merged, seen |-> Empty]
  /\ UNCHANGED <<disk, istep, archive, previous, nth, figures, limits>>

\* The folder as it was loaded.
ReadAt == reader.at

\* One file compared; a file that is gone ends the reader, which says so.
ReadFile(f) ==
  /\ reader # NoReader /\ reader.seen[f] = Gone
  /\ reader' = IF Use(ReadAt, f) = Gone THEN NoReader
               ELSE [reader EXCEPT !.seen[f] = Use(ReadAt, f)]
  /\ UNCHANGED <<disk, istep, archive, previous, nth, figures, limits>>

ReadEnds ==
  /\ reader # NoReader /\ \A f \in Files : reader.seen[f] # Gone
  /\ reader' = NoReader
  /\ UNCHANGED <<disk, istep, archive, previous, nth, figures, limits>>
-----------------------------------------------------------------------------
\* A person mends a file of his by hand, with nothing running: a line corrected, added
\* or taken out.
Edit(m, f) ==
  /\ istep = "idle" /\ reader = NoReader /\ edits < MaxEdits /\ IsWhole(tree[m][f])
  /\ edits' = edits + 1
  /\ \E n \in {tree[m][f][3] - 1, tree[m][f][3], tree[m][f][3] + 1} \cap Nat :
       tree' = [tree EXCEPT ![m][f] = <<@[1], 1 + edits', n>>]
  /\ evened' = IF /\ m = current.marker /\ current.figures # Cores(tree'[m])
                  /\ Count(current.figures) = Count(tree'[m])
               THEN evened \cup {m} ELSE evened
  /\ UNCHANGED <<besides, current, shaOf, held, istep, archive, previous, nth, figures, reader,
                 intakes, intakeKills>>

\* `ark intake` alone.
PrepareAgain ==
  /\ istep = "idle" /\ intakes < MaxIntakes /\ current.marker # NoMarker
  /\ intakes' = intakes + 1
  /\ istep' = "prepare" /\ previous' = current.marker
  /\ UNCHANGED <<disk, archive, nth, figures, reader, intakeKills, edits, evened>>

Kill ==
  /\ istep # "idle" /\ intakeKills < MaxKills
  /\ intakeKills' = intakeKills + 1
  /\ Ends
  /\ UNCHANGED <<disk, reader, intakes, edits, evened>>

IntakeNext ==
  \/ Recipe \/ PrepareAgain \/ Kill \/ Load \/ ReadEnds
  \/ \E a \in Archives : Offer(a)
  \/ \E f \in Files : ReadFile(f)
  \/ \E m \in Markers, f \in Files : Edit(m, f)

IntakeSpec == IntakeInit /\ [][IntakeNext]_intakeVars
-----------------------------------------------------------------------------
Contents == {Gone} \cup (Archives \X Nat \X Nat)

IntakeTypeOK ==
  /\ tree \in [Markers -> [Files -> Contents]]
  /\ besides \in [Archives -> {"none", "part", "whole"}]
  /\ current.marker \in Markers \cup {NoMarker}
  /\ \A m \in Markers : shaOf[m] \subseteq Archives \cup {0} /\ Cardinality(shaOf[m]) <= 1
  /\ nth \in 0..Len(Members) /\ evened \subseteq Markers

(***************************************************************************)
(* A reader that got past `load` compares with his files as they are: the  *)
(* merged sets are of exactly those, and every file it reads afterwards is *)
(* of the same release, over an intake that goes on underneath, a          *)
(* preparation killed anywhere and a file mended by hand (held.py:213-321).*)
(***************************************************************************)
ReadIsHis ==
  reader # NoReader =>
    /\ reader.sets = reader.files
    /\ \A f \in Files : reader.seen[f] \in {Gone, reader.files[f]}

(***************************************************************************)
(* The release data/baseline.json names is on disk, whichever archives     *)
(* were taken in whatever order and wherever a run was killed: the removal *)
(* never takes the one in use (justfile:933-935).                          *)
(***************************************************************************)
CurrentIsThere == current.marker # NoMarker => Found(current.marker)

(***************************************************************************)
(* Said at intake.py:170 of the figures a run keeps: they belong to        *)
(* exactly these files.  Not kept: only the sum of the lines is compared.  *)
(***************************************************************************)
FiguresAreOfTree ==
  istep \in {"page", "prepare"} /\ archive # 0 => current.figures = Cores(tree[current.marker])

(***************************************************************************)
(* Once a run has written data/baseline.json its figures are of the files  *)
(* on disk, whatever was cut short, taken in again or mended before: but   *)
(* for a mend by hand that left as many lines (intake.py:167-179).         *)
(***************************************************************************)
FiguresFollowTree == current.marker \notin evened => FiguresAreOfTree

(***************************************************************************)
(* Said at intake.py:22-27: a second run re-reads what is there, and the   *)
(* run refuses rather than half-applying.  Not kept after a kill.          *)
(***************************************************************************)
NamedIsWhole ==
  current.marker # NoMarker => \A f \in Files : IsWhole(tree[current.marker][f])

(***************************************************************************)
(* What readers compare with is the release on disk, which is there, and   *)
(* the figures quoted are its own unless a mend evened its lines out       *)
(* (held.py:213-321, intake.py:167-179, justfile:933-935).                 *)
(***************************************************************************)
ReleaseIsHis == IntakeTypeOK /\ ReadIsHis /\ CurrentIsThere /\ FiguresFollowTree
=============================================================================
