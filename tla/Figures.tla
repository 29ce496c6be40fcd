------------------------------ MODULE Figures ------------------------------
(***************************************************************************)
(* The 2002 to 2013 additions and the page that quotes them:               *)
(* extended_export.py with its cache of screened inputs,                   *)
(* build_round_state.py with the figures round_figures.py prints, and the  *)
(* check of that page.                                                     *)
(*                                                                         *)
(* The export deletes its folder file by file, writes year after year and  *)
(* its manifest last; the state is built from the files while a bank may be exporting   *)
(* them again, and an intake may move the release under both.  A journal's *)
(* content is the number of times it landed; what a year's additions are   *)
(* is the contents they were screened from and the release they are beyond.*)
(***************************************************************************)
EXTENDS Naturals, Sequences, FiniteSets

CONSTANTS Inputs,      \* the capture journals
          Years,
          Refused,     \* inputs whose source the register has not approved
          MaxLands, MaxReleases, MaxExports, MaxBuilds, MaxCuts

ASSUME FiguresAssumption ==
  /\ IsFiniteSet(Inputs) /\ IsFiniteSet(Years) /\ Years # {} /\ Refused \subseteq Inputs
  /\ {MaxLands, MaxExports, MaxBuilds, MaxCuts} \subseteq Nat /\ MaxReleases \in Nat \ {0}

VARIABLES
  landed,    \* input -> its content, 0 when it is not on disk
  approved,  \* the register's word on each input's source
  release,   \* the release data/baseline.json names
  entries,   \* input -> the cached key and what the cached rows are of
  out,       \* output/extended_years: there, additions by year, the manifest if written
  exporter,  \* the export under way
  builder,   \* the state being built
  page,      \* docs/ROUND.md: its footer and its figures, if written
  underRead, \* history: inputs whose cached rows are from before the content they are keyed on
  torn,      \* history: exports whose manifest stood while a year of theirs was deleted
  exports, builds, cuts

figuresVars == <<landed, approved, release, entries, out, exporter, builder, page, underRead, torn, exports, builds, cuts>>

Absent     == [i \in Inputs |-> 0]
NoEntry    == [key |-> 0, rows |-> 0]
NoYears    == [y \in Years |-> <<>>]
NoOut      == [there |-> FALSE, adds |-> NoYears, manifest |-> <<>>]
Exporting  == [at |-> "idle", release |-> 0, inputs |-> {}, rows |-> Absent, keys |-> Absent,
               left |-> {}, years |-> {}]
Building   == [at |-> "idle", release |-> 0, footer |-> 0, figures |-> NoYears, left |-> {}]
NoPage     == <<>>

FiguresInit ==
  /\ landed = Absent /\ approved = Inputs \ Refused /\ release = 1
  /\ entries = [i \in Inputs |-> NoEntry] /\ out = NoOut
  /\ exporter = Exporting /\ builder = Building /\ page = NoPage
  /\ underRead = {} /\ torn = {} /\ exports = 0 /\ builds = 0 /\ cuts = 0

OnDisk  == {i \in Inputs : landed[i] > 0}
Written == out.manifest # <<>>
Said    == out.manifest[1]
Footer  == IF Written THEN Said.at ELSE 0     \* the sha256 of the manifest, or "missing"
-----------------------------------------------------------------------------
(* The journals, the register and the release. *)

Land(i) ==
  /\ landed[i] < MaxLands
  /\ landed' = [landed EXCEPT ![i] = @ + 1]
  /\ UNCHANGED <<approved, release, entries, out, exporter, builder, page, underRead, torn, exports, builds, cuts>>

Approve(i) ==
  /\ i \notin approved
  /\ approved' = approved \cup {i}
  /\ UNCHANGED <<landed, release, entries, out, exporter, builder, page, underRead, torn, exports, builds, cuts>>

TakeRelease ==
  /\ release < MaxReleases
  /\ release' = release + 1
  /\ UNCHANGED <<landed, approved, entries, out, exporter, builder, page, underRead, torn, exports, builds, cuts>>
-----------------------------------------------------------------------------
(* extended_export.py *)

\* An input it recorded changed or went, or, unless allowed, one was added.
Moved(allowAdded) ==
  \/ \E i \in Inputs : Said.keys[i] > 0 /\ landed[i] # Said.keys[i]
  \/ ~allowAdded /\ OnDisk # {i \in Inputs : Said.keys[i] > 0}

\* --check: nothing to export and nothing written is current too.
Current(allowAdded) ==
  IF ~Written THEN ~out.there /\ OnDisk = {} ELSE Said.release = release /\ ~Moved(allowAdded)

\* Begun behind the check; the folder goes before the inputs are looked at.
Export ==
  /\ exporter.at = "idle" /\ exports < MaxExports /\ ~Current(FALSE)
  /\ exports' = exports + 1
  /\ exporter' = [Exporting EXCEPT !.at = IF out.there THEN "clear" ELSE "make",
                                   !.release = release, !.years = IF out.there THEN Years ELSE {}]
  /\ UNCHANGED <<landed, approved, release, entries, out, builder, page, underRead, torn, builds, cuts>>

\* rmtree takes additions/ whole, before the manifest or after it.
ClearYear(y) ==
  /\ exporter.at = "clear" /\ y \in exporter.years
  /\ exporter' = [exporter EXCEPT !.years = @ \ {y}]
  /\ out' = [out EXCEPT !.adds[y] = <<>>]
  /\ torn' = IF Written THEN torn \cup {Said.at} ELSE torn
  /\ UNCHANGED <<landed, approved, release, entries, builder, page, underRead, exports, builds, cuts>>

ClearManifest ==
  /\ exporter.at = "clear" /\ exporter.years \in {Years, {}} /\ Written
  /\ out' = [out EXCEPT !.manifest = <<>>]
  /\ UNCHANGED <<landed, approved, release, entries, exporter, builder, page, underRead, torn, exports, builds, cuts>>

Cleared ==
  /\ exporter.at = "clear" /\ exporter.years = {} /\ ~Written
  /\ out' = NoOut
  /\ exporter' = [exporter EXCEPT !.at = "make"]
  /\ UNCHANGED <<landed, approved, release, entries, builder, page, underRead, torn, exports, builds, cuts>>

Make ==
  /\ exporter.at = "make"
  /\ out' = [NoOut EXCEPT !.there = TRUE]
  /\ exporter' = [exporter EXCEPT !.at = "resolve"]
  /\ UNCHANGED <<landed, approved, release, entries, builder, page, underRead, torn, exports, builds, cuts>>

\* One source the register has not approved refuses the run.
Resolve ==
  /\ exporter.at = "resolve"
  /\ exporter' = IF ~(OnDisk \subseteq approved) THEN Exporting
                 ELSE [exporter EXCEPT !.at = "screen", !.inputs = OnDisk, !.left = OnDisk]
  /\ UNCHANGED <<landed, approved, release, entries, out, builder, page, underRead, torn, exports, builds, cuts>>

\* cached: the file is as it was when its rows were kept.
Hit(i) == entries[i].key = landed[i]

Screened(i, key, rows) ==
  exporter' = [exporter EXCEPT !.at = "screen", !.left = @ \ {i}, !.rows[i] = rows, !.keys[i] = key]

FromCache(i) ==
  /\ exporter.at = "screen" /\ i \in exporter.left /\ Hit(i)
  /\ Screened(i, entries[i].key, entries[i].rows)
  /\ UNCHANGED <<landed, approved, release, entries, out, builder, page, underRead, torn, exports, builds, cuts>>

\* A miss is read, its rows as they are when the read begins.
OpenInput(i) ==
  /\ exporter.at = "screen" /\ i \in exporter.left /\ ~Hit(i)
  /\ exporter' = [exporter EXCEPT !.at = "read", !.rows[i] = landed[i]]
  /\ UNCHANGED <<landed, approved, release, entries, out, builder, page, underRead, torn, exports, builds, cuts>>

\* The entry is keyed on the file once it is read.
KeepInput(i) ==
  /\ exporter.at = "read" /\ i \in exporter.left /\ exporter.rows[i] > 0
  /\ entries' = [entries EXCEPT ![i] = [key |-> landed[i], rows |-> exporter.rows[i]]]
  /\ underRead' = IF exporter.rows[i] = landed[i] THEN underRead \ {i} ELSE underRead \cup {i}
  /\ Screened(i, landed[i], exporter.rows[i])
  /\ UNCHANGED <<landed, approved, release, out, builder, page, torn, exports, builds, cuts>>

AllScreened ==
  /\ exporter.at = "screen" /\ exporter.left = {}
  /\ exporter' = [exporter EXCEPT !.at = "years", !.years = Years]
  /\ UNCHANGED <<landed, approved, release, entries, out, builder, page, underRead, torn, exports, builds, cuts>>

\* One year's additions, beyond his file of the release the run began with; the release
\* before is gone with its folder.
WriteYear(y) ==
  /\ exporter.at = "years" /\ y \in exporter.years
  /\ IF release # exporter.release
     THEN exporter' = Exporting /\ out' = out
     ELSE /\ out' = [out EXCEPT !.adds[y] = <<[rows |-> exporter.rows, release |-> release]>>]
          /\ exporter' = [exporter EXCEPT !.years = @ \ {y}]
  /\ UNCHANGED <<landed, approved, release, entries, builder, page, underRead, torn, exports, builds, cuts>>

\* Each input by what its rows were keyed on.
WriteManifest ==
  /\ exporter.at = "years" /\ exporter.years = {}
  /\ out' = [out EXCEPT !.manifest =
               <<[at |-> exports, release |-> exporter.release, keys |-> exporter.keys]>>]
  /\ exporter' = Exporting
  /\ UNCHANGED <<landed, approved, release, entries, builder, page, underRead, torn, exports, builds, cuts>>
-----------------------------------------------------------------------------
(* build_round_state.py *)

\* The claim's files are hashed before the figures run.
Build ==
  /\ builder.at = "idle" /\ builds < MaxBuilds
  /\ builds' = builds + 1
  /\ builder' = [Building EXCEPT !.at = "problem", !.release = release, !.footer = Footer]
  /\ UNCHANGED <<landed, approved, release, entries, out, exporter, page, underRead, torn, exports, cuts>>

\* Why the figures are withheld: a source not approved, no manifest over a folder, or another
\* release's; an input that moved is only said.
Withheld ==
  \/ ~(OnDisk \subseteq approved)
  \/ IF Written THEN Said.release # builder.release ELSE out.there \/ OnDisk # {}

Problem ==
  /\ builder.at = "problem"
  /\ builder' = IF Withheld THEN [builder EXCEPT !.at = "write"]
                ELSE [builder EXCEPT !.at = "figures", !.left = Years]
  /\ UNCHANGED <<landed, approved, release, entries, out, exporter, page, underRead, torn, exports, builds, cuts>>

\* round_figures.py prices the files year after year; a year without one adds nothing.
PriceYear(y) ==
  /\ builder.at = "figures" /\ y \in builder.left
  /\ builder' = [builder EXCEPT !.figures[y] = out.adds[y], !.left = @ \ {y}]
  /\ UNCHANGED <<landed, approved, release, entries, out, exporter, page, underRead, torn, exports, builds, cuts>>

WritePage ==
  /\ \/ builder.at = "figures" /\ builder.left = {}
     \/ builder.at = "write"
  /\ page' = <<[footer |-> builder.footer, quoted |-> builder.at = "figures",
                figures |-> builder.figures, release |-> builder.release]>>
  /\ builder' = Building
  /\ UNCHANGED <<landed, approved, release, entries, out, exporter, underRead, torn, exports, builds, cuts>>

\* Mutant: the footer alone is compared.
MutChecks == page # NoPage /\ page[1].footer = Footer

\* `just state --check`: the export has no problem now, and the footer is that of the files.
Checks ==
  /\ page # NoPage /\ page[1].footer = Footer /\ page[1].release = release
  /\ OnDisk \subseteq approved
  /\ IF Written THEN Said.release = release ELSE ~out.there /\ OnDisk = {}
-----------------------------------------------------------------------------
\* The bank, or the hand that runs one of them, is killed.
Cut ==
  /\ cuts < MaxCuts /\ (exporter # Exporting \/ builder # Building)
  /\ cuts' = cuts + 1
  /\ exporter' = Exporting /\ builder' = Building
  /\ UNCHANGED <<landed, approved, release, entries, out, page, underRead, torn, exports, builds>>

FiguresNext ==
  \/ TakeRelease \/ Export \/ ClearManifest \/ Cleared \/ Make \/ Resolve \/ AllScreened \/ WriteManifest
  \/ Build \/ Problem \/ WritePage \/ Cut
  \/ \E i \in Inputs : Land(i) \/ Approve(i) \/ FromCache(i) \/ OpenInput(i) \/ KeepInput(i)
  \/ \E y \in Years : ClearYear(y) \/ WriteYear(y) \/ PriceYear(y)

FiguresSpec == FiguresInit /\ [][FiguresNext]_figuresVars
-----------------------------------------------------------------------------
Addition == [rows : [Inputs -> 0..MaxLands], release : 1..MaxReleases]

FiguresTypeOK ==
  /\ landed \in [Inputs -> 0..MaxLands] /\ approved \subseteq Inputs /\ release \in 1..MaxReleases
  /\ entries \in [Inputs -> [key : 0..MaxLands, rows : 0..MaxLands]]
  /\ \A y \in Years : out.adds[y] \in {<<>>} \cup {<<a>> : a \in Addition}
  /\ exporter.at \in {"idle", "clear", "make", "resolve", "screen", "read", "years"}
  /\ underRead \subseteq Inputs /\ torn \subseteq 1..exports
  /\ builder.at \in {"idle", "problem", "figures", "write"}

(***************************************************************************)
(* An export the check calls current is the one a run would write now:     *)
(* every year is there, beyond his current file, screened from the inputs  *)
(* as they are, whatever was cached, killed, landed or taken in between,   *)
(* but for an input that grew while it was screened: it is keyed on its    *)
(* size after the read, although a journal is said to only grow so that    *)
(* the key names its rows (extended_export.py:68-71, 416-443).             *)
(***************************************************************************)
CurrentIsFresh ==
  Written /\ Current(FALSE) =>
    \A y \in Years : out.adds[y] # <<>> /\ LET a == out.adds[y][1] IN
      a.release = release /\ \A i \in Inputs \ underRead : a.rows[i] = landed[i]

(***************************************************************************)
(* A page that passes its check quotes the figures of the files on disk,   *)
(* all of one export and of each of its years, though it was built while a *)
(* bank deleted and rewrote them (build_round_state.py:205-208, 303-330);  *)
(* but for an export whose years went before its manifest did: the check   *)
(* reads the manifest alone (extended_export.py:303-305).                  *)
(***************************************************************************)
CheckedIsCurrent ==
  Checks /\ page[1].quoted /\ Footer \notin torn =>
    page[1].figures = out.adds /\ (Written => \A y \in Years : page[1].figures[y] # <<>>)

(***************************************************************************)
(* As the builder words it, a file that changes in between "reads as       *)
(* stale, never as current" (build_round_state.py:205-208).  Not kept: an  *)
(* export killed while it clears the folder leaves a manifest that passes  *)
(* over years that are gone (extended_export.py:303-305).                  *)
(***************************************************************************)
ChangedIsStale == Checks /\ page[1].quoted => page[1].figures = out.adds

(***************************************************************************)
(* What a check passes is of now: the export of its inputs, the page of    *)
(* that export (extended_export.py:416-443, build_round_state.py:303-330). *)
(***************************************************************************)
FiguresAreCurrent == FiguresTypeOK /\ CurrentIsFresh /\ CheckedIsCurrent
=============================================================================
