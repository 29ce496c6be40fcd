--------------------------------- MODULE Ship ---------------------------------
(***************************************************************************)
(* What a round ships: the claim a bank exports, the full export over it   *)
(* (export.py), the package built from the files (package_delivery.sh) and *)
(* its way to the reviewer's Drive folder (justfile, `just ship`).         *)
(*                                                                         *)
(* A ship holds the sync lock, so no tick banks while it runs; a tick      *)
(* still pulls the clone before it asks for the lock, and a retraction by  *)
(* hand, the intake of a release and `ship drive` take none: the last may  *)
(* copy to the folder beside a ship that does.                             *)
(***************************************************************************)
EXTENDS Naturals, FiniteSets, Sequences

CONSTANTS MaxArrivals, MaxPulls, MaxRetracts, MaxShips

ASSUME ShipAssumption == {MaxArrivals, MaxPulls, MaxRetracts, MaxShips} \subseteq Nat

VARIABLES
  book,      \* the store: its ledger (rows counted) and the facts behind it
  code,      \* HEAD of the clone
  base,      \* the release HEAD names
  heldsets,  \* the release the held sets were built for
  arrived,   \* something for a bank to book
  claimed, netnew, full, graph,  \* what each group of exported files was written from
  stamp,     \* export_stamp.json
  aside,     \* data/exports/claim: the bank's stamp and candidate list
  archives,  \* submissions/phase-N, oldest first
  summed,    \* the archives with a .sha256 beside them
  manifest,  \* the archive MANIFEST.txt describes, 0 before the first
  verified,  \* the archives a ship unpacked afresh and verified
  drive,     \* the archives, checksums and manifest in the reviewer's folder
  gate,      \* the round's gate issue
  ticking,   \* a tick's bank holds the lock
  plan, at,  \* the running ship and its step
  lone,      \* a `ship drive` by itself: its step and the archive it chose
  astray,    \* history: how an archive was let pass to a folder that holds or awaits another
  pulls, ships

world   == <<book, code, base, heldsets, arrived, ticking>>
outputs == <<claimed, netnew, full, graph, stamp>>
shelf   == <<archives, summed, manifest>>
folder  == <<drive, astray, lone>>
shipVars == <<world, outputs, aside, shelf, verified, folder, gate, plan, at, pulls, ships>>

None    == [led |-> 0, facts |-> 0, base |-> 0, code |-> 0]
NoStamp == [mode |-> "none", led |-> 0, base |-> 0, code |-> 0]
Now     == [led |-> book.led, facts |-> book.facts, base |-> base, code |-> code]

Steps == {"idle", "prep", "claim", "aside", "full", "check", "files", "store", "stage",
          "sum", "describe", "verify", "fresh", "drive", "copy", "drivesum", "drivedoc", "close"}
Rest == [step |-> "idle", archive |-> 0]

ShipInit ==
  /\ book = [led |-> 1, facts |-> 1] /\ code = 1 /\ base = 1 /\ heldsets = 1 /\ arrived = FALSE
  /\ claimed = Now /\ netnew = Now /\ full = None /\ graph = None
  /\ stamp = [mode |-> "claim", led |-> 1, base |-> 1, code |-> 1]
  /\ aside = [stamp |-> NoStamp, pool |-> None]
  /\ archives = <<>> /\ summed = {} /\ manifest = 0 /\ verified = {}
  /\ drive = [archives |-> {}, summed |-> {}, manifest |-> 0]
  /\ lone = Rest /\ astray = {}
  /\ gate = "none" /\ ticking = FALSE /\ plan = "none" /\ at = "idle" /\ pulls = 0 /\ ships = 0

\* The sync lock is the ship's from its first step on.
Locked == at # "idle"

-----------------------------------------------------------------------------
(* export.py *)

\* Mutant: the claim's files stand whatever code wrote them.
MutReuse ==
  /\ stamp.mode = "claim" /\ stamp.base = base /\ stamp.led = book.led

\* A full export keeps the claim's files when the stamp says that this code wrote
\* them from this ledger and this release.
Reuse ==
  /\ stamp.mode = "claim" /\ stamp.code = code /\ stamp.base = base /\ stamp.led = book.led

Stamp(mode) == [mode |-> mode, led |-> book.led, base |-> base, code |-> code]

\* Without the held sets of HEAD's release the export stops, its old stamp gone.
ExportRefused ==
  /\ heldsets # base
  /\ stamp' = NoStamp
  /\ UNCHANGED <<claimed, netnew, full, graph>>

\* `ark export --claim`, to the end or cut off before its stamp.
ExportClaim ==
  /\ heldsets = base
  /\ netnew' = Now
  /\ \/ claimed' = Now /\ stamp' = Stamp("claim")
     \/ claimed' \in {claimed, Now} /\ stamp' = NoStamp
  /\ UNCHANGED <<full, graph>>

\* `ark export --provenance`.
ExportFull ==
  /\ heldsets = base
  /\ netnew' = Now
  /\ claimed' = IF Reuse THEN claimed ELSE Now
  /\ full' = Now /\ graph' = Now /\ stamp' = Stamp("full")

\* It is cut off, or its manifests' rows are not the shipped lines.
ExportFullCut ==
  /\ heldsets = base
  /\ netnew' = Now
  /\ claimed' \in {claimed, IF Reuse THEN claimed ELSE Now}
  /\ full' \in {full, Now} /\ graph' = graph /\ stamp' = NoStamp

\* stamp_problems: without the store only the files speak.
Problems(withStore) ==
  \/ stamp.mode # "full" \/ stamp.base # base
  \/ aside.stamp = NoStamp
  \/ withStore /\ \/ stamp.led # book.led
                  \/ aside.stamp.led # stamp.led
                  \/ aside.pool # claimed
-----------------------------------------------------------------------------
(* The world around a ship. *)

\* Journals, approvals or findings for the next bank.
Arrive ==
  /\ ~arrived /\ book.led <= MaxArrivals
  /\ arrived' = TRUE
  /\ UNCHANGED <<book, code, base, heldsets, ticking, outputs, aside, shelf, verified, folder, gate, plan,
                 at, pulls, ships>>

\* scheduled_sync.sh pulls `live` before the recipe asks for the lock; a merge may
\* name a new release, and that is an arrival.
Pull ==
  /\ pulls < MaxPulls
  /\ pulls' = pulls + 1 /\ code' = code + 1
  /\ \/ base' = base /\ arrived' = arrived
     \/ base' = base + 1 /\ arrived' = TRUE
  /\ UNCHANGED <<book, heldsets, ticking, outputs, aside, shelf, verified, folder, gate, plan, at,
                 ships>>

\* The held sets are built for the release HEAD names.
Intake ==
  /\ heldsets # base
  /\ heldsets' = base
  /\ UNCHANGED <<book, code, base, arrived, ticking, outputs, aside, shelf, verified, folder, gate, plan, at,
                 pulls, ships>>

\* A retraction with no capture to repoint to moves facts and counts no row.
Retract ==
  /\ book.facts <= MaxRetracts
  /\ book' = [book EXCEPT !.facts = @ + 1]
  /\ UNCHANGED <<code, base, heldsets, arrived, ticking, outputs, aside, shelf, verified, folder, gate, plan,
                 at, pulls, ships>>

\* What a bank books, and the export it ends in; crossing the gate opens its issue.
Books ==
  /\ arrived' = FALSE
  /\ \/ book' = [book EXCEPT !.led = @ + 1] \/ book' = book
  /\ gate' \in {gate, IF gate = "none" THEN "open" ELSE gate}

\* The tick's bank, under the lock.  Its export reads the store it has just booked.
TickBooks ==
  /\ ~Locked /\ arrived /\ ~ticking
  /\ ticking' = TRUE
  /\ Books
  /\ stamp' = NoStamp
  /\ UNCHANGED <<code, base, heldsets, claimed, netnew, full, graph, aside, shelf, verified, folder,
                 plan, at, pulls, ships>>

TickExports ==
  /\ ticking
  /\ ticking' = FALSE
  /\ ExportRefused \/ ExportClaim
  /\ UNCHANGED <<book, code, base, heldsets, arrived, aside, shelf, verified, folder, gate, plan,
                 at, pulls, ships>>
-----------------------------------------------------------------------------
(* just ship: prep and build. *)

Goes(step) == at' = step /\ UNCHANGED <<plan, ships>>
Stops      == at' = "idle" /\ plan' = "none" /\ UNCHANGED ships

Begin(which) ==
  /\ ~Locked /\ ships < MaxShips /\ ~ticking
  /\ ships' = ships + 1 /\ plan' = which
  /\ at' = CASE which = "all" -> "prep" [] which = "build" -> "claim"
             [] which = "package" -> "files"
  /\ UNCHANGED <<world, outputs, aside, shelf, verified, folder, gate, pulls>>

\* A bank runs when something arrived, and must leave a new claim export.
PrepBanks ==
  /\ at = "prep" /\ arrived
  /\ Books
  /\ stamp' = NoStamp
  /\ Goes("claim")
  /\ UNCHANGED <<code, base, heldsets, ticking, claimed, netnew, full, graph, aside, shelf,
                 verified, folder, pulls>>

\* With nothing to book the last claim export stands.
PrepStands ==
  /\ at = "prep" /\ ~arrived
  /\ IF stamp.mode = "claim" THEN Goes("aside") ELSE Stops
  /\ UNCHANGED <<world, outputs, aside, shelf, verified, folder, gate, pulls>>

\* The bank's export inside prep, or build's own when the last was no claim.
ShipClaims ==
  /\ at = "claim"
  /\ IF stamp.mode = "claim" THEN Goes("aside") /\ UNCHANGED outputs
     ELSE /\ ExportRefused \/ ExportClaim
          /\ IF stamp'.mode = "claim" THEN Goes("aside") ELSE Stops
  /\ UNCHANGED <<world, aside, shelf, verified, folder, gate, pulls>>

SetAside ==
  /\ at = "aside"
  /\ aside' = [stamp |-> stamp, pool |-> claimed]
  /\ Goes("full")
  /\ UNCHANGED <<world, outputs, shelf, verified, folder, gate, pulls>>

ShipExports ==
  /\ at = "full"
  /\ \/ ExportFull /\ Goes("check")
     \/ ExportFullCut /\ Stops
     \/ ExportRefused /\ Stops
  /\ UNCHANGED <<world, aside, shelf, verified, folder, gate, pulls>>

\* The extended years, ark check and the round state; a failure stops the ship.
Checked ==
  /\ at = "check"
  /\ Goes("files") \/ Stops
  /\ UNCHANGED <<world, outputs, aside, shelf, verified, folder, gate, pulls>>
-----------------------------------------------------------------------------
(* package_delivery.sh *)

\* Its refusals that read only files and clones, before the store is opened.
AskFiles ==
  /\ at = "files"
  /\ IF Problems(FALSE) THEN Stops ELSE Goes("store") \/ Stops
  /\ UNCHANGED <<world, outputs, aside, shelf, verified, folder, gate, pulls>>

\* The stamps against the store; the shipped lines, which follow its facts, counted
\* in the files and in it.
AskStore ==
  /\ at = "store"
  /\ IF Problems(TRUE) \/ netnew.facts # book.facts THEN Stops ELSE Goes("stage") \/ Stops
  /\ UNCHANGED <<world, outputs, aside, shelf, verified, folder, gate, pulls>>

\* The files are copied, the code archived at HEAD, the tree compressed.
Stage ==
  /\ at = "stage"
  /\ \/ /\ archives' = Append(archives, [claimed |-> claimed, netnew |-> netnew, full |-> full,
                                         graph |-> graph, source |-> code])
        /\ Goes("sum")
     \/ archives' = archives /\ Stops
  /\ UNCHANGED <<world, outputs, aside, summed, manifest, verified, folder, gate, pulls>>

Newest == Len(archives)

Sum ==
  /\ at = "sum"
  /\ summed' = summed \cup {Newest}
  /\ Goes("describe")
  /\ UNCHANGED <<world, outputs, aside, archives, manifest, verified, folder, gate, pulls>>

Describe ==
  /\ at = "describe"
  /\ manifest' = Newest
  /\ Goes("verify")
  /\ UNCHANGED <<world, outputs, aside, archives, summed, verified, folder, gate, pulls>>
-----------------------------------------------------------------------------
(* Verifying and delivering. *)

\* verify.sh on the newest stage; only `ship all` goes on from here.
Verify ==
  /\ at = "verify"
  /\ IF plan = "all" THEN Goes("fresh") \/ Stops ELSE Stops
  /\ UNCHANGED <<world, outputs, aside, shelf, verified, folder, gate, pulls>>

\* The calculator, the checksum, and verify.sh in a fresh extraction.
VerifyFresh ==
  /\ at = "fresh"
  /\ \/ Newest \in summed /\ verified' = verified \cup {Newest} /\ Goes("drive")
     \/ verified' = verified /\ Stops
  /\ UNCHANGED <<world, outputs, aside, shelf, folder, gate, pulls>>

\* stage_drive is the last but one step of `ship all` and the whole of `ship drive`.
Target(who)       == IF who = "ship" THEN Newest ELSE lone.archive
OnStep(who, step) == IF who = "ship" THEN at = step ELSE lone.step = step
To(who, step) ==
  IF who = "ship" THEN Goes(step) /\ UNCHANGED lone
  ELSE lone' = [lone EXCEPT !.step = step] /\ UNCHANGED <<plan, at, ships>>
Quits(who) ==
  IF who = "ship" THEN Stops /\ UNCHANGED lone
  ELSE lone' = Rest /\ UNCHANGED <<plan, at, ships>>

\* An archive is copied with its checksum and a manifest beside it.
DriveReady(n) == n # 0 /\ n \in summed /\ manifest # 0

\* `ship drive` takes the newest archive it finds, and no lock.
LoneBegins ==
  /\ lone = Rest /\ ships < MaxShips /\ DriveReady(Newest)
  /\ lone' = [step |-> "drive", archive |-> Newest] /\ ships' = ships + 1
  /\ UNCHANGED <<world, outputs, aside, shelf, verified, drive, astray, gate, plan, at, pulls>>

\* How this copy meets another archive: past a listing that was not heard, or beside a
\* copy that has passed its own listing and is not there yet.
Meets(who) ==
  {how \in {"silent", "beside"} :
     \/ how = "silent" /\ ~(drive.archives \subseteq {Target(who)})
     \/ how = "beside" /\ \E other \in {"ship", "alone"} \ {who} :
                            OnStep(other, "copy") /\ Target(other) # Target(who)}

\* The folder is listed, and another archive in it is refused; a listing that fails reads
\* as an empty folder.
DriveLists(who) ==
  /\ OnStep(who, "drive")
  /\ \/ /\ DriveReady(Target(who))
        /\ \E heard \in BOOLEAN : heard => drive.archives \subseteq {Target(who)}
        /\ astray' = astray \cup Meets(who)
        /\ To(who, "copy")
     \/ astray' = astray /\ Quits(who)
  /\ UNCHANGED <<world, outputs, aside, shelf, verified, drive, gate, pulls>>

DriveArchive(who) ==
  /\ OnStep(who, "copy")
  /\ \/ drive' = [drive EXCEPT !.archives = @ \cup {Target(who)}] /\ To(who, "drivesum")
     \/ drive' = drive /\ Quits(who)
  /\ UNCHANGED <<world, outputs, aside, shelf, verified, astray, gate, pulls>>

DriveSum(who) ==
  /\ OnStep(who, "drivesum")
  /\ \/ drive' = [drive EXCEPT !.summed = @ \cup {Target(who)}] /\ To(who, "drivedoc")
     \/ drive' = drive /\ Quits(who)
  /\ UNCHANGED <<world, outputs, aside, shelf, verified, astray, gate, pulls>>

DriveManifest(who) ==
  /\ OnStep(who, "drivedoc")
  /\ \/ /\ drive' = [drive EXCEPT !.manifest = manifest]
        /\ IF who = "ship" THEN To(who, "close") ELSE Quits(who)
     \/ drive' = drive /\ Quits(who)
  /\ UNCHANGED <<world, outputs, aside, shelf, verified, astray, gate, pulls>>

\* The gate issue is closed, or left open when GitHub does not answer.
CloseGate ==
  /\ at = "close"
  /\ \/ gate' = IF gate = "open" THEN "closed" ELSE gate
     \/ gate' = gate
  /\ Stops
  /\ UNCHANGED <<world, outputs, aside, shelf, verified, folder, pulls>>

\* A ship, or the copy by itself, is killed between two steps.
Killed(who) ==
  /\ ~OnStep(who, "idle")
  /\ Quits(who)
  /\ UNCHANGED <<world, outputs, aside, shelf, verified, drive, astray, gate, pulls>>

ShipNext ==
  \/ Arrive \/ Pull \/ Intake \/ Retract \/ TickBooks \/ TickExports
  \/ \E which \in {"all", "build", "package"} : Begin(which)
  \/ PrepBanks \/ PrepStands \/ ShipClaims \/ SetAside \/ ShipExports \/ Checked
  \/ AskFiles \/ AskStore \/ Stage \/ Sum \/ Describe
  \/ Verify \/ VerifyFresh \/ LoneBegins \/ CloseGate
  \/ \E who \in {"ship", "alone"} :
       DriveLists(who) \/ DriveArchive(who) \/ DriveSum(who) \/ DriveManifest(who) \/ Killed(who)

ShipSpec == ShipInit /\ [][ShipNext]_shipVars
-----------------------------------------------------------------------------
Version == [led : Nat, facts : Nat, base : Nat, code : Nat]

ShipTypeOK ==
  /\ book \in [led : Nat, facts : Nat] /\ {code, base, heldsets} \subseteq Nat /\ arrived \in BOOLEAN
  /\ {claimed, netnew, full, graph, aside.pool} \subseteq Version
  /\ stamp.mode \in {"none", "claim", "full"} /\ aside.stamp.mode \in {"none", "claim"}
  /\ archives \in Seq([claimed : Version, netnew : Version, full : Version, graph : Version,
                       source : Nat])
  /\ summed \cup verified \cup drive.archives \cup drive.summed \subseteq DOMAIN archives
  /\ {manifest, drive.manifest} \subseteq 0..Newest
  /\ lone.step \in {"idle", "drive", "copy", "drivesum", "drivedoc"} /\ lone.archive \in 0..Newest
  /\ astray \subseteq {"silent", "beside"}
  /\ gate \in {"none", "open", "closed"} /\ at \in Steps /\ ships \in 0..MaxShips

(***************************************************************************)
(* An archive's files were written by one code from one ledger against one *)
(* release, whichever exports ran, were reused or were cut off before      *)
(* (export.py:515-528, 696-745).                                           *)
(***************************************************************************)
PackedIsOneExport ==
  \A n \in DOMAIN archives :
    LET of(v) == [led |-> v.led, base |-> v.base, code |-> v.code]
    IN  /\ of(archives[n].claimed) = of(archives[n].netnew)
        /\ of(archives[n].full) = of(archives[n].netnew)
        /\ of(archives[n].graph) = of(archives[n].netnew)

(***************************************************************************)
(* Said at justfile:988-989: a folder holding another archive is refused.  *)
(* Not kept: a listing that fails reads as an empty folder                 *)
(* (justfile:999-1001), and `ship drive` takes no lock (justfile:1162).    *)
(***************************************************************************)
OneArchiveOnDrive == Cardinality(drive.archives) <= 1

(***************************************************************************)
(* Until an archive passed a listing that was not heard, or passed beside  *)
(* the copy of another, the folder holds one at most: a second package of  *)
(* the round waits for a person to delete the first (justfile:988-1012).   *)
(***************************************************************************)
OneUnlessAstray == astray = {} => OneArchiveOnDrive

(***************************************************************************)
(* The gate issue closes while the newest archive, unpacked afresh and     *)
(* verified, lies in the reviewer's folder with its checksum and the       *)
(* manifest that describes it, whatever copied beside the ship; and a      *)
(* verified archive with its checksum lies there ever after                *)
(* (justfile:1088-1089, 1218-1228).                                        *)
(***************************************************************************)
ClosedIsDelivered ==
  /\ at = "close" => Newest \in verified \cap drive.archives \cap drive.summed /\ drive.manifest = Newest
  /\ gate = "closed" => drive.archives \cap drive.summed \cap verified # {}

(***************************************************************************)
(* Said at package_delivery.sh:76 of what a package must be: the source it *)
(* carries matches the results.  Not kept: the tree may move in between.   *)
(***************************************************************************)
SourceMatchesResults == \A n \in DOMAIN archives : archives[n].source = archives[n].netnew.code

(***************************************************************************)
(* Said at export.py:515-516 of a full export over a claim: the files it   *)
(* keeps are byte for byte what it would write.  Not kept, see README.     *)
(***************************************************************************)
KeptIsWhatItWouldWrite == stamp.mode = "full" => claimed = netnew

(***************************************************************************)
(* An archive is of one export, alone in the reviewer's folder unless it   *)
(* went astray, and the gate closes on it delivered (export.py:515-528,    *)
(* justfile:988-1089).                                                     *)
(***************************************************************************)
DeliveryIsWhole == ShipTypeOK /\ PackedIsOneExport /\ OneUnlessAstray /\ ClosedIsDelivered
=============================================================================
