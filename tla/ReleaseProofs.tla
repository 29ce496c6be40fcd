---------------------------- MODULE ReleaseProofs ----------------------------
(***************************************************************************)
(* Proofs about what goes out, for any files and any bounds: the package   *)
(* and its delivery, the deletions and their proofs, the price against a   *)
(* stage that is replaced under it and what that stage shows, the extended *)
(* export and its page, and the lists of a shipped cut.                    *)
(***************************************************************************)
EXTENDS Ship, Retention, Snapshot, Figures, Lists, FiniteSetTheorems, SequenceTheorems, WellFoundedInduction, TLAPS

-----------------------------------------------------------------------------
(* The ship. *)

Of(v) == [led |-> v.led, base |-> v.base, code |-> v.code]

WorldTyped ==
  /\ book \in [led : Nat, facts : Nat] /\ code \in Nat /\ base \in Nat /\ heldsets \in Nat
  /\ arrived \in BOOLEAN

FilesTyped ==
  /\ claimed \in Version /\ netnew \in Version /\ full \in Version /\ graph \in Version
  /\ stamp \in [mode : {"none", "claim", "full"}, led : Nat, base : Nat, code : Nat]
  /\ aside \in [stamp : [mode : {"none", "claim"}, led : Nat, base : Nat, code : Nat], pool : Version]

ShelfTyped ==
  /\ archives \in Seq([claimed : Version, netnew : Version, full : Version, graph : Version,
                        source : Nat])
  /\ summed \subseteq DOMAIN archives /\ verified \subseteq DOMAIN archives
  /\ manifest \in 0..Newest
  /\ drive \in [archives : SUBSET DOMAIN archives, summed : SUBSET DOMAIN archives, manifest : 0..Newest]
  /\ lone \in [step : {"idle", "drive", "copy", "drivesum", "drivedoc"}, archive : 0..Newest]

ControlTyped ==
  /\ gate \in {"none", "open", "closed"} /\ at \in Steps /\ ships \in 0..MaxShips
  /\ ticking \in BOOLEAN /\ plan \in {"none", "all", "build", "package"}
  /\ astray \subseteq {"silent", "beside"}

\* What a stamp vouches for: after a claim the claim's files, after a full export all of them.
StampSaid ==
  /\ stamp.mode = "claim" => Of(claimed) = Of(stamp)
  /\ stamp.mode = "full" => /\ Of(claimed) = Of(stamp) /\ Of(netnew) = Of(stamp)
                            /\ Of(full) = Of(stamp) /\ Of(graph) = Of(stamp)

\* A ship holds the lock, and no tick's bank is in between.
LockHeld ==
  /\ Locked => ~ticking
  /\ at = "aside" => stamp.mode = "claim"
  /\ at \in {"store", "stage"} => stamp.mode = "full"

Driving == {"drive", "copy", "drivesum", "drivedoc", "close"}

\* What the ship has put there is still there when it closes the gate.
DriveKept ==
  /\ at \in {"sum", "describe", "verify", "fresh"} \cup Driving => Newest # 0
  /\ at \in {"verify", "fresh"} \cup Driving => manifest = Newest
  /\ at \in Driving => Newest \in verified
  /\ at \in {"drivesum", "drivedoc", "close"} => Newest \in drive.archives
  /\ at \in {"drivedoc", "close"} => Newest \in drive.summed
  /\ at = "close" => drive.manifest = Newest

\* Unless one went astray, who is past the listing finds its own archive at most, and two
\* who are past it have the same.
FolderKept ==
  /\ lone.step # "idle" => lone.archive # 0
  /\ astray = {} =>
       /\ \A a, b \in drive.archives : a = b
       /\ at = "copy" => drive.archives \subseteq {Newest}
       /\ lone.step = "copy" => drive.archives \subseteq {lone.archive}
       /\ at = "copy" /\ lone.step = "copy" => lone.archive = Newest

ShipInv ==
  /\ WorldTyped /\ FilesTyped /\ ShelfTyped /\ ControlTyped
  /\ StampSaid /\ PackedIsOneExport /\ LockHeld /\ DriveKept /\ FolderKept /\ ClosedIsDelivered

LEMMA ShipTyped == ASSUME WorldTyped, FilesTyped, ShelfTyped, ControlTyped PROVE ShipTypeOK
  <1>1. WorldTyped => /\ book \in [led : Nat, facts : Nat] /\ {code, base, heldsets} \subseteq Nat
                      /\ arrived \in BOOLEAN
    BY DEF WorldTyped
  <1>2. /\ {claimed, netnew, full, graph, aside.pool} \subseteq Version
        /\ stamp.mode \in {"none", "claim", "full"} /\ aside.stamp.mode \in {"none", "claim"}
    BY DEF FilesTyped
  <1>3. /\ archives \in Seq([claimed : Version, netnew : Version, full : Version, graph : Version,
                              source : Nat])
        /\ summed \cup verified \cup drive.archives \cup drive.summed \subseteq DOMAIN archives
        /\ {manifest, drive.manifest} \subseteq 0..Newest
        /\ lone.step \in {"idle", "drive", "copy", "drivesum", "drivedoc"} /\ lone.archive \in 0..Newest
    BY DEF ShelfTyped
  <1> QED BY <1>1, <1>2, <1>3 DEF ShipTypeOK, ControlTyped

LEMMA NowIsVersion == ASSUME WorldTyped PROVE Now \in Version
  BY DEF WorldTyped, Now, Version

LEMMA ShipStarts == ShipInit => ShipInv
  <1> SUFFICES ASSUME ShipInit PROVE ShipInv
    OBVIOUS
  <1> USE DEF ShipInit
  <1>1. arrived \in BOOLEAN
    OBVIOUS
  <1>2. WorldTyped
    BY <1>1 DEF WorldTyped
  <1>3. FilesTyped
    BY DEF FilesTyped, Now, None, Version, NoStamp
  <1>4. ShelfTyped
    BY DEF ShelfTyped, Newest, Rest
  <1>5. ticking \in BOOLEAN
    OBVIOUS
  <1>6. ControlTyped
    BY <1>5, ShipAssumption DEF ControlTyped, Steps
  <1>7. StampSaid
    BY DEF StampSaid, Of, Now
  <1>8. LockHeld /\ DriveKept /\ FolderKept
    BY DEF LockHeld, DriveKept, FolderKept, Driving, Locked, Rest
  <1> QED BY <1>2, <1>3, <1>4, <1>6, <1>7, <1>8 DEF ShipInv, PackedIsOneExport, ClosedIsDelivered

\* An export, whole or cut off, writes what its stamp says.
LEMMA ExportKeeps ==
  ASSUME WorldTyped, FilesTyped, StampSaid, UNCHANGED aside,
         ExportRefused \/ ExportClaim \/ ExportFull \/ ExportFullCut
  PROVE  FilesTyped' /\ StampSaid'
  <1> USE NowIsVersion
  <1>1. NoStamp \in [mode : {"none"}, led : Nat, base : Nat, code : Nat]
    BY DEF NoStamp
  <1>2. \A mode \in {"claim", "full"} :
          /\ Stamp(mode) \in [mode : {"none", "claim", "full"}, led : Nat, base : Nat, code : Nat]
          /\ Stamp(mode).mode = mode /\ Of(Stamp(mode)) = Of(Now)
    BY DEF Stamp, WorldTyped, Of, Now
  <1>3. Reuse => Of(claimed) = Of(Now)
    BY DEF Reuse, StampSaid, Of, Now
  <1>4. FilesTyped'
    BY <1>1, <1>2 DEF FilesTyped, ExportRefused, ExportClaim, ExportFull, ExportFullCut
  <1>5. StampSaid'
    <2>1. CASE stamp' = NoStamp
      BY <2>1 DEF StampSaid, NoStamp
    <2>2. CASE ExportClaim /\ stamp' = Stamp("claim")
      <3>1. stamp'.mode = "claim" /\ Of(stamp') = Of(Now)
        BY <1>2, <2>2
      <3>2. claimed' = Now
        BY <1>2, <2>2 DEF ExportClaim, NoStamp
      <3> QED BY <3>1, <3>2 DEF StampSaid, Of
    <2>3. CASE ExportFull
      <3>1. stamp'.mode = "full" /\ Of(stamp') = Of(Now)
        BY <1>2, <2>3 DEF ExportFull
      <3>2. Of(claimed') = Of(Now) /\ netnew' = Now /\ full' = Now /\ graph' = Now
        BY <1>3, <2>3 DEF ExportFull
      <3> QED BY <3>1, <3>2 DEF StampSaid, Of
    <2>4. ExportClaim => stamp' \in {NoStamp, Stamp("claim")}
      BY DEF ExportClaim
    <2> QED BY <2>1, <2>2, <2>3, <2>4 DEF ExportRefused, ExportFullCut
  <1> QED BY <1>4, <1>5

LEMMA ShipWorldKept == ASSUME ShipInv, [ShipNext]_shipVars PROVE WorldTyped'
  <1>1. WorldTyped
    BY DEF ShipInv
  <1>2. CASE Arrive
    BY <1>1, <1>2 DEF Arrive, WorldTyped
  <1>3. CASE Pull
    <2>1. arrived' \in BOOLEAN
      BY <1>1, <1>3, Zenon DEF Pull, WorldTyped
    <2>2. code' \in Nat /\ base' \in Nat /\ UNCHANGED <<book, heldsets>>
      BY <1>1, <1>3 DEF Pull, WorldTyped
    <2> QED BY <1>1, <2>1, <2>2 DEF WorldTyped
  <1>4. CASE Intake
    BY <1>1, <1>4 DEF Intake, WorldTyped
  <1>5. CASE Retract
    BY <1>1, <1>5 DEF Retract, WorldTyped
  <1>6. CASE TickBooks \/ PrepBanks
    <2>1. Books /\ UNCHANGED <<code, base, heldsets>>
      BY <1>6 DEF TickBooks, PrepBanks
    <2>2. arrived' \in BOOLEAN
      BY <2>1, Zenon DEF Books
    <2>3. book' \in [led : Nat, facts : Nat]
      BY <1>1, <2>1 DEF Books, WorldTyped
    <2> QED BY <1>1, <2>1, <2>2, <2>3 DEF WorldTyped
  <1>7. CASE TickExports
    BY <1>1, <1>7 DEF TickExports, WorldTyped
  <1>8. CASE UNCHANGED world
    BY <1>1, <1>8 DEF world, WorldTyped
  <1> QED BY <1>2, <1>3, <1>4, <1>5, <1>6, <1>7, <1>8 DEF ShipNext, shipVars, Begin, PrepStands, ShipClaims,
       SetAside, ShipExports, Checked, AskFiles, AskStore, Stage, Sum, Describe, Verify, VerifyFresh,
       LoneBegins, DriveLists, DriveArchive, DriveSum, DriveManifest, CloseGate, Killed

LEMMA ShipFilesKept == ASSUME ShipInv, [ShipNext]_shipVars PROVE FilesTyped' /\ StampSaid'
  <1>1. WorldTyped /\ FilesTyped /\ StampSaid /\ (at = "aside" => stamp.mode = "claim")
    BY DEF ShipInv, LockHeld
  <1>2. ASSUME UNCHANGED <<outputs, aside>> PROVE FilesTyped' /\ StampSaid'
    BY <1>1, <1>2 DEF outputs, FilesTyped, StampSaid
  <1>3. ASSUME UNCHANGED <<claimed, netnew, full, graph, aside>>, stamp' = NoStamp
        PROVE  FilesTyped' /\ StampSaid'
    BY <1>1, <1>3 DEF FilesTyped, StampSaid, NoStamp
  <1>4. CASE TickBooks \/ PrepBanks
    BY <1>3, <1>4 DEF TickBooks, PrepBanks
  <1>5. CASE TickExports
    BY <1>1, <1>5, ExportKeeps DEF TickExports
  <1>6. CASE ShipClaims
    <2>1. CASE stamp.mode = "claim"
      BY <1>2, <1>6, <2>1 DEF ShipClaims
    <2>2. CASE stamp.mode # "claim"
      BY <1>1, <1>6, <2>2, ExportKeeps DEF ShipClaims
    <2> QED BY <2>1, <2>2
  <1>7. CASE SetAside
    <2>1. aside' = [stamp |-> stamp, pool |-> claimed] /\ UNCHANGED outputs /\ stamp.mode = "claim"
      BY <1>1, <1>7 DEF SetAside
    <2> QED BY <1>1, <2>1 DEF outputs, FilesTyped, StampSaid
  <1>8. CASE ShipExports
    BY <1>1, <1>8, ExportKeeps DEF ShipExports
  <1>9. CASE Arrive \/ Pull \/ Intake \/ Retract
    BY <1>2, <1>9 DEF Arrive, Pull, Intake, Retract
  <1> QED BY <1>2, <1>4, <1>5, <1>6, <1>7, <1>8, <1>9 DEF ShipNext, shipVars, Begin, PrepStands, Checked,
       AskFiles, AskStore, Stage, Sum, Describe, Verify, VerifyFresh, LoneBegins, DriveLists, DriveArchive,
       DriveSum, DriveManifest, CloseGate, Killed

LEMMA ShipShelfKept == ASSUME ShipInv, [ShipNext]_shipVars PROVE ShelfTyped' /\ PackedIsOneExport'
  <1>1. ShelfTyped /\ PackedIsOneExport /\ WorldTyped /\ FilesTyped /\ StampSaid /\ DriveKept
        /\ FolderKept /\ (at = "stage" => stamp.mode = "full")
    BY DEF ShipInv, LockHeld
  <1>2. Newest \in Nat /\ DOMAIN archives = 1..Newest
    BY <1>1 DEF ShelfTyped, Newest
  <1>3. ASSUME UNCHANGED <<shelf, verified, drive, lone>> PROVE ShelfTyped' /\ PackedIsOneExport'
    BY <1>1, <1>3 DEF shelf, ShelfTyped, PackedIsOneExport, Newest
  <1>4. CASE Stage /\ archives' # archives
    <2> DEFINE new == [claimed |-> claimed, netnew |-> netnew, full |-> full, graph |-> graph, source |-> code]
    <2>1. archives' = Append(archives, new) /\ UNCHANGED <<summed, manifest, verified, drive, lone>>
      BY <1>4 DEF Stage, folder
    <2>2. new \in [claimed : Version, netnew : Version, full : Version, graph : Version, source : Nat]
      BY <1>1 DEF FilesTyped, WorldTyped
    <2>3. /\ Of(new.claimed) = Of(new.netnew) /\ Of(new.full) = Of(new.netnew)
          /\ Of(new.graph) = Of(new.netnew)
      BY <1>1, <1>4 DEF Stage, StampSaid
    <2> HIDE DEF new
    <2>4. /\ archives' \in Seq([claimed : Version, netnew : Version, full : Version, graph : Version,
                               source : Nat])
          /\ Len(archives') = Newest + 1 /\ archives'[Newest + 1] = new
          /\ \A n \in 1..Newest : archives'[n] = archives[n]
      BY <1>1, <1>2, <2>1, <2>2 DEF ShelfTyped, Newest
    <2>5. DOMAIN archives' = 1..Newest + 1 /\ Newest' = Newest + 1
      BY <2>4 DEF Newest
    <2>6. ShelfTyped'
      BY <1>1, <1>2, <2>1, <2>4, <2>5 DEF ShelfTyped
    <2>7. ASSUME NEW n \in DOMAIN archives'
          PROVE  /\ Of(archives'[n].claimed) = Of(archives'[n].netnew)
                 /\ Of(archives'[n].full) = Of(archives'[n].netnew)
                 /\ Of(archives'[n].graph) = Of(archives'[n].netnew)
      <3>1. CASE n = Newest + 1
        BY <2>3, <2>4, <3>1
      <3>2. CASE n # Newest + 1
        <4>1. n \in 1..Newest
          BY <1>2, <2>5, <3>2
        <4> QED BY <1>1, <1>2, <2>4, <4>1 DEF PackedIsOneExport, Of
      <3> QED BY <3>1, <3>2
    <2>8. PackedIsOneExport'
      BY <2>7 DEF PackedIsOneExport, Of
    <2> QED BY <2>6, <2>8
  <1>5. CASE Sum
    <2>1. at = "sum" /\ Newest # 0 /\ summed' = summed \cup {Newest} /\ UNCHANGED <<archives, manifest, verified, drive, lone>>
      BY <1>1, <1>5 DEF Sum, DriveKept, folder
    <2> QED BY <1>1, <1>2, <2>1 DEF ShelfTyped, PackedIsOneExport, Newest
  <1>6. CASE Describe
    <2>1. manifest' = Newest /\ UNCHANGED <<archives, summed, verified, drive, lone>>
      BY <1>6 DEF Describe, folder
    <2> QED BY <1>1, <1>2, <2>1 DEF ShelfTyped, PackedIsOneExport, Newest
  <1>7. CASE VerifyFresh
    <2>1. verified' \subseteq verified \cup {Newest} /\ Newest # 0 /\ UNCHANGED <<shelf, drive, lone>>
      BY <1>1, <1>7 DEF VerifyFresh, DriveKept, folder
    <2> QED BY <1>1, <1>2, <2>1 DEF shelf, ShelfTyped, PackedIsOneExport, Newest
  <1>8. ASSUME NEW who \in {"ship", "alone"}, DriveArchive(who) \/ DriveSum(who) \/ DriveManifest(who)
        PROVE  ShelfTyped' /\ PackedIsOneExport'
    <2>1. UNCHANGED <<shelf, verified>>
      BY <1>8 DEF DriveArchive, DriveSum, DriveManifest
    <2>2. Target(who) \in DOMAIN archives
      BY <1>1, <1>2, <1>8 DEF DriveArchive, DriveSum, DriveManifest, OnStep, Target, DriveKept, FolderKept, Driving,
           ShelfTyped
    <2>3. drive' \in {drive, [drive EXCEPT !.archives = @ \cup {Target(who)}],
              [drive EXCEPT !.summed = @ \cup {Target(who)}], [drive EXCEPT !.manifest = manifest]}
      BY <1>8 DEF DriveArchive, DriveSum, DriveManifest
    <2>4. drive' \in [archives : SUBSET DOMAIN archives, summed : SUBSET DOMAIN archives, manifest : 0..Newest]
      BY <1>1, <1>2, <2>2, <2>3 DEF ShelfTyped
    <2>5. lone' \in [step : {"idle", "drive", "copy", "drivesum", "drivedoc"}, archive : 0..Newest]
      BY <1>1, <1>2, <1>8 DEF DriveArchive, DriveSum, DriveManifest, To, Quits, Rest, ShelfTyped
    <2> QED BY <1>1, <2>1, <2>4, <2>5 DEF shelf, ShelfTyped, PackedIsOneExport, Newest
  <1>9. ASSUME LoneBegins \/ \E who \in {"ship", "alone"} : DriveLists(who) \/ Killed(who)
        PROVE  ShelfTyped' /\ PackedIsOneExport'
    <2>1. UNCHANGED <<shelf, verified, drive>>
      BY <1>9 DEF LoneBegins, DriveLists, Killed
    <2>2. lone' \in [step : {"idle", "drive", "copy", "drivesum", "drivedoc"}, archive : 0..Newest]
      BY <1>1, <1>2, <1>9 DEF LoneBegins, DriveLists, Killed, To, Quits, Rest, ShelfTyped
    <2> QED BY <1>1, <2>1, <2>2 DEF shelf, ShelfTyped, PackedIsOneExport, Newest
  <1>10. CASE Stage /\ archives' = archives
    BY <1>3, <1>10 DEF Stage, shelf, folder
  <1>11. CASE Arrive \/ Pull \/ Intake \/ Retract \/ TickBooks \/ TickExports
    BY <1>3, <1>11 DEF Arrive, Pull, Intake, Retract, TickBooks, TickExports, folder
  <1> QED BY <1>3, <1>4, <1>5, <1>6, <1>7, <1>8, <1>9, <1>10, <1>11 DEF ShipNext, shipVars, folder, Begin, PrepBanks,
       PrepStands, ShipClaims, SetAside, ShipExports, Checked, AskFiles, AskStore, Verify, CloseGate

LEMMA ShipControlKept == ASSUME ShipInv, [ShipNext]_shipVars PROVE ControlTyped' /\ LockHeld'
  <1>1. ControlTyped /\ LockHeld
    BY DEF ShipInv
  <1>2. MaxShips \in Nat
    BY ShipAssumption
  <1>3. ASSUME UNCHANGED <<at, plan, gate, ships, ticking, stamp, astray>> PROVE ControlTyped' /\ LockHeld'
    BY <1>1, <1>3 DEF ControlTyped, LockHeld, Locked
  <1>4. ASSUME Stops, ticking' = ticking, gate' \in {"none", "open", "closed"}, astray' = astray
        PROVE  ControlTyped' /\ LockHeld'
    BY <1>1, <1>4 DEF Stops, ControlTyped, LockHeld, Locked, Steps
  <1>5. ASSUME NEW step \in Steps \ {"idle"}, Goes(step), at # "idle", ticking' = ticking,
               gate' \in {"none", "open", "closed"}, astray' \subseteq {"silent", "beside"},
               step = "aside" => stamp'.mode = "claim", step \in {"store", "stage"} => stamp'.mode = "full"
        PROVE  ControlTyped' /\ LockHeld'
    BY <1>1, <1>5 DEF Goes, ControlTyped, LockHeld, Locked, Steps
  <1>6. gate \in {"none", "open", "closed"} /\ astray \subseteq {"silent", "beside"}
    BY <1>1 DEF ControlTyped
  <1>7. Books => gate' \in {"none", "open", "closed"}
    BY <1>6 DEF Books
  <1>8. CASE TickBooks \/ TickExports
    <2>1. ~Locked /\ at = "idle" /\ UNCHANGED <<at, plan, ships, astray>>
      BY <1>1, <1>8 DEF TickBooks, TickExports, LockHeld, Locked, folder
    <2>2. gate' \in {"none", "open", "closed"}
      BY <1>6, <1>7, <1>8 DEF TickBooks, TickExports
    <2>3. ticking' \in BOOLEAN
      BY <1>8, Zenon DEF TickBooks, TickExports
    <2>4. ControlTyped'
      BY <1>1, <2>1, <2>2, <2>3 DEF ControlTyped
    <2> QED BY <1>1, <2>1, <2>4 DEF LockHeld, Locked
  <1>9. ASSUME NEW which \in {"all", "build", "package"}, Begin(which) PROVE ControlTyped' /\ LockHeld'
    <2>1. at' \in {"prep", "claim", "files"} /\ plan' = which /\ ~ticking /\ UNCHANGED <<gate, ticking, astray>>
      BY <1>9 DEF Begin, world, folder
    <2>2. ships' \in 0..MaxShips
      BY <1>1, <1>2, <1>9 DEF Begin, ControlTyped
    <2>3. ControlTyped'
      BY <1>1, <2>1, <2>2 DEF ControlTyped, Steps
    <2> QED BY <2>1, <2>3 DEF LockHeld, Locked
  <1>10. CASE LoneBegins
    <2>1. UNCHANGED <<at, plan, gate, ticking, stamp, astray>>
      BY <1>10 DEF LoneBegins, world, outputs
    <2>2. ships' \in 0..MaxShips
      BY <1>1, <1>2, <1>10 DEF LoneBegins, ControlTyped
    <2> QED BY <1>1, <2>1, <2>2 DEF ControlTyped, LockHeld, Locked
  <1>11. CASE PrepBanks
    BY <1>5, <1>6, <1>7, <1>11 DEF PrepBanks, Steps, folder
  <1>12. CASE PrepStands
    BY <1>4, <1>5, <1>6, <1>12 DEF PrepStands, Steps, world, outputs, folder
  <1>13. CASE ShipClaims
    BY <1>4, <1>5, <1>6, <1>13 DEF ShipClaims, Steps, world, outputs, folder
  <1>14. CASE SetAside
    BY <1>5, <1>6, <1>14 DEF SetAside, Steps, world, folder
  <1>15. CASE ShipExports \/ Checked
    BY <1>4, <1>5, <1>6, <1>15 DEF ShipExports, Checked, Steps, world, folder
  <1>16. CASE AskFiles
    BY <1>4, <1>5, <1>6, <1>16 DEF AskFiles, Steps, world, outputs, Problems, folder
  <1>17. CASE AskStore
    BY <1>4, <1>5, <1>6, <1>17 DEF AskStore, Steps, world, outputs, Problems, folder
  <1>18. CASE Stage \/ Sum \/ Describe \/ Verify
    BY <1>4, <1>5, <1>6, <1>18 DEF Stage, Sum, Describe, Verify, Steps, world, folder
  <1>19. CASE VerifyFresh \/ CloseGate
    BY <1>4, <1>5, <1>6, <1>19 DEF VerifyFresh, CloseGate, Steps, world, folder
  <1>20. ASSUME NEW who \in {"ship", "alone"},
                DriveLists(who) \/ DriveArchive(who) \/ DriveSum(who) \/ DriveManifest(who) \/ Killed(who)
         PROVE  ControlTyped' /\ LockHeld'
    <2>1. UNCHANGED <<ticking, gate, stamp>> /\ astray' \subseteq {"silent", "beside"}
      BY <1>6, <1>20 DEF DriveLists, DriveArchive, DriveSum, DriveManifest, Killed, Meets, world, outputs
    <2>2. CASE UNCHANGED <<at, plan, ships>>
      BY <1>1, <2>1, <2>2 DEF ControlTyped, LockHeld, Locked
    <2>3. CASE Stops
      BY <1>1, <2>1, <2>3 DEF ControlTyped, LockHeld, Locked, Stops, Steps
    <2>4. ASSUME NEW step \in {"copy", "drivesum", "drivedoc", "close"}, Goes(step), at # "idle"
          PROVE  ControlTyped' /\ LockHeld'
      BY <1>5, <1>6, <2>1, <2>4 DEF Steps
    <2>5. who = "ship" => at # "idle" \/ Stops
      BY <1>20 DEF DriveLists, DriveArchive, DriveSum, DriveManifest, Killed, OnStep
    <2> QED BY <1>20, <2>2, <2>3, <2>4, <2>5 DEF DriveLists, DriveArchive, DriveSum, DriveManifest, Killed, To, Quits
  <1>21. CASE Arrive \/ Pull \/ Intake \/ Retract
    BY <1>3, <1>21 DEF Arrive, Pull, Intake, Retract, outputs, folder
  <1> QED BY <1>3, <1>8, <1>9, <1>10, <1>11, <1>12, <1>13, <1>14, <1>15, <1>16, <1>17, <1>18, <1>19, <1>20, <1>21
       DEF ShipNext, shipVars, world, outputs, folder

LEMMA ShipDriveKept == ASSUME ShipInv, [ShipNext]_shipVars PROVE DriveKept' /\ ClosedIsDelivered'
  <1>1. DriveKept /\ ClosedIsDelivered /\ ShelfTyped /\ at \in Steps
    BY DEF ShipInv, ControlTyped
  <1>2. Newest \in Nat /\ manifest \in 0..Newest
    BY <1>1 DEF ShelfTyped, Newest
  <1> DEFINE rest == <<archives, manifest, summed, verified, drive>>
  <1>3. ASSUME UNCHANGED <<rest, at>>, gate' = "closed" => gate = "closed" PROVE DriveKept' /\ ClosedIsDelivered'
    BY <1>1, <1>3 DEF DriveKept, ClosedIsDelivered, Newest
  <1>4. ASSUME UNCHANGED rest, Stops, gate' = "closed" => gate = "closed" PROVE DriveKept' /\ ClosedIsDelivered'
    BY <1>1, <1>4 DEF DriveKept, Driving, ClosedIsDelivered, Newest, Stops
  <1>5. ASSUME UNCHANGED rest, gate' = "closed" => gate = "closed",
               at' \notin {"sum", "describe", "verify", "fresh"} \cup Driving
        PROVE  DriveKept' /\ ClosedIsDelivered'
    BY <1>1, <1>5 DEF DriveKept, Driving, ClosedIsDelivered, Newest
  <1>6. Books => (gate' = "closed" => gate = "closed")
    BY DEF Books
  <1>7. CASE Arrive \/ Pull \/ Intake \/ Retract \/ TickBooks \/ TickExports \/ LoneBegins
    BY <1>3, <1>6, <1>7 DEF Arrive, Pull, Intake, Retract, TickBooks, TickExports, LoneBegins, shelf, folder
  <1>8. ASSUME NEW which \in {"all", "build", "package"}, Begin(which) PROVE DriveKept' /\ ClosedIsDelivered'
    BY <1>5, <1>8 DEF Begin, shelf, folder, Driving
  <1>9. CASE PrepBanks \/ PrepStands \/ ShipClaims \/ SetAside
    BY <1>4, <1>5, <1>6, <1>9 DEF PrepBanks, PrepStands, ShipClaims, SetAside, Goes, shelf, folder, Driving
  <1>10. CASE ShipExports \/ Checked \/ AskFiles \/ AskStore
    BY <1>4, <1>5, <1>10 DEF ShipExports, Checked, AskFiles, AskStore, Goes, shelf, folder, Driving
  <1>11. CASE Stage
    <2>1. CASE Goes("sum")
      <3>1. Newest' = Newest + 1 /\ UNCHANGED <<verified, drive, gate>>
        BY <1>1, <1>11, <2>1 DEF Stage, ShelfTyped, Newest, Goes, Stops, folder
      <3> QED BY <1>1, <1>2, <2>1, <3>1 DEF DriveKept, Driving, ClosedIsDelivered, Goes
    <2>2. CASE ~Goes("sum")
      BY <1>4, <1>11, <2>2 DEF Stage, shelf, folder
    <2> QED BY <2>1, <2>2
  <1>12. CASE Sum
    BY <1>1, <1>12 DEF Sum, DriveKept, Driving, ClosedIsDelivered, Newest, Goes, folder
  <1>13. CASE Describe
    BY <1>1, <1>13 DEF Describe, DriveKept, Driving, ClosedIsDelivered, Newest, Goes, folder
  <1>14. CASE Verify
    BY <1>1, <1>4, <1>14 DEF Verify, shelf, folder, DriveKept, Driving, ClosedIsDelivered, Newest, Goes
  <1>15. CASE VerifyFresh
    BY <1>1, <1>4, <1>15 DEF VerifyFresh, shelf, folder, DriveKept, Driving, ClosedIsDelivered, Newest, Goes
  <1>16. ASSUME NEW who \in {"ship", "alone"},
                DriveLists(who) \/ DriveArchive(who) \/ DriveSum(who) \/ DriveManifest(who) \/ Killed(who)
         PROVE  DriveKept' /\ ClosedIsDelivered'
    <2>1. UNCHANGED <<archives, manifest, summed, verified, gate, Newest>>
      BY <1>16 DEF DriveLists, DriveArchive, DriveSum, DriveManifest, Killed, shelf, Newest
    <2>2. drive.archives \subseteq drive'.archives /\ drive.summed \subseteq drive'.summed
          /\ drive'.manifest \in {drive.manifest, manifest}
      BY <1>1, <1>16 DEF DriveLists, DriveArchive, DriveSum, DriveManifest, Killed, ShelfTyped
    <2>3. CASE at' = at
      BY <1>1, <2>1, <2>2, <2>3 DEF DriveKept, Driving, ClosedIsDelivered
    <2>4. CASE at' = "idle"
      BY <1>1, <2>1, <2>2, <2>4 DEF DriveKept, Driving, ClosedIsDelivered
    <2>5. CASE at' \notin {at, "idle"}
      <3>1. who = "ship"
        BY <1>16, <2>5 DEF DriveLists, DriveArchive, DriveSum, DriveManifest, Killed, To, Quits
      <3> DEFINE moves == \/ at = "drive" /\ at' = "copy"
                          \/ at = "copy" /\ at' = "drivesum" /\ Newest \in drive'.archives
                          \/ at = "drivesum" /\ at' = "drivedoc" /\ Newest \in drive'.summed
                          \/ at = "drivedoc" /\ at' = "close" /\ drive'.manifest = manifest
      <3>2. \/ Goes("copy") /\ DriveLists(who)
            \/ Goes("drivesum") /\ DriveArchive(who) /\ drive' = [drive EXCEPT !.archives = @ \cup {Target(who)}]
            \/ Goes("drivedoc") /\ DriveSum(who) /\ drive' = [drive EXCEPT !.summed = @ \cup {Target(who)}]
            \/ Goes("close") /\ DriveManifest(who) /\ drive' = [drive EXCEPT !.manifest = manifest]
        BY <1>16, <2>5, <3>1 DEF DriveLists, DriveArchive, DriveSum, DriveManifest, Killed, To, Quits, Stops
      <3>3. moves
        BY <1>1, <3>1, <3>2 DEF DriveLists, DriveArchive, DriveSum, DriveManifest, Goes, OnStep, Target, ShelfTyped
      <3> HIDE DEF moves
      <3>4. moves => DriveKept' /\ ClosedIsDelivered'
        BY <1>1, <2>1, <2>2 DEF moves, DriveKept, Driving, ClosedIsDelivered
      <3> QED BY <3>3, <3>4
    <2> QED BY <2>3, <2>4, <2>5
  <1>17. CASE CloseGate
    <2>1. UNCHANGED rest /\ Stops /\ at = "close"
      BY <1>17 DEF CloseGate, shelf, folder
    <2> QED BY <1>1, <2>1 DEF DriveKept, Driving, ClosedIsDelivered, Newest, Stops
  <1> QED BY <1>3, <1>7, <1>8, <1>9, <1>10, <1>11, <1>12, <1>13, <1>14, <1>15, <1>16, <1>17
       DEF ShipNext, shipVars, shelf, folder

LEMMA ShipFolderKept == ASSUME ShipInv, [ShipNext]_shipVars PROVE FolderKept'
  <1>1. FolderKept /\ ShelfTyped
    BY DEF ShipInv
  <1>2. ASSUME UNCHANGED folder, at' # "copy" \/ UNCHANGED <<at, Newest>> PROVE FolderKept'
    BY <1>1, <1>2 DEF FolderKept, folder
  <1>3. CASE Arrive \/ Pull \/ Intake \/ Retract \/ TickBooks \/ TickExports \/ UNCHANGED shipVars
    BY <1>2, <1>3 DEF Arrive, Pull, Intake, Retract, TickBooks, TickExports, shelf, shipVars, Newest
  <1>4. ASSUME NEW which \in {"all", "build", "package"}, Begin(which) PROVE FolderKept'
    BY <1>2, <1>4 DEF Begin
  <1>5. CASE PrepBanks \/ PrepStands \/ ShipClaims \/ SetAside \/ ShipExports \/ Checked \/ AskFiles \/ AskStore
    BY <1>2, <1>5 DEF PrepBanks, PrepStands, ShipClaims, SetAside, ShipExports, Checked, AskFiles, AskStore, Goes, Stops
  <1>6. CASE Stage \/ Sum \/ Describe \/ Verify \/ VerifyFresh \/ CloseGate
    BY <1>2, <1>6 DEF Stage, Sum, Describe, Verify, VerifyFresh, CloseGate, Goes, Stops
  <1>7. CASE LoneBegins
    BY <1>1, <1>7 DEF LoneBegins, DriveReady, FolderKept, Rest, shelf, Newest
  <1>8. ASSUME NEW who \in {"ship", "alone"}, DriveLists(who) PROVE FolderKept'
    <2>1. UNCHANGED <<drive, Newest>> /\ lone'.archive \in {lone.archive, 0}
          /\ (lone'.step # "idle" => lone'.archive = lone.archive /\ lone.step # "idle")
      BY <1>1, <1>8 DEF DriveLists, To, Quits, OnStep, shelf, Newest, ShelfTyped, Rest
    <2>2. CASE astray' # {}
      BY <1>1, <2>1, <2>2 DEF FolderKept
    <2>3. CASE astray' = {} /\ Quits(who)
      <3>1. astray = {} /\ (at' = "copy" => at = "copy") /\ (lone'.step = "copy" => lone.step = "copy")
        BY <1>8, <2>3 DEF DriveLists, Quits, Stops, Rest
      <3> QED BY <1>1, <2>1, <3>1 DEF FolderKept
    <2>4. CASE astray' = {} /\ To(who, "copy") /\ ~Quits(who)
      <3>1. astray = {} /\ Meets(who) = {}
        BY <1>8, <2>4 DEF DriveLists
      <3>2. drive.archives \subseteq {Target(who)}
            /\ \A other \in {"ship", "alone"} \ {who} : OnStep(other, "copy") => Target(other) = Target(who)
        BY <3>1 DEF Meets
      <3>3. CASE who = "ship"
        <4>1. /\ lone' = lone /\ drive.archives \subseteq {Newest}
              /\ lone.step = "copy" => lone.archive = Newest
          BY <2>4, <3>2, <3>3 DEF To, Target, OnStep
        <4> QED BY <1>1, <2>1, <3>1, <4>1 DEF FolderKept
      <3>4. CASE who = "alone"
        <4>1. /\ at' = at /\ lone'.archive = lone.archive /\ lone'.step = "copy" /\ lone.step = "drive"
              /\ drive.archives \subseteq {lone.archive} /\ (at = "copy" => lone.archive = Newest)
          BY <1>1, <1>8, <2>4, <3>2, <3>4 DEF To, Target, OnStep, DriveLists, ShelfTyped
        <4> QED BY <1>1, <2>1, <3>1, <4>1 DEF FolderKept
      <3> QED BY <3>3, <3>4
    <2> QED BY <1>8, <2>2, <2>3, <2>4 DEF DriveLists
  <1>9. ASSUME NEW who \in {"ship", "alone"}, DriveArchive(who) \/ DriveSum(who) \/ DriveManifest(who) \/ Killed(who)
        PROVE  FolderKept'
    <2>1. /\ UNCHANGED <<Newest, astray>> /\ (at' = "copy" => at = "copy")
          /\ lone'.step # "idle" => lone'.archive = lone.archive /\ lone.step # "idle"
          /\ lone'.step = "copy" => lone.step = "copy"
      BY <1>1, <1>9 DEF DriveArchive, DriveSum, DriveManifest, Killed, To, Quits, Goes, Stops, OnStep, shelf, Newest,
           ShelfTyped, Rest
    <2>2. CASE drive'.archives = drive.archives
      BY <1>1, <2>1, <2>2 DEF FolderKept
    <2>3. CASE drive'.archives # drive.archives
      <3>1. DriveArchive(who) /\ OnStep(who, "copy") /\ drive'.archives = drive.archives \cup {Target(who)}
        BY <1>1, <1>9, <2>3 DEF DriveArchive, DriveSum, DriveManifest, Killed, ShelfTyped
      <3>2. astray = {} => drive'.archives = {Target(who)} /\ (at = "copy" => Target(who) = Newest)
                           /\ (lone.step = "copy" => Target(who) = lone.archive)
        BY <1>1, <3>1 DEF FolderKept, OnStep, Target
      <3> QED BY <1>1, <2>1, <3>2 DEF FolderKept
    <2> QED BY <2>2, <2>3
  <1> QED BY <1>3, <1>4, <1>5, <1>6, <1>7, <1>8, <1>9 DEF ShipNext

LEMMA OneOnDrive == ASSUME ShelfTyped, FolderKept PROVE OneUnlessAstray
  <1>1. CASE drive.archives = {}
    BY <1>1, FS_EmptySet DEF OneUnlessAstray, OneArchiveOnDrive
  <1>2. CASE drive.archives # {} /\ astray = {}
    <2>1. PICK n \in drive.archives : drive.archives = {n}
      BY <1>2 DEF FolderKept
    <2> QED BY <2>1, FS_Singleton DEF OneUnlessAstray, OneArchiveOnDrive
  <1> QED BY <1>1, <1>2 DEF OneUnlessAstray

(***************************************************************************)
(* Whatever is banked, pulled, retracted, copied, cut off or killed around *)
(* a ship, an archive is of one export, the reviewer's folder holds one    *)
(* unless an archive went astray past a listing that failed or a copy      *)
(* beside it, and the gate closes on it delivered (export.py,              *)
(* package_delivery.sh, justfile).                                         *)
(***************************************************************************)
THEOREM ShipDeliversWhole == ShipSpec => []DeliveryIsWhole
  <1>1. ShipInit => ShipInv
    BY ShipStarts
  <1>2. ShipInv /\ [ShipNext]_shipVars => ShipInv'
    BY ShipWorldKept, ShipFilesKept, ShipShelfKept, ShipControlKept, ShipDriveKept, ShipFolderKept DEF ShipInv
  <1>3. ShipInv => DeliveryIsWhole
    BY ShipTyped, OneOnDrive DEF ShipInv, DeliveryIsWhole
  <1> QED BY <1>1, <1>2, <1>3, PTL DEF ShipSpec

-----------------------------------------------------------------------------
(* What is deleted, and behind which proof. *)

\* The stage with the fewest above it is the newest one.
LEMMA NewestStaged == ASSUME Staged # {} PROVE NewestCopy \in Staged
  <1> DEFINE Above(x) == {y \in Staged : x < y}
             Sizes == {Cardinality(Above(x)) : x \in Staged}
             R == OpToRel(<, Nat)
  <1>1. Staged \subseteq Nat /\ IsFiniteSet(Staged)
    BY RetentionAssumption, FS_Subset DEF KeptFile
  <1>2. \A x \in Staged : IsFiniteSet(Above(x)) /\ Cardinality(Above(x)) \in Nat
    BY <1>1, FS_Subset, FS_CardinalityType
  <1>3. IsWellFoundedOn(R, Nat)
    BY NatLessThanWellFounded DEF R
  <1>4. \A m, n \in Nat : m < n => <<m, n>> \in R
    BY DEF OpToRel
  <1>5. PICK n \in Sizes : \A m \in Sizes : <<m, n>> \notin R
    <2>1. Sizes \subseteq Nat /\ Sizes # {}
      BY <1>2
    <2> HIDE DEF R, Sizes
    <2> QED BY <1>3, <2>1, WFMin
  <1>6. PICK x \in Staged : n = Cardinality(Above(x))
    OBVIOUS
  <1>7. ASSUME NEW y \in Staged, x < y PROVE FALSE
    <2>1. y \in Above(x)
      BY <1>7
    <2>2. Above(y) \subseteq Above(x) \ {y}
      <3> SUFFICES ASSUME NEW z \in Staged, y < z PROVE x < z /\ z # y
        OBVIOUS
      <3>1. x \in Nat /\ y \in Nat /\ z \in Nat
        BY <1>1
      <3> HIDE DEF Sizes, R
      <3> QED BY <1>7, <3>1
    <2> HIDE DEF R, Above
    <2>3. IsFiniteSet(Above(x)) /\ Cardinality(Above(x)) \in Nat /\ Cardinality(Above(y)) \in Nat
      BY <1>2
    <2>4. /\ IsFiniteSet(Above(x) \ {y})
          /\ Cardinality(Above(x) \ {y}) = Cardinality(Above(x)) - 1
      BY <2>1, <2>3, FS_RemoveElement
    <2>5. Cardinality(Above(y)) <= Cardinality(Above(x) \ {y})
      BY <2>2, <2>4, FS_Subset
    <2>6. Cardinality(Above(y)) < Cardinality(Above(x))
      BY <2>3, <2>4, <2>5
    <2>7. Cardinality(Above(y)) \in Sizes
      BY <1>7
    <2> HIDE DEF Sizes
    <2> QED BY <1>4, <1>5, <1>6, <2>3, <2>6, <2>7
  <1>8. \A y \in Staged : y <= x
    BY <1>1, <1>7
  <1> QED BY <1>8 DEF NewestCopy

DiskTyped ==
  /\ onDisk \in [KeptFile -> Bytes] /\ stampOf \in [KeptFile -> Bytes] /\ mtime \in [KeptFile -> Bytes]
  /\ driveCopy \in [KeptFile -> Bytes] /\ sums \in [Manifested -> Bytes] /\ sumStamp \in [Manifested -> Bytes]
  /\ ia \in [Spent -> Bytes] /\ served \subseteq Spent
  /\ hashing \in [file : Manifested \cup {NoFile}, stat : Bytes]
  /\ writes \in 0..MaxWrites /\ drift \in 0..MaxDrift /\ passKills \in 0..MaxPassKills

PinsTyped ==
  /\ receipt \in [Release -> Pin] /\ pins \in [Release -> Pin] /\ old \in [Release -> Pin] /\ named \in Pin
  /\ vtodo \subseteq listed /\ listed \subseteq Release /\ vfile \in Release \cup {NoFile, Verifying}

PruneTyped ==
  /\ store \in [stat : Bytes, wal : BOOLEAN] /\ green \in Bytes
  /\ pstep \in {"idle", "ask", "recheck", "record", "look", "unlink"} /\ raced \subseteq Manifested
  /\ before \in Bytes /\ consented \in Bytes /\ deleted \subseteq Spent
  /\ pstep # "idle" => prey \in KeptFile
  /\ proof \in [KeptFile -> Bytes \cup {Raced}]

FlagsTyped == fresh \in BOOLEAN /\ narrowed \in BOOLEAN

\* A signature is never given twice: it is the number of the write.
StampsNew ==
  /\ \A f \in KeptFile : stampOf[f] <= writes + 1 /\ (onDisk[f] # GoneFile => stampOf[f] # GoneFile)
  /\ store.stat <= writes + 1 /\ before <= writes + 1 /\ named.stat <= writes + 1
  /\ \A f \in Release : /\ receipt[f].stat <= writes + 1 /\ pins[f].stat <= writes + 1
                        /\ old[f].stat <= writes + 1

\* What a pin says of a file that has its signature.
True(p, f) == p # NoPin /\ onDisk[f] # GoneFile /\ stampOf[f] = p.stat => onDisk[f] = p.digest

PinsTrue == \A f \in Release : True(receipt[f], f) /\ True(pins[f], f) /\ True(old[f], f)

\* A pin in the receipt while a verification runs is one it leaves alone.
PinsLeft ==
  /\ vfile = NoFile => pins = NoPins /\ vtodo = {}
  /\ vfile # NoFile => \A f \in Release : receipt[f] # NoPin => pins[f] = receipt[f]
  /\ \A f \in vtodo : receipt[f] = NoPin
  /\ vfile \in Release => receipt[vfile] = NoPin

\* What the pass in hand knows of its file, as long as the file keeps the signature it had.
Unmoved == stampOf[prey] = before /\ onDisk[prey] # GoneFile
ReleaseSeen ==
  prey \in Release =>
    /\ pstep = "ask" /\ Unmoved => /\ receipt[prey] # NoPin => receipt[prey].stat = before
                                   /\ pins[prey] # NoPin => pins[prey].stat = before
    /\ pstep \in {"recheck", "look", "unlink"} /\ Unmoved => onDisk[prey] = consented
SpentSeen == prey \in Spent /\ pstep \in {"record", "look", "unlink"} /\ Unmoved => onDisk[prey] = consented
BackupSeen ==
  prey \in Backup =>
    /\ pstep = "ask" => consented <= store.stat
    /\ pstep = "recheck" => consented <= green /\ green <= store.stat
    /\ pstep = "unlink" => consented = green
StageSeen ==
  prey \in Staged /\ pstep # "idle" =>
    prey # NewestCopy /\ (pstep \in {"recheck", "unlink"} => consented = onDisk[NewestCopy])
LookSeen ==
  /\ pstep = "record" => prey \in Spent
  /\ pstep = "look" => prey \in Manifested
  /\ pstep = "unlink" /\ prey \in Manifested /\ raced = {} => Unmoved
  /\ pstep # "unlink" \/ prey \notin Manifested => raced = {}
Seen == ReleaseSeen /\ SpentSeen /\ BackupSeen /\ StageSeen /\ LookSeen

RetentionInv ==
  /\ DiskTyped /\ PinsTyped /\ PruneTyped /\ FlagsTyped
  /\ StampsNew /\ PinsTrue /\ PinsLeft /\ Seen

LEMMA Bounds ==
  /\ MaxWrites \in Nat /\ MaxDrift \in Nat /\ MaxPassKills \in Nat
  /\ Bytes = 0..MaxWrites + MaxDrift + 1 /\ 0 \in Bytes /\ 1 \in Bytes
  BY RetentionAssumption DEF Bytes

LEMMA Selectors ==
  /\ \A f \in Release : f \notin Spent /\ f \notin Backup /\ f \notin Staged
  /\ \A f \in Spent : f \notin Backup /\ f \notin Staged
  /\ \A f \in Backup : f \notin Staged
  /\ NoFile \notin KeptFile /\ Verifying \notin KeptFile /\ NoFile # Verifying
  /\ Release \subseteq KeptFile /\ Spent \subseteq KeptFile /\ Backup \subseteq KeptFile /\ Staged \subseteq KeptFile
  /\ Manifested = Release \cup Spent
  BY RetentionAssumption DEF KeptFile, Manifested

LEMMA NoPinTyped == NoPin \in Pin /\ NoPins \in [Release -> Pin] /\ NoPin.stat = 0 /\ NoPin.digest = 0
                    /\ (\A f \in Release : NoPins[f] = NoPin)
  BY Bounds DEF NoPin, NoPins, Pin, GoneFile

LEMMA RetentionTyped == ASSUME DiskTyped, PinsTyped, PruneTyped, FlagsTyped PROVE RetentionTypeOK
  <1>1. /\ {onDisk, stampOf, mtime, driveCopy} \subseteq [KeptFile -> Bytes]
        /\ {sums, sumStamp} \subseteq [Manifested -> Bytes]
        /\ ia \in [Spent -> Bytes] /\ served \subseteq Spent
        /\ writes \in 0..MaxWrites /\ drift \in 0..MaxDrift /\ passKills \in 0..MaxPassKills
    BY DEF DiskTyped
  <1>2. /\ {receipt, pins, old} \subseteq [Release -> Pin] /\ named \in Pin
        /\ vtodo \subseteq listed /\ listed \subseteq Release /\ vfile \in Release \cup {NoFile, Verifying}
    BY DEF PinsTyped
  <1>3. {fresh, narrowed} \subseteq BOOLEAN
    BY Zenon DEF FlagsTyped
  <1> QED BY <1>1, <1>2, <1>3 DEF RetentionTypeOK, PruneTyped

LEMMA RetentionStarts == RetentionInit => RetentionInv
  <1> SUFFICES ASSUME RetentionInit PROVE RetentionInv
    OBVIOUS
  <1>1. PICK scene \in Scenes : onDisk = [f \in KeptFile |-> IF f \in scene THEN 1 ELSE GoneFile]
    BY DEF RetentionInit
  <1>2. DiskTyped
    BY <1>1, Bounds DEF RetentionInit, DiskTyped, GoneFile, Manifested, KeptFile
  <1>3. PinsTyped
    BY NoPinTyped DEF RetentionInit, PinsTyped
  <1>4. PruneTyped
    <2>1. store \in [stat : Bytes, wal : BOOLEAN]
      BY Bounds DEF RetentionInit
    <2> QED BY <2>1, Bounds DEF RetentionInit, PruneTyped, GoneFile
  <1>5. FlagsTyped
    BY Zenon DEF RetentionInit, FlagsTyped
  <1>6. StampsNew
    BY <1>1, NoPinTyped DEF RetentionInit, StampsNew, GoneFile
  <1>7. PinsTrue /\ PinsLeft
    BY NoPinTyped, Selectors DEF RetentionInit, PinsTrue, True, PinsLeft
  <1>8. Seen
    BY Selectors DEF RetentionInit, Seen, ReleaseSeen, SpentSeen, BackupSeen, StageSeen, LookSeen
  <1> QED BY <1>2, <1>3, <1>4, <1>5, <1>6, <1>7, <1>8 DEF RetentionInv

LEMMA RetentionDiskTyped == ASSUME RetentionInv, [RetentionNext]_retentionVars PROVE DiskTyped'
  <1>1. DiskTyped /\ PruneTyped /\ vfile \in Release \cup {NoFile, Verifying}
    BY DEF RetentionInv, PinsTyped
  <1>2. ASSUME UNCHANGED <<here, far, records, passKills>> PROVE DiskTyped'
    BY <1>1, <1>2 DEF here, far, records, DiskTyped
  <1>3. ASSUME NEW f \in KeptFile, NEW other \in BOOLEAN, NEW keeping \in BOOLEAN, Rewrite(f, other, keeping)
        PROVE  DiskTyped'
    <2>1. writes' \in 0..MaxWrites /\ writes + 2 \in Bytes
      BY <1>1, <1>3, Bounds DEF Rewrite, DiskTyped
    <2>2. /\ onDisk' \in [KeptFile -> Bytes] /\ stampOf' \in [KeptFile -> Bytes] /\ mtime' \in [KeptFile -> Bytes]
      BY <1>1, <1>3, <2>1 DEF Rewrite, DiskTyped
    <2> QED BY <1>1, <1>3, <2>1, <2>2 DEF Rewrite, DiskTyped, far, records
  <1>4. CASE OpenStore
    BY <1>1, <1>4, Bounds DEF OpenStore, DiskTyped, far, records
  <1>5. CASE Drift
    <2>1. drift' \in 0..MaxDrift /\ MaxWrites + 1 + drift' \in Bytes /\ UNCHANGED <<here, records, passKills>>
      BY <1>1, <1>5, Bounds DEF Drift, DiskTyped
    <2>2. driveCopy' \in [KeptFile -> Bytes] /\ ia' \in [Spent -> Bytes] /\ served' \subseteq Spent
      BY <1>1, <1>5, <2>1, Bounds DEF Drift, DiskTyped, GoneFile
    <2> QED BY <1>1, <2>1, <2>2 DEF DiskTyped, here, records
  <1>6. ASSUME NEW f \in Manifested, ListFile(f) PROVE DiskTyped'
    <2>1. f \in KeptFile
      BY Selectors
    <2>2. hashing' \in [file : Manifested \cup {NoFile}, stat : Bytes]
      BY <1>1, <1>6, <2>1 DEF ListFile, DiskTyped
    <2> QED BY <1>1, <1>6, <2>2 DEF ListFile, DiskTyped, here, far
  <1>7. CASE HashFile
    <2>1. hashing' \in [file : Manifested \cup {NoFile}, stat : Bytes]
      BY <1>7, Bounds DEF HashFile, GoneFile
    <2>2. hashing.file \in Manifested /\ hashing.file \in KeptFile /\ hashing.stat \in Bytes
      BY <1>1, <1>7, Selectors DEF HashFile, DiskTyped
    <2>3. sums' \in [Manifested -> Bytes] /\ sumStamp' \in [Manifested -> Bytes]
      BY <1>1, <1>7, <2>2 DEF HashFile, DiskTyped
    <2> QED BY <1>1, <1>7, <2>1, <2>3 DEF HashFile, DiskTyped, here, far
  <1>8. ASSUME NEW f \in Manifested, Forget(f) PROVE DiskTyped'
    BY <1>1, <1>8, Bounds DEF Forget, DiskTyped, here, far, GoneFile
  <1>9. ASSUME NEW f \in KeptFile, Upload(f) PROVE DiskTyped'
    BY <1>1, <1>9 DEF Upload, DiskTyped, here, records
  <1>10. CASE PruneUnlink
    <2>1. onDisk' \in [KeptFile -> Bytes]
      BY <1>1, <1>10, Bounds DEF PruneUnlink, DiskTyped, GoneFile
    <2> QED BY <1>1, <1>10, <2>1 DEF PruneUnlink, DiskTyped, far, records
  <1>11. CASE KillPass
    <2>1. passKills' \in 0..MaxPassKills /\ hashing' \in [file : Manifested \cup {NoFile}, stat : Bytes]
      BY <1>1, <1>11, Bounds DEF KillPass, DiskTyped, GoneFile
    <2> QED BY <1>1, <1>11, <2>1 DEF KillPass, DiskTyped, here, far
  <1> QED BY <1>2, <1>3, <1>4, <1>5, <1>6, <1>7, <1>8, <1>9, <1>10, <1>11 DEF RetentionNext, retentionVars,
       CloseStore, Expire, Manifest, VerifyBegin, VerifyList, VerifyHash, VerifyPin, VerifyWrite, PruneTake,
       PruneAsk, PruneRecheck, PruneRecord, PruneLook

LEMMA RetentionPinsTyped == ASSUME RetentionInv, [RetentionNext]_retentionVars PROVE PinsTyped'
  <1>1. PinsTyped /\ DiskTyped /\ PinsLeft
    BY DEF RetentionInv
  <1>2. ASSUME UNCHANGED <<verify, receipt, listed>> PROVE PinsTyped'
    BY <1>1, <1>2 DEF verify, PinsTyped
  <1>3. CASE Manifest
    BY <1>1, <1>3 DEF Manifest, verify, PinsTyped, PinsLeft
  <1>4. ASSUME NEW scope \in SUBSET listed, NEW some \in BOOLEAN, VerifyBegin(scope, some) PROVE PinsTyped'
    <2>1. old' \in [Release -> Pin]
      BY <1>1, <1>4, NoPinTyped DEF VerifyBegin, PinsTyped
    <2>2. receipt' \in [Release -> Pin] /\ pins' = receipt'
      BY <1>1, <1>4, <2>1, NoPinTyped DEF VerifyBegin
    <2> QED BY <1>1, <1>4, <2>1, <2>2 DEF VerifyBegin, PinsTyped
  <1>5. ASSUME NEW f \in Release, VerifyList(f) PROVE PinsTyped'
    <2>1. [stat |-> stampOf[f], digest |-> sums[f]] \in Pin
      BY <1>1, Selectors DEF DiskTyped, Pin
    <2> QED BY <1>1, <1>5, <2>1 DEF VerifyList, PinsTyped
  <1>6. CASE VerifyHash
    BY <1>1, <1>6, NoPinTyped DEF VerifyHash, PinsTyped, VerifyIdle
  <1>7. CASE VerifyPin
    BY <1>1, <1>7, NoPinTyped DEF VerifyPin, PinsTyped, VerifyIdle
  <1>8. CASE VerifyWrite
    BY <1>1, <1>8, NoPinTyped DEF VerifyWrite, VerifyReset, PinsTyped
  <1>9. CASE KillPass
    BY <1>1, <1>9, NoPinTyped DEF KillPass, VerifyReset, PinsTyped
  <1> QED BY <1>2, <1>3, <1>4, <1>5, <1>6, <1>7, <1>8, <1>9 DEF RetentionNext, retentionVars, Rewrite, OpenStore,
       CloseStore, Drift, Expire, ListFile, Forget, HashFile, Upload, PruneTake, PruneAsk, PruneRecheck,
       PruneRecord, PruneLook, PruneUnlink

LEMMA RetentionFlagsTyped == ASSUME RetentionInv, [RetentionNext]_retentionVars PROVE FlagsTyped'
  <1>1. fresh \in BOOLEAN /\ narrowed \in BOOLEAN
    BY Zenon DEF RetentionInv, FlagsTyped
  <1>2. ASSUME UNCHANGED <<fresh, verify>> PROVE FlagsTyped'
    BY <1>1, <1>2, Zenon DEF verify, FlagsTyped
  <1>3. CASE Expire
    BY <1>1, <1>3, Zenon DEF Expire, verify, FlagsTyped
  <1>4. ASSUME NEW scope \in SUBSET listed, NEW some \in BOOLEAN, VerifyBegin(scope, some) PROVE FlagsTyped'
    BY <1>4, Zenon DEF VerifyBegin, FlagsTyped
  <1>5. ASSUME NEW f \in Release, VerifyList(f) PROVE FlagsTyped'
    BY <1>1, <1>5, Zenon DEF VerifyList, FlagsTyped
  <1>6. CASE VerifyHash
    BY <1>1, <1>6, Zenon DEF VerifyHash, FlagsTyped
  <1>7. CASE VerifyPin
    BY <1>1, <1>7, Zenon DEF VerifyPin, FlagsTyped
  <1>8. CASE VerifyWrite
    <2>1. fresh' \in BOOLEAN
      BY <1>8, Zenon DEF VerifyWrite
    <2>2. narrowed' \in BOOLEAN
      BY <1>8, Zenon DEF VerifyWrite, VerifyReset
    <2> QED BY <2>1, <2>2 DEF FlagsTyped
  <1>9. CASE KillPass
    BY <1>1, <1>9, Zenon DEF KillPass, VerifyReset, FlagsTyped
  <1> QED BY <1>2, <1>3, <1>4, <1>5, <1>6, <1>7, <1>8, <1>9 DEF RetentionNext, retentionVars, Rewrite, OpenStore,
       CloseStore, Drift, Manifest, ListFile, Forget, HashFile, Upload, PruneTake, PruneAsk, PruneRecheck,
       PruneRecord, PruneLook, PruneUnlink

\* What the far side says, by the selector the file is of.
LEMMA AskSays ==
  ASSUME RetentionInv, PruneAsk, pstep' # "idle"
  PROVE  /\ pstep = "ask" /\ pstep' = "recheck" /\ UNCHANGED <<prey, before>> /\ consented' \in Bytes
         /\ prey \in Release => consented' = receipt[prey].digest /\ consented' # GoneFile /\ green' = green
         /\ prey \in Spent => green' = green
         /\ prey \in Staged => consented' = onDisk[NewestCopy] /\ green' = green
         /\ prey \in Backup => consented' = consented /\ green' = store.stat
  <1>1. DiskTyped /\ PinsTyped /\ PruneTyped
    BY DEF RetentionInv
  <1>2. pstep = "ask" /\ pstep' = "recheck" /\ UNCHANGED <<prey, before>> /\ prey \in KeptFile
    BY <1>1 DEF PruneAsk, HeldOffsite, PruneTyped
  <1>3. prey \in Release \/ prey \in Spent \/ prey \in Staged \/ prey \in Backup
    BY <1>2 DEF KeptFile, Manifested
  <1>4. CASE prey \in Release
    <2>1. consented' = driveCopy[prey] /\ driveCopy[prey] = receipt[prey].digest /\ consented' # GoneFile
          /\ green' = green
      BY <1>4, <1>2, Selectors DEF PruneAsk, HeldOffsite
    <2> QED BY <1>1, <1>2, <1>4, <2>1, Selectors DEF DiskTyped
  <1>5. CASE prey \in Spent
    <2>1. consented' = ia[prey] /\ green' = green
      BY <1>5, <1>2, Selectors DEF PruneAsk, HeldOffsite
    <2> QED BY <1>1, <1>2, <1>5, <2>1, Selectors DEF DiskTyped
  <1>6. CASE prey \in Staged
    <2>1. consented' = driveCopy[NewestCopy] /\ consented' = onDisk[NewestCopy] /\ green' = green
      BY <1>6, <1>2, Selectors DEF PruneAsk, HeldOffsite
    <2>2. NewestCopy \in KeptFile
      BY <1>6, NewestStaged, Selectors
    <2> QED BY <1>1, <1>2, <1>6, <2>1, <2>2, Selectors DEF DiskTyped
  <1>7. CASE prey \in Backup
    <2>1. consented' = consented /\ green' = store.stat
      BY <1>7, <1>2, Selectors DEF PruneAsk, HeldOffsite
    <2> QED BY <1>1, <1>2, <1>7, <2>1, Selectors DEF PruneTyped
  <1> QED BY <1>3, <1>4, <1>5, <1>6, <1>7

\* What the second look demands, and where it leads.
LEMMA RecheckSays ==
  ASSUME RetentionInv, PruneRecheck, pstep' # "idle"
  PROVE  /\ pstep = "recheck" /\ UNCHANGED <<prey, before, consented>>
         /\ Proven /\ raced' = raced
         /\ prey \in Spent => onDisk[prey] = consented
         /\ prey \in Backup => store.stat = consented
  BY Selectors DEF PruneRecheck, HeldOffsite, Proven

\* A file goes on what was seen of it.
LEMMA UnlinkProves ==
  ASSUME RetentionInv, PruneUnlink
  PROVE  /\ onDisk' = [onDisk EXCEPT ![prey] = GoneFile]
         /\ \E seen \in {consented, Raced} : proof' = [proof EXCEPT ![prey] = seen]
  <1>1. pstep = "unlink" /\ prey \in KeptFile /\ Seen
    BY DEF RetentionInv, PruneUnlink, PruneTyped
  <1>2. prey \in Release \/ prey \in Spent \/ prey \in Staged \/ prey \in Backup
    BY <1>1 DEF KeptFile, Manifested
  <1>3. CASE prey \in Release
    BY <1>1, <1>3, Selectors DEF PruneUnlink, Seen, ReleaseSeen, LookSeen, Unmoved
  <1>4. CASE prey \in Spent
    BY <1>1, <1>4, Selectors DEF PruneUnlink, Seen, SpentSeen, LookSeen, Unmoved
  <1>5. CASE prey \in Staged
    BY <1>1, <1>5, Selectors DEF PruneUnlink, Seen, StageSeen
  <1>6. CASE prey \in Backup
    BY <1>1, <1>6, Selectors DEF PruneUnlink, Seen, BackupSeen
  <1> QED BY <1>2, <1>3, <1>4, <1>5, <1>6

LEMMA RetentionPruneTyped == ASSUME RetentionInv, [RetentionNext]_retentionVars PROVE PruneTyped'
  <1>1. PruneTyped /\ DiskTyped
    BY DEF RetentionInv
  <1>2. ASSUME UNCHANGED <<store, green, prune>> PROVE PruneTyped'
    BY <1>1, <1>2 DEF prune, pass, PruneTyped
  <1>12. ASSUME NEW f \in KeptFile, NEW other \in BOOLEAN, NEW keeping \in BOOLEAN, Rewrite(f, other, keeping)
         PROVE  PruneTyped'
    <2>1. raced' \subseteq Manifested
      BY <1>1, <1>12 DEF Rewrite, PruneTyped
    <2> QED BY <1>1, <1>12, <2>1 DEF Rewrite, pass, PruneTyped
  <1>3. ASSUME HeldOffsite, UNCHANGED <<store, green, deleted, proof>> PROVE PruneTyped'
    BY <1>1, <1>3, Bounds DEF HeldOffsite, PruneTyped, GoneFile
  <1>4. CASE OpenStore
    <2>1. writes + 2 \in Bytes
      BY <1>1, <1>4, Bounds DEF OpenStore, DiskTyped
    <2> QED BY <1>1, <1>4, <2>1 DEF OpenStore, prune, pass, PruneTyped
  <1>5. CASE CloseStore
    BY <1>1, <1>5 DEF CloseStore, prune, pass, PruneTyped
  <1>6. ASSUME NEW f \in KeptFile, PruneTake(f) PROVE PruneTyped'
    BY <1>1, <1>6, Bounds DEF PruneTake, DiskTyped, PruneTyped, GoneFile
  <1>7. CASE PruneAsk
    <2>1. CASE pstep' = "idle"
      <3>1. HeldOffsite /\ UNCHANGED <<store, green, deleted, proof>>
        BY <1>7, <2>1 DEF PruneAsk
      <3> QED BY <1>3, <3>1
    <2>2. CASE pstep' # "idle"
      <3>1. green' \in Bytes /\ UNCHANGED <<store, deleted, proof, raced>>
        BY <1>1, <1>7, <2>2, AskSays DEF PruneAsk, HeldOffsite, PruneTyped, KeptFile, Manifested
      <3> QED BY <1>1, <1>7, <2>2, <3>1, AskSays DEF PruneTyped
    <2> QED BY <2>1, <2>2
  <1>8. CASE PruneRecheck
    <2>1. CASE pstep' = "idle"
      <3>1. HeldOffsite /\ UNCHANGED <<store, green, deleted, proof>>
        BY <1>8, <2>1 DEF PruneRecheck, Proven
      <3> QED BY <1>3, <3>1
    <2>2. CASE pstep' # "idle"
      <3>1. UNCHANGED <<store, green, deleted, proof>>
        BY <1>8 DEF PruneRecheck
      <3> QED BY <1>1, <1>8, <2>2, <3>1, RecheckSays DEF PruneTyped, Proven
    <2> QED BY <2>1, <2>2
  <1>9. CASE PruneRecord
    BY <1>1, <1>9 DEF PruneRecord, PruneTyped, RetentionInv, Seen, LookSeen
  <1>13. CASE PruneLook
    <2>1. CASE pstep' = "idle"
      <3>1. HeldOffsite /\ UNCHANGED <<store, green, deleted, proof>>
        BY <1>13, <2>1 DEF PruneLook
      <3> QED BY <1>3, <3>1
    <2>2. CASE pstep' # "idle"
      <3>1. pstep' = "unlink" /\ UNCHANGED <<store, green, prey, before, consented, deleted, proof, raced>>
        BY <1>13, <2>2 DEF PruneLook, HeldOffsite
      <3> QED BY <1>1, <1>13, <3>1 DEF PruneTyped, PruneLook
    <2> QED BY <2>1, <2>2
  <1>10. CASE PruneUnlink
    <2>1. proof' \in [KeptFile -> Bytes \cup {Raced}]
      BY <1>1, <1>10, UnlinkProves DEF PruneTyped
    <2>2. HeldOffsite /\ UNCHANGED <<store, green, deleted>>
      BY <1>10 DEF PruneUnlink
    <2> QED BY <1>1, <2>1, <2>2, Bounds DEF HeldOffsite, PruneTyped, GoneFile
  <1>11. CASE KillPass
    BY <1>3, <1>11 DEF KillPass
  <1> QED BY <1>2, <1>4, <1>5, <1>6, <1>7, <1>8, <1>9, <1>10, <1>11, <1>12, <1>13 DEF RetentionNext, retentionVars,
       Drift, Expire, ListFile, Forget, HashFile, Manifest, Upload, VerifyBegin, VerifyList, VerifyHash,
       VerifyPin, VerifyWrite

LEMMA RetentionStampsNew == ASSUME RetentionInv, [RetentionNext]_retentionVars PROVE StampsNew'
  <1>1. StampsNew /\ DiskTyped /\ PinsTyped /\ PruneTyped
    BY DEF RetentionInv
  <1>2. writes \in Nat /\ store.stat \in Nat /\ before \in Nat /\ named.stat \in Nat
        /\ (\A f \in KeptFile : stampOf[f] \in Nat)
        /\ \A f \in Release : receipt[f].stat \in Nat /\ pins[f].stat \in Nat /\ old[f].stat \in Nat
    BY <1>1, Bounds DEF DiskTyped, PinsTyped, PruneTyped, Pin
  <1>3. ASSUME UNCHANGED <<onDisk, stampOf, store, before, named, receipt, pins, old, writes>> PROVE StampsNew'
    BY <1>1, <1>3 DEF StampsNew
  <1>4. ASSUME NEW f \in KeptFile, NEW other \in BOOLEAN, NEW keeping \in BOOLEAN, Rewrite(f, other, keeping)
        PROVE  StampsNew'
    <2>1. writes' = writes + 1 /\ stampOf' = [stampOf EXCEPT ![f] = writes + 2] /\ onDisk[f] # GoneFile
          /\ UNCHANGED <<store, before, named, receipt, pins, old>>
      BY <1>4 DEF Rewrite, verify, prune, pass
    <2>2. \A g \in KeptFile : g # f => onDisk'[g] = onDisk[g]
      BY <1>1, <1>4 DEF Rewrite, DiskTyped
    <2>3. \A g \in KeptFile : stampOf'[g] <= writes' + 1 /\ (onDisk'[g] # GoneFile => stampOf'[g] # GoneFile)
      <3> SUFFICES ASSUME NEW g \in KeptFile
                   PROVE  stampOf'[g] <= writes' + 1 /\ (onDisk'[g] # GoneFile => stampOf'[g] # GoneFile)
        OBVIOUS
      <3>1. CASE g = f
        BY <1>1, <1>2, <2>1, <3>1 DEF DiskTyped, GoneFile
      <3>2. CASE g # f
        BY <1>1, <1>2, <2>1, <2>2, <3>2 DEF StampsNew, DiskTyped
      <3> QED BY <3>1, <3>2
    <2> QED BY <1>1, <1>2, <2>1, <2>3 DEF StampsNew
  <1>5. CASE OpenStore
    <2>1. writes' = writes + 1 /\ store'.stat = writes + 2
          /\ UNCHANGED <<onDisk, stampOf, before, named, receipt, pins, old>>
      BY <1>5 DEF OpenStore, verify, prune, pass
    <2> QED BY <1>1, <1>2, <2>1 DEF StampsNew
  <1>6. CASE CloseStore
    <2>1. store'.stat = store.stat /\ UNCHANGED <<onDisk, stampOf, before, named, receipt, pins, old, writes>>
      BY <1>1, <1>6 DEF CloseStore, verify, prune, pass, here, PruneTyped
    <2> QED BY <1>1, <2>1 DEF StampsNew
  <1>7. ASSUME NEW scope \in SUBSET listed, NEW some \in BOOLEAN, VerifyBegin(scope, some) PROVE StampsNew'
    <2>1. \A f \in Release : old'[f] \in {receipt[f], NoPin} /\ receipt'[f] \in {receipt[f], NoPin}
                             /\ pins'[f] \in {receipt[f], NoPin}
      BY <1>1, <1>7, NoPinTyped DEF VerifyBegin, PinsTyped
    <2>2. \A f \in Release : old'[f].stat <= writes + 1 /\ receipt'[f].stat <= writes + 1 /\ pins'[f].stat <= writes + 1
      BY <1>1, <1>2, <2>1, NoPinTyped DEF StampsNew
    <2> QED BY <1>1, <1>7, <2>2 DEF VerifyBegin, StampsNew, here, prune, pass
  <1>8. ASSUME NEW f \in Release, VerifyList(f) PROVE StampsNew'
    <2>1. named' = named \/ named'.stat = stampOf[f]
      BY <1>8 DEF VerifyList
    <2> QED BY <1>1, <1>8, <2>1, Selectors DEF VerifyList, StampsNew, here, prune, pass
  <1>9. CASE VerifyHash
    <2>1. old' = old \/ (old' = [old EXCEPT ![vfile] = named] /\ vfile \in Release)
      BY <1>1, <1>9 DEF VerifyHash, VerifyIdle, PinsTyped
    <2>2. named' = named \/ named' = NoPin
      BY <1>9 DEF VerifyHash
    <2>3. \A f \in Release : old'[f].stat <= writes + 1
      BY <1>1, <2>1 DEF StampsNew, PinsTyped
    <2>4. named'.stat <= writes + 1
      BY <1>1, <1>2, <2>2, NoPinTyped DEF StampsNew
    <2> QED BY <1>1, <1>9, <2>3, <2>4 DEF VerifyHash, StampsNew, here, prune, pass
  <1>10. CASE VerifyPin
    <2>1. pins' = pins \/ (pins' = [pins EXCEPT ![vfile] = named] /\ vfile \in Release)
      BY <1>1, <1>10 DEF VerifyPin, VerifyIdle, PinsTyped
    <2>2. \A f \in Release : pins'[f].stat <= writes + 1
      BY <1>1, <2>1 DEF StampsNew, PinsTyped
    <2>3. named'.stat <= writes + 1
      BY <1>2, <1>10, NoPinTyped DEF VerifyPin
    <2> QED BY <1>1, <1>10, <2>2, <2>3 DEF VerifyPin, StampsNew, here, prune, pass
  <1>11. ASSUME VerifyReset, UNCHANGED <<onDisk, stampOf, store, writes>>, before' \in {before, GoneFile},
                receipt' = receipt \/ receipt' = pins
         PROVE  StampsNew'
    <2>1. \A f \in Release : receipt'[f].stat <= writes + 1
      BY <1>1, <1>11 DEF StampsNew
    <2>2. named'.stat = 0 /\ (\A f \in Release : pins'[f].stat = 0 /\ old'[f].stat = 0) /\ before' <= writes + 1
      BY <1>1, <1>2, <1>11, NoPinTyped DEF VerifyReset, StampsNew, GoneFile
    <2> QED BY <1>1, <1>2, <1>11, <2>1, <2>2 DEF StampsNew
  <1>12. CASE VerifyWrite
    BY <1>11, <1>12 DEF VerifyWrite, here, prune, pass
  <1>13. CASE KillPass
    BY <1>11, <1>13 DEF KillPass, HeldOffsite, here
  <1>14. ASSUME UNCHANGED <<stampOf, store, named, receipt, pins, old, writes>>, before' <= writes + 1,
                \A f \in KeptFile : onDisk'[f] # GoneFile => onDisk[f] # GoneFile
         PROVE  StampsNew'
    BY <1>1, <1>14 DEF StampsNew
  <1>15. GoneFile <= writes + 1
    BY <1>2 DEF GoneFile
  <1>16. ASSUME NEW f \in KeptFile, PruneTake(f) PROVE StampsNew'
    BY <1>1, <1>14, <1>16 DEF PruneTake, here, verify, StampsNew
  <1>17. CASE PruneAsk
    BY <1>1, <1>14, <1>15, <1>17 DEF PruneAsk, HeldOffsite, here, verify, StampsNew
  <1>18. CASE PruneRecheck
    BY <1>1, <1>14, <1>15, <1>18 DEF PruneRecheck, HeldOffsite, here, verify, StampsNew
  <1>20. CASE PruneLook
    BY <1>1, <1>14, <1>15, <1>20 DEF PruneLook, HeldOffsite, here, verify, StampsNew
  <1>19. CASE PruneUnlink
    <2>1. \A f \in KeptFile : onDisk'[f] # GoneFile => onDisk[f] # GoneFile
      BY <1>1, <1>19 DEF PruneUnlink, DiskTyped
    <2>2. UNCHANGED <<stampOf, store, named, receipt, pins, old, writes>> /\ before' = GoneFile
      BY <1>19 DEF PruneUnlink, HeldOffsite, verify
    <2> QED BY <1>14, <1>15, <2>1, <2>2
  <1> QED BY <1>3, <1>4, <1>5, <1>6, <1>7, <1>8, <1>9, <1>10, <1>12, <1>13, <1>16, <1>17, <1>18, <1>19, <1>20 DEF
       RetentionNext, retentionVars, Drift, Expire, ListFile, Forget, HashFile, Manifest, Upload, PruneRecord,
       here, verify, prune, pass

LEMMA RetentionPinsTrue == ASSUME RetentionInv, [RetentionNext]_retentionVars PROVE PinsTrue'
  <1>1. PinsTrue /\ DiskTyped /\ PinsTyped /\ StampsNew
    BY DEF RetentionInv
  <1>2. \A f \in Release : f \in KeptFile
    BY Selectors
  <1>3. ASSUME UNCHANGED <<onDisk, stampOf, receipt, pins, old>> PROVE PinsTrue'
    BY <1>1, <1>3 DEF PinsTrue, True
  <1>4. ASSUME NEW f \in KeptFile, NEW other \in BOOLEAN, NEW keeping \in BOOLEAN, Rewrite(f, other, keeping)
        PROVE  PinsTrue'
    <2>1. stampOf' = [stampOf EXCEPT ![f] = writes + 2] /\ UNCHANGED <<receipt, pins, old>>
      BY <1>4 DEF Rewrite, verify
    <2>2. \A g \in KeptFile : g # f => onDisk'[g] = onDisk[g] /\ stampOf'[g] = stampOf[g]
      BY <1>1, <1>4 DEF Rewrite, DiskTyped
    <2>3. ASSUME NEW p \in Pin, p.stat <= writes + 1, True(p, f) PROVE True(p, f)'
      BY <1>1, <2>1, <2>3, Bounds DEF True, DiskTyped, Pin
    <2> QED BY <1>1, <1>2, <2>1, <2>2, <2>3 DEF PinsTrue, True, StampsNew, PinsTyped
  <1>5. ASSUME NEW scope \in SUBSET listed, NEW some \in BOOLEAN, VerifyBegin(scope, some) PROVE PinsTrue'
    <2>1. \A f \in Release : old'[f] \in {receipt[f], NoPin} /\ receipt'[f] \in {receipt[f], NoPin}
                             /\ pins'[f] \in {receipt[f], NoPin}
      BY <1>1, <1>5, NoPinTyped DEF VerifyBegin, PinsTyped
    <2>2. UNCHANGED <<onDisk, stampOf>>
      BY <1>5 DEF VerifyBegin, here
    <2> QED BY <1>1, <2>1, <2>2 DEF PinsTrue, True
  <1>6. CASE VerifyHash
    <2>1. UNCHANGED <<onDisk, stampOf, receipt, pins>>
      BY <1>6 DEF VerifyHash, here
    <2>2. old' = old \/ (old' = [old EXCEPT ![vfile] = named] /\ vfile \in Release /\ onDisk[vfile] = named.digest)
      BY <1>1, <1>6 DEF VerifyHash, VerifyIdle, PinsTyped
    <2>3. ASSUME NEW f \in Release PROVE old'[f] = old[f] \/ (old'[f] = named /\ onDisk[f] = named.digest)
      BY <1>1, <2>2 DEF PinsTyped
    <2> QED BY <1>1, <2>1, <2>3 DEF PinsTrue, True
  <1>7. CASE VerifyPin
    <2>1. UNCHANGED <<onDisk, stampOf, receipt, old>>
      BY <1>7 DEF VerifyPin, here
    <2>2. \A f \in Release : pins'[f] = pins[f] \/ pins'[f] = old[f]
      BY <1>1, <1>7 DEF VerifyPin, PinsTyped
    <2> QED BY <1>1, <2>1, <2>2 DEF PinsTrue, True
  <1>8. CASE VerifyWrite \/ KillPass
    <2>1. UNCHANGED <<onDisk, stampOf>> /\ (receipt' = receipt \/ receipt' = pins) /\ VerifyReset
      BY <1>8 DEF VerifyWrite, KillPass, here
    <2> QED BY <1>1, <2>1, NoPinTyped DEF VerifyReset, PinsTrue, True
  <1>9. CASE PruneUnlink
    <2>1. UNCHANGED <<stampOf, receipt, pins, old>>
      BY <1>9 DEF PruneUnlink, verify
    <2>2. \A f \in KeptFile : onDisk'[f] = onDisk[f] \/ onDisk'[f] = GoneFile
      BY <1>1, <1>9 DEF PruneUnlink, DiskTyped
    <2> QED BY <1>1, <1>2, <2>1, <2>2 DEF PinsTrue, True
  <1> QED BY <1>3, <1>4, <1>5, <1>6, <1>7, <1>8, <1>9 DEF RetentionNext, retentionVars, OpenStore, CloseStore,
       Drift, Expire, ListFile, Forget, HashFile, Manifest, Upload, VerifyList, PruneTake, PruneAsk,
       PruneRecheck, PruneRecord, PruneLook, here, verify

LEMMA RetentionPinsLeft == ASSUME RetentionInv, [RetentionNext]_retentionVars PROVE PinsLeft'
  <1>1. PinsLeft /\ PinsTyped
    BY DEF RetentionInv
  <1>2. NoFile \notin Release /\ Verifying \notin Release /\ NoFile # Verifying
    BY Selectors
  <1>3. ASSUME UNCHANGED <<receipt, verify>> PROVE PinsLeft'
    BY <1>1, <1>3 DEF verify, PinsLeft
  <1>4. ASSUME NEW scope \in SUBSET listed, NEW some \in BOOLEAN, VerifyBegin(scope, some) PROVE PinsLeft'
    <2>1. vfile' = Verifying /\ vtodo' = scope /\ pins' = receipt' /\ scope \subseteq Release
      BY <1>1, <1>4 DEF VerifyBegin, PinsTyped
    <2>2. \A f \in scope : receipt'[f] = NoPin
      BY <1>4, <2>1, NoPinTyped DEF VerifyBegin
    <2> QED BY <1>2, <2>1, <2>2 DEF PinsLeft
  <1>5. ASSUME NEW f \in Release, VerifyList(f) PROVE PinsLeft'
    BY <1>1, <1>2, <1>5 DEF VerifyList, PinsLeft
  <1>6. CASE VerifyHash
    BY <1>1, <1>2, <1>6 DEF VerifyHash, VerifyIdle, PinsLeft
  <1>7. CASE VerifyPin
    <2>1. vfile \in Release /\ receipt[vfile] = NoPin /\ UNCHANGED <<receipt, vtodo>> /\ vfile' = Verifying
      BY <1>1, <1>7 DEF VerifyPin, VerifyIdle, PinsLeft, PinsTyped
    <2>2. \A f \in Release : f # vfile => pins'[f] = pins[f]
      BY <1>1, <1>7 DEF VerifyPin, PinsTyped
    <2>3. vfile # NoFile
      BY <1>2, <2>1
    <2> QED BY <1>1, <1>2, <2>1, <2>2, <2>3 DEF PinsLeft
  <1>8. CASE VerifyWrite \/ KillPass
    BY <1>2, <1>8 DEF VerifyWrite, KillPass, VerifyReset, PinsLeft
  <1>9. CASE Manifest
    BY <1>3, <1>9 DEF Manifest
  <1> QED BY <1>3, <1>4, <1>5, <1>6, <1>7, <1>8, <1>9 DEF RetentionNext, retentionVars, Rewrite, OpenStore,
       CloseStore, Drift, Expire, ListFile, Forget, HashFile, Upload, PruneTake, PruneAsk, PruneRecheck,
       PruneRecord, PruneLook, PruneUnlink

LEMMA RetentionSeen == ASSUME RetentionInv, [RetentionNext]_retentionVars PROVE Seen'
  <1>1. Seen /\ DiskTyped /\ PinsTyped /\ PruneTyped /\ StampsNew /\ PinsTrue /\ PinsLeft
    BY DEF RetentionInv
  <1>2. writes \in Nat /\ store.stat \in Nat /\ before \in Nat /\ green \in Nat /\ consented \in Nat
        /\ (\A f \in KeptFile : stampOf[f] \in Nat)
    BY <1>1, Bounds DEF DiskTyped, PruneTyped
  <1>3. ASSUME UNCHANGED <<onDisk, stampOf, store, green, receipt, pins, prune>> PROVE Seen'
    BY <1>1, <1>3 DEF prune, pass, Seen, ReleaseSeen, SpentSeen, BackupSeen, StageSeen, LookSeen, Unmoved
  <1>4. ASSUME HeldOffsite PROVE Seen'
    BY <1>4, Selectors DEF HeldOffsite, Seen, ReleaseSeen, SpentSeen, BackupSeen, StageSeen, LookSeen
  <1>5. ASSUME NEW f \in KeptFile, NEW other \in BOOLEAN, NEW keeping \in BOOLEAN, Rewrite(f, other, keeping)
        PROVE  Seen'
    <2>1. stampOf' = [stampOf EXCEPT ![f] = writes + 2] /\ f \notin Staged
          /\ UNCHANGED <<store, green, receipt, pins, pass>>
          /\ raced' = IF pstep = "unlink" /\ f = prey /\ f \in Manifested THEN {f} ELSE raced
      BY <1>5 DEF Rewrite, verify
    <2>2. \A g \in KeptFile : g # f => onDisk'[g] = onDisk[g] /\ stampOf'[g] = stampOf[g]
      BY <1>1, <1>5 DEF Rewrite, DiskTyped
    <2>3. prey \in KeptFile /\ prey = f => stampOf'[prey] # before'
      BY <1>1, <1>2, <2>1 DEF DiskTyped, StampsNew, prune, pass
    <2>4. prey \in KeptFile /\ Unmoved' => Unmoved /\ onDisk'[prey] = onDisk[prey]
      BY <2>1, <2>2, <2>3 DEF Unmoved, prune, pass
    <2>5. prey \in Staged => onDisk'[NewestCopy] = onDisk[NewestCopy]
      BY <2>1, <2>2, NewestStaged, Selectors
    <2>6. LookSeen'
      <3>1. prey \in Manifested => prey \in KeptFile
        BY Selectors
      <3>2. pstep = "unlink" /\ prey \in Manifested /\ raced' = {} => f # prey /\ raced = {}
        BY <2>1
      <3>3. pstep # "unlink" \/ prey \notin Manifested => raced' = raced
        BY <2>1
      <3> QED BY <1>1, <2>1, <2>2, <3>1, <3>2, <3>3 DEF Seen, LookSeen, Unmoved, pass
    <2>7. ReleaseSeen' /\ SpentSeen' /\ BackupSeen' /\ StageSeen'
      BY <1>1, <2>1, <2>4, <2>5, Selectors DEF pass, Seen, ReleaseSeen, SpentSeen, BackupSeen, StageSeen
    <2> QED BY <2>6, <2>7 DEF Seen
  <1>6. CASE OpenStore
    <2>1. store'.stat = writes + 2 /\ UNCHANGED <<onDisk, stampOf, green, receipt, pins, prune>>
      BY <1>6 DEF OpenStore, verify
    <2>2. store.stat <= store'.stat
      BY <1>1, <1>2, <2>1 DEF StampsNew
    <2>3. BackupSeen'
      BY <1>1, <1>2, <2>1, <2>2 DEF prune, pass, Seen, BackupSeen
    <2> QED BY <1>1, <2>1, <2>3 DEF prune, pass, Seen, ReleaseSeen, SpentSeen, StageSeen, LookSeen, Unmoved
  <1>7. CASE CloseStore
    <2>1. store'.stat = store.stat /\ UNCHANGED <<onDisk, stampOf, green, receipt, pins, prune>>
      BY <1>1, <1>7 DEF CloseStore, here, verify, PruneTyped
    <2> QED BY <1>1, <2>1 DEF prune, pass, Seen, ReleaseSeen, SpentSeen, BackupSeen, StageSeen, LookSeen, Unmoved
  <1>8. ASSUME UNCHANGED <<onDisk, stampOf, store, green, prune>>,
               \A f \in Release : /\ receipt'[f] # NoPin => receipt'[f].stat = stampOf[f]
                                                            \/ receipt'[f] \in {receipt[f], pins[f]}
                                  /\ pins'[f] # NoPin => pins'[f].stat = stampOf[f]
                                                         \/ pins'[f] \in {receipt[f], pins[f]}
        PROVE  Seen'
    <2>1. ReleaseSeen'
      BY <1>1, <1>8 DEF prune, pass, Seen, ReleaseSeen, Unmoved
    <2> QED BY <1>1, <1>8, <2>1 DEF prune, pass, Seen, SpentSeen, BackupSeen, StageSeen, LookSeen, Unmoved
  <1>9. ASSUME NEW scope \in SUBSET listed, NEW some \in BOOLEAN, VerifyBegin(scope, some) PROVE Seen'
    <2>1. \A f \in Release : receipt'[f] \in {receipt[f], NoPin} /\ pins'[f] \in {receipt[f], NoPin}
      BY <1>1, <1>9, NoPinTyped DEF VerifyBegin, PinsTyped
    <2> QED BY <1>8, <1>9, <2>1 DEF VerifyBegin, here
  <1>10. CASE VerifyPin
    <2>1. \A f \in Release : pins'[f] = pins[f] \/ pins'[f].stat = stampOf[f]
      BY <1>1, <1>10 DEF VerifyPin, PinsTyped
    <2> QED BY <1>8, <1>10, <2>1 DEF VerifyPin, here
  <1>11. CASE VerifyWrite
    <2>1. \A f \in Release : pins'[f] = NoPin /\ receipt'[f] = pins[f]
      BY <1>11, NoPinTyped DEF VerifyWrite, VerifyReset
    <2> QED BY <1>8, <1>11, <2>1 DEF VerifyWrite, here
  <1>12. CASE KillPass
    BY <1>4, <1>12 DEF KillPass
  <1>13. ASSUME NEW f \in KeptFile, PruneTake(f) PROVE Seen'
    <2>1. prey' = f /\ pstep' = "ask" /\ before' = stampOf[f] /\ Listed(f)
          /\ UNCHANGED <<onDisk, stampOf, store, green, receipt, pins>>
      BY <1>13 DEF PruneTake, here, verify
    <2>2. ASSUME f \in Release PROVE ReleaseSeen'
      <3>1. receipt[f].stat = stampOf[f] /\ stampOf[f] # 0
        BY <1>1, <2>1, <2>2 DEF Listed, StampsNew, GoneFile
      <3>2. receipt[f] # NoPin
        BY <3>1, NoPinTyped
      <3>3. pins[f] # NoPin => pins[f] = receipt[f]
        BY <1>1, <2>2, <3>2, NoPinTyped DEF PinsLeft
      <3> QED BY <2>1, <3>1, <3>3 DEF ReleaseSeen
    <2>3. f \in Staged => f # NewestCopy
      BY <2>1 DEF Listed
    <2>4. f \in Backup => consented' = store.stat
      BY <1>13 DEF PruneTake
    <2>5. BackupSeen'
      BY <1>2, <2>1, <2>4 DEF BackupSeen
    <2>6. LookSeen'
      BY <1>1, <1>13, <2>1 DEF PruneTake, Seen, LookSeen
    <2> QED BY <2>1, <2>2, <2>3, <2>5, <2>6 DEF Seen, ReleaseSeen, SpentSeen, StageSeen
  <1>14. CASE PruneAsk
    <2>1. CASE pstep' = "idle"
      BY <1>4, <1>14, <2>1 DEF PruneAsk
    <2>2. CASE pstep' # "idle"
      <3>1. /\ pstep = "ask" /\ pstep' = "recheck" /\ UNCHANGED <<prey, before, onDisk, stampOf, store>>
            /\ prey \in KeptFile
        BY <1>1, <1>14, <2>2, AskSays DEF PruneAsk, here, PruneTyped
      <3>2. ReleaseSeen'
        <4> SUFFICES ASSUME prey \in Release, Unmoved PROVE onDisk[prey] = consented'
          BY <3>1 DEF ReleaseSeen, Unmoved
        <4>1. consented' = receipt[prey].digest /\ receipt[prey] # NoPin
          BY <1>14, <2>2, AskSays, NoPinTyped DEF GoneFile
        <4>2. receipt[prey].stat = before
          BY <1>1, <3>1, <4>1 DEF Seen, ReleaseSeen
        <4> QED BY <1>1, <4>1, <4>2 DEF PinsTrue, True, Unmoved
      <3>3. BackupSeen'
        BY <1>1, <1>2, <1>14, <2>2, <3>1, AskSays DEF Seen, BackupSeen
      <3>4. StageSeen'
        BY <1>1, <1>14, <2>2, <3>1, AskSays DEF Seen, StageSeen
      <3>5. SpentSeen'
        BY <3>1 DEF SpentSeen
      <3>6. LookSeen'
        BY <1>1, <1>14, <3>1 DEF PruneAsk, HeldOffsite, Seen, LookSeen
      <3> QED BY <3>1, <3>2, <3>3, <3>4, <3>5, <3>6 DEF Seen
    <2> QED BY <2>1, <2>2
  <1>15. CASE PruneRecheck
    <2>1. CASE pstep' = "idle"
      BY <1>4, <1>15, <2>1 DEF PruneRecheck, Proven
    <2>2. CASE pstep' # "idle"
      <3>1. UNCHANGED <<onDisk, stampOf, store, green, receipt, pins>>
        BY <1>15 DEF PruneRecheck, here, verify
      <3>2. BackupSeen'
        BY <1>1, <1>2, <1>15, <2>2, <3>1, RecheckSays, Selectors DEF Seen, BackupSeen
      <3>3. ReleaseSeen'
        BY <1>1, <1>15, <2>2, <3>1, RecheckSays, Selectors DEF Proven, Seen, ReleaseSeen, Unmoved
      <3>4. SpentSeen' /\ StageSeen'
        BY <1>1, <1>15, <2>2, <3>1, RecheckSays, Selectors DEF Proven, Seen, SpentSeen, StageSeen, Unmoved
      <3>5. LookSeen'
        BY <1>1, <1>15, <2>2, <3>1, RecheckSays, Selectors DEF Proven, Seen, LookSeen
      <3> QED BY <3>2, <3>3, <3>4, <3>5 DEF Seen
    <2> QED BY <2>1, <2>2
  <1>16. CASE PruneRecord
    <2>1. /\ pstep = "record" /\ pstep' = "look" /\ prey \in Spent
          /\ UNCHANGED <<onDisk, stampOf, store, green, receipt, pins, prey, before, consented, raced>>
      BY <1>1, <1>16 DEF PruneRecord, Seen, LookSeen, here, verify
    <2> QED BY <1>1, <2>1, Selectors DEF Seen, ReleaseSeen, SpentSeen, BackupSeen, StageSeen, LookSeen, Unmoved
  <1>18. CASE PruneLook
    <2>1. CASE pstep' = "idle"
      BY <1>4, <1>18, <2>1 DEF PruneLook
    <2>2. CASE pstep' # "idle"
      <3>1. /\ pstep = "look" /\ pstep' = "unlink" /\ prey \in Manifested /\ Unmoved
            /\ UNCHANGED <<onDisk, stampOf, store, green, receipt, pins, prey, before, consented, raced>>
        BY <1>1, <1>18, <2>2 DEF PruneLook, HeldOffsite, Unmoved, Seen, LookSeen, here, verify
      <3>2. ReleaseSeen' /\ SpentSeen'
        BY <1>1, <3>1 DEF Seen, ReleaseSeen, SpentSeen, Unmoved
      <3>3. BackupSeen' /\ StageSeen' /\ LookSeen'
        BY <1>1, <3>1, Selectors DEF Seen, BackupSeen, StageSeen, LookSeen, Unmoved
      <3> QED BY <3>2, <3>3 DEF Seen
    <2> QED BY <2>1, <2>2
  <1>17. CASE PruneUnlink
    BY <1>4, <1>17 DEF PruneUnlink
  <1> QED BY <1>3, <1>5, <1>6, <1>7, <1>9, <1>10, <1>11, <1>12, <1>13, <1>14, <1>15, <1>16, <1>17, <1>18 DEF RetentionNext,
       retentionVars, Drift, Expire, ListFile, Forget, HashFile, Manifest, Upload, VerifyList, VerifyHash, here,
       verify

(***************************************************************************)
(* Whoever writes, uploads, expires, drifts or is killed between the       *)
(* steps, a file goes only on what was seen of it in that run, or it was   *)
(* written between the last look and the unlink, and a pin describes the   *)
(* file that has its signature (prune.py, offsite.py).                     *)
(***************************************************************************)
THEOREM RetentionDeletesAsProved == RetentionSpec => []DeletedAsProved
  <1>1. RetentionInit => RetentionInv
    BY RetentionStarts
  <1>2. RetentionInv /\ [RetentionNext]_retentionVars => RetentionInv'
    BY RetentionDiskTyped, RetentionPinsTyped, RetentionPruneTyped, RetentionFlagsTyped, RetentionStampsNew,
       RetentionPinsTrue, RetentionPinsLeft, RetentionSeen DEF RetentionInv
  <1>3. RetentionInv => DeletedAsProved
    <2> SUFFICES ASSUME RetentionInv PROVE DeletedAsProved
      OBVIOUS
    <2>1. RetentionTypeOK /\ ReceiptIsTrue
      BY RetentionTyped DEF RetentionInv, ReceiptIsTrue, PinsTrue, True
    <2>2. DeletedIsProved
      BY Bounds DEF RetentionInv, PruneTyped, DeletedIsProved, Unproved, Raced
    <2> QED BY <2>1, <2>2 DEF DeletedAsProved
  <1> QED BY <1>1, <1>2, <1>3, PTL DEF RetentionSpec

-----------------------------------------------------------------------------
(* The price and its stage. *)

Node == [bytes : SnapContent, mtime : Nat, ctime : Nat]

NodesTyped ==
  /\ \E n \in Nat : n <= Len(Order) + sourceEdits /\ inode \in [1..n -> Node]
  /\ src \in [SnapFile -> DOMAIN inode] /\ linked \in [SnapFile -> DOMAIN inode \cup {AbsentFile}]
  /\ had \in [SnapFile -> SUBSET SnapContent]
  /\ sourceEdits \in 0..MaxSourceEdits /\ stageKills \in 0..MaxStageKills

Walking == {"stat", "hash", "prune", "link"}
StagersTyped ==
  /\ sstep \in [Stager -> {"idle", "stat", "hash", "unlink", "prune", "link", "write"}]
  /\ pos \in [Stager -> 1..Len(Order) + 1]
  /\ \A s \in Stager : sstep[s] \in Walking => pos[s] <= Len(Order)
  /\ DOMAIN newEntries = Stager /\ DOMAIN lastEntries = Stager /\ DOMAIN looked = Stager

LegTyped ==
  /\ priceStep \in {"idle", "check", "list", "read", "done", "refused"}
  /\ pricePos \in 1..Len(Order) + 1 /\ (priceStep \in {"check", "list", "read"} => pricePos <= Len(Order))
  /\ DOMAIN used \subseteq DOMAIN cited
  /\ priceStep \in {"idle", "check", "list"} => DOMAIN used = {}

\* An entry names an inode by a ctime it has had, and while it has it, its bytes.
Told(e, nodes) ==
  /\ e.stat[1] \in DOMAIN nodes /\ e.stat[3] \in Nat /\ e.stat[3] <= nodes[e.stat[1]].ctime
  /\ e.stat[3] = nodes[e.stat[1]].ctime => e.bytes = nodes[e.stat[1]].bytes
TableTrue(t, nodes) == DOMAIN t \subseteq SnapFile /\ \A f \in DOMAIN t : Told(t[f], nodes)
TablesTrue ==
  /\ TableTrue(snapManifest, inode) /\ TableTrue(cited, inode)
  /\ \A s \in Stager : TableTrue(newEntries[s], inode) /\ TableTrue(lastEntries[s], inode)

\* A stat taken before the hash is of the inode that is hashed, or of none by then.
LookTrue(s) ==
  sstep[s] = "hash" =>
    /\ looked[s][1] \in DOMAIN inode /\ looked[s][3] \in Nat /\ looked[s][3] <= inode[looked[s][1]].ctime
    /\ looked[s][3] = inode[looked[s][1]].ctime => src[Hand(s)] = looked[s][1]
LooksTrue == \A s \in Stager : LookTrue(s)

\* What a leg has made sure of on a stage nobody has touched.
AsCited(f) == linked[f] # AbsentFile /\ inode[linked[f]].bytes = cited[f].bytes
LegSure ==
  ~touched =>
    /\ priceStep = "check" => \A i \in 1..pricePos - 1 : Order[i] \in DOMAIN cited \ Lazy => AsCited(Order[i])
    /\ priceStep \in {"list", "read"} => \A f \in DOMAIN cited \ Lazy : AsCited(f)
    /\ \A f \in DOMAIN used : used[f] = cited[f].bytes

SnapshotInv ==
  /\ NodesTyped /\ StagersTyped /\ LegTyped /\ touched \in BOOLEAN
  /\ TablesTrue /\ LooksTrue /\ LegSure

LEMMA OrderFacts ==
  /\ Len(Order) \in Nat /\ Len(Order) >= 1 /\ DOMAIN Order = 1..Len(Order)
  /\ \A i \in 1..Len(Order) : Order[i] \in SnapFile
  /\ \A f \in SnapFile : \E i \in 1..Len(Order) : Order[i] = f
  /\ MaxSourceEdits \in Nat /\ MaxStageKills \in Nat /\ 2 \in SnapContent
  BY SnapshotAssumption DEF SnapFile, SnapContent

LEMMA NodeFacts ==
  ASSUME NodesTyped
  PROVE  /\ \A i \in DOMAIN inode : inode[i] \in Node /\ i # AbsentFile
         /\ AbsentFile \notin DOMAIN inode
         /\ \A f \in SnapFile : src[f] \in DOMAIN inode
  BY DEF NodesTyped, AbsentFile

LEMMA SnapshotTyped ==
  ASSUME NodesTyped, StagersTyped, LegTyped, TablesTrue, touched \in BOOLEAN PROVE SnapshotTypeOK
  <1>1. DOMAIN inode \subseteq Inode /\ \A i \in DOMAIN inode : inode[i].bytes \in SnapContent
    <2>1. PICK n \in Nat : n <= Len(Order) + sourceEdits /\ inode \in [1..n -> Node]
      BY DEF NodesTyped
    <2>2. n <= Len(Order) + MaxSourceEdits
      BY <2>1, OrderFacts DEF NodesTyped
    <2> QED BY <2>1, <2>2, OrderFacts DEF Inode, Node
  <1> QED BY <1>1 DEF SnapshotTypeOK, NodesTyped, StagersTyped, LegTyped, TablesTrue, TableTrue

LEMMA SnapshotStarts == SnapshotInit => SnapshotInv
  <1> SUFFICES ASSUME SnapshotInit PROVE SnapshotInv
    OBVIOUS
  <1>1. inode \in [1..Len(Order) -> Node] /\ DOMAIN inode = 1..Len(Order)
    BY OrderFacts DEF SnapshotInit, Node
  <1>2. src \in [SnapFile -> DOMAIN inode]
    <2>1. \A f \in SnapFile : (CHOOSE i \in DOMAIN Order : Order[i] = f) \in 1..Len(Order)
      BY OrderFacts
    <2> QED BY <1>1, <2>1 DEF SnapshotInit
  <1>3. NodesTyped
    <2>1. sourceEdits = 0 /\ Len(Order) <= Len(Order) + sourceEdits
      BY OrderFacts DEF SnapshotInit
    <2>2. /\ linked \in [SnapFile -> DOMAIN inode \cup {AbsentFile}]
          /\ had \in [SnapFile -> SUBSET SnapContent]
          /\ sourceEdits \in 0..MaxSourceEdits /\ stageKills \in 0..MaxStageKills
      BY OrderFacts DEF SnapshotInit
    <2> QED BY <1>1, <1>2, <2>1, <2>2, OrderFacts DEF NodesTyped
  <1>4. StagersTyped
    BY OrderFacts DEF SnapshotInit, StagersTyped, Walking
  <1>5. DOMAIN NoManifest = {}
    BY DEF NoManifest
  <1>6. LegTyped
    BY <1>5, OrderFacts DEF SnapshotInit, LegTyped
  <1>7. TablesTrue
    BY <1>5 DEF SnapshotInit, TablesTrue, TableTrue
  <1>8. LooksTrue
    BY DEF SnapshotInit, LooksTrue, LookTrue
  <1>9. LegSure
    BY <1>5 DEF SnapshotInit, LegSure
  <1>10. touched \in BOOLEAN
    BY Zenon DEF SnapshotInit
  <1> QED BY <1>3, <1>4, <1>6, <1>7, <1>8, <1>9, <1>10 DEF SnapshotInv

\* No step takes an inode away or changes its bytes without its ctime.
Grows(nodes, more) ==
  \A i \in DOMAIN nodes :
    /\ i \in DOMAIN more /\ more[i].ctime \in Nat
    /\ more[i].ctime > nodes[i].ctime \/ (more[i].ctime = nodes[i].ctime /\ more[i].bytes = nodes[i].bytes)

LEMMA TableStays ==
  ASSUME NEW t, NEW nodes, NEW more, TableTrue(t, nodes), Grows(nodes, more),
         \A i \in DOMAIN nodes : nodes[i].ctime \in Nat
  PROVE  TableTrue(t, more)
  <1> SUFFICES ASSUME NEW f \in DOMAIN t PROVE Told(t[f], more)
    BY DEF TableTrue
  <1> DEFINE i == t[f].stat[1]
  <1>1. i \in DOMAIN nodes /\ t[f].stat[3] \in Nat /\ t[f].stat[3] <= nodes[i].ctime
        /\ (t[f].stat[3] = nodes[i].ctime => t[f].bytes = nodes[i].bytes)
    BY DEF TableTrue, Told
  <1>2. nodes[i].ctime \in Nat /\ more[i].ctime \in Nat /\ i \in DOMAIN more
    BY <1>1 DEF Grows
  <1>3. more[i].ctime > nodes[i].ctime \/ (more[i].ctime = nodes[i].ctime /\ more[i].bytes = nodes[i].bytes)
    BY <1>1 DEF Grows
  <1> HIDE DEF i
  <1>4. t[f].stat[3] <= more[i].ctime /\ (t[f].stat[3] = more[i].ctime => t[f].bytes = more[i].bytes)
    BY <1>1, <1>2, <1>3
  <1> QED BY <1>1, <1>2, <1>4 DEF Told, i

LEMMA AgedFacts ==
  ASSUME NodesTyped, NEW i \in DOMAIN inode \cup {AbsentFile}
  PROVE  /\ DOMAIN Aged(i, inode) = DOMAIN inode
         /\ \A j \in DOMAIN inode : /\ Aged(i, inode)[j] \in Node
                                    /\ Aged(i, inode)[j].bytes = inode[j].bytes
                                    /\ j # i => Aged(i, inode)[j].ctime = inode[j].ctime
                                    /\ j = i => Aged(i, inode)[j].ctime = inode[j].ctime + 1
  <1>1. CASE i = AbsentFile
    BY <1>1, NodeFacts DEF Aged
  <1>2. CASE i # AbsentFile
    <2>1. i \in DOMAIN inode
      BY <1>2
    <2>2. Aged(i, inode) = [inode EXCEPT ![i].ctime = @ + 1]
      BY <1>2 DEF Aged
    <2> QED BY <2>1, <2>2, NodeFacts DEF Node
  <1> QED BY <1>1, <1>2

LEMMA SnapshotNodes ==
  ASSUME SnapshotInv, [SnapshotNext]_snapshotVars
  PROVE  NodesTyped' /\ Grows(inode, inode')
  <1>1. NodesTyped /\ StagersTyped
    BY DEF SnapshotInv
  <1>2. PICK n \in Nat : n <= Len(Order) + sourceEdits /\ inode \in [1..n -> Node]
    BY <1>1 DEF NodesTyped
  <1>3. DOMAIN inode = 1..n /\ Cardinality(DOMAIN inode) = n /\ sourceEdits \in 0..MaxSourceEdits
        /\ (\A i \in DOMAIN inode : inode[i].ctime \in Nat /\ inode[i] \in Node)
    <2>1. DOMAIN inode = 1..n /\ sourceEdits \in 0..MaxSourceEdits
          /\ (\A i \in DOMAIN inode : inode[i].ctime \in Nat /\ inode[i] \in Node)
      BY <1>1, <1>2 DEF NodesTyped, Node
    <2>2. Cardinality(1..n) = IF 1 > n THEN 0 ELSE n - 1 + 1
      BY <1>2, FS_Interval
    <2>3. Cardinality(1..n) = n
      BY <1>2, <2>2
    <2> QED BY <2>1, <2>3
  <1>4. ASSUME UNCHANGED inode PROVE Grows(inode, inode')
    BY <1>3, <1>4 DEF Grows
  <1>5. ASSUME UNCHANGED <<inode, src, linked, had, sourceEdits>>, stageKills' \in 0..MaxStageKills
        PROVE  NodesTyped' /\ Grows(inode, inode')
    BY <1>1, <1>4, <1>5 DEF NodesTyped
  <1>6. ASSUME NEW f \in SnapFile, NEW b \in SnapContent, Replace(f, b) PROVE NodesTyped' /\ Grows(inode, inode')
    <2> DEFINE new == [bytes |-> b, mtime |-> n + 1, ctime |-> 1]
    <2>1. inode' = Entered(Aged(src[f], inode), n + 1, new) /\ src' = [src EXCEPT ![f] = n + 1]
          /\ had' = [had EXCEPT ![f] = @ \cup {b}] /\ sourceEdits' = sourceEdits + 1
          /\ sourceEdits < MaxSourceEdits /\ UNCHANGED <<linked, stageKills>>
      BY <1>3, <1>6 DEF Replace
    <2>2. new \in Node
      BY DEF Node
    <2>3. src[f] \in DOMAIN inode
      BY <1>1, NodeFacts
    <2>4. n + 1 \notin DOMAIN Aged(src[f], inode) /\ DOMAIN Aged(src[f], inode) = 1..n
      BY <1>1, <1>3, <2>3, AgedFacts
    <2> HIDE DEF new
    <2>5. DOMAIN inode' = 1..n + 1
      <3>1. DOMAIN inode' = (1..n) \cup {n + 1}
        BY <2>1, <2>4 DEF Entered
      <3> QED BY <1>2, <3>1
    <2>6. inode'[n + 1] = new /\ \A j \in 1..n : inode'[j] = Aged(src[f], inode)[j]
      BY <2>1, <2>4, <2>5 DEF Entered
    <2>7. inode' = [j \in DOMAIN inode' |-> inode'[j]]
      BY <2>1 DEF Entered
    <2>8. \A j \in 1..n + 1 : inode'[j] \in Node
      <3> SUFFICES ASSUME NEW j \in 1..n + 1 PROVE inode'[j] \in Node
        OBVIOUS
      <3>1. CASE j = n + 1
        BY <2>2, <2>6, <3>1
      <3>2. CASE j # n + 1
        BY <1>1, <1>3, <2>3, <2>6, <3>2, AgedFacts
      <3> QED BY <3>1, <3>2
    <2>9. inode' \in [1..n + 1 -> Node]
      BY <2>5, <2>7, <2>8
    <2>10. n + 1 \in Nat /\ n + 1 <= Len(Order) + sourceEdits' /\ sourceEdits' \in 0..MaxSourceEdits
      BY <1>2, <1>3, <2>1, OrderFacts
    <2>11. src' \in [SnapFile -> DOMAIN inode'] /\ linked' \in [SnapFile -> DOMAIN inode' \cup {AbsentFile}]
           /\ had' \in [SnapFile -> SUBSET SnapContent]
      BY <1>1, <1>3, <2>1, <2>5 DEF NodesTyped
    <2>12. NodesTyped'
      BY <1>1, <2>1, <2>9, <2>10, <2>11 DEF NodesTyped
    <2>13. Grows(inode, inode')
      <3> SUFFICES ASSUME NEW i \in DOMAIN inode
                   PROVE  /\ i \in DOMAIN inode' /\ inode'[i].ctime \in Nat
                          /\ \/ inode'[i].ctime > inode[i].ctime
                             \/ inode'[i].ctime = inode[i].ctime /\ inode'[i].bytes = inode[i].bytes
        BY DEF Grows
      <3>1. inode'[i] = Aged(src[f], inode)[i] /\ i \in DOMAIN inode' /\ inode[i].ctime \in Nat
        BY <1>3, <2>5, <2>6
      <3> QED BY <1>1, <2>3, <3>1, AgedFacts
    <2> QED BY <2>12, <2>13
  <1>7. ASSUME NEW f \in SnapFile, NEW b \in SnapContent, PutBack(f, b) PROVE NodesTyped' /\ Grows(inode, inode')
    <2>1. src[f] \in DOMAIN inode
      BY <1>1, NodeFacts
    <2>2. inode' \in [1..n -> Node] /\ Grows(inode, inode') /\ DOMAIN inode' = DOMAIN inode
      BY <1>2, <1>3, <1>7, <2>1 DEF PutBack, Grows, Node
    <2>3. n <= Len(Order) + sourceEdits' /\ sourceEdits' \in 0..MaxSourceEdits
      BY <1>2, <1>3, <1>7, OrderFacts DEF PutBack
    <2>4. had' \in [SnapFile -> SUBSET SnapContent] /\ UNCHANGED <<src, linked, stageKills>>
      BY <1>1, <1>7 DEF PutBack, NodesTyped
    <2> QED BY <1>1, <2>2, <2>3, <2>4 DEF NodesTyped
  <1>8. ASSUME NEW i \in DOMAIN inode, inode' = Aged(i, inode), linked' \in [SnapFile -> DOMAIN inode \cup {AbsentFile}],
               UNCHANGED <<src, had, sourceEdits, stageKills>>
        PROVE  NodesTyped' /\ Grows(inode, inode')
    <2>1. i # AbsentFile /\ inode' = [inode EXCEPT ![i].ctime = @ + 1]
      BY <1>1, <1>8, NodeFacts DEF Aged
    <2>2. inode' \in [1..n -> Node] /\ Grows(inode, inode') /\ DOMAIN inode' = DOMAIN inode
      BY <1>2, <1>3, <2>1 DEF Grows, Node
    <2> QED BY <1>1, <1>2, <1>8, <2>2 DEF NodesTyped
  <1>9. ASSUME NEW s \in Stager, Prune(s) PROVE NodesTyped' /\ Grows(inode, inode')
    <2>1. Hand(s) \in SnapFile
      BY <1>1, <1>9, OrderFacts DEF Prune, Hand, StagersTyped, Walking
    <2>2. CASE UNCHANGED <<inode, linked>>
      BY <1>1, <1>5, <1>9, <2>2 DEF Prune, NodesTyped
    <2>3. CASE ~UNCHANGED <<inode, linked>>
      <3>1. linked[Hand(s)] \in DOMAIN inode /\ inode' = Aged(linked[Hand(s)], inode)
            /\ linked' = [linked EXCEPT ![Hand(s)] = AbsentFile] /\ UNCHANGED <<src, had, sourceEdits, stageKills>>
        BY <1>1, <1>9, <2>1, <2>3 DEF Prune, NodesTyped
      <3>2. linked' \in [SnapFile -> DOMAIN inode \cup {AbsentFile}]
        BY <1>1, <2>1, <3>1 DEF NodesTyped
      <3> QED BY <1>8, <3>1, <3>2
    <2> QED BY <2>2, <2>3
  <1>10. ASSUME NEW s \in Stager, Link(s) PROVE NodesTyped' /\ Grows(inode, inode')
    <2>1. Hand(s) \in SnapFile
      BY <1>1, <1>10, OrderFacts DEF Link, Hand, StagersTyped, Walking
    <2>2. CASE UNCHANGED <<inode, linked>>
      BY <1>1, <1>5, <1>10, <2>2 DEF Link, NodesTyped
    <2>3. CASE ~UNCHANGED <<inode, linked>>
      <3>1. src[Hand(s)] \in DOMAIN inode /\ inode' = Aged(src[Hand(s)], inode)
            /\ linked' = [linked EXCEPT ![Hand(s)] = src[Hand(s)]] /\ UNCHANGED <<src, had, sourceEdits, stageKills>>
        BY <1>1, <1>10, <2>1, <2>3, NodeFacts DEF Link
      <3>2. linked' \in [SnapFile -> DOMAIN inode \cup {AbsentFile}]
        BY <1>1, <2>1, <3>1 DEF NodesTyped
      <3> QED BY <1>8, <3>1, <3>2
    <2> QED BY <2>2, <2>3
  <1>11. ASSUME NEW s \in Stager, KillStager(s) PROVE NodesTyped' /\ Grows(inode, inode')
    <2>1. stageKills' \in 0..MaxStageKills
      BY <1>1, <1>11, OrderFacts DEF KillStager, NodesTyped
    <2> QED BY <1>5, <1>11, <2>1 DEF KillStager, stage
  <1>12. ASSUME UNCHANGED <<stage, src, had, sourceEdits, stageKills>> PROVE NodesTyped' /\ Grows(inode, inode')
    BY <1>1, <1>5, <1>12 DEF stage, NodesTyped
  <1>13. ASSUME NEW s \in Stager, Unlink(s) \/ WriteSource(s) PROVE NodesTyped' /\ Grows(inode, inode')
    BY <1>1, <1>5, <1>13 DEF Unlink, WriteSource, NodesTyped
  <1>14. ASSUME NEW s \in Stager, BuildManifest(s) \/ LookAt(s) \/ Hash(s) PROVE NodesTyped' /\ Grows(inode, inode')
    BY <1>12, <1>14 DEF BuildManifest, LookAt, Hash
  <1>15. CASE ReadManifest \/ VerifyEntry \/ VerifyUnlisted \/ \E asked1 \in BOOLEAN : ReadSource(asked1)
    BY <1>12, <1>15 DEF ReadManifest, VerifyEntry, VerifyUnlisted, ReadSource
  <1> QED BY <1>6, <1>7, <1>9, <1>10, <1>11, <1>12, <1>13, <1>14, <1>15 DEF SnapshotNext, snapshotVars, Stages,
       stage

StepNames == {"idle", "stat", "hash", "unlink", "prune", "link", "write"}
StepsTyped ==
  /\ sstep \in [Stager -> StepNames] /\ pos \in [Stager -> 1..Len(Order) + 1]
  /\ \A s \in Stager : sstep[s] \in Walking => pos[s] <= Len(Order)

LEMMA StepKeeps ==
  ASSUME StepsTyped, NEW s \in Stager, NEW to \in StepNames, NEW n \in 1..Len(Order) + 1, Step(s, to, n),
         to \in Walking => n <= Len(Order)
  PROVE  StepsTyped'
  <1>1. sstep' \in [Stager -> StepNames] /\ pos' \in [Stager -> 1..Len(Order) + 1]
    BY DEF StepsTyped, Step
  <1>2. ASSUME NEW r \in Stager, sstep'[r] \in Walking PROVE pos'[r] <= Len(Order)
    BY <1>2 DEF StepsTyped, Step
  <1> QED BY <1>1, <1>2 DEF StepsTyped

LEMMA MoveOnKeeps ==
  ASSUME StepsTyped, NEW s \in Stager, NEW step \in StepNames, NEW after \in StepNames, MoveOn(s, step, after),
         pos[s] <= Len(Order)
  PROVE  StepsTyped'
  <1>1. pos[s] \in 1..Len(Order) /\ 1 \in 1..Len(Order) + 1 /\ 1 <= Len(Order)
    BY OrderFacts DEF StepsTyped
  <1>2. CASE pos[s] = Len(Order)
    BY <1>1, <1>2, StepKeeps DEF MoveOn
  <1>3. CASE pos[s] # Len(Order)
    <2>1. pos[s] + 1 \in 1..Len(Order) + 1 /\ pos[s] + 1 <= Len(Order)
      BY <1>1, <1>3, OrderFacts
    <2> QED BY <1>3, <2>1, StepKeeps DEF MoveOn
  <1> QED BY <1>2, <1>3

LEMMA SnapshotStagers == ASSUME SnapshotInv, [SnapshotNext]_snapshotVars PROVE StagersTyped'
  <1>1. StagersTyped /\ StepsTyped
    BY DEF SnapshotInv, StagersTyped, StepsTyped, StepNames
  <1>2. 1 \in 1..Len(Order) + 1 /\ 1 <= Len(Order) /\ \A r \in Stager : sstep[r] \in Walking => pos[r] <= Len(Order)
    BY <1>1, OrderFacts DEF StepsTyped
  <1>3. ASSUME StepsTyped', DOMAIN newEntries' = Stager, DOMAIN lastEntries' = Stager, DOMAIN looked' = Stager
        PROVE  StagersTyped'
    BY <1>3 DEF StepsTyped, StagersTyped, StepNames
  <1>4. ASSUME UNCHANGED stager PROVE StagersTyped'
    BY <1>1, <1>4 DEF stager, StagersTyped
  <1>5. ASSUME NEW s \in Stager, End(s) PROVE StagersTyped'
    <2>1. StepsTyped'
      BY <1>1, <1>2, <1>5, StepKeeps DEF End, StepNames, Walking
    <2>2. DOMAIN newEntries' = Stager /\ DOMAIN lastEntries' = Stager /\ DOMAIN looked' = Stager
      BY <1>1, <1>5 DEF End, StagersTyped
    <2> QED BY <1>3, <2>1, <2>2
  <1>6. ASSUME NEW s \in Stager, BuildManifest(s) PROVE StagersTyped'
    <2>1. StepsTyped'
      BY <1>1, <1>2, <1>6, StepKeeps DEF BuildManifest, StepNames, Walking
    <2>2. DOMAIN newEntries' = Stager /\ DOMAIN lastEntries' = Stager /\ DOMAIN looked' = Stager
      BY <1>1, <1>6 DEF BuildManifest, StagersTyped
    <2> QED BY <1>3, <2>1, <2>2
  <1>7. ASSUME NEW s \in Stager, LookAt(s) PROVE StagersTyped'
    <2>1. pos[s] \in 1..Len(Order) + 1 /\ pos[s] <= Len(Order)
      BY <1>1, <1>2, <1>7 DEF LookAt, Walking, StepsTyped
    <2>2. MoveOn(s, "stat", "unlink") \/ Step(s, "hash", pos[s])
      BY <1>7 DEF LookAt
    <2>3. StepsTyped'
      BY <1>1, <2>1, <2>2, StepKeeps, MoveOnKeeps DEF StepNames
    <2>4. DOMAIN newEntries' = Stager /\ DOMAIN lastEntries' = Stager /\ DOMAIN looked' = Stager
      BY <1>1, <1>7 DEF LookAt, StagersTyped
    <2> QED BY <1>3, <2>3, <2>4
  <1>8. ASSUME NEW s \in Stager, Hash(s) PROVE StagersTyped'
    <2>1. pos[s] <= Len(Order)
      BY <1>1, <1>2, <1>8 DEF Hash, Walking
    <2>2. CASE End(s)
      BY <1>5, <2>2
    <2>3. CASE ~End(s)
      <3>1. MoveOn(s, "stat", "unlink")
        BY <1>8, <2>3 DEF Hash
      <3>2. StepsTyped'
        BY <1>1, <2>1, <3>1, MoveOnKeeps DEF StepNames
      <3>3. DOMAIN newEntries' = Stager /\ DOMAIN lastEntries' = Stager /\ DOMAIN looked' = Stager
        BY <1>1, <1>8, <2>3 DEF Hash, StagersTyped
      <3> QED BY <1>3, <3>2, <3>3
    <2> QED BY <2>2, <2>3
  <1>9. ASSUME NEW s \in Stager, Unlink(s) PROVE StagersTyped'
    <2>1. StepsTyped'
      BY <1>1, <1>2, <1>9, StepKeeps DEF Unlink, StepNames, Walking
    <2> QED BY <1>1, <1>3, <1>9, <2>1 DEF Unlink, StagersTyped
  <1>10. ASSUME NEW s \in Stager, Prune(s) PROVE StagersTyped'
    <2>1. StepsTyped'
      BY <1>1, <1>2, <1>10, MoveOnKeeps DEF Prune, StepNames, Walking
    <2> QED BY <1>1, <1>3, <1>10, <2>1 DEF Prune, StagersTyped
  <1>11. ASSUME NEW s \in Stager, Link(s) PROVE StagersTyped'
    <2>1. StepsTyped'
      BY <1>1, <1>2, <1>11, MoveOnKeeps DEF Link, StepNames, Walking
    <2> QED BY <1>1, <1>3, <1>11, <2>1 DEF Link, StagersTyped
  <1>12. ASSUME NEW s \in Stager, WriteSource(s) \/ KillStager(s) PROVE StagersTyped'
    BY <1>5, <1>12 DEF WriteSource, KillStager
  <1>13. ASSUME NEW f \in SnapFile, NEW b \in SnapContent, Replace(f, b) \/ PutBack(f, b) PROVE StagersTyped'
    BY <1>4, <1>13 DEF Replace, PutBack
  <1>14. CASE ReadManifest \/ VerifyEntry \/ VerifyUnlisted \/ \E asked1 \in BOOLEAN : ReadSource(asked1)
    BY <1>4, <1>14 DEF ReadManifest, VerifyEntry, VerifyUnlisted, ReadSource
  <1> QED BY <1>4, <1>6, <1>7, <1>8, <1>9, <1>10, <1>11, <1>12, <1>13, <1>14 DEF SnapshotNext, snapshotVars, Stages

LEMMA SnapshotTables == ASSUME SnapshotInv, [SnapshotNext]_snapshotVars PROVE TablesTrue'
  <1>1. NodesTyped /\ StagersTyped /\ TablesTrue /\ LooksTrue
    BY DEF SnapshotInv
  <1>2. Grows(inode, inode') /\ \A i \in DOMAIN inode : inode[i].ctime \in Nat
    BY <1>1, SnapshotNodes, NodeFacts DEF Node
  <1>3. /\ TableTrue(snapManifest, inode') /\ TableTrue(cited, inode')
        /\ \A s \in Stager : TableTrue(newEntries[s], inode') /\ TableTrue(lastEntries[s], inode')
    BY <1>1, <1>2, TableStays DEF TablesTrue
  <1>4. TableTrue(NoManifest, inode')
    BY DEF TableTrue, NoManifest
  <1>5. ASSUME UNCHANGED <<snapManifest, cited, newEntries, lastEntries>> PROVE TablesTrue'
    BY <1>3, <1>5 DEF TablesTrue
  <1>6. ASSUME snapManifest' \in {snapManifest, NoManifest} \cup {newEntries[s] : s \in Stager},
               cited' \in {cited, snapManifest},
               \A s \in Stager : /\ newEntries'[s] \in {newEntries[s], NoManifest}
                                 /\ lastEntries'[s] \in {lastEntries[s], NoManifest, snapManifest}
        PROVE  TablesTrue'
    BY <1>3, <1>4, <1>6 DEF TablesTrue
  <1>7. ASSUME NEW s \in Stager, End(s)
        PROVE  \A r \in Stager : /\ newEntries'[r] \in {newEntries[r], NoManifest}
                                 /\ lastEntries'[r] \in {lastEntries[r], NoManifest, snapManifest}
    BY <1>1, <1>7 DEF End, StagersTyped
  <1>8. ASSUME NEW s \in Stager, BuildManifest(s) PROVE TablesTrue'
    <2>1. \A r \in Stager : /\ newEntries'[r] = newEntries[r]
                            /\ lastEntries'[r] \in {lastEntries[r], snapManifest}
      BY <1>1, <1>8 DEF BuildManifest, StagersTyped
    <2> QED BY <1>6, <1>8, <2>1 DEF BuildManifest, stage, leg
  <1>9. ASSUME NEW s \in Stager, WriteSource(s) \/ KillStager(s) PROVE TablesTrue'
    BY <1>6, <1>7, <1>9 DEF WriteSource, KillStager, stage, leg
  <1>10. ASSUME NEW s \in Stager, NEW f \in SnapFile, NEW e, Told(e, inode'),
                newEntries' = [newEntries EXCEPT ![s] = Entered(@, f, e)], UNCHANGED <<snapManifest, cited, lastEntries>>
         PROVE  TablesTrue'
    <2>1. newEntries'[s] = Entered(newEntries[s], f, e) /\ \A r \in Stager : r # s => newEntries'[r] = newEntries[r]
      BY <1>1, <1>10 DEF StagersTyped
    <2>2. TableTrue(Entered(newEntries[s], f, e), inode')
      BY <1>3, <1>10 DEF TableTrue, Entered
    <2> QED BY <1>3, <1>10, <2>1, <2>2 DEF TablesTrue
  <1>11. ASSUME NEW s \in Stager, sstep[s] \in Walking PROVE Hand(s) \in SnapFile
    BY <1>1, <1>11, OrderFacts DEF StagersTyped, Hand
  <1>12. ASSUME NEW s \in Stager, LookAt(s) PROVE TablesTrue'
    <2>1. CASE UNCHANGED newEntries
      BY <1>5, <1>12, <2>1 DEF LookAt, stage, leg
    <2>2. CASE ~UNCHANGED newEntries
      <3>1. /\ Hand(s) \in DOMAIN lastEntries[s] /\ UNCHANGED <<snapManifest, cited, lastEntries>>
            /\ newEntries' = [newEntries EXCEPT ![s] = Entered(@, Hand(s), lastEntries[s][Hand(s)])]
        BY <1>12, <2>2 DEF LookAt, stage, leg
      <3>2. Told(lastEntries[s][Hand(s)], inode') /\ Hand(s) \in SnapFile
        BY <1>3, <3>1 DEF TableTrue
      <3> QED BY <1>10, <3>1, <3>2
    <2> QED BY <2>1, <2>2
  <1>13. ASSUME NEW s \in Stager, Hash(s) PROVE TablesTrue'
    <2>1. sstep[s] = "hash" /\ UNCHANGED <<inode, snapManifest, cited, src>>
      BY <1>13 DEF Hash, stage, leg
    <2>2. Hand(s) \in SnapFile
      BY <1>11, <2>1 DEF Walking
    <2> DEFINE e == [bytes |-> inode[src[Hand(s)]].bytes, stat |-> looked[s]]
    <2>3. Told(e, inode)
      BY <1>1, <2>1 DEF LooksTrue, LookTrue, Told
    <2>4. CASE End(s)
      BY <1>6, <1>7, <2>1, <2>4
    <2>5. CASE UNCHANGED <<newEntries, lastEntries>>
      BY <1>5, <2>1, <2>5
    <2>6. CASE newEntries' = [newEntries EXCEPT ![s] = Entered(@, Hand(s), e)] /\ UNCHANGED lastEntries
      <3> HIDE DEF e
      <3> QED BY <1>10, <2>1, <2>2, <2>3, <2>6
    <2> QED BY <1>13, <2>4, <2>5, <2>6 DEF Hash
  <1>14. ASSUME NEW s \in Stager, Unlink(s) \/ Prune(s) \/ Link(s) PROVE TablesTrue'
    BY <1>6, <1>14 DEF Unlink, Prune, Link
  <1>15. ASSUME NEW f \in SnapFile, NEW b \in SnapContent, Replace(f, b) \/ PutBack(f, b) PROVE TablesTrue'
    BY <1>5, <1>15 DEF Replace, PutBack, stager, leg
  <1>16. CASE ReadManifest
    BY <1>6, <1>16 DEF ReadManifest, stage, stager
  <1>17. CASE VerifyEntry \/ VerifyUnlisted \/ \E asked1 \in BOOLEAN : ReadSource(asked1)
    BY <1>5, <1>17 DEF VerifyEntry, VerifyUnlisted, ReadSource, stage, stager
  <1> QED BY <1>5, <1>8, <1>9, <1>12, <1>13, <1>14, <1>15, <1>16, <1>17 DEF SnapshotNext, snapshotVars, Stages,
       stage, stager, leg

LEMMA SnapshotLooks == ASSUME SnapshotInv, [SnapshotNext]_snapshotVars PROVE LooksTrue'
  <1>1. NodesTyped /\ StagersTyped /\ LooksTrue
    BY DEF SnapshotInv
  <1>2. Grows(inode, inode') /\ \A i \in DOMAIN inode : inode[i].ctime \in Nat
    BY <1>1, SnapshotNodes, NodeFacts DEF Node
  <1>3. ASSUME NEW s \in Stager, sstep'[s] = sstep[s], pos'[s] = pos[s], looked'[s] = looked[s], src' = src
        PROVE  LookTrue(s)'
    <2> DEFINE i == looked[s][1]
    <2>1. SUFFICES ASSUME sstep[s] = "hash"
                   PROVE  /\ i \in DOMAIN inode' /\ looked[s][3] \in Nat /\ looked[s][3] <= inode'[i].ctime
                          /\ looked[s][3] = inode'[i].ctime => src[Hand(s)] = i
      BY <1>3 DEF LookTrue, Hand
    <2>2. i \in DOMAIN inode /\ looked[s][3] \in Nat /\ looked[s][3] <= inode[i].ctime
          /\ (looked[s][3] = inode[i].ctime => src[Hand(s)] = i)
      BY <1>1, <2>1 DEF LooksTrue, LookTrue
    <2>3. inode[i].ctime \in Nat /\ inode'[i].ctime \in Nat /\ i \in DOMAIN inode' /\ inode[i].ctime <= inode'[i].ctime
      BY <1>2, <2>2 DEF Grows
    <2> HIDE DEF i
    <2> QED BY <2>2, <2>3
  <1>4. ASSUME NEW s \in Stager, sstep'[s] # "hash" PROVE LookTrue(s)'
    BY <1>4 DEF LookTrue
  <1>5. ASSUME UNCHANGED <<sstep, pos, looked, src>> PROVE LooksTrue'
    BY <1>3, <1>5 DEF LooksTrue
  <1>6. ASSUME NEW s \in Stager, sstep'[s] # "hash", src' = src,
               \A r \in Stager : r # s => /\ sstep'[r] = sstep[r] /\ pos'[r] = pos[r] /\ looked'[r] = looked[r]
        PROVE  LooksTrue'
    BY <1>3, <1>4, <1>6 DEF LooksTrue
  <1>7. ASSUME NEW s \in Stager, NEW to, NEW n, Step(s, to, n)
        PROVE  sstep'[s] = to /\ pos'[s] = n /\ \A r \in Stager : r # s => sstep'[r] = sstep[r] /\ pos'[r] = pos[r]
    BY <1>1, <1>7 DEF Step, StagersTyped
  <1>8. ASSUME NEW s \in Stager, NEW step, NEW after, MoveOn(s, step, after)
        PROVE  sstep'[s] \in {step, after} /\ \A r \in Stager : r # s => sstep'[r] = sstep[r] /\ pos'[r] = pos[r]
    BY <1>7, <1>8 DEF MoveOn
  <1>9. ASSUME NEW s \in Stager, End(s), src' = src PROVE LooksTrue'
    BY <1>1, <1>6, <1>7, <1>9 DEF End, StagersTyped
  <1>10. ASSUME NEW s \in Stager, BuildManifest(s) PROVE LooksTrue'
    BY <1>6, <1>7, <1>10 DEF BuildManifest
  <1>11. ASSUME NEW s \in Stager, LookAt(s) PROVE LooksTrue'
    <2>1. src' = src /\ inode' = inode
      BY <1>11 DEF LookAt, stage
    <2>2. CASE MoveOn(s, "stat", "unlink") /\ UNCHANGED looked
      BY <1>6, <1>8, <2>1, <2>2
    <2>3. CASE looked' = [looked EXCEPT ![s] = Stat(src[Hand(s)])] /\ Step(s, "hash", pos[s])
      <3>1. Hand(s) \in SnapFile
        BY <1>1, <1>11, OrderFacts DEF LookAt, StagersTyped, Walking, Hand
      <3>2. looked'[s][1] = src[Hand(s)] /\ looked'[s][3] = inode[src[Hand(s)]].ctime
        BY <1>1, <2>3 DEF Stat, StagersTyped
      <3>3. pos'[s] = pos[s] /\ src[Hand(s)] \in DOMAIN inode /\ inode[src[Hand(s)]].ctime \in Nat
        BY <1>1, <1>2, <1>7, <2>3, <3>1, NodeFacts
      <3>4. LookTrue(s)'
        BY <2>1, <3>2, <3>3 DEF LookTrue, Hand
      <3>5. ASSUME NEW r \in Stager, r # s PROVE LookTrue(r)'
        BY <1>1, <1>3, <1>7, <2>1, <2>3, <3>5 DEF StagersTyped
      <3> QED BY <3>4, <3>5 DEF LooksTrue
    <2> QED BY <1>11, <2>2, <2>3 DEF LookAt
  <1>12. ASSUME NEW s \in Stager, Hash(s) PROVE LooksTrue'
    <2>1. src' = src
      BY <1>12 DEF Hash
    <2>2. CASE End(s)
      BY <1>9, <2>1, <2>2
    <2>3. CASE ~End(s)
      <3>1. MoveOn(s, "stat", "unlink") /\ looked' = [looked EXCEPT ![s] = NoStat]
        BY <1>12, <2>3 DEF Hash
      <3>2. \A r \in Stager : r # s => looked'[r] = looked[r]
        BY <1>1, <3>1 DEF StagersTyped
      <3> QED BY <1>6, <1>8, <2>1, <3>1, <3>2
    <2> QED BY <2>2, <2>3
  <1>13. ASSUME NEW s \in Stager, Unlink(s) PROVE LooksTrue'
    BY <1>6, <1>7, <1>13 DEF Unlink
  <1>14. ASSUME NEW s \in Stager, Prune(s) \/ Link(s) PROVE LooksTrue'
    BY <1>6, <1>8, <1>14 DEF Prune, Link
  <1>15. ASSUME NEW s \in Stager, WriteSource(s) \/ KillStager(s) PROVE LooksTrue'
    BY <1>9, <1>15 DEF WriteSource, KillStager
  <1>16. ASSUME NEW f \in SnapFile, NEW b \in SnapContent, Replace(f, b) PROVE LooksTrue'
    <2> SUFFICES ASSUME NEW s \in Stager, sstep[s] = "hash" PROVE LookTrue(s)'
      BY <1>16 DEF Replace, stager, LooksTrue, LookTrue
    <2> DEFINE i == looked[s][1]
    <2>1. i \in DOMAIN inode /\ looked[s][3] \in Nat /\ looked[s][3] <= inode[i].ctime
          /\ (looked[s][3] = inode[i].ctime => src[Hand(s)] = i)
      BY <1>1 DEF LooksTrue, LookTrue
    <2>2. /\ inode[i].ctime \in Nat /\ inode'[i].ctime \in Nat /\ i \in DOMAIN inode'
          /\ inode[i].ctime <= inode'[i].ctime
      BY <1>2, <2>1 DEF Grows
    <2>3. i = src[f] => inode'[i].ctime = inode[i].ctime + 1
      BY <1>1, <1>16, <2>1, AgedFacts DEF Replace, Entered
    <2>4. Hand(s) \in SnapFile /\ Hand(s)' = Hand(s)
      BY <1>1, <1>16, OrderFacts DEF Replace, stager, StagersTyped, Walking, Hand
    <2>5. Hand(s) # f => src'[Hand(s)] = src[Hand(s)]
      BY <1>1, <1>16, <2>4 DEF Replace, NodesTyped
    <2>6. UNCHANGED <<sstep, pos, looked>>
      BY <1>16 DEF Replace, stager
    <2> HIDE DEF i
    <2>7. looked[s][3] <= inode'[i].ctime
      BY <2>1, <2>2
    <2>8. ASSUME looked[s][3] = inode'[i].ctime PROVE src'[Hand(s)] = i
      <3>1. looked[s][3] = inode[i].ctime /\ i # src[f]
        BY <2>1, <2>2, <2>3, <2>8
      <3> QED BY <2>1, <2>5, <3>1
    <2> QED BY <2>1, <2>2, <2>4, <2>6, <2>7, <2>8 DEF LookTrue, i
  <1>17. ASSUME NEW f \in SnapFile, NEW b \in SnapContent, PutBack(f, b) PROVE LooksTrue'
    BY <1>5, <1>17 DEF PutBack, stager
  <1>18. CASE ReadManifest \/ VerifyEntry \/ VerifyUnlisted \/ \E asked1 \in BOOLEAN : ReadSource(asked1)
    BY <1>5, <1>18 DEF ReadManifest, VerifyEntry, VerifyUnlisted, ReadSource, stager
  <1> QED BY <1>5, <1>10, <1>11, <1>12, <1>13, <1>14, <1>15, <1>16, <1>17, <1>18 DEF SnapshotNext, snapshotVars,
       Stages, stager

LEMMA SnapshotTouched == ASSUME SnapshotInv, [SnapshotNext]_snapshotVars PROVE touched' \in BOOLEAN
  <1>1. touched \in BOOLEAN
    BY DEF SnapshotInv
  <1>2. Touch => touched' \in BOOLEAN
    BY Zenon DEF Touch
  <1>3. ASSUME Touch \/ touched' = touched PROVE touched' \in BOOLEAN
    BY <1>1, <1>2, <1>3, Zenon
  <1>4. Touch \/ touched' = touched
    BY DEF SnapshotNext, snapshotVars, Stages, Replace, PutBack, BuildManifest, LookAt, Hash, Unlink, Prune, Link,
       WriteSource, KillStager, ReadManifest, VerifyEntry, VerifyUnlisted, ReadSource, leg
  <1> QED BY <1>3, <1>4

\* An entry that fits what the stage holds of its file names those bytes.
LEMMA FitsIsListed ==
  ASSUME NodesTyped, NEW listing, NEW f \in SnapFile, Told(listing[f], inode), Fits(f, listing)
  PROVE  linked[f] # AbsentFile /\ inode[linked[f]].bytes = listing[f].bytes
  <1>1. linked[f] \in DOMAIN inode /\ linked[f] # AbsentFile
    BY DEF NodesTyped, Fits
  <1>2. CASE Same(listing[f], linked[f])
    <2>1. listing[f].stat = <<linked[f], inode[linked[f]].mtime, inode[linked[f]].ctime>>
      BY <1>2 DEF Same, Stat
    <2>2. listing[f].stat[1] = linked[f] /\ listing[f].stat[3] = inode[linked[f]].ctime
      BY <2>1
    <2> QED BY <1>1, <2>2 DEF Told
  <1>3. CASE ~Same(listing[f], linked[f])
    BY <1>1, <1>3 DEF Fits
  <1> QED BY <1>2, <1>3

LEMMA FitsIsCited ==
  ASSUME NodesTyped, NEW f \in SnapFile, Told(cited[f], inode), Fits(f, cited) PROVE AsCited(f)
  BY FitsIsListed DEF AsCited

LEMMA SnapshotLeg == ASSUME SnapshotInv, [SnapshotNext]_snapshotVars PROVE LegTyped' /\ LegSure'
  <1>1. NodesTyped /\ LegTyped /\ LegSure /\ TablesTrue
    BY DEF SnapshotInv
  <1>2. ASSUME NEW f \in DOMAIN cited PROVE f \in SnapFile /\ Told(cited[f], inode)
    BY <1>1, <1>2 DEF TablesTrue, TableTrue
  <1>3. priceStep \in {"check", "list", "read"} => pricePos \in 1..Len(Order)
    <2>1. pricePos \in 1..Len(Order) + 1 /\ (priceStep \in {"check", "list", "read"} => pricePos <= Len(Order))
      BY <1>1 DEF LegTyped
    <2> QED BY <2>1, OrderFacts
  <1>4. ASSUME NEW n \in 1..Len(Order), pricePos' = n, priceStep' \in {"check", "list", "read", "done"},
                DOMAIN used' \subseteq DOMAIN cited', priceStep' \in {"check", "list"} => DOMAIN used' = {}
         PROVE  LegTyped'
    <2>1. n \in 1..Len(Order) + 1 /\ n <= Len(Order)
      BY OrderFacts
    <2> QED BY <1>4, <2>1 DEF LegTyped
  <1>5. DOMAIN used \subseteq DOMAIN cited /\ (priceStep \in {"check", "list"} => DOMAIN used = {})
    BY <1>1 DEF LegTyped
  <1>6. ASSUME UNCHANGED leg, UNCHANGED linked, \A f \in SnapFile : linked[f] # AbsentFile => inode'[linked[f]].bytes = inode[linked[f]].bytes
        PROVE  LegTyped' /\ LegSure'
    <2>1. LegTyped'
      BY <1>1, <1>6 DEF leg, LegTyped
    <2>2. ASSUME NEW f \in SnapFile, AsCited(f) PROVE AsCited(f)'
      BY <1>6, <2>2 DEF leg, AsCited
    <2>3. \A i \in 1..pricePos - 1 : Order[i] \in DOMAIN cited \ Lazy => Order[i] \in SnapFile
      BY <1>2
    <2> QED BY <1>1, <1>2, <1>6, <2>1, <2>2, <2>3 DEF leg, LegSure
  <1>7. ASSUME Touch, UNCHANGED <<priceStep, pricePos, cited, used>> PROVE LegTyped' /\ LegSure'
    <2>1. LegTyped'
      BY <1>1, <1>7 DEF LegTyped
    <2>2. ~touched' => ~touched /\ priceStep = "idle"
      BY <1>7 DEF Touch
    <2> QED BY <1>1, <1>7, <2>1, <2>2 DEF LegSure
  <1>8. ASSUME NEW f \in SnapFile, NEW b \in SnapContent, Replace(f, b) PROVE LegTyped' /\ LegSure'
    <2>1. src[f] \in DOMAIN inode
      BY <1>1, NodeFacts
    <2>2. \A i \in DOMAIN inode : inode'[i].bytes = inode[i].bytes
      BY <1>1, <1>8, <2>1, AgedFacts DEF Replace, Entered
    <2>3. \A g \in SnapFile : linked[g] # AbsentFile => linked[g] \in DOMAIN inode
      BY <1>1 DEF NodesTyped
    <2> QED BY <1>6, <1>8, <2>2, <2>3 DEF Replace
  <1>9. ASSUME NEW f \in SnapFile, NEW b \in SnapContent, PutBack(f, b) PROVE LegTyped' /\ LegSure'
    BY <1>7, <1>9 DEF PutBack
  <1>10. ASSUME NEW s \in Stager, BuildManifest(s) \/ LookAt(s) \/ Hash(s) \/ KillStager(s) PROVE LegTyped' /\ LegSure'
    BY <1>6, <1>10 DEF BuildManifest, LookAt, Hash, KillStager, stage
  <1>11. ASSUME NEW s \in Stager, Unlink(s) \/ WriteSource(s) PROVE LegTyped' /\ LegSure'
    BY <1>7, <1>11 DEF Unlink, WriteSource
  <1>12. ASSUME NEW s \in Stager, Prune(s) \/ Link(s) PROVE LegTyped' /\ LegSure'
    <2>1. UNCHANGED <<priceStep, pricePos, cited, used>>
      BY <1>12 DEF Prune, Link
    <2>2. Touch \/ UNCHANGED <<inode, linked, touched>>
      BY <1>12 DEF Prune, Link
    <2> QED BY <1>6, <1>7, <2>1, <2>2 DEF leg
  <1>13. ASSUME Refuse, UNCHANGED <<cited, used, touched>> PROVE LegTyped' /\ LegSure'
    BY <1>1, <1>13 DEF Refuse, LegTyped, LegSure
  <1>14. CASE ReadManifest
    <2>1. /\ priceStep = "idle" /\ priceStep' = "check" /\ pricePos' = 1 /\ cited' = snapManifest
          /\ UNCHANGED <<used, touched>>
      BY <1>14 DEF ReadManifest
    <2> QED BY <1>1, <2>1, OrderFacts DEF LegTyped, LegSure
  <1>15. CASE VerifyEntry
    <2> DEFINE f == Order[pricePos]
               good == f \in DOMAIN cited => linked[f] # AbsentFile /\ (f \in Lazy \/ Fits(f, cited))
    <2>1. priceStep = "check" /\ UNCHANGED <<cited, used, touched, inode, linked>> /\ pricePos \in 1..Len(Order)
      BY <1>15, <1>3 DEF VerifyEntry, stage
    <2>2. CASE ~good
      BY <1>13, <1>15, <2>1, <2>2 DEF VerifyEntry
    <2>3. CASE good
      <3>1. f \in DOMAIN cited \ Lazy => AsCited(f)
        BY <1>1, <1>2, <2>3, FitsIsCited
      <3>2. \/ pricePos = Len(Order) /\ priceStep' = "list" /\ pricePos' = 1
            \/ pricePos # Len(Order) /\ priceStep' = "check" /\ pricePos' = pricePos + 1
        BY <1>15, <2>1, <2>3 DEF VerifyEntry
      <3>3. LegTyped'
        <4>1. Len(Order) \in Nat /\ Len(Order) >= 1
          BY OrderFacts
        <4>2. pricePos' \in 1..Len(Order)
          BY <2>1, <3>2, <4>1
        <4>3. priceStep' \in {"check", "list"}
          BY <3>2
        <4> QED BY <1>4, <1>5, <2>1, <4>2, <4>3
      <3>4. ~touched => \A i \in 1..pricePos : Order[i] \in DOMAIN cited \ Lazy => AsCited(Order[i])
        <4> SUFFICES ASSUME ~touched, NEW i \in 1..pricePos, Order[i] \in DOMAIN cited \ Lazy PROVE AsCited(Order[i])
          OBVIOUS
        <4>1. CASE i = pricePos
          BY <3>1, <4>1
        <4>2. CASE i # pricePos
          <5>1. i \in 1..pricePos - 1
            BY <2>1, <4>2
          <5> QED BY <1>1, <2>1, <5>1 DEF LegSure
        <4> QED BY <4>1, <4>2
      <3>5. \A g : AsCited(g)' = AsCited(g)
        BY <2>1 DEF AsCited
      <3> HIDE DEF f, good
      <3>6. CASE pricePos = Len(Order)
        <4>1. \A g \in DOMAIN cited : \E i \in 1..pricePos : Order[i] = g
          BY <1>2, <3>6, OrderFacts
        <4>2. ~touched => \A g \in DOMAIN cited \ Lazy : AsCited(g)
          BY <3>4, <4>1
        <4> QED BY <1>1, <2>1, <3>2, <3>3, <3>5, <3>6, <4>2 DEF LegSure
      <3>7. CASE pricePos # Len(Order)
        <4>1. priceStep' = "check" /\ pricePos' - 1 = pricePos
          BY <2>1, <3>2, <3>7
        <4> QED BY <1>1, <2>1, <3>3, <3>4, <3>5, <4>1 DEF LegSure
      <3> QED BY <3>6, <3>7
    <2> QED BY <2>2, <2>3
  <1>16. CASE VerifyUnlisted
    <2>1. priceStep = "list" /\ UNCHANGED <<cited, used, touched, inode, linked>>
      BY <1>16 DEF VerifyUnlisted, stage
    <2>2. CASE Refuse
      BY <1>13, <2>1, <2>2
    <2>3. CASE priceStep' = "read" /\ UNCHANGED pricePos
      <3>1. pricePos \in 1..Len(Order)
        BY <1>3, <2>1
      <3>2. LegTyped'
        BY <1>4, <1>5, <2>1, <2>3, <3>1
      <3>3. LegSure'
        BY <1>1, <2>1, <2>3 DEF LegSure, AsCited
      <3> QED BY <3>2, <3>3
    <2> QED BY <1>16, <2>2, <2>3 DEF VerifyUnlisted
  <1>17. ASSUME NEW asked1 \in BOOLEAN, ReadSource(asked1) PROVE LegTyped' /\ LegSure'
    <2> DEFINE f == Order[pricePos]
               reads == asked1 /\ f \in DOMAIN cited
    <2>1. /\ priceStep = "read" /\ UNCHANGED <<cited, touched, inode, linked>> /\ pricePos \in 1..Len(Order)
      BY <1>17, <1>3 DEF ReadSource, stage
    <2>2. CASE Refuse /\ UNCHANGED used
      BY <1>13, <2>1, <2>2
    <2>3. CASE ~(Refuse /\ UNCHANGED used)
      <3>1. /\ used' = IF reads THEN Entered(used, f, inode[linked[f]].bytes) ELSE used
            /\ reads => f \notin Lazy \/ Fits(f, cited)
            /\ \/ priceStep' = "done" /\ UNCHANGED pricePos
               \/ pricePos' = pricePos + 1 /\ pricePos # Len(Order) /\ UNCHANGED priceStep
        BY <1>17, <2>3 DEF ReadSource
      <3>2. reads /\ ~touched => inode[linked[f]].bytes = cited[f].bytes
        <4> SUFFICES ASSUME reads, ~touched PROVE AsCited(f)
          BY DEF AsCited
        <4>1. CASE f \in Lazy
          BY <1>1, <1>2, <3>1, <4>1, FitsIsCited
        <4>2. CASE f \notin Lazy
          BY <1>1, <2>1, <4>2 DEF LegSure
        <4> QED BY <4>1, <4>2
      <3>3. DOMAIN used' \subseteq DOMAIN cited
        BY <1>1, <3>1 DEF LegTyped, Entered
      <3>4. ~touched => \A g \in DOMAIN used' : used'[g] = cited[g].bytes
        BY <1>1, <3>1, <3>2 DEF LegSure, Entered
      <3> HIDE DEF f, reads
      <3>5. LegTyped'
        <4>1. Len(Order) \in Nat
          BY OrderFacts
        <4>2. pricePos' \in 1..Len(Order)
          BY <2>1, <3>1, <4>1
        <4>3. priceStep' \in {"read", "done"}
          BY <2>1, <3>1
        <4> QED BY <1>4, <2>1, <3>3, <4>2, <4>3
      <3>6. LegSure'
        BY <1>1, <2>1, <3>1, <3>4 DEF LegSure, AsCited
      <3> QED BY <3>5, <3>6
    <2> QED BY <2>2, <2>3
  <1>18. CASE UNCHANGED snapshotVars
    BY <1>6, <1>18 DEF snapshotVars, stage
  <1> QED BY <1>8, <1>9, <1>10, <1>11, <1>12, <1>14, <1>15, <1>16, <1>17, <1>18 DEF SnapshotNext, Stages

(***************************************************************************)
(* Whatever replaces the sources, however many stagers interleave or are   *)
(* killed, a price that ended on a stage nobody touched has read the bytes *)
(* that the manifest it cites names (price_snapshot.py, verify_snapshot).  *)
(***************************************************************************)
THEOREM SnapshotPriceIsCited == SnapshotSpec => []PriceCitesTheStage
  <1>1. SnapshotInit => SnapshotInv
    BY SnapshotStarts
  <1>2. SnapshotInv /\ [SnapshotNext]_snapshotVars => SnapshotInv'
    BY SnapshotNodes, SnapshotStagers, SnapshotTables, SnapshotLooks, SnapshotTouched, SnapshotLeg DEF SnapshotInv
  <1>3. SnapshotInv => PriceCitesTheStage
    BY SnapshotTyped DEF SnapshotInv, PriceCitesTheStage, SettledPriceIsCited, LegSure
  <1> QED BY <1>1, <1>2, <1>3, PTL DEF SnapshotSpec

-----------------------------------------------------------------------------
(* What the stage shows. *)

\* A file keeps to inodes of its own, which hold what it has held.
Owned ==
  /\ \A f \in SnapFile : inode[src[f]].bytes \in had[f]
  /\ \A f \in SnapFile : linked[f] # AbsentFile => inode[linked[f]].bytes \in had[f]
  /\ \A f, g \in SnapFile : src[f] = src[g] => f = g
  /\ \A f, g \in SnapFile : linked[f] = src[g] => f = g

\* A list under way has each required file it came past, and only whole lists are staged and written.
ListedBy(s) ==
  /\ sstep[s] \in {"stat", "hash"} =>
       \A i \in 1..pos[s] - 1 : Order[i] \in Required => Order[i] \in DOMAIN newEntries[s]
  /\ sstep[s] \in {"unlink", "prune", "link", "write"} => Required \subseteq DOMAIN newEntries[s]
ListsWhole ==
  /\ snapManifest # NoManifest => Required \subseteq DOMAIN snapManifest
  /\ \A s \in Stager : ListedBy(s)

ShowInv == SnapshotInv /\ Owned /\ ListsWhole

LEMMA NewInode == ASSUME NodesTyped PROVE Cardinality(DOMAIN inode) + 1 \notin DOMAIN inode
  <1>1. PICK n \in Nat : n <= Len(Order) + sourceEdits /\ inode \in [1..n -> Node]
    BY DEF NodesTyped
  <1>2. DOMAIN inode = 1..n
    BY <1>1
  <1>3. Cardinality(1..n) = IF 1 > n THEN 0 ELSE n - 1 + 1
    BY <1>1, FS_Interval
  <1>4. Cardinality(1..n) = n
    BY <1>1, <1>3
  <1> QED BY <1>1, <1>2, <1>4

LEMMA ShowStarts == SnapshotInit => ShowInv
  <1> SUFFICES ASSUME SnapshotInit PROVE Owned /\ ListsWhole
    BY SnapshotStarts DEF ShowInv
  <1>1. \A f \in SnapFile : src[f] \in 1..Len(Order) /\ Order[src[f]] = f
    <2> SUFFICES ASSUME NEW f \in SnapFile PROVE src[f] \in DOMAIN Order /\ Order[src[f]] = f
      BY OrderFacts
    <2>1. \E i \in DOMAIN Order : Order[i] = f
      BY OrderFacts
    <2>2. src[f] = CHOOSE i \in DOMAIN Order : Order[i] = f
      BY DEF SnapshotInit
    <2> QED BY <2>1, <2>2
  <1>2. Owned
    <2>1. \A i \in 1..Len(Order) : inode[i].bytes = 2 /\ i # 0
      BY OrderFacts DEF SnapshotInit
    <2>2. \A f \in SnapFile : had[f] = {2} /\ linked[f] = 0
      BY DEF SnapshotInit, AbsentFile
    <2> QED BY <1>1, <2>1, <2>2 DEF Owned, AbsentFile
  <1>3. ListsWhole
    BY Zenon DEF SnapshotInit, ListsWhole, ListedBy
  <1> QED BY <1>2, <1>3

LEMMA ShowOwned == ASSUME SnapshotInv, Owned, [SnapshotNext]_snapshotVars PROVE Owned'
  <1>1. NodesTyped /\ StagersTyped
    BY DEF SnapshotInv
  <1>2. ASSUME NEW f \in SnapFile
        PROVE  src[f] \in DOMAIN inode /\ src[f] # AbsentFile /\ (linked[f] # AbsentFile => linked[f] \in DOMAIN inode)
    BY <1>1, <1>2, NodeFacts DEF NodesTyped
  <1>3. ASSUME UNCHANGED <<src, had>>, \A i \in DOMAIN inode : inode'[i].bytes = inode[i].bytes,
               \A f \in SnapFile : linked'[f] \in {linked[f], AbsentFile, src[f]}
        PROVE  Owned'
    <2>1. ASSUME NEW f \in SnapFile, linked'[f] # AbsentFile PROVE inode'[linked'[f]].bytes \in had'[f]
      BY <1>2, <1>3, <2>1 DEF Owned
    <2>2. ASSUME NEW f \in SnapFile, NEW g \in SnapFile, linked'[f] = src'[g] PROVE f = g
      BY <1>2, <1>3, <2>2 DEF Owned
    <2>3. ASSUME NEW f \in SnapFile PROVE inode'[src'[f]].bytes \in had'[f]
      BY <1>2, <1>3, <2>3 DEF Owned
    <2>4. \A f, g \in SnapFile : src'[f] = src'[g] => f = g
      BY <1>3 DEF Owned
    <2> QED BY <2>1, <2>2, <2>3, <2>4 DEF Owned
  <1>4. ASSUME UNCHANGED <<inode, src, linked, had>> PROVE Owned'
    BY <1>3, <1>4
  <1>5. ASSUME NEW f \in SnapFile, NEW b \in SnapContent, Replace(f, b) PROVE Owned'
    <2> DEFINE m == Cardinality(DOMAIN inode) + 1
    <2>1. /\ src' = [src EXCEPT ![f] = m] /\ had' = [had EXCEPT ![f] = @ \cup {b}] /\ UNCHANGED linked
          /\ inode' = Entered(Aged(src[f], inode), m, [bytes |-> b, mtime |-> m, ctime |-> 1])
      BY <1>5 DEF Replace
    <2>2. m \notin DOMAIN inode
      BY <1>1, NewInode
    <2> HIDE DEF m
    <2>3. /\ DOMAIN Aged(src[f], inode) = DOMAIN inode
          /\ \A i \in DOMAIN inode : Aged(src[f], inode)[i].bytes = inode[i].bytes
      BY <1>1, <1>2, AgedFacts
    <2>4. inode'[m].bytes = b /\ \A i \in DOMAIN inode : inode'[i].bytes = inode[i].bytes
      BY <2>1, <2>2, <2>3 DEF Entered
    <2>5. /\ src'[f] = m /\ \A g \in SnapFile : g # f => src'[g] = src[g]
          /\ b \in had'[f] /\ \A g \in SnapFile : had[g] \subseteq had'[g]
      BY <1>1, <2>1 DEF NodesTyped
    <2>6. ASSUME NEW g \in SnapFile PROVE inode'[src'[g]].bytes \in had'[g]
      BY <1>2, <2>4, <2>5, <2>6 DEF Owned
    <2>7. ASSUME NEW g \in SnapFile, linked'[g] # AbsentFile PROVE inode'[linked'[g]].bytes \in had'[g]
      BY <1>2, <2>1, <2>4, <2>5, <2>7 DEF Owned
    <2>8. ASSUME NEW g \in SnapFile, NEW h \in SnapFile, src'[g] = src'[h] PROVE g = h
      BY <1>2, <2>2, <2>5, <2>8 DEF Owned
    <2>9. m # AbsentFile => \A g \in SnapFile : linked[g] # m
      BY <1>2, <2>2
    <2>10. m # AbsentFile
      <3>1. m \in DOMAIN inode'
        BY <2>1 DEF Entered
      <3>2. NodesTyped'
        BY SnapshotNodes
      <3>3. PICK n \in Nat : inode' \in [1..n -> Node]
        BY <3>2 DEF NodesTyped
      <3> QED BY <3>1, <3>3 DEF AbsentFile
    <2>11. ASSUME NEW g \in SnapFile, NEW h \in SnapFile, linked'[g] = src'[h] PROVE g = h
      BY <2>1, <2>5, <2>9, <2>10, <2>11 DEF Owned
    <2> QED BY <2>6, <2>7, <2>8, <2>11 DEF Owned
  <1>6. ASSUME NEW f \in SnapFile, NEW b \in SnapContent, PutBack(f, b) PROVE Owned'
    <2>1. src[f] \in DOMAIN inode /\ UNCHANGED <<src, linked>>
      BY <1>2, <1>6 DEF PutBack
    <2>2. /\ inode'[src[f]].bytes = b /\ \A i \in DOMAIN inode : i # src[f] => inode'[i].bytes = inode[i].bytes
      BY <1>1, <1>6, <2>1, NodeFacts DEF PutBack, Node
    <2>3. b \in had'[f] /\ \A g \in SnapFile : had[g] \subseteq had'[g]
      BY <1>1, <1>6 DEF PutBack, NodesTyped
    <2>4. ASSUME NEW g \in SnapFile PROVE inode'[src'[g]].bytes \in had'[g]
      BY <1>2, <2>1, <2>2, <2>3, <2>4 DEF Owned
    <2>5. ASSUME NEW g \in SnapFile, linked'[g] # AbsentFile PROVE inode'[linked'[g]].bytes \in had'[g]
      BY <1>2, <2>1, <2>2, <2>3, <2>5 DEF Owned
    <2> QED BY <2>1, <2>4, <2>5 DEF Owned
  <1>7. ASSUME NEW s \in Stager, sstep[s] \in Walking PROVE Hand(s) \in SnapFile
    BY <1>1, <1>7, OrderFacts DEF StagersTyped, Hand
  <1>8. ASSUME NEW s \in Stager, Prune(s) PROVE Owned'
    <2>1. CASE UNCHANGED <<inode, linked>>
      BY <1>4, <1>8, <2>1 DEF Prune
    <2>2. CASE ~UNCHANGED <<inode, linked>>
      <3>1. /\ Hand(s) \in SnapFile /\ linked[Hand(s)] \in DOMAIN inode /\ inode' = Aged(linked[Hand(s)], inode)
            /\ linked' = [linked EXCEPT ![Hand(s)] = AbsentFile] /\ UNCHANGED <<src, had>>
        BY <1>2, <1>7, <1>8, <2>2 DEF Prune, Walking
      <3>2. \A f \in SnapFile : linked'[f] \in {linked[f], AbsentFile, src[f]}
        BY <1>1, <3>1 DEF NodesTyped
      <3> QED BY <1>1, <1>3, <3>1, <3>2, AgedFacts
    <2> QED BY <2>1, <2>2
  <1>9. ASSUME NEW s \in Stager, Link(s) PROVE Owned'
    <2>1. CASE UNCHANGED <<inode, linked>>
      BY <1>4, <1>9, <2>1 DEF Link
    <2>2. CASE ~UNCHANGED <<inode, linked>>
      <3>1. /\ Hand(s) \in SnapFile /\ src[Hand(s)] \in DOMAIN inode /\ inode' = Aged(src[Hand(s)], inode)
            /\ linked' = [linked EXCEPT ![Hand(s)] = src[Hand(s)]] /\ UNCHANGED <<src, had>>
        BY <1>2, <1>7, <1>9, <2>2 DEF Link, Walking
      <3>2. \A f \in SnapFile : linked'[f] \in {linked[f], AbsentFile, src[f]}
        BY <1>1, <3>1 DEF NodesTyped
      <3> QED BY <1>1, <1>3, <3>1, <3>2, AgedFacts
    <2> QED BY <2>1, <2>2
  <1>10. ASSUME NEW s \in Stager,
                BuildManifest(s) \/ LookAt(s) \/ Hash(s) \/ Unlink(s) \/ WriteSource(s) \/ KillStager(s)
         PROVE  Owned'
    BY <1>4, <1>10 DEF BuildManifest, LookAt, Hash, Unlink, WriteSource, KillStager, stage
  <1>11. CASE ReadManifest \/ VerifyEntry \/ VerifyUnlisted \/ \E asked1 \in BOOLEAN : ReadSource(asked1)
    BY <1>4, <1>11 DEF ReadManifest, VerifyEntry, VerifyUnlisted, ReadSource, stage
  <1>12. CASE UNCHANGED snapshotVars
    BY <1>4, <1>12 DEF snapshotVars
  <1> QED BY <1>5, <1>6, <1>8, <1>9, <1>10, <1>11, <1>12 DEF SnapshotNext, Stages

LEMMA ShowListed == ASSUME SnapshotInv, ListsWhole, [SnapshotNext]_snapshotVars PROVE ListsWhole'
  <1>1. StagersTyped
    BY DEF SnapshotInv
  <1>2. ASSUME NEW s \in Stager, sstep'[s] = sstep[s], pos'[s] = pos[s], newEntries'[s] = newEntries[s]
        PROVE  ListedBy(s)'
    BY <1>2 DEF ListsWhole, ListedBy
  <1>3. ASSUME UNCHANGED <<sstep, pos, newEntries, snapManifest>> PROVE ListsWhole'
    BY <1>2, <1>3 DEF ListsWhole
  <1>4. ASSUME NEW s \in Stager, ListedBy(s)',
               \A r \in Stager : r # s => sstep'[r] = sstep[r] /\ pos'[r] = pos[r] /\ newEntries'[r] = newEntries[r],
               snapManifest' \in {snapManifest, NoManifest} \/ Required \subseteq DOMAIN snapManifest'
        PROVE  ListsWhole'
    <2>1. \A r \in Stager : ListedBy(r)'
      BY <1>2, <1>4
    <2>2. snapManifest' # NoManifest => Required \subseteq DOMAIN snapManifest'
      BY <1>4 DEF ListsWhole
    <2> QED BY <2>1, <2>2 DEF ListsWhole
  <1>5. ASSUME NEW s \in Stager, NEW to, NEW n, Step(s, to, n)
        PROVE  sstep'[s] = to /\ pos'[s] = n /\ \A r \in Stager : r # s => sstep'[r] = sstep[r] /\ pos'[r] = pos[r]
    BY <1>1, <1>5 DEF Step, StagersTyped
  <1>6. ASSUME NEW s \in Stager, NEW step, NEW after, MoveOn(s, step, after)
        PROVE  sstep'[s] \in {step, after} /\ \A r \in Stager : r # s => sstep'[r] = sstep[r] /\ pos'[r] = pos[r]
    BY <1>5, <1>6 DEF MoveOn
  <1>7. ASSUME NEW s \in Stager, End(s),
               snapManifest' = snapManifest \/ Required \subseteq DOMAIN snapManifest'
        PROVE  ListsWhole'
    <2>1. Step(s, "idle", 1) /\ \A r \in Stager : r # s => newEntries'[r] = newEntries[r]
      BY <1>1, <1>7 DEF End, StagersTyped
    <2>2. ListedBy(s)'
      BY <1>5, <2>1 DEF ListedBy
    <2> QED BY <1>4, <1>5, <1>7, <2>1, <2>2
  <1>8. ASSUME NEW s \in Stager, BuildManifest(s) PROVE ListsWhole'
    <2>1. Step(s, "stat", 1) /\ UNCHANGED <<newEntries, snapManifest>>
      BY <1>8 DEF BuildManifest, stage
    <2>2. 1..1 - 1 = {}
      OBVIOUS
    <2>3. ListedBy(s)'
      BY <1>5, <2>1, <2>2 DEF ListedBy
    <2> QED BY <1>4, <1>5, <2>1, <2>3
  <1>9. ASSUME NEW s \in Stager, sstep[s] \in {"stat", "hash"}, MoveOn(s, "stat", "unlink"), UNCHANGED snapManifest,
               DOMAIN newEntries[s] \subseteq DOMAIN newEntries'[s],
               Hand(s) \in Required => Hand(s) \in DOMAIN newEntries'[s],
               \A r \in Stager : r # s => newEntries'[r] = newEntries[r]
        PROVE  ListsWhole'
    <2>1. pos[s] \in 1..Len(Order) /\ Len(Order) \in Nat
      BY <1>1, <1>9, OrderFacts DEF StagersTyped, Walking
    <2>2. ASSUME NEW i \in 1..pos[s], Order[i] \in Required PROVE Order[i] \in DOMAIN newEntries'[s]
      <3>1. CASE i = pos[s]
        BY <1>9, <2>2, <3>1 DEF Hand
      <3>2. CASE i # pos[s]
        <4>1. i \in 1..pos[s] - 1
          BY <2>1, <3>2
        <4> QED BY <1>9, <2>2, <4>1 DEF ListsWhole, ListedBy
      <3> QED BY <3>1, <3>2
    <2>3. CASE pos[s] = Len(Order)
      <3>1. sstep'[s] = "unlink"
        BY <1>5, <1>9, <2>3 DEF MoveOn
      <3>2. Required \subseteq DOMAIN newEntries'[s]
        BY <2>2, <2>3, OrderFacts DEF Required
      <3>3. ListedBy(s)'
        BY <3>1, <3>2 DEF ListedBy
      <3> QED BY <1>4, <1>6, <1>9, <3>3
    <2>4. CASE pos[s] # Len(Order)
      <3>1. sstep'[s] = "stat" /\ pos'[s] = pos[s] + 1
        BY <1>5, <1>9, <2>4 DEF MoveOn
      <3>2. 1..pos'[s] - 1 = 1..pos[s]
        BY <2>1, <3>1
      <3>3. ListedBy(s)'
        BY <2>2, <3>1, <3>2 DEF ListedBy
      <3> QED BY <1>4, <1>6, <1>9, <3>3
    <2> QED BY <2>3, <2>4
  <1>10. ASSUME NEW s \in Stager, LookAt(s) PROVE ListsWhole'
    <2>1. CASE Step(s, "hash", pos[s]) /\ UNCHANGED newEntries
      <3>1. sstep[s] = "stat" /\ UNCHANGED snapManifest
        BY <1>10 DEF LookAt, stage
      <3>2. ListedBy(s)'
        BY <1>5, <2>1, <3>1 DEF ListsWhole, ListedBy
      <3> QED BY <1>4, <1>5, <2>1, <3>1, <3>2
    <2>2. CASE ~(Step(s, "hash", pos[s]) /\ UNCHANGED newEntries)
      <3>1. /\ sstep[s] = "stat" /\ MoveOn(s, "stat", "unlink") /\ UNCHANGED snapManifest
            /\ newEntries' = [newEntries EXCEPT ![s] = Entered(@, Hand(s), lastEntries[s][Hand(s)])]
        BY <1>10, <2>2 DEF LookAt, stage
      <3>2. /\ newEntries'[s] = Entered(newEntries[s], Hand(s), lastEntries[s][Hand(s)])
            /\ \A r \in Stager : r # s => newEntries'[r] = newEntries[r]
        BY <1>1, <3>1 DEF StagersTyped
      <3>3. DOMAIN newEntries'[s] = DOMAIN newEntries[s] \cup {Hand(s)}
        BY <3>2 DEF Entered
      <3> QED BY <1>9, <3>1, <3>2, <3>3
    <2> QED BY <2>1, <2>2
  <1>11. ASSUME NEW s \in Stager, Hash(s) PROVE ListsWhole'
    <2>1. sstep[s] = "hash" /\ UNCHANGED snapManifest
      BY <1>11 DEF Hash, stage
    <2>2. CASE End(s)
      BY <1>7, <2>1, <2>2
    <2>3. CASE ~End(s) /\ UNCHANGED newEntries
      <3>1. MoveOn(s, "stat", "unlink") /\ ~(inode[src[Hand(s)]].bytes = EmptySlot /\ Hand(s) \in Required)
        BY <1>11, <2>3 DEF Hash
      <3>2. Hand(s) \in Required => newEntries' = [newEntries EXCEPT ![s] = Entered(@, Hand(s),
                                     [bytes |-> inode[src[Hand(s)]].bytes, stat |-> looked[s]])]
        BY <1>11, <2>3, <3>1 DEF Hash
      <3>3. Hand(s) \in Required => Hand(s) \in DOMAIN newEntries'[s]
        BY <1>1, <3>2 DEF StagersTyped, Entered
      <3> QED BY <1>9, <2>1, <2>3, <3>1, <3>3
    <2>4. CASE ~End(s) /\ ~UNCHANGED newEntries
      <3>1. /\ MoveOn(s, "stat", "unlink")
            /\ newEntries' = [newEntries EXCEPT ![s] = Entered(@, Hand(s),
                                     [bytes |-> inode[src[Hand(s)]].bytes, stat |-> looked[s]])]
        BY <1>11, <2>4 DEF Hash
      <3>2. /\ newEntries'[s] = Entered(newEntries[s], Hand(s),
                                        [bytes |-> inode[src[Hand(s)]].bytes, stat |-> looked[s]])
            /\ \A r \in Stager : r # s => newEntries'[r] = newEntries[r]
        BY <1>1, <3>1 DEF StagersTyped
      <3>3. DOMAIN newEntries'[s] = DOMAIN newEntries[s] \cup {Hand(s)}
        BY <3>2 DEF Entered
      <3> QED BY <1>9, <2>1, <3>1, <3>2, <3>3
    <2> QED BY <2>2, <2>3, <2>4
  <1>12. ASSUME NEW s \in Stager, sstep[s] \in {"unlink", "prune", "link"}, sstep'[s] \in {"prune", "link", "write"},
                \A r \in Stager : r # s => sstep'[r] = sstep[r] /\ pos'[r] = pos[r],
                UNCHANGED newEntries, snapManifest' \in {snapManifest, NoManifest}
         PROVE  ListsWhole'
    <2>1. ListedBy(s)'
      BY <1>12 DEF ListsWhole, ListedBy
    <2> QED BY <1>4, <1>12, <2>1
  <1>13. ASSUME NEW s \in Stager, Unlink(s) PROVE ListsWhole'
    BY <1>5, <1>12, <1>13 DEF Unlink
  <1>14. ASSUME NEW s \in Stager, Prune(s) PROVE ListsWhole'
    <2>1. sstep[s] = "prune" /\ MoveOn(s, "prune", "link") /\ UNCHANGED <<newEntries, snapManifest>>
      BY <1>14 DEF Prune
    <2> QED BY <1>6, <1>12, <2>1
  <1>15. ASSUME NEW s \in Stager, Link(s) PROVE ListsWhole'
    <2>1. sstep[s] = "link" /\ MoveOn(s, "link", "write") /\ UNCHANGED <<newEntries, snapManifest>>
      BY <1>15 DEF Link
    <2> QED BY <1>6, <1>12, <2>1
  <1>16. ASSUME NEW s \in Stager, WriteSource(s) PROVE ListsWhole'
    <2>1. Required \subseteq DOMAIN newEntries[s] /\ snapManifest' = newEntries[s] /\ End(s)
      BY <1>16 DEF WriteSource, ListsWhole, ListedBy
    <2> QED BY <1>7, <2>1
  <1>17. ASSUME NEW s \in Stager, KillStager(s) PROVE ListsWhole'
    BY <1>7, <1>17 DEF KillStager, stage
  <1>18. ASSUME NEW f \in SnapFile, NEW b \in SnapContent, Replace(f, b) \/ PutBack(f, b) PROVE ListsWhole'
    BY <1>3, <1>18 DEF Replace, PutBack, stager
  <1>19. CASE ReadManifest \/ VerifyEntry \/ VerifyUnlisted \/ \E asked1 \in BOOLEAN : ReadSource(asked1)
    BY <1>3, <1>19 DEF ReadManifest, VerifyEntry, VerifyUnlisted, ReadSource, stage, stager
  <1>20. CASE UNCHANGED snapshotVars
    BY <1>3, <1>20 DEF snapshotVars, stager
  <1> QED BY <1>8, <1>10, <1>11, <1>13, <1>14, <1>15, <1>16, <1>17, <1>18, <1>19, <1>20 DEF SnapshotNext, Stages

\* What a leg would accept of the stage, as it was refined.
ShownNow == IF Accepted THEN [f \in DOMAIN snapManifest \ Lazy |-> inode[linked[f]].bytes] ELSE <<>>

\* An accepted stage holds the bytes its manifest names, and they are its sources' own.
ShowsWhole ==
  Accepted =>
    /\ DOMAIN snapManifest = {f \in SnapFile : linked[f] # AbsentFile}
    /\ \A f \in DOMAIN snapManifest \ Lazy : /\ inode[linked[f]].bytes = snapManifest[f].bytes
                                             /\ inode[linked[f]].bytes \in had[f]
    /\ Required \ Lazy \subseteq DOMAIN snapManifest \ Lazy

LEMMA AcceptedIsWhole == ShowInv => ShowsWhole
  <1> SUFFICES ASSUME ShowInv, Accepted
               PROVE  /\ DOMAIN snapManifest = {f \in SnapFile : linked[f] # AbsentFile}
                      /\ \A f \in DOMAIN snapManifest \ Lazy : /\ inode[linked[f]].bytes = snapManifest[f].bytes
                                                               /\ inode[linked[f]].bytes \in had[f]
                      /\ Required \ Lazy \subseteq DOMAIN snapManifest \ Lazy
    BY DEF ShowsWhole
  <1>1. NodesTyped /\ TablesTrue /\ Owned /\ ListsWhole
    BY DEF ShowInv, SnapshotInv
  <1>2. DOMAIN snapManifest \subseteq SnapFile /\ \A f \in DOMAIN snapManifest : Told(snapManifest[f], inode)
    BY <1>1 DEF TablesTrue, TableTrue
  <1>3. DOMAIN snapManifest = {f \in SnapFile : linked[f] # AbsentFile}
    BY <1>2 DEF Accepted
  <1>4. ASSUME NEW f \in DOMAIN snapManifest \ Lazy
        PROVE  inode[linked[f]].bytes = snapManifest[f].bytes /\ inode[linked[f]].bytes \in had[f]
    BY <1>1, <1>2, FitsIsListed DEF Accepted, Owned
  <1>5. Required \ Lazy \subseteq DOMAIN snapManifest \ Lazy
    BY <1>1 DEF Accepted, ListsWhole
  <1> QED BY <1>3, <1>4, <1>5

LEMMA ShowStep ==
  ASSUME ShowInv, ShowInv', [SnapshotNext]_snapshotVars, ShowsWhole, ShowsWhole'
  PROVE  Staging!Next
  <1>1. Staging!Next <=>
          /\ \/ ShownNow = <<>> /\ ShownNow' # <<>> /\ Staging!Whole(ShownNow')
             \/ ShownNow # <<>> /\ ShownNow' = <<>>
             \/ ShownNow' = ShownNow
          /\ Staging!Grows
    BY DEF Staging!Next, Staging!Show, Staging!Withdraw, ShownNow
  <1>2. Staging!Grows
    <2>1. NodesTyped
      BY DEF ShowInv, SnapshotInv
    <2>2. had' = had \/ \E f \in SnapFile, b \in SnapContent : had' = [had EXCEPT ![f] = @ \cup {b}]
      BY DEF SnapshotNext, snapshotVars, Stages, Replace, PutBack, BuildManifest, LookAt, Hash, Unlink, Prune, Link,
         WriteSource, KillStager, ReadManifest, VerifyEntry, VerifyUnlisted, ReadSource
    <2>3. \A f \in DOMAIN had : had[f] \subseteq had'[f]
      BY <2>1, <2>2 DEF NodesTyped
    <2> QED BY <2>3 DEF Staging!Grows
  <1>3. CASE ~Accepted'
    <2>1. ShownNow' = <<>>
      BY <1>3 DEF ShownNow
    <2> QED BY <1>1, <1>2, <2>1
  <1>4. CASE Accepted' /\ ShownNow = <<>>
    <2>1. /\ DOMAIN ShownNow' = DOMAIN snapManifest' \ Lazy
          /\ \A f \in DOMAIN snapManifest' \ Lazy : ShownNow'[f] = inode'[linked'[f]].bytes
      BY <1>4 DEF ShownNow
    <2>2. Staging!Whole(ShownNow')
      BY <1>4, <2>1 DEF Staging!Whole, ShowsWhole
    <2> QED BY <1>1, <1>2, <1>4, <2>2
  <1>5. CASE Accepted' /\ Accepted
    <2>1. \/ snapManifest' \in {snapManifest, NoManifest}
          \/ UNCHANGED <<inode, linked>>
      BY DEF SnapshotNext, snapshotVars, Stages, Replace, PutBack, BuildManifest, LookAt, Hash, Unlink, Prune, Link,
         WriteSource, KillStager, ReadManifest, VerifyEntry, VerifyUnlisted, ReadSource, stage
    <2>2. snapManifest' # NoManifest
      BY <1>5 DEF Accepted
    <2>3. /\ ShownNow = [f \in DOMAIN snapManifest \ Lazy |-> inode[linked[f]].bytes]
          /\ ShownNow' = [f \in DOMAIN snapManifest' \ Lazy |-> inode'[linked'[f]].bytes]
      BY <1>5 DEF ShownNow
    <2>4. CASE snapManifest' = snapManifest
      BY <1>1, <1>2, <1>5, <2>3, <2>4 DEF ShowsWhole
    <2>5. CASE UNCHANGED <<inode, linked>>
      BY <1>1, <1>2, <1>5, <2>3, <2>5 DEF ShowsWhole
    <2> QED BY <2>1, <2>2, <2>4, <2>5
  <1> QED BY <1>3, <1>4, <1>5 DEF ShownNow

(***************************************************************************)
(* The staging implements its promise: whoever stages, is killed or        *)
(* replaces a source under it, a leg that comes finds nothing or a whole   *)
(* snapshot of what the sources held, and never one turned into another    *)
(* (snapshot_manifest.py, stage; price_snapshot.py, verify_snapshot).      *)
(***************************************************************************)
THEOREM SnapshotShowsWhole == SnapshotSpec => ShownIsWhole
  <1>1. SnapshotInit => ShowInv
    BY ShowStarts
  <1>2. ShowInv /\ [SnapshotNext]_snapshotVars => ShowInv'
    BY SnapshotNodes, SnapshotStagers, SnapshotTables, SnapshotLooks, SnapshotTouched, SnapshotLeg, ShowOwned,
       ShowListed DEF ShowInv, SnapshotInv
  <1>3. SnapshotInit => Staging!Init
    <2> SUFFICES ASSUME SnapshotInit PROVE Staging!Init
      OBVIOUS
    <2>1. ~Accepted
      BY DEF SnapshotInit, Accepted
    <2>2. NodesTyped
      BY SnapshotStarts DEF SnapshotInv
    <2> QED BY <2>1, <2>2 DEF Staging!Init, NodesTyped
  <1>4. ShowInv => ShowsWhole
    BY AcceptedIsWhole
  <1>5. ShowInv /\ ShowInv' /\ ShowsWhole /\ ShowsWhole' /\ [SnapshotNext]_snapshotVars => Staging!Next
    BY ShowStep
  <1> QED BY <1>1, <1>2, <1>3, <1>4, <1>5, PTL DEF SnapshotSpec, ShownIsWhole, Staging!Spec

-----------------------------------------------------------------------------
(* The figures. *)

AddsType == [Years -> {<<>>} \cup {<<a>> : a \in Addition}]
Counts   == [Inputs -> 0..MaxLands]

InputsTyped ==
  /\ landed \in Counts /\ approved \subseteq Inputs /\ release \in 1..MaxReleases
  /\ entries \in [Inputs -> [key : 0..MaxLands, rows : 0..MaxLands]]
  /\ underRead \subseteq Inputs /\ exports \in Nat

\* Only a run that is to begin anew empties the folder.
OutTyped ==
  /\ out \in [there : BOOLEAN, adds : AddsType,
              manifest : {<<>>} \cup {<<m>> : m \in [at : Nat, release : 1..MaxReleases, keys : Counts]}]
  /\ Written => Said.at \in 1..exports
  /\ ~out.there => out.adds = NoYears /\ ~Written

ExporterTyped ==
  /\ exporter \in [at : {"idle", "clear", "make", "resolve", "screen", "read", "years"},
                   release : 0..MaxReleases, inputs : SUBSET Inputs, rows : Counts, keys : Counts,
                   left : SUBSET Inputs, years : SUBSET Years]
  /\ exporter.at # "idle" => exporter.release \in 1..MaxReleases /\ exports > 0
  /\ exporter.at \in {"resolve", "screen", "read", "years"} => out.there /\ ~Written
  /\ exporter.at \in {"clear", "make", "resolve"} => exporter.rows = Absent /\ exporter.keys = Absent

\* A run under way is the only one of its number, and has no manifest yet.
NumberedAlone ==
  /\ torn \subseteq 1..exports
  /\ exporter.at # "idle" => exports \notin torn /\ (Written => Said.at < exports)

\* Nothing is exported of nothing.
ExportedOfSome ==
  IF exports = 0 THEN out = NoOut ELSE OnDisk # {}

BuilderTyped ==
  /\ builder \in [at : {"idle", "problem", "figures", "write"}, release : 0..MaxReleases,
                  footer : Nat, figures : AddsType, left : SUBSET Years]
  /\ page \in {<<>>} \cup {<<p>> : p \in [footer : Nat, quoted : BOOLEAN, figures : AddsType,
                                          release : 0..MaxReleases]}

\* What is cached, screened and written is of the content it is keyed on.
KeyedOnRows ==
  /\ \A i \in Inputs \ underRead : entries[i].key = entries[i].rows
  /\ exporter.at \in {"screen", "read", "years"} =>
       \A i \in Inputs \ (underRead \cup exporter.left) : exporter.rows[i] = exporter.keys[i]
  /\ exporter.at = "years" =>
       /\ exporter.left = {}
       /\ \A y \in Years \ exporter.years :
            out.adds[y] = <<[rows |-> exporter.rows, release |-> exporter.release]>>

\* No key is of a content or a release to come.
KeysAreBehind ==
  /\ \A i \in Inputs : entries[i].key <= landed[i] /\ exporter.keys[i] <= landed[i]
  /\ exporter.release <= release
  /\ Written => Said.release <= release /\ \A i \in Inputs : Said.keys[i] <= landed[i]

\* Once behind, a manifest stays behind: its inputs only grow and his releases only follow.
Outdated == Said.release < release \/ \E i \in Inputs : Said.keys[i] < landed[i]

ClearedIsBehind ==
  Written /\ (exporter.at = "clear" \/ Said.at \in torn) => Outdated

\* A year of a whole export is of the run that wrote the manifest.
OfRun(a, m) == a.release = m.release /\ \A i \in Inputs \ underRead : a.rows[i] = m.keys[i]

WholeIsOne ==
  Written /\ Said.at \notin torn => \A y \in Years : out.adds[y] # <<>> /\ OfRun(out.adds[y][1], Said)

\* The number of an export is its own: who noted it reads that export's files, and who began
\* before there was any reads none.
FromOne(footer, figures, left) ==
  /\ Written /\ footer = Said.at /\ Said.at \notin torn => \A y \in Years \ left : figures[y] = out.adds[y]
  /\ exports = 0 => \A y \in Years : figures[y] = <<>>

QuotedFromOne ==
  /\ builder.footer <= exports /\ (exporter.at # "idle" => builder.footer < exports)
  /\ builder.at = "figures" => FromOne(builder.footer, builder.figures, builder.left)
  /\ builder.at \in {"idle", "problem"} => builder.figures = NoYears
  /\ page # NoPage =>
       /\ page[1].footer <= exports /\ (exporter.at # "idle" => page[1].footer < exports)
       /\ page[1].quoted => FromOne(page[1].footer, page[1].figures, {})

FiguresInv ==
  /\ InputsTyped /\ OutTyped /\ ExporterTyped /\ BuilderTyped
  /\ NumberedAlone /\ ExportedOfSome
  /\ KeyedOnRows /\ KeysAreBehind /\ ClearedIsBehind /\ WholeIsOne /\ QuotedFromOne

LEMMA FiguresBegin == FiguresInit => FiguresInv
PROOF
  <1> SUFFICES ASSUME FiguresInit PROVE FiguresInv
      OBVIOUS
  <1> USE FiguresAssumption
  <1> USE DEF FiguresInit, Absent, NoEntry, NoYears, NoOut, Exporting, Building, NoPage, Counts, AddsType
  <1>1. InputsTyped BY DEF InputsTyped
  <1>2. OutTyped BY DEF OutTyped, Written
  <1>3. ExporterTyped BY DEF ExporterTyped
  <1>4. BuilderTyped BY DEF BuilderTyped
  <1>5. NumberedAlone /\ ExportedOfSome BY DEF NumberedAlone, ExportedOfSome
  <1>6. KeyedOnRows BY DEF KeyedOnRows
  <1>7. KeysAreBehind /\ ClearedIsBehind BY DEF KeysAreBehind, ClearedIsBehind, Written
  <1>8. WholeIsOne BY DEF WholeIsOne, Written
  <1>9. QuotedFromOne BY DEF QuotedFromOne
  <1> QED BY <1>1, <1>2, <1>3, <1>4, <1>5, <1>6, <1>7, <1>8, <1>9 DEF FiguresInv

LEMMA LandGrows ==
  ASSUME InputsTyped, NEW i \in Inputs, Land(i), NEW j \in Inputs, NEW k \in Nat
  PROVE  (k <= landed[j] => k <= landed'[j]) /\ (k < landed[j] => k < landed'[j])
PROOF
  <1>1. landed' = [landed EXCEPT ![i] = @ + 1] BY DEF Land
  <1>2. landed \in [Inputs -> Nat] BY FiguresAssumption DEF InputsTyped, Counts
  <1>3. landed[j] \in Nat /\ landed'[j] \in Nat /\ landed'[j] >= landed[j] BY <1>1, <1>2
  <1> QED BY <1>3

\* A recorded key is a count of landings.
LEMMA KeysAreCounts ==
  ASSUME FiguresInv, NEW j \in Inputs
  PROVE  /\ entries[j].key \in Nat /\ exporter.keys[j] \in Nat
         /\ Written => Said.keys[j] \in Nat
PROOF
  <1> USE FiguresAssumption DEF FiguresInv, Counts
  <1>1. entries[j].key \in Nat BY DEF InputsTyped
  <1>2. exporter.keys[j] \in Nat BY DEF ExporterTyped
  <1>3. Written => Said.keys[j] \in Nat BY DEF OutTyped, Written, Said
  <1> QED BY <1>1, <1>2, <1>3

LEMMA InputsStayTyped == FiguresInv /\ [FiguresNext]_figuresVars => InputsTyped'
PROOF
  <1> SUFFICES ASSUME FiguresInv, [FiguresNext]_figuresVars PROVE InputsTyped'
      OBVIOUS
  <1> USE FiguresAssumption
  <1> USE DEF FiguresInv, InputsTyped, ExporterTyped, Counts
  <1>1. ASSUME NEW i \in Inputs, Land(i) PROVE InputsTyped'
      BY <1>1 DEF Land
  <1>2. ASSUME NEW i \in Inputs, Approve(i) PROVE InputsTyped'
      BY <1>2 DEF Approve
  <1>3. ASSUME TakeRelease PROVE InputsTyped'
      BY <1>3 DEF TakeRelease
  <1>4. ASSUME Export PROVE InputsTyped'
      BY <1>4 DEF Export, Exporting, Absent
  <1>5. ASSUME NEW y \in Years, ClearYear(y) PROVE InputsTyped'
      BY <1>5 DEF ClearYear
  <1>6. ASSUME ClearManifest PROVE InputsTyped'
      BY <1>6 DEF ClearManifest
  <1>7. ASSUME Cleared PROVE InputsTyped'
      BY <1>7 DEF Cleared, NoOut, NoYears
  <1>8. ASSUME Make PROVE InputsTyped'
      BY <1>8 DEF Make, NoOut, NoYears
  <1>9. ASSUME Resolve PROVE InputsTyped'
      BY <1>9 DEF Resolve, Exporting, Absent, OnDisk
  <1>10. ASSUME NEW i \in Inputs, FromCache(i) PROVE InputsTyped'
      BY <1>10 DEF FromCache, Screened
  <1>11. ASSUME NEW i \in Inputs, OpenInput(i) PROVE InputsTyped'
      BY <1>11 DEF OpenInput
  <1>12. ASSUME NEW i \in Inputs, KeepInput(i) PROVE InputsTyped'
      BY <1>12 DEF KeepInput, Screened
  <1>13. ASSUME AllScreened PROVE InputsTyped'
      BY <1>13 DEF AllScreened
  <1>14. ASSUME NEW y \in Years, WriteYear(y) PROVE InputsTyped'
      BY <1>14 DEF WriteYear, Exporting, Absent, Addition
  <1>15. ASSUME WriteManifest PROVE InputsTyped'
      BY <1>15 DEF WriteManifest, Exporting, Absent
  <1>16. ASSUME Build PROVE InputsTyped'
      BY <1>16 DEF Build, Building, NoYears, Footer
  <1>17. ASSUME Problem PROVE InputsTyped'
      BY <1>17 DEF Problem
  <1>18. ASSUME NEW y \in Years, PriceYear(y) PROVE InputsTyped'
      BY <1>18 DEF PriceYear
  <1>19. ASSUME WritePage PROVE InputsTyped'
      BY <1>19 DEF WritePage
  <1>20. ASSUME Cut PROVE InputsTyped'
      BY <1>20 DEF Cut, Exporting, Building, Absent, NoYears
  <1>21. CASE UNCHANGED figuresVars BY <1>21 DEF figuresVars
  <1> QED BY <1>1, <1>2, <1>3, <1>4, <1>5, <1>6, <1>7, <1>8, <1>9, <1>10, <1>11,
            <1>12, <1>13, <1>14, <1>15, <1>16, <1>17, <1>18, <1>19, <1>20, <1>21 DEF FiguresNext

LEMMA OutStaysTyped == FiguresInv /\ [FiguresNext]_figuresVars => OutTyped'
PROOF
  <1> SUFFICES ASSUME FiguresInv, [FiguresNext]_figuresVars PROVE OutTyped'
      OBVIOUS
  <1> USE FiguresAssumption
  <1> USE DEF FiguresInv, OutTyped, InputsTyped, ExporterTyped, Written, Said, AddsType, Counts
  <1>1. ASSUME NEW i \in Inputs, Land(i) PROVE OutTyped'
      BY <1>1 DEF Land
  <1>2. ASSUME NEW i \in Inputs, Approve(i) PROVE OutTyped'
      BY <1>2 DEF Approve
  <1>3. ASSUME TakeRelease PROVE OutTyped'
      BY <1>3 DEF TakeRelease
  <1>4. ASSUME Export PROVE OutTyped'
      BY <1>4 DEF Export, Exporting, Absent
  <1>5. ASSUME NEW y \in Years, ClearYear(y) PROVE OutTyped'
    <2>1. /\ exporter.at = "clear" /\ out'.there = out.there /\ out'.manifest = out.manifest
          /\ out'.adds = [out.adds EXCEPT ![y] = <<>>] /\ exports' = exports
      BY <1>5 DEF ClearYear
    <2>2. out'.adds \in AddsType BY <2>1
    <2>3. out' \in [there : BOOLEAN, adds : AddsType,
                   manifest : {<<>>} \cup {<<m>> : m \in [at : Nat, release : 1..MaxReleases, keys : Counts]}]
      <3> HIDE DEF AddsType, Counts
      <3> QED BY <1>5, <2>2 DEF ClearYear
    <2>4. ~out.there => out'.adds = NoYears BY <2>1 DEF NoYears
    <2> QED BY <2>1, <2>3, <2>4
  <1>6. ASSUME ClearManifest PROVE OutTyped'
      BY <1>6 DEF ClearManifest
  <1>7. ASSUME Cleared PROVE OutTyped'
      BY <1>7 DEF Cleared, NoOut, NoYears
  <1>8. ASSUME Make PROVE OutTyped'
      BY <1>8 DEF Make, NoOut, NoYears
  <1>9. ASSUME Resolve PROVE OutTyped'
      BY <1>9 DEF Resolve, Exporting, Absent, OnDisk
  <1>10. ASSUME NEW i \in Inputs, FromCache(i) PROVE OutTyped'
      BY <1>10 DEF FromCache, Screened
  <1>11. ASSUME NEW i \in Inputs, OpenInput(i) PROVE OutTyped'
      BY <1>11 DEF OpenInput
  <1>12. ASSUME NEW i \in Inputs, KeepInput(i) PROVE OutTyped'
      BY <1>12 DEF KeepInput, Screened
  <1>13. ASSUME AllScreened PROVE OutTyped'
      BY <1>13 DEF AllScreened
  <1>14. ASSUME NEW y \in Years, WriteYear(y) PROVE OutTyped'
    <2>1. CASE release # exporter.release BY <1>14, <2>1 DEF WriteYear
    <2>2. CASE release = exporter.release
      <3> DEFINE a == [rows |-> exporter.rows, release |-> release]
      <3>1. a \in Addition BY DEF Addition
      <3>2. exporter.at = "years" /\ exports' = exports /\ out' = [out EXCEPT !.adds[y] = <<a>>]
        BY <1>14, <2>2 DEF WriteYear
      <3> HIDE DEF a
      <3>3. [out.adds EXCEPT ![y] = <<a>>] \in AddsType BY <3>1
      <3>4. /\ out'.there = out.there /\ out'.manifest = out.manifest
            /\ out'.adds = [out.adds EXCEPT ![y] = <<a>>]
            /\ out' \in [there : BOOLEAN, adds : AddsType,
                         manifest : {<<>>} \cup {<<m>> : m \in [at : Nat, release : 1..MaxReleases, keys : Counts]}]
        BY <3>2, <3>3
      <3>5. out.there /\ ~Written BY <3>2
      <3> QED BY <3>2, <3>4, <3>5
    <2> QED BY <2>1, <2>2
  <1>15. ASSUME WriteManifest PROVE OutTyped'
    <2> DEFINE m == [at |-> exports, release |-> exporter.release, keys |-> exporter.keys]
    <2>1. m \in [at : Nat, release : 1..MaxReleases, keys : Counts] BY <1>15 DEF WriteManifest
    <2>2. /\ exporter.at = "years" /\ exports' = exports /\ out' = [out EXCEPT !.manifest = <<m>>]
          /\ m.at = exports
      BY <1>15 DEF WriteManifest
    <2> HIDE DEF m
    <2>4. out'.there = out.there /\ out'.adds = out.adds /\ out'.manifest = <<m>> BY <2>2
    <2>5. out.there /\ exports \in 1..exports BY <2>2
    <2>6. out' \in [there : BOOLEAN, adds : AddsType,
                   manifest : {<<>>} \cup {<<k>> : k \in [at : Nat, release : 1..MaxReleases, keys : Counts]}]
      <3> HIDE DEF AddsType, Counts
      <3> QED BY <2>1, <2>2
    <2> QED BY <2>2, <2>4, <2>5, <2>6
  <1>16. ASSUME Build PROVE OutTyped'
      BY <1>16 DEF Build, Building, NoYears, Footer
  <1>17. ASSUME Problem PROVE OutTyped'
      BY <1>17 DEF Problem
  <1>18. ASSUME NEW y \in Years, PriceYear(y) PROVE OutTyped'
      BY <1>18 DEF PriceYear
  <1>19. ASSUME WritePage PROVE OutTyped'
      BY <1>19 DEF WritePage
  <1>20. ASSUME Cut PROVE OutTyped'
      BY <1>20 DEF Cut, Exporting, Building, Absent, NoYears
  <1>21. CASE UNCHANGED figuresVars BY <1>21 DEF figuresVars
  <1> QED BY <1>1, <1>2, <1>3, <1>4, <1>5, <1>6, <1>7, <1>8, <1>9, <1>10, <1>11,
            <1>12, <1>13, <1>14, <1>15, <1>16, <1>17, <1>18, <1>19, <1>20, <1>21 DEF FiguresNext

LEMMA ExporterStaysTyped == FiguresInv /\ [FiguresNext]_figuresVars => ExporterTyped'
PROOF
  <1> SUFFICES ASSUME FiguresInv, [FiguresNext]_figuresVars PROVE ExporterTyped'
      OBVIOUS
  <1> USE FiguresAssumption
  <1> USE DEF FiguresInv, ExporterTyped, InputsTyped, OutTyped, Written, Counts
  <1>1. ASSUME NEW i \in Inputs, Land(i) PROVE ExporterTyped'
      BY <1>1 DEF Land
  <1>2. ASSUME NEW i \in Inputs, Approve(i) PROVE ExporterTyped'
      BY <1>2 DEF Approve
  <1>3. ASSUME TakeRelease PROVE ExporterTyped'
      BY <1>3 DEF TakeRelease
  <1>4. ASSUME Export PROVE ExporterTyped'
    <2>1. /\ exporter' = [Exporting EXCEPT !.at = IF out.there THEN "clear" ELSE "make",
                                           !.release = release, !.years = IF out.there THEN Years ELSE {}]
          /\ exports' = exports + 1
      BY <1>4 DEF Export
    <2>2. Absent \in Counts BY DEF Absent
    <2>3. exporter' = [at |-> IF out.there THEN "clear" ELSE "make", release |-> release, inputs |-> {},
                       rows |-> Absent, keys |-> Absent, left |-> {},
                       years |-> IF out.there THEN Years ELSE {}]
      BY <2>1 DEF Exporting
    <2>4. /\ exporter'.at \in {"clear", "make"} /\ exporter'.release = release
          /\ exporter'.rows = Absent /\ exporter'.keys = Absent
          /\ exporter' \in [at : {"idle", "clear", "make", "resolve", "screen", "read", "years"},
                           release : 0..MaxReleases, inputs : SUBSET Inputs, rows : Counts, keys : Counts,
                           left : SUBSET Inputs, years : SUBSET Years]
      <3> HIDE DEF Counts
      <3> QED BY <2>2, <2>3
    <2>5. exports' > 0 BY <2>1
    <2> QED BY <2>4, <2>5 DEF Absent
  <1>5. ASSUME NEW y \in Years, ClearYear(y) PROVE ExporterTyped'
      BY <1>5 DEF ClearYear
  <1>6. ASSUME ClearManifest PROVE ExporterTyped'
      BY <1>6 DEF ClearManifest
  <1>7. ASSUME Cleared PROVE ExporterTyped'
      BY <1>7 DEF Cleared, NoOut, NoYears
  <1>8. ASSUME Make PROVE ExporterTyped'
      BY <1>8 DEF Make, NoOut, NoYears
  <1>9. ASSUME Resolve PROVE ExporterTyped'
    <2>1. CASE exporter' = Exporting BY <1>9, <2>1 DEF Resolve, Exporting, Absent
    <2>2. CASE exporter' = [exporter EXCEPT !.at = "screen", !.inputs = OnDisk, !.left = OnDisk]
      <3>1. OnDisk \in SUBSET Inputs BY DEF OnDisk
      <3> QED BY <1>9, <2>2, <3>1 DEF Resolve
    <2> QED BY <1>9, <2>1, <2>2 DEF Resolve
  <1>10. ASSUME NEW i \in Inputs, FromCache(i) PROVE ExporterTyped'
      BY <1>10 DEF FromCache, Screened
  <1>11. ASSUME NEW i \in Inputs, OpenInput(i) PROVE ExporterTyped'
      BY <1>11 DEF OpenInput
  <1>12. ASSUME NEW i \in Inputs, KeepInput(i) PROVE ExporterTyped'
      BY <1>12 DEF KeepInput, Screened
  <1>13. ASSUME AllScreened PROVE ExporterTyped'
      BY <1>13 DEF AllScreened
  <1>14. ASSUME NEW y \in Years, WriteYear(y) PROVE ExporterTyped'
    <2>1. CASE release # exporter.release BY <1>14, <2>1 DEF WriteYear, Exporting, Absent
    <2>2. CASE release = exporter.release
      <3>1. /\ exporter.at = "years" /\ exports' = exports
            /\ exporter' = [exporter EXCEPT !.years = @ \ {y}]
            /\ out'.there = out.there /\ out'.manifest = out.manifest
        BY <1>14, <2>2 DEF WriteYear
      <3> QED BY <3>1
    <2> QED BY <2>1, <2>2
  <1>15. ASSUME WriteManifest PROVE ExporterTyped'
      BY <1>15 DEF WriteManifest, Exporting, Absent
  <1>16. ASSUME Build PROVE ExporterTyped'
      BY <1>16 DEF Build, Building, NoYears, Footer
  <1>17. ASSUME Problem PROVE ExporterTyped'
      BY <1>17 DEF Problem
  <1>18. ASSUME NEW y \in Years, PriceYear(y) PROVE ExporterTyped'
      BY <1>18 DEF PriceYear
  <1>19. ASSUME WritePage PROVE ExporterTyped'
      BY <1>19 DEF WritePage
  <1>20. ASSUME Cut PROVE ExporterTyped'
      BY <1>20 DEF Cut, Exporting, Building, Absent, NoYears
  <1>21. CASE UNCHANGED figuresVars BY <1>21 DEF figuresVars
  <1> QED BY <1>1, <1>2, <1>3, <1>4, <1>5, <1>6, <1>7, <1>8, <1>9, <1>10, <1>11,
            <1>12, <1>13, <1>14, <1>15, <1>16, <1>17, <1>18, <1>19, <1>20, <1>21 DEF FiguresNext

LEMMA BuilderStaysTyped == FiguresInv /\ [FiguresNext]_figuresVars => BuilderTyped'
PROOF
  <1> SUFFICES ASSUME FiguresInv, [FiguresNext]_figuresVars PROVE BuilderTyped'
      OBVIOUS
  <1> USE FiguresAssumption
  <1> USE DEF FiguresInv, BuilderTyped, InputsTyped, OutTyped, Written, Said, AddsType
  <1>1. ASSUME NEW i \in Inputs, Land(i) PROVE BuilderTyped'
      BY <1>1 DEF Land
  <1>2. ASSUME NEW i \in Inputs, Approve(i) PROVE BuilderTyped'
      BY <1>2 DEF Approve
  <1>3. ASSUME TakeRelease PROVE BuilderTyped'
      BY <1>3 DEF TakeRelease
  <1>4. ASSUME Export PROVE BuilderTyped'
      BY <1>4 DEF Export, Exporting, Absent
  <1>5. ASSUME NEW y \in Years, ClearYear(y) PROVE BuilderTyped'
      BY <1>5 DEF ClearYear
  <1>6. ASSUME ClearManifest PROVE BuilderTyped'
      BY <1>6 DEF ClearManifest
  <1>7. ASSUME Cleared PROVE BuilderTyped'
      BY <1>7 DEF Cleared, NoOut, NoYears
  <1>8. ASSUME Make PROVE BuilderTyped'
      BY <1>8 DEF Make, NoOut, NoYears
  <1>9. ASSUME Resolve PROVE BuilderTyped'
      BY <1>9 DEF Resolve, Exporting, Absent, OnDisk
  <1>10. ASSUME NEW i \in Inputs, FromCache(i) PROVE BuilderTyped'
      BY <1>10 DEF FromCache, Screened
  <1>11. ASSUME NEW i \in Inputs, OpenInput(i) PROVE BuilderTyped'
      BY <1>11 DEF OpenInput
  <1>12. ASSUME NEW i \in Inputs, KeepInput(i) PROVE BuilderTyped'
      BY <1>12 DEF KeepInput, Screened
  <1>13. ASSUME AllScreened PROVE BuilderTyped'
      BY <1>13 DEF AllScreened
  <1>14. ASSUME NEW y \in Years, WriteYear(y) PROVE BuilderTyped'
      BY <1>14 DEF WriteYear, Exporting, Absent, Addition
  <1>15. ASSUME WriteManifest PROVE BuilderTyped'
      BY <1>15 DEF WriteManifest, Exporting, Absent
  <1>16. ASSUME Build PROVE BuilderTyped'
    <2>1. Footer \in Nat BY DEF Footer
    <2>2. /\ builder' = [Building EXCEPT !.at = "problem", !.release = release, !.footer = Footer]
          /\ page' = page /\ release \in 0..MaxReleases
      BY <1>16 DEF Build
    <2>3. NoYears \in AddsType BY DEF NoYears
    <2> QED BY <2>1, <2>2, <2>3 DEF Building
  <1>17. ASSUME Problem PROVE BuilderTyped'
      BY <1>17 DEF Problem
  <1>18. ASSUME NEW y \in Years, PriceYear(y) PROVE BuilderTyped'
      BY <1>18 DEF PriceYear
  <1>19. ASSUME WritePage PROVE BuilderTyped'
    <2> DEFINE p == [footer |-> builder.footer, quoted |-> builder.at = "figures",
                     figures |-> builder.figures, release |-> builder.release]
    <2>1. p \in [footer : Nat, quoted : BOOLEAN, figures : AddsType, release : 0..MaxReleases]
      <3>1. (builder.at = "figures") \in BOOLEAN OBVIOUS
      <3> HIDE DEF AddsType
      <3> QED BY <3>1
    <2>2. page' = <<p>> /\ builder' = Building BY <1>19 DEF WritePage
    <2>3. NoYears \in AddsType BY DEF NoYears
    <2> HIDE DEF p
    <2> QED BY <2>1, <2>2, <2>3 DEF Building
  <1>20. ASSUME Cut PROVE BuilderTyped'
      BY <1>20 DEF Cut, Exporting, Building, Absent, NoYears
  <1>21. CASE UNCHANGED figuresVars BY <1>21 DEF figuresVars
  <1> QED BY <1>1, <1>2, <1>3, <1>4, <1>5, <1>6, <1>7, <1>8, <1>9, <1>10, <1>11,
            <1>12, <1>13, <1>14, <1>15, <1>16, <1>17, <1>18, <1>19, <1>20, <1>21 DEF FiguresNext

LEMMA NumberStaysAlone == FiguresInv /\ [FiguresNext]_figuresVars => NumberedAlone'
PROOF
  <1> SUFFICES ASSUME FiguresInv, [FiguresNext]_figuresVars PROVE NumberedAlone'
      OBVIOUS
  <1> USE FiguresAssumption
  <1> USE DEF FiguresInv, NumberedAlone, InputsTyped, OutTyped, ExporterTyped, Written, Said
  <1>1. ASSUME NEW i \in Inputs, Land(i) PROVE NumberedAlone'
      BY <1>1 DEF Land
  <1>2. ASSUME NEW i \in Inputs, Approve(i) PROVE NumberedAlone'
      BY <1>2 DEF Approve
  <1>3. ASSUME TakeRelease PROVE NumberedAlone'
      BY <1>3 DEF TakeRelease
  <1>4. ASSUME Export PROVE NumberedAlone'
      BY <1>4 DEF Export, Exporting, Absent
  <1>5. ASSUME NEW y \in Years, ClearYear(y) PROVE NumberedAlone'
      BY <1>5 DEF ClearYear
  <1>6. ASSUME ClearManifest PROVE NumberedAlone'
      BY <1>6 DEF ClearManifest
  <1>7. ASSUME Cleared PROVE NumberedAlone'
      BY <1>7 DEF Cleared, NoOut, NoYears
  <1>8. ASSUME Make PROVE NumberedAlone'
      BY <1>8 DEF Make, NoOut, NoYears
  <1>9. ASSUME Resolve PROVE NumberedAlone'
      BY <1>9 DEF Resolve, Exporting, Absent, OnDisk
  <1>10. ASSUME NEW i \in Inputs, FromCache(i) PROVE NumberedAlone'
      BY <1>10 DEF FromCache, Screened
  <1>11. ASSUME NEW i \in Inputs, OpenInput(i) PROVE NumberedAlone'
      BY <1>11 DEF OpenInput
  <1>12. ASSUME NEW i \in Inputs, KeepInput(i) PROVE NumberedAlone'
      BY <1>12 DEF KeepInput, Screened
  <1>13. ASSUME AllScreened PROVE NumberedAlone'
      BY <1>13 DEF AllScreened
  <1>14. ASSUME NEW y \in Years, WriteYear(y) PROVE NumberedAlone'
      BY <1>14 DEF WriteYear, Exporting, Absent, Addition
  <1>15. ASSUME WriteManifest PROVE NumberedAlone'
      BY <1>15 DEF WriteManifest, Exporting, Absent
  <1>16. ASSUME Build PROVE NumberedAlone'
      BY <1>16 DEF Build, Building, NoYears, Footer
  <1>17. ASSUME Problem PROVE NumberedAlone'
      BY <1>17 DEF Problem
  <1>18. ASSUME NEW y \in Years, PriceYear(y) PROVE NumberedAlone'
      BY <1>18 DEF PriceYear
  <1>19. ASSUME WritePage PROVE NumberedAlone'
      BY <1>19 DEF WritePage
  <1>20. ASSUME Cut PROVE NumberedAlone'
      BY <1>20 DEF Cut, Exporting, Building, Absent, NoYears
  <1>21. CASE UNCHANGED figuresVars BY <1>21 DEF figuresVars
  <1> QED BY <1>1, <1>2, <1>3, <1>4, <1>5, <1>6, <1>7, <1>8, <1>9, <1>10, <1>11,
            <1>12, <1>13, <1>14, <1>15, <1>16, <1>17, <1>18, <1>19, <1>20, <1>21 DEF FiguresNext

LEMMA ExportedStaysOfSome == FiguresInv /\ [FiguresNext]_figuresVars => ExportedOfSome'
PROOF
  <1> SUFFICES ASSUME FiguresInv, [FiguresNext]_figuresVars PROVE ExportedOfSome'
      OBVIOUS
  <1> USE FiguresAssumption
  <1> USE DEF FiguresInv, ExportedOfSome, InputsTyped, OutTyped, ExporterTyped, OnDisk, Counts
  <1>1. ASSUME NEW i \in Inputs, Land(i) PROVE ExportedOfSome'
      BY <1>1 DEF Land
  <1>2. ASSUME NEW i \in Inputs, Approve(i) PROVE ExportedOfSome'
      BY <1>2 DEF Approve
  <1>3. ASSUME TakeRelease PROVE ExportedOfSome'
      BY <1>3 DEF TakeRelease
  <1>4. ASSUME Export PROVE ExportedOfSome'
    <2>1. exports' > 0 /\ UNCHANGED <<landed, out>> BY <1>4 DEF Export
    <2>2. OnDisk # {}
      <3>1. CASE exports = 0 BY <1>4, <3>1 DEF Export, Current, Written, NoOut
      <3> QED BY <3>1
    <2> QED BY <2>1, <2>2
  <1>5. ASSUME NEW y \in Years, ClearYear(y) PROVE ExportedOfSome'
      BY <1>5 DEF ClearYear
  <1>6. ASSUME ClearManifest PROVE ExportedOfSome'
      BY <1>6 DEF ClearManifest
  <1>7. ASSUME Cleared PROVE ExportedOfSome'
      BY <1>7 DEF Cleared, NoOut, NoYears
  <1>8. ASSUME Make PROVE ExportedOfSome'
      BY <1>8 DEF Make, NoOut, NoYears
  <1>9. ASSUME Resolve PROVE ExportedOfSome'
      BY <1>9 DEF Resolve, Exporting, Absent, OnDisk
  <1>10. ASSUME NEW i \in Inputs, FromCache(i) PROVE ExportedOfSome'
      BY <1>10 DEF FromCache, Screened
  <1>11. ASSUME NEW i \in Inputs, OpenInput(i) PROVE ExportedOfSome'
      BY <1>11 DEF OpenInput
  <1>12. ASSUME NEW i \in Inputs, KeepInput(i) PROVE ExportedOfSome'
      BY <1>12 DEF KeepInput, Screened
  <1>13. ASSUME AllScreened PROVE ExportedOfSome'
      BY <1>13 DEF AllScreened
  <1>14. ASSUME NEW y \in Years, WriteYear(y) PROVE ExportedOfSome'
      BY <1>14 DEF WriteYear, Exporting, Absent, Addition
  <1>15. ASSUME WriteManifest PROVE ExportedOfSome'
      BY <1>15 DEF WriteManifest, Exporting, Absent
  <1>16. ASSUME Build PROVE ExportedOfSome'
      BY <1>16 DEF Build, Building, NoYears, Footer
  <1>17. ASSUME Problem PROVE ExportedOfSome'
      BY <1>17 DEF Problem
  <1>18. ASSUME NEW y \in Years, PriceYear(y) PROVE ExportedOfSome'
      BY <1>18 DEF PriceYear
  <1>19. ASSUME WritePage PROVE ExportedOfSome'
      BY <1>19 DEF WritePage
  <1>20. ASSUME Cut PROVE ExportedOfSome'
      BY <1>20 DEF Cut, Exporting, Building, Absent, NoYears
  <1>21. CASE UNCHANGED figuresVars BY <1>21 DEF figuresVars
  <1> QED BY <1>1, <1>2, <1>3, <1>4, <1>5, <1>6, <1>7, <1>8, <1>9, <1>10, <1>11,
            <1>12, <1>13, <1>14, <1>15, <1>16, <1>17, <1>18, <1>19, <1>20, <1>21 DEF FiguresNext

LEMMA RowsStayKeyed == FiguresInv /\ [FiguresNext]_figuresVars => KeyedOnRows'
PROOF
  <1> SUFFICES ASSUME FiguresInv, [FiguresNext]_figuresVars PROVE KeyedOnRows'
      OBVIOUS
  <1> USE FiguresAssumption
  <1> USE DEF FiguresInv, KeyedOnRows, ExporterTyped, InputsTyped, OutTyped, Written, Counts, AddsType
  <1>1. ASSUME NEW i \in Inputs, Land(i) PROVE KeyedOnRows'
      BY <1>1 DEF Land
  <1>2. ASSUME NEW i \in Inputs, Approve(i) PROVE KeyedOnRows'
      BY <1>2 DEF Approve
  <1>3. ASSUME TakeRelease PROVE KeyedOnRows'
      BY <1>3 DEF TakeRelease
  <1>4. ASSUME Export PROVE KeyedOnRows'
      BY <1>4 DEF Export, Exporting, Absent
  <1>5. ASSUME NEW y \in Years, ClearYear(y) PROVE KeyedOnRows'
      BY <1>5 DEF ClearYear
  <1>6. ASSUME ClearManifest PROVE KeyedOnRows'
      BY <1>6 DEF ClearManifest
  <1>7. ASSUME Cleared PROVE KeyedOnRows'
      BY <1>7 DEF Cleared, NoOut, NoYears
  <1>8. ASSUME Make PROVE KeyedOnRows'
      BY <1>8 DEF Make, NoOut, NoYears
  <1>9. ASSUME Resolve PROVE KeyedOnRows'
    <2>1. CASE exporter' = Exporting BY <1>9, <2>1 DEF Resolve, Exporting
    <2>2. CASE exporter' = [exporter EXCEPT !.at = "screen", !.inputs = OnDisk, !.left = OnDisk]
      <3>1. /\ exporter'.at = "screen" /\ exporter'.rows = exporter'.keys
            /\ UNCHANGED <<entries, underRead, out>>
        BY <1>9, <2>2 DEF Resolve
      <3> QED BY <3>1
    <2> QED BY <1>9, <2>1, <2>2 DEF Resolve
  <1>10. ASSUME NEW i \in Inputs, FromCache(i) PROVE KeyedOnRows'
    <2>1. /\ exporter.at = "screen" /\ UNCHANGED <<entries, underRead, out>>
          /\ exporter'.at = "screen" /\ exporter'.left = exporter.left \ {i}
          /\ exporter'.rows = [exporter.rows EXCEPT ![i] = entries[i].rows]
          /\ exporter'.keys = [exporter.keys EXCEPT ![i] = entries[i].key]
      BY <1>10 DEF FromCache, Screened
    <2>2. ASSUME NEW j \in Inputs \ (underRead \cup exporter'.left)
          PROVE  exporter'.rows[j] = exporter'.keys[j]
      <3>1. CASE j = i BY <2>1, <3>1
      <3>2. CASE j # i BY <2>1, <3>2
      <3> QED BY <3>1, <3>2
    <2> QED BY <2>1, <2>2
  <1>11. ASSUME NEW i \in Inputs, OpenInput(i) PROVE KeyedOnRows'
      BY <1>11 DEF OpenInput
  <1>12. ASSUME NEW i \in Inputs, KeepInput(i) PROVE KeyedOnRows'
      BY <1>12 DEF KeepInput, Screened
  <1>13. ASSUME AllScreened PROVE KeyedOnRows'
      BY <1>13 DEF AllScreened
  <1>14. ASSUME NEW y \in Years, WriteYear(y) PROVE KeyedOnRows'
    <2>1. CASE release # exporter.release BY <1>14, <2>1 DEF WriteYear, Exporting
    <2>2. CASE release = exporter.release
      <3>1. /\ exporter.at = "years" /\ UNCHANGED <<entries, underRead>> /\ exporter'.at = "years"
            /\ exporter'.left = exporter.left /\ exporter'.rows = exporter.rows
            /\ exporter'.keys = exporter.keys /\ exporter'.release = exporter.release
            /\ exporter'.years = exporter.years \ {y}
            /\ out'.adds = [out.adds EXCEPT ![y] = <<[rows |-> exporter.rows, release |-> release]>>]
        BY <1>14, <2>2 DEF WriteYear
      <3> QED BY <2>2, <3>1
    <2> QED BY <2>1, <2>2
  <1>15. ASSUME WriteManifest PROVE KeyedOnRows'
      BY <1>15 DEF WriteManifest, Exporting, Absent
  <1>16. ASSUME Build PROVE KeyedOnRows'
      BY <1>16 DEF Build, Building, NoYears, Footer
  <1>17. ASSUME Problem PROVE KeyedOnRows'
      BY <1>17 DEF Problem
  <1>18. ASSUME NEW y \in Years, PriceYear(y) PROVE KeyedOnRows'
      BY <1>18 DEF PriceYear
  <1>19. ASSUME WritePage PROVE KeyedOnRows'
      BY <1>19 DEF WritePage
  <1>20. ASSUME Cut PROVE KeyedOnRows'
      BY <1>20 DEF Cut, Exporting, Building, Absent, NoYears
  <1>21. CASE UNCHANGED figuresVars BY <1>21 DEF figuresVars
  <1> QED BY <1>1, <1>2, <1>3, <1>4, <1>5, <1>6, <1>7, <1>8, <1>9, <1>10, <1>11,
            <1>12, <1>13, <1>14, <1>15, <1>16, <1>17, <1>18, <1>19, <1>20, <1>21 DEF FiguresNext

LEMMA KeysStayBehind == FiguresInv /\ [FiguresNext]_figuresVars => KeysAreBehind'
PROOF
  <1> SUFFICES ASSUME FiguresInv, [FiguresNext]_figuresVars PROVE KeysAreBehind'
      OBVIOUS
  <1> USE FiguresAssumption
  <1> USE DEF FiguresInv, KeysAreBehind, ExporterTyped, InputsTyped, OutTyped, Written, Said, Counts
  <1>1. ASSUME NEW i \in Inputs, Land(i) PROVE KeysAreBehind'
    <2>1. UNCHANGED <<entries, exporter, out, release>> BY <1>1 DEF Land
    <2>2. ASSUME NEW j \in Inputs PROVE entries[j].key <= landed'[j] /\ exporter.keys[j] <= landed'[j]
      <3>1. entries[j].key <= landed[j] /\ exporter.keys[j] <= landed[j] OBVIOUS
      <3> QED BY ONLY FiguresInv, <1>1, <3>1, LandGrows, KeysAreCounts DEF FiguresInv
    <2>3. ASSUME Written, NEW j \in Inputs PROVE Said.keys[j] <= landed'[j]
      <3>1. Said.keys[j] <= landed[j] BY <2>3
      <3> QED BY ONLY FiguresInv, <1>1, <2>3, <3>1, LandGrows, KeysAreCounts DEF FiguresInv
    <2> QED BY <2>1, <2>2, <2>3
  <1>2. ASSUME NEW i \in Inputs, Approve(i) PROVE KeysAreBehind'
      BY <1>2 DEF Approve
  <1>3. ASSUME TakeRelease PROVE KeysAreBehind'
      BY <1>3 DEF TakeRelease
  <1>4. ASSUME Export PROVE KeysAreBehind'
      BY <1>4 DEF Export, Exporting, Absent
  <1>5. ASSUME NEW y \in Years, ClearYear(y) PROVE KeysAreBehind'
      BY <1>5 DEF ClearYear
  <1>6. ASSUME ClearManifest PROVE KeysAreBehind'
      BY <1>6 DEF ClearManifest
  <1>7. ASSUME Cleared PROVE KeysAreBehind'
      BY <1>7 DEF Cleared, NoOut, NoYears
  <1>8. ASSUME Make PROVE KeysAreBehind'
      BY <1>8 DEF Make, NoOut, NoYears
  <1>9. ASSUME Resolve PROVE KeysAreBehind'
      BY <1>9 DEF Resolve, Exporting, Absent, OnDisk
  <1>10. ASSUME NEW i \in Inputs, FromCache(i) PROVE KeysAreBehind'
      BY <1>10 DEF FromCache, Screened
  <1>11. ASSUME NEW i \in Inputs, OpenInput(i) PROVE KeysAreBehind'
      BY <1>11 DEF OpenInput
  <1>12. ASSUME NEW i \in Inputs, KeepInput(i) PROVE KeysAreBehind'
      BY <1>12 DEF KeepInput, Screened
  <1>13. ASSUME AllScreened PROVE KeysAreBehind'
      BY <1>13 DEF AllScreened
  <1>14. ASSUME NEW y \in Years, WriteYear(y) PROVE KeysAreBehind'
    <2>1. /\ UNCHANGED <<entries, landed, release>> /\ out'.manifest = out.manifest
          /\ \/ exporter' = Exporting
             \/ exporter'.keys = exporter.keys /\ exporter'.release = exporter.release
      BY <1>14 DEF WriteYear
    <2>2. CASE exporter' = Exporting BY <2>1, <2>2 DEF Exporting, Absent
    <2> QED BY <2>1, <2>2
  <1>15. ASSUME WriteManifest PROVE KeysAreBehind'
      BY <1>15 DEF WriteManifest, Exporting, Absent
  <1>16. ASSUME Build PROVE KeysAreBehind'
      BY <1>16 DEF Build, Building, NoYears, Footer
  <1>17. ASSUME Problem PROVE KeysAreBehind'
      BY <1>17 DEF Problem
  <1>18. ASSUME NEW y \in Years, PriceYear(y) PROVE KeysAreBehind'
      BY <1>18 DEF PriceYear
  <1>19. ASSUME WritePage PROVE KeysAreBehind'
      BY <1>19 DEF WritePage
  <1>20. ASSUME Cut PROVE KeysAreBehind'
      BY <1>20 DEF Cut, Exporting, Building, Absent, NoYears
  <1>21. CASE UNCHANGED figuresVars BY <1>21 DEF figuresVars
  <1> QED BY <1>1, <1>2, <1>3, <1>4, <1>5, <1>6, <1>7, <1>8, <1>9, <1>10, <1>11,
            <1>12, <1>13, <1>14, <1>15, <1>16, <1>17, <1>18, <1>19, <1>20, <1>21 DEF FiguresNext

LEMMA ClearedStaysBehind == FiguresInv /\ [FiguresNext]_figuresVars => ClearedIsBehind'
PROOF
  <1> SUFFICES ASSUME FiguresInv, [FiguresNext]_figuresVars PROVE ClearedIsBehind'
      OBVIOUS
  <1> USE FiguresAssumption
  <1> USE DEF FiguresInv, ClearedIsBehind, Outdated, KeysAreBehind, NumberedAlone, ExporterTyped, InputsTyped, OutTyped, Written, Said, Counts
  <1>1. ASSUME NEW i \in Inputs, Land(i) PROVE ClearedIsBehind'
    <2>1. UNCHANGED <<torn, exporter, out, release>> BY <1>1 DEF Land
    <2>2. ASSUME Written, NEW j \in Inputs, Said.keys[j] < landed[j] PROVE Said.keys[j] < landed'[j]
      BY ONLY FiguresInv, <1>1, <2>2, LandGrows, KeysAreCounts DEF FiguresInv
    <2> QED BY <2>1, <2>2
  <1>2. ASSUME NEW i \in Inputs, Approve(i) PROVE ClearedIsBehind'
      BY <1>2 DEF Approve
  <1>3. ASSUME TakeRelease PROVE ClearedIsBehind'
      BY <1>3 DEF TakeRelease
  <1>4. ASSUME Export PROVE ClearedIsBehind'
    <2>1. UNCHANGED <<out, torn, landed, release>> /\ ~Current(FALSE) BY <1>4 DEF Export
    <2>2. Written => Outdated BY <2>1 DEF Current, Moved, OnDisk
    <2> QED BY <2>1, <2>2
  <1>5. ASSUME NEW y \in Years, ClearYear(y) PROVE ClearedIsBehind'
      BY <1>5 DEF ClearYear
  <1>6. ASSUME ClearManifest PROVE ClearedIsBehind'
      BY <1>6 DEF ClearManifest
  <1>7. ASSUME Cleared PROVE ClearedIsBehind'
      BY <1>7 DEF Cleared, NoOut, NoYears
  <1>8. ASSUME Make PROVE ClearedIsBehind'
      BY <1>8 DEF Make, NoOut, NoYears
  <1>9. ASSUME Resolve PROVE ClearedIsBehind'
      BY <1>9 DEF Resolve, Exporting, Absent, OnDisk
  <1>10. ASSUME NEW i \in Inputs, FromCache(i) PROVE ClearedIsBehind'
      BY <1>10 DEF FromCache, Screened
  <1>11. ASSUME NEW i \in Inputs, OpenInput(i) PROVE ClearedIsBehind'
      BY <1>11 DEF OpenInput
  <1>12. ASSUME NEW i \in Inputs, KeepInput(i) PROVE ClearedIsBehind'
      BY <1>12 DEF KeepInput, Screened
  <1>13. ASSUME AllScreened PROVE ClearedIsBehind'
      BY <1>13 DEF AllScreened
  <1>14. ASSUME NEW y \in Years, WriteYear(y) PROVE ClearedIsBehind'
      BY <1>14 DEF WriteYear, Exporting, Absent, Addition
  <1>15. ASSUME WriteManifest PROVE ClearedIsBehind'
      BY <1>15 DEF WriteManifest, Exporting, Absent
  <1>16. ASSUME Build PROVE ClearedIsBehind'
      BY <1>16 DEF Build, Building, NoYears, Footer
  <1>17. ASSUME Problem PROVE ClearedIsBehind'
      BY <1>17 DEF Problem
  <1>18. ASSUME NEW y \in Years, PriceYear(y) PROVE ClearedIsBehind'
      BY <1>18 DEF PriceYear
  <1>19. ASSUME WritePage PROVE ClearedIsBehind'
      BY <1>19 DEF WritePage
  <1>20. ASSUME Cut PROVE ClearedIsBehind'
      BY <1>20 DEF Cut, Exporting, Building, Absent, NoYears
  <1>21. CASE UNCHANGED figuresVars BY <1>21 DEF figuresVars
  <1> QED BY <1>1, <1>2, <1>3, <1>4, <1>5, <1>6, <1>7, <1>8, <1>9, <1>10, <1>11,
            <1>12, <1>13, <1>14, <1>15, <1>16, <1>17, <1>18, <1>19, <1>20, <1>21 DEF FiguresNext

LEMMA WholeStaysOne == FiguresInv /\ [FiguresNext]_figuresVars => WholeIsOne'
PROOF
  <1> SUFFICES ASSUME FiguresInv, [FiguresNext]_figuresVars PROVE WholeIsOne'
      OBVIOUS
  <1> USE FiguresAssumption
  <1> USE DEF FiguresInv, WholeIsOne, OfRun, KeyedOnRows, NumberedAlone, ExporterTyped, OutTyped, InputsTyped, Written, Said
  <1>1. ASSUME NEW i \in Inputs, Land(i) PROVE WholeIsOne'
      BY <1>1 DEF Land
  <1>2. ASSUME NEW i \in Inputs, Approve(i) PROVE WholeIsOne'
      BY <1>2 DEF Approve
  <1>3. ASSUME TakeRelease PROVE WholeIsOne'
      BY <1>3 DEF TakeRelease
  <1>4. ASSUME Export PROVE WholeIsOne'
      BY <1>4 DEF Export, Exporting, Absent
  <1>5. ASSUME NEW y \in Years, ClearYear(y) PROVE WholeIsOne'
      BY <1>5 DEF ClearYear
  <1>6. ASSUME ClearManifest PROVE WholeIsOne'
      BY <1>6 DEF ClearManifest
  <1>7. ASSUME Cleared PROVE WholeIsOne'
      BY <1>7 DEF Cleared, NoOut, NoYears
  <1>8. ASSUME Make PROVE WholeIsOne'
      BY <1>8 DEF Make, NoOut, NoYears
  <1>9. ASSUME Resolve PROVE WholeIsOne'
      BY <1>9 DEF Resolve, Exporting, Absent, OnDisk
  <1>10. ASSUME NEW i \in Inputs, FromCache(i) PROVE WholeIsOne'
      BY <1>10 DEF FromCache, Screened
  <1>11. ASSUME NEW i \in Inputs, OpenInput(i) PROVE WholeIsOne'
      BY <1>11 DEF OpenInput
  <1>12. ASSUME NEW i \in Inputs, KeepInput(i) PROVE WholeIsOne'
      BY <1>12 DEF KeepInput, Screened
  <1>13. ASSUME AllScreened PROVE WholeIsOne'
      BY <1>13 DEF AllScreened
  <1>14. ASSUME NEW y \in Years, WriteYear(y) PROVE WholeIsOne'
      BY <1>14 DEF WriteYear, Exporting, Absent, Addition
  <1>15. ASSUME WriteManifest PROVE WholeIsOne'
    <2>1. /\ exporter.at = "years" /\ exporter.years = {} /\ UNCHANGED <<torn, underRead>>
          /\ Said' = [at |-> exports, release |-> exporter.release, keys |-> exporter.keys]
          /\ out'.adds = out.adds
      BY <1>15 DEF WriteManifest
    <2>2. \A y \in Years : out.adds[y] = <<[rows |-> exporter.rows, release |-> exporter.release]>>
      BY <2>1
    <2>3. \A i \in Inputs \ underRead : exporter.rows[i] = exporter.keys[i] BY <2>1
    <2> QED BY <2>1, <2>2, <2>3
  <1>16. ASSUME Build PROVE WholeIsOne'
      BY <1>16 DEF Build, Building, NoYears, Footer
  <1>17. ASSUME Problem PROVE WholeIsOne'
      BY <1>17 DEF Problem
  <1>18. ASSUME NEW y \in Years, PriceYear(y) PROVE WholeIsOne'
      BY <1>18 DEF PriceYear
  <1>19. ASSUME WritePage PROVE WholeIsOne'
      BY <1>19 DEF WritePage
  <1>20. ASSUME Cut PROVE WholeIsOne'
      BY <1>20 DEF Cut, Exporting, Building, Absent, NoYears
  <1>21. CASE UNCHANGED figuresVars BY <1>21 DEF figuresVars
  <1> QED BY <1>1, <1>2, <1>3, <1>4, <1>5, <1>6, <1>7, <1>8, <1>9, <1>10, <1>11,
            <1>12, <1>13, <1>14, <1>15, <1>16, <1>17, <1>18, <1>19, <1>20, <1>21 DEF FiguresNext

LEMMA QuotedStaysFromOne == FiguresInv /\ [FiguresNext]_figuresVars => QuotedFromOne'
PROOF
  <1> SUFFICES ASSUME FiguresInv, [FiguresNext]_figuresVars PROVE QuotedFromOne'
      OBVIOUS
  <1> USE FiguresAssumption
  <1> USE DEF FiguresInv, QuotedFromOne, FromOne, NumberedAlone, ExportedOfSome, ExporterTyped, BuilderTyped, OutTyped, InputsTyped, Written, Said, NoPage, Footer
  <1>1. ASSUME NEW i \in Inputs, Land(i) PROVE QuotedFromOne'
      BY <1>1 DEF Land
  <1>2. ASSUME NEW i \in Inputs, Approve(i) PROVE QuotedFromOne'
      BY <1>2 DEF Approve
  <1>3. ASSUME TakeRelease PROVE QuotedFromOne'
      BY <1>3 DEF TakeRelease
  <1>4. ASSUME Export PROVE QuotedFromOne'
      BY <1>4 DEF Export, Exporting, Absent
  <1>5. ASSUME NEW y \in Years, ClearYear(y) PROVE QuotedFromOne'
      BY <1>5 DEF ClearYear
  <1>6. ASSUME ClearManifest PROVE QuotedFromOne'
      BY <1>6 DEF ClearManifest
  <1>7. ASSUME Cleared PROVE QuotedFromOne'
      BY <1>7 DEF Cleared, NoOut, NoYears
  <1>8. ASSUME Make PROVE QuotedFromOne'
      BY <1>8 DEF Make, NoOut, NoYears
  <1>9. ASSUME Resolve PROVE QuotedFromOne'
      BY <1>9 DEF Resolve, Exporting, Absent, OnDisk
  <1>10. ASSUME NEW i \in Inputs, FromCache(i) PROVE QuotedFromOne'
      BY <1>10 DEF FromCache, Screened
  <1>11. ASSUME NEW i \in Inputs, OpenInput(i) PROVE QuotedFromOne'
      BY <1>11 DEF OpenInput
  <1>12. ASSUME NEW i \in Inputs, KeepInput(i) PROVE QuotedFromOne'
      BY <1>12 DEF KeepInput, Screened
  <1>13. ASSUME AllScreened PROVE QuotedFromOne'
      BY <1>13 DEF AllScreened
  <1>14. ASSUME NEW y \in Years, WriteYear(y) PROVE QuotedFromOne'
      BY <1>14 DEF WriteYear, Exporting, Absent, Addition
  <1>15. ASSUME WriteManifest PROVE QuotedFromOne'
      BY <1>15 DEF WriteManifest, Exporting, Absent
  <1>16. ASSUME Build PROVE QuotedFromOne'
      BY <1>16 DEF Build, Building, NoYears, Footer
  <1>17. ASSUME Problem PROVE QuotedFromOne'
    <2>1. /\ builder.at = "problem" /\ UNCHANGED <<out, exporter, page, exports, torn>>
          /\ builder'.footer = builder.footer /\ builder'.figures = builder.figures
          /\ builder'.at \in {"write", "figures"} /\ (builder'.at = "figures" => builder'.left = Years)
      BY <1>17 DEF Problem
    <2> QED BY <2>1 DEF NoYears
  <1>18. ASSUME NEW y \in Years, PriceYear(y) PROVE QuotedFromOne'
    <2>1. /\ builder.at = "figures" /\ UNCHANGED <<out, exporter, page, exports, torn>>
          /\ builder'.footer = builder.footer /\ builder'.at = "figures"
          /\ builder'.figures = [builder.figures EXCEPT ![y] = out.adds[y]]
          /\ builder'.left = builder.left \ {y}
      BY <1>18 DEF PriceYear
    <2>2. exports = 0 => out.adds[y] = <<>> BY DEF NoOut, NoYears
    <2> QED BY <2>1, <2>2 DEF AddsType
  <1>19. ASSUME WritePage PROVE QuotedFromOne'
    <2>1. /\ UNCHANGED <<out, exporter, exports, torn>>
          /\ builder' = Building
          /\ page' # <<>> /\ page'[1].footer = builder.footer /\ page'[1].figures = builder.figures
          /\ page'[1].quoted => builder.at = "figures" /\ builder.left = {}
      BY <1>19 DEF WritePage
    <2> QED BY <2>1 DEF Building
  <1>20. ASSUME Cut PROVE QuotedFromOne'
      BY <1>20 DEF Cut, Exporting, Building, Absent, NoYears
  <1>21. CASE UNCHANGED figuresVars BY <1>21 DEF figuresVars
  <1> QED BY <1>1, <1>2, <1>3, <1>4, <1>5, <1>6, <1>7, <1>8, <1>9, <1>10, <1>11,
            <1>12, <1>13, <1>14, <1>15, <1>16, <1>17, <1>18, <1>19, <1>20, <1>21 DEF FiguresNext

(***************************************************************************)
(* Whatever lands, is cached, cut off or taken in between, an export the   *)
(* check calls current is of the inputs and the release as they are, and a *)
(* page that passes quotes one whole export, that of the files on disk,    *)
(* unless a year of it was deleted before its manifest was                 *)
(* (extended_export.py, build_round_state.py).                             *)
(***************************************************************************)
THEOREM FiguresStayCurrent == FiguresSpec => []FiguresAreCurrent
PROOF
  <1>1. FiguresInit => FiguresInv BY FiguresBegin
  <1>2. FiguresInv /\ [FiguresNext]_figuresVars => FiguresInv'
    BY InputsStayTyped, OutStaysTyped, ExporterStaysTyped, BuilderStaysTyped, NumberStaysAlone,
       ExportedStaysOfSome, RowsStayKeyed, KeysStayBehind, ClearedStaysBehind, WholeStaysOne,
       QuotedStaysFromOne DEF FiguresInv
  <1>3. FiguresInv => FiguresAreCurrent
    <2> SUFFICES ASSUME FiguresInv PROVE FiguresAreCurrent
        OBVIOUS
    <2>1. FiguresTypeOK
      BY DEF FiguresInv, FiguresTypeOK, InputsTyped, OutTyped, ExporterTyped, BuilderTyped, NumberedAlone,
             Counts, AddsType
    <2>2. CurrentIsFresh
      <3> SUFFICES ASSUME Written, Current(FALSE), NEW y \in Years
                   PROVE  /\ out.adds[y] # <<>> /\ out.adds[y][1].release = release
                          /\ \A i \in Inputs \ underRead : out.adds[y][1].rows[i] = landed[i]
          BY DEF CurrentIsFresh
      <3>1. Said.release = release /\ ~Moved(FALSE) BY DEF Current
      <3>2. \A i \in Inputs : Said.keys[i] = landed[i]
        BY <3>1 DEF Moved, OnDisk, FiguresInv, InputsTyped, OutTyped, Counts, Written, Said
      <3>3. ~Outdated
        BY <3>1, <3>2, FiguresAssumption DEF Outdated, FiguresInv, InputsTyped, Counts
      <3>4. Said.at \notin torn BY <3>3 DEF FiguresInv, ClearedIsBehind
      <3> QED BY <3>1, <3>2, <3>4 DEF FiguresInv, WholeIsOne, OfRun
    <2>3. CheckedIsCurrent
      <3> SUFFICES ASSUME Checks, page[1].quoted, Footer \notin torn
                   PROVE  page[1].figures = out.adds /\ (Written => \A y \in Years : page[1].figures[y] # <<>>)
          BY DEF CheckedIsCurrent
      <3>1. page[1].figures \in AddsType /\ out.adds \in AddsType
        BY DEF Checks, NoPage, FiguresInv, BuilderTyped, OutTyped
      <3>2. FromOne(page[1].footer, page[1].figures, {})
        BY DEF Checks, FiguresInv, QuotedFromOne
      <3>3. CASE Written
        <4>1. page[1].footer = Said.at /\ Said.at \notin torn BY <3>3 DEF Checks, Footer
        <4>2. \A y \in Years : page[1].figures[y] = out.adds[y] BY <3>2, <3>3, <4>1 DEF FromOne
        <4>3. \A y \in Years : out.adds[y] # <<>> BY <3>3, <4>1 DEF FiguresInv, WholeIsOne
        <4> QED BY <3>1, <4>2, <4>3 DEF AddsType
      <3>4. CASE ~Written
        <4>1. exports = 0 BY <3>4 DEF Checks, FiguresInv, ExportedOfSome
        <4>2. out.adds = NoYears BY <4>1 DEF FiguresInv, ExportedOfSome, NoOut
        <4>3. \A y \in Years : page[1].figures[y] = out.adds[y]
          BY <3>2, <4>1, <4>2 DEF FromOne, NoYears
        <4> QED BY <3>1, <3>4, <4>3 DEF AddsType
      <3> QED BY <3>3, <3>4
    <2> QED BY <2>1, <2>2, <2>3 DEF FiguresAreCurrent
  <1> QED BY <1>1, <1>2, <1>3, PTL DEF FiguresSpec

-----------------------------------------------------------------------------
(* What a delivery ships. *)

\* The whole graph, and the cut of it the code writes.
GraphOf(s) == [s EXCEPT !.domain = Known(s)]

KeptYears == {r \in graphDir.cited : r.name \in ShippedNames}
KeptRows  == KeptYears \cup {r \in graphDir.evidence : IF r.kind = "isc" THEN r.name \in ShippedNames
                                                       ELSE r.root \in ShippedNames}
Shipment == [domain |-> {d \in graphDir.domain : d.name \in ShippedNames \cup {r.root : r \in KeptRows}},
             evidence |-> KeptRows, cited |-> KeptYears]

ListsInv ==
  /\ lstep \in {"export", "cut", "rebuild", "done"} /\ whole \in Holdings /\ hisFiles \in HisFiles
  /\ lstep # "export" => written = ListsOf(whole) /\ graphDir = GraphOf(whole)
  /\ lstep \in {"rebuild", "done"} => shippedDir = Shipment
  /\ lstep = "done" => rebuilt = shippedDir /\ rewritten = ListsOf(shippedDir)

\* No step writes what the lists are of.
LEMMA ListsStay ==
  ASSUME UNCHANGED <<whole, hisFiles, bars>>
  PROVE  ListsOf(whole)' = ListsOf(whole)
PROOF BY DEF ListsOf, Annual, Survey, Pool, Unverified, Header, Quarantined, MayShip, HisAll, Net,
             Claimed, PoolRoots, PoolLeaves, SurveyNames

LEMMA RewrittenStay ==
  ASSUME UNCHANGED <<shippedDir, hisFiles, bars>>
  PROVE  ListsOf(shippedDir)' = ListsOf(shippedDir)
PROOF BY DEF ListsOf, Annual, Survey, Pool, Unverified, Header, Quarantined, MayShip, HisAll, Net,
             Claimed, PoolRoots, PoolLeaves, SurveyNames

LEMMA ShipmentStays ==
  ASSUME UNCHANGED <<graphDir, written>>
  PROVE  Shipment' = Shipment
PROOF BY DEF Shipment, KeptYears, KeptRows, ShippedNames, OnLists

LEMMA GraphStays ==
  ASSUME UNCHANGED whole
  PROVE  GraphOf(whole)' = GraphOf(whole)
PROOF BY DEF GraphOf, Known

LEMMA ListsStep == ListsInv /\ [ListsNext]_listsVars => ListsInv'
PROOF
  <1> SUFFICES ASSUME ListsInv, [ListsNext]_listsVars PROVE ListsInv'
      OBVIOUS
  <1> USE DEF ListsInv
  <1>1. ASSUME WriteLists PROVE ListsInv'
    BY <1>1, ListsStay, GraphStays DEF WriteLists, GraphOf
  <1>2. ASSUME WriteShipped PROVE ListsInv'
    <2>1. shippedDir' = Shipment BY <1>2 DEF WriteShipped, Shipment, KeptYears, KeptRows
    <2> QED BY <1>2, <2>1, ListsStay, GraphStays, ShipmentStays DEF WriteShipped
  <1>3. ASSUME RebuildShipped PROVE ListsInv'
    BY <1>3, ListsStay, GraphStays, ShipmentStays, RewrittenStay DEF RebuildShipped
  <1>4. CASE UNCHANGED listsVars
    BY <1>4, ListsStay, GraphStays, ShipmentStays, RewrittenStay DEF listsVars
  <1> QED BY <1>1, <1>2, <1>3, <1>4 DEF ListsNext

-----------------------------------------------------------------------------
\* What the cut keeps of the store, row by row.
KeepsOf(s, c) ==
  /\ \A r : r \in c.cited <=> r \in s.cited /\ r.name \in ShippedNames
  /\ \A r : r \in c.evidence <=>
       \/ r \in c.cited
       \/ r \in s.evidence /\ IF r.kind = "isc" THEN r.name \in ShippedNames ELSE r.root \in ShippedNames
  /\ \A d : d \in c.domain <=>
       /\ d \in s.domain
       /\ d.by # "prior_task" \/ \E r \in s.evidence : r.root = d.name
       /\ d.name \in ShippedNames \/ \E r \in c.evidence : r.root = d.name

LEMMA ShipmentKeeps == ListsInv /\ lstep = "done" => KeepsOf(whole, shippedDir)
PROOF
  <1> SUFFICES ASSUME ListsInv, lstep = "done" PROVE KeepsOf(whole, shippedDir)
      OBVIOUS
  <1>1. shippedDir = Shipment /\ graphDir = GraphOf(whole) BY DEF ListsInv
  <1>2. whole \in Holding BY ListsAssumption DEF ListsInv
  <1>3. graphDir.cited = whole.cited /\ graphDir.evidence = whole.evidence /\ graphDir.domain = Known(whole)
    BY <1>1, <1>2 DEF GraphOf, Holding
  <1>4. /\ shippedDir.cited = KeptYears /\ shippedDir.evidence = KeptRows
        /\ shippedDir.domain = {d \in graphDir.domain : d.name \in ShippedNames \cup {r.root : r \in KeptRows}}
    BY <1>1 DEF Shipment
  <1> HIDE DEF Shipment
  <1>5. \A r : r \in shippedDir.cited <=> r \in whole.cited /\ r.name \in ShippedNames
    BY <1>3, <1>4 DEF KeptYears
  <1>6. \A r : r \in shippedDir.evidence <=>
          \/ r \in shippedDir.cited
          \/ r \in whole.evidence /\ IF r.kind = "isc" THEN r.name \in ShippedNames ELSE r.root \in ShippedNames
    BY <1>3, <1>4 DEF KeptRows
  <1>7. \A d : d \in shippedDir.domain <=>
          /\ d \in whole.domain
          /\ d.by # "prior_task" \/ \E r \in whole.evidence : r.root = d.name
          /\ d.name \in ShippedNames \/ \E r \in shippedDir.evidence : r.root = d.name
    BY <1>3, <1>4 DEF Known
  <1> QED BY <1>5, <1>6, <1>7 DEF KeepsOf

\* What the cut's names owe the lists.
NamesKept ==
  /\ OnLists(ListsOf(whole)) \subseteq ShippedNames
  /\ \A r \in whole.cited : r.name \in OnLists(ListsOf(whole)) \cap Leaf => r.root \in ShippedNames
  /\ shippedDir \in [domain : SUBSET [name : Root, by : {"ours", "prior_task"}],
                     evidence : SUBSET Rows, cited : SUBSET Rows]

LEMMA ShippedNamesListed == ListsInv /\ lstep = "done" => NamesKept
PROOF
  <1> SUFFICES ASSUME ListsInv, lstep = "done" PROVE NamesKept
      OBVIOUS
  <1>1. written = ListsOf(whole) /\ graphDir.cited = whole.cited
    BY ListsAssumption DEF ListsInv, GraphOf, Holding
  <1>2. OnLists(ListsOf(whole)) \subseteq ShippedNames BY <1>1 DEF ShippedNames
  <1>3. \A r \in whole.cited : r.name \in OnLists(ListsOf(whole)) \cap Leaf => r.root \in ShippedNames
    BY <1>1 DEF ShippedNames
  <1>4. whole \in Holding /\ KeepsOf(whole, shippedDir) /\ shippedDir = Shipment
    BY ShipmentKeeps, ListsAssumption DEF ListsInv
  <1>5. shippedDir = [domain |-> shippedDir.domain, evidence |-> shippedDir.evidence, cited |-> shippedDir.cited]
    BY <1>4 DEF Shipment
  <1>6. /\ shippedDir.cited \subseteq whole.cited
        /\ shippedDir.evidence \subseteq whole.evidence \cup whole.cited
        /\ shippedDir.domain \subseteq whole.domain
    BY <1>4 DEF KeepsOf
  <1>7. /\ whole.domain \subseteq [name : Root, by : {"ours", "prior_task"}]
        /\ whole.evidence \subseteq Rows /\ whole.cited \subseteq Rows
    BY <1>4 DEF Holding
  <1> QED BY <1>2, <1>3, <1>5, <1>6, <1>7 DEF NamesKept

\* What the two stores agree on: a name the lists hold has its years in the cut.
AgreeOn(s, c) ==
  /\ \A r \in c.cited : r \in s.cited
  /\ \A n \in ShippedNames : \A r \in s.cited : r.name = n => r \in c.cited
  /\ \A n \in ShippedNames : Claimed(s, n) <=> Claimed(c, n)

LEMMA StoresAgree == ListsInv /\ lstep = "done" => AgreeOn(whole, shippedDir)
PROOF BY ShipmentKeeps DEF KeepsOf, AgreeOn, Claimed

LEMMA ListedNames ==
  ASSUME NEW s
  PROVE  /\ \A r \in Annual(s) \cup Quarantined(s) \cup Header(s) : r.name \in OnLists(ListsOf(s))
         /\ \A i \in Survey(s) : i[1] \in OnLists(ListsOf(s))
         /\ Pool(s) \cup Unverified(s) \subseteq OnLists(ListsOf(s))
PROOF
  <1>1. /\ ListsOf(s).annual = Annual(s) /\ ListsOf(s).isc = Survey(s) /\ ListsOf(s).pool = Pool(s)
        /\ ListsOf(s).unverified = Unverified(s) /\ ListsOf(s).header = Header(s)
        /\ ListsOf(s).quarantined = Quarantined(s)
    BY DEF ListsOf
  <1> QED BY <1>1 DEF OnLists

LEMMA AnnualRebuilds == ListsInv /\ lstep = "done" => Annual(shippedDir) = Annual(whole)
PROOF
  <1> SUFFICES ASSUME ListsInv, lstep = "done" PROVE Annual(shippedDir) = Annual(whole)
      OBVIOUS
  <1>1. NamesKept /\ AgreeOn(whole, shippedDir) BY ShippedNamesListed, StoresAgree
  <1>2. \A r \in Annual(whole) : r.name \in ShippedNames BY <1>1, ListedNames DEF NamesKept
  <1> QED BY <1>1, <1>2 DEF Annual, AgreeOn

LEMMA QuarantineRebuilds == ListsInv /\ lstep = "done" => Quarantined(shippedDir) = Quarantined(whole)
PROOF
  <1> SUFFICES ASSUME ListsInv, lstep = "done" PROVE Quarantined(shippedDir) = Quarantined(whole)
      OBVIOUS
  <1>1. NamesKept /\ AgreeOn(whole, shippedDir) BY ShippedNamesListed, StoresAgree
  <1>2. \A r \in Quarantined(whole) : r.name \in ShippedNames BY <1>1, ListedNames DEF NamesKept
  <1> QED BY <1>1, <1>2 DEF Quarantined, AgreeOn

\* A survey row, freed of the names of his and of our tables.
IsSurveyed(s, r) ==
  /\ r \in s.evidence /\ r.kind = "isc" /\ MayShip(r.name, r.year)
  /\ r.name \notin hisFiles.candidates /\ r.name \notin HisAll
  /\ \A q \in s.cited : q.name # r.name

LEMMA SurveyRows ==
  ASSUME NEW s
  PROVE  \A i : i \in Survey(s) <=> \E r : IsSurveyed(s, r) /\ i = <<r.name, r.year>>
PROOF BY DEF Survey, IsSurveyed, Net

LEMMA SurveyRebuilds == ListsInv /\ lstep = "done" => Survey(shippedDir) = Survey(whole)
PROOF
  <1> SUFFICES ASSUME ListsInv, lstep = "done" PROVE Survey(shippedDir) = Survey(whole)
      OBVIOUS
  <1>1. /\ NamesKept /\ AgreeOn(whole, shippedDir) /\ KeepsOf(whole, shippedDir)
        /\ \A r \in whole.cited : r.kind # "isc"
    BY ShippedNamesListed, StoresAgree, ShipmentKeeps, ListsAssumption DEF ListsInv
  <1>2. ASSUME NEW r, IsSurveyed(whole, r) PROVE IsSurveyed(shippedDir, r)
    <2>1. <<r.name, r.year>> \in Survey(whole) BY <1>2, SurveyRows
    <2>2. r.name \in ShippedNames BY <1>1, <2>1, ListedNames DEF NamesKept
    <2> QED BY <1>1, <1>2, <2>2 DEF IsSurveyed, KeepsOf, AgreeOn
  <1>3. ASSUME NEW r, IsSurveyed(shippedDir, r) PROVE IsSurveyed(whole, r)
    <2>1. r \in whole.evidence /\ r.name \in ShippedNames
      BY <1>1, <1>3 DEF IsSurveyed, KeepsOf, AgreeOn
    <2> QED BY <1>1, <1>3, <2>1 DEF IsSurveyed, AgreeOn
  <1>4. \A i : i \in Survey(shippedDir) <=> i \in Survey(whole) BY <1>2, <1>3, SurveyRows
  <1> QED BY <1>4 DEF Survey

\* A registrable without a claimed year, free of the names of his.
IsPooled(s, d) ==
  /\ d \in s.domain /\ ~Claimed(s, d.name) /\ MayShip(d.name, 0)
  /\ d.name \notin hisFiles.candidates /\ d.name \notin HisAll

LEMMA PooledRoots ==
  ASSUME NEW s
  PROVE  \A n : n \in PoolRoots(s) <=> \E d : IsPooled(s, d) /\ n = d.name
PROOF BY DEF PoolRoots, IsPooled, Net

\* A registrable with no year at all.
IsUndated(s, d) == IsPooled(s, d) /\ \A r \in s.cited : r.name # d.name

LEMMA UndatedRoots ==
  ASSUME NEW s
  PROVE  \A n : n \in Unverified(s) <=> \E d : IsUndated(s, d) /\ n = d.name
PROOF BY DEF Unverified, IsUndated, IsPooled, Net, Claimed

LEMMA PooledLeaves ==
  ASSUME NEW s
  PROVE  \A n : n \in PoolLeaves(s) <=>
           \E r \in s.cited : /\ n = r.name /\ n \in Leaf /\ ~Claimed(s, n) /\ MayShip(n, r.year)
                              /\ n \notin hisFiles.candidates /\ n \notin HisAll
PROOF BY DEF PoolLeaves, Net

LEMMA LeavesRebuild == ListsInv /\ lstep = "done" => PoolLeaves(shippedDir) = PoolLeaves(whole)
PROOF
  <1> SUFFICES ASSUME ListsInv, lstep = "done" PROVE PoolLeaves(shippedDir) = PoolLeaves(whole)
      OBVIOUS
  <1>1. NamesKept /\ AgreeOn(whole, shippedDir) /\ KeepsOf(whole, shippedDir)
    BY ShippedNamesListed, StoresAgree, ShipmentKeeps
  <1>2. \A n \in PoolLeaves(whole) : n \in ShippedNames BY <1>1, ListedNames DEF NamesKept, Pool
  <1>3. \A n : n \in PoolLeaves(shippedDir) <=> n \in PoolLeaves(whole)
    BY <1>1, <1>2, PooledLeaves DEF AgreeOn, KeepsOf
  <1> QED BY <1>3 DEF PoolLeaves, Net

\* A registrable the cut holds under a name the lists do not: its web years are barred.
LEMMA HeldUntimely ==
  ASSUME ListsInv, lstep = "done", NEW d, IsPooled(shippedDir, d), Claimed(whole, d.name)
  PROVE  d.name \in Untimely
PROOF
  <1>1. /\ NamesKept /\ AgreeOn(whole, shippedDir) /\ KeepsOf(whole, shippedDir)
        /\ whole \in Holding /\ hisFiles.annual \in [Span -> SUBSET Anyone]
        /\ \A r \in whole.evidence : r.root = Over(r.name)
        /\ written = ListsOf(whole) /\ \A r \in whole.cited : r \in whole.evidence /\ r \in Rows
    BY ShippedNamesListed, StoresAgree, ShipmentKeeps, ListsAssumption DEF ListsInv, Holding
  <1>2. d.name \notin ShippedNames /\ d.name \in Root
    BY <1>1 DEF IsPooled, AgreeOn, NamesKept
  <1>3. ASSUME NEW r \in whole.cited, r.name = d.name, r.kind = "web", MayShip(d.name, r.year)
        PROVE  FALSE
    <2>1. r.year \in Span BY <1>1 DEF Rows
    <2>2. r.name \notin hisFiles.annual[r.year] BY <1>3, <2>1 DEF IsPooled, HisAll
    <2>3. r \in Annual(whole) BY <1>3, <2>2 DEF Annual
    <2> QED BY <1>1, <1>2, <1>3, <2>3, ListedNames DEF NamesKept
  <1>4. ASSUME NEW r \in whole.cited, r.root = d.name, r.name \in OnLists(written) PROVE FALSE
    <2>1. CASE r.name \in Leaf BY <1>1, <1>2, <1>4, <2>1 DEF NamesKept
    <2>2. CASE r.name \in Root
      <3>1. r.name = d.name BY <1>1, <1>4, <2>2 DEF Over
      <3> QED BY <1>1, <1>2, <1>4, <3>1 DEF NamesKept
    <2> QED BY <1>1, <2>1, <2>2 DEF Rows, Anyone
  <1> QED BY <1>2, <1>3, <1>4 DEF Untimely

\* Else it was in the pool of the store, and so shipped by its name.
LEMMA HeldIsPooled ==
  ASSUME ListsInv, lstep = "done", NEW d, IsPooled(shippedDir, d), d.name \notin Untimely
  PROVE  IsPooled(whole, d) /\ d.name \in ShippedNames /\ d \in Known(whole)
PROOF
  <1>1. KeepsOf(whole, shippedDir) /\ NamesKept BY ShipmentKeeps, ShippedNamesListed
  <1>2. d \in whole.domain /\ d \in Known(whole) BY <1>1 DEF IsPooled, KeepsOf, Known
  <1>3. ~Claimed(whole, d.name) BY HeldUntimely
  <1>4. IsPooled(whole, d) BY <1>2, <1>3 DEF IsPooled
  <1>5. d.name \in PoolRoots(whole) BY <1>4, PooledRoots
  <1> QED BY <1>1, <1>2, <1>4, <1>5, ListedNames DEF NamesKept, Pool

LEMMA PooledIsHeld ==
  ASSUME ListsInv, lstep = "done", NEW d, IsPooled(whole, d), d.name \notin Orphans
  PROVE  IsPooled(shippedDir, d) /\ d.name \in ShippedNames /\ d.name \notin Untimely
PROOF
  <1>1. KeepsOf(whole, shippedDir) /\ NamesKept /\ AgreeOn(whole, shippedDir)
    BY ShipmentKeeps, ShippedNamesListed, StoresAgree
  <1>2. d.name \in PoolRoots(whole) BY PooledRoots
  <1>3. d.name \in ShippedNames BY <1>1, <1>2, ListedNames DEF NamesKept, Pool
  <1>4. d \in Known(whole) BY DEF Orphans, Net, IsPooled
  <1>5. d \in shippedDir.domain BY <1>1, <1>3, <1>4 DEF KeepsOf, Known
  <1> QED BY <1>1, <1>3, <1>5 DEF IsPooled, AgreeOn, Untimely

\* No orphan is known: the store has one row of a registrable.
LEMMA KnownIsNoOrphan ==
  ASSUME ListsInv, NEW d \in Known(whole)
  PROVE  d.name \notin Orphans
PROOF
  <1>1. \A e \in whole.domain : e.name = d.name => e = d BY ListsAssumption DEF ListsInv, Known
  <1> QED BY <1>1 DEF Orphans, Net

LEMMA SurveyUnpooled ==
  ASSUME ListsInv, lstep = "done"
  PROVE  /\ SurveyNames(shippedDir) = SurveyNames(whole)
         /\ \A n \in SurveyNames(whole) : n \notin Untimely /\ n \notin Orphans
         /\ \A n \in PoolLeaves(whole) : n \notin Untimely /\ n \notin Orphans
PROOF
  <1>1. SurveyNames(shippedDir) = SurveyNames(whole) BY SurveyRebuilds DEF SurveyNames
  <1>2. /\ whole \in Holding /\ Root \cap Leaf = {} /\ \A r \in whole.evidence : r.root = Over(r.name)
    BY ListsAssumption DEF ListsInv
  <1>3. Orphans \subseteq Root /\ Untimely \subseteq Root
    BY <1>2 DEF Orphans, Untimely, Net, Holding
  <1>4. ASSUME NEW n \in SurveyNames(whole) PROVE n \notin Untimely /\ n \notin Orphans
    <2>1. PICK r : IsSurveyed(whole, r) /\ r.name = n BY <1>4, SurveyRows DEF SurveyNames
    <2>2. ~Claimed(whole, n) BY <2>1 DEF IsSurveyed, Claimed
    <2>3. n \in Orphans => n \in Root /\ r.root = n BY <1>2, <1>3, <2>1 DEF Over, IsSurveyed
    <2>4. n \notin Orphans
      <3> SUFFICES ASSUME n \in Orphans PROVE FALSE
          OBVIOUS
      <3>1. PICK d \in whole.domain \ Known(whole) : d.name = n BY DEF Orphans, Net
      <3> QED BY <2>1, <2>3, <3>1 DEF Known, IsSurveyed
    <2> QED BY <2>2, <2>4 DEF Untimely
  <1>5. \A n \in PoolLeaves(whole) : n \in Leaf BY PooledLeaves
  <1> QED BY <1>1, <1>2, <1>3, <1>4, <1>5

LEMMA PoolRebuilds ==
  ListsInv /\ lstep = "done" => Pool(shippedDir) \ Untimely = Pool(whole) \ Orphans
PROOF
  <1> SUFFICES ASSUME ListsInv, lstep = "done", NEW n
               PROVE  n \in Pool(shippedDir) \ Untimely <=> n \in Pool(whole) \ Orphans
      BY DEF Pool
  <1>1. ASSUME n \in PoolRoots(shippedDir), n \notin Untimely PROVE n \in PoolRoots(whole) \ Orphans
    <2>1. PICK d : IsPooled(shippedDir, d) /\ n = d.name BY <1>1, PooledRoots
    <2> QED BY <1>1, <2>1, HeldIsPooled, KnownIsNoOrphan, PooledRoots
  <1>2. ASSUME n \in PoolRoots(whole), n \notin Orphans PROVE n \in PoolRoots(shippedDir) \ Untimely
    <2>1. PICK d : IsPooled(whole, d) /\ n = d.name BY <1>2, PooledRoots
    <2> QED BY <1>2, <2>1, PooledIsHeld, PooledRoots
  <1> QED BY <1>1, <1>2, SurveyUnpooled, LeavesRebuild DEF Pool

LEMMA UndatedRebuild ==
  ListsInv /\ lstep = "done" => Unverified(shippedDir) \ Untimely = Unverified(whole) \ Orphans
PROOF
  <1> SUFFICES ASSUME ListsInv, lstep = "done", NEW n
               PROVE  n \in Unverified(shippedDir) \ Untimely <=> n \in Unverified(whole) \ Orphans
      BY DEF Unverified, Net
  <1>1. AgreeOn(whole, shippedDir) BY StoresAgree
  <1>2. ASSUME n \in Unverified(shippedDir), n \notin Untimely PROVE n \in Unverified(whole) \ Orphans
    <2>1. PICK d : IsUndated(shippedDir, d) /\ n = d.name BY <1>2, UndatedRoots
    <2>2. IsPooled(whole, d) /\ d.name \in ShippedNames /\ d \in Known(whole)
      BY <1>2, <2>1, HeldIsPooled DEF IsUndated
    <2>3. IsUndated(whole, d) BY <1>1, <2>1, <2>2 DEF IsUndated, AgreeOn
    <2> QED BY <2>1, <2>2, <2>3, UndatedRoots, KnownIsNoOrphan
  <1>3. ASSUME n \in Unverified(whole), n \notin Orphans PROVE n \in Unverified(shippedDir) \ Untimely
    <2>1. PICK d : IsUndated(whole, d) /\ n = d.name BY <1>3, UndatedRoots
    <2>2. IsPooled(shippedDir, d) /\ d.name \notin Untimely BY <1>3, <2>1, PooledIsHeld DEF IsUndated
    <2>3. IsUndated(shippedDir, d) BY <1>1, <2>1, <2>2 DEF IsUndated, AgreeOn
    <2> QED BY <2>1, <2>2, <2>3, UndatedRoots
  <1> QED BY <1>2, <1>3

LEMMA HeaderRebuilds == ListsInv /\ lstep = "done" => Header(shippedDir) = Header(whole)
PROOF
  <1> SUFFICES ASSUME ListsInv, lstep = "done" PROVE Header(shippedDir) = Header(whole)
      OBVIOUS
  <1>1. AgreeOn(whole, shippedDir) /\ NamesKept /\ Root \cap Leaf = {}
    BY StoresAgree, ShippedNamesListed, ListsAssumption
  <1>2. \A n \in Leaf : n \notin Orphans /\ n \notin Untimely
    BY <1>1, ListsAssumption DEF Orphans, Untimely, Net, ListsInv, Holding
  <1>3. Pool(shippedDir) \cap Leaf = Pool(whole) \cap Leaf BY <1>2, PoolRebuilds
  <1>4. \A n \in Pool(whole) : n \in ShippedNames BY <1>1, ListedNames DEF NamesKept
  <1> QED BY <1>1, <1>3, <1>4 DEF Header, AgreeOn

(***************************************************************************)
(* Of any store, his files and what may not ship: the lists of the store   *)
(* rebuilt over the cut are those it was cut by, but for the two kinds of  *)
(* registrables the property names (provenance.py:133-137).                *)
(***************************************************************************)
THEOREM ShippedListsRebuild == ListsSpec => []ShippedRebuilds
PROOF
  <1>1. ListsInit => ListsInv BY DEF ListsInit, ListsInv
  <1>2. ListsInv /\ [ListsNext]_listsVars => ListsInv' BY ListsStep
  <1>3. ListsInv => ShippedRebuilds
    <2> SUFFICES ASSUME ListsInv, lstep = "done"
                 PROVE  /\ rewritten.annual = written.annual /\ rewritten.isc = written.isc
                        /\ rewritten.header = written.header /\ rewritten.quarantined = written.quarantined
                        /\ rewritten.pool \ Untimely = written.pool \ Orphans
                        /\ rewritten.unverified \ Untimely = written.unverified \ Orphans
                        /\ rebuilt.cited \subseteq rebuilt.evidence
                        /\ \A r \in rebuilt.evidence : \E d \in rebuilt.domain : d.name = r.root
        BY DEF ShippedRebuilds
    <2>1. written = ListsOf(whole) /\ rewritten = ListsOf(shippedDir) /\ rebuilt = shippedDir
      BY DEF ListsInv
    <2>2. /\ ListsOf(whole).annual = Annual(whole) /\ ListsOf(shippedDir).annual = Annual(shippedDir)
          /\ ListsOf(whole).isc = Survey(whole) /\ ListsOf(shippedDir).isc = Survey(shippedDir)
          /\ ListsOf(whole).pool = Pool(whole) /\ ListsOf(shippedDir).pool = Pool(shippedDir)
          /\ ListsOf(whole).unverified = Unverified(whole)
          /\ ListsOf(shippedDir).unverified = Unverified(shippedDir)
          /\ ListsOf(whole).header = Header(whole) /\ ListsOf(shippedDir).header = Header(shippedDir)
          /\ ListsOf(whole).quarantined = Quarantined(whole)
          /\ ListsOf(shippedDir).quarantined = Quarantined(shippedDir)
      BY DEF ListsOf
    <2>3. KeepsOf(whole, shippedDir) BY ShipmentKeeps
    <2>4. ASSUME NEW r \in shippedDir.evidence PROVE \E d \in shippedDir.domain : d.name = r.root
      <3>1. r \in whole.evidence BY <2>3, ListsAssumption DEF KeepsOf, ListsInv
      <3>2. PICK d \in whole.domain : d.name = r.root BY <3>1, ListsAssumption DEF ListsInv
      <3> QED BY <2>3, <2>4, <3>1, <3>2 DEF KeepsOf
    <2>5. shippedDir.cited \subseteq shippedDir.evidence BY <2>3 DEF KeepsOf
    <2> QED BY <2>1, <2>2, <2>4, <2>5, AnnualRebuilds, SurveyRebuilds, HeaderRebuilds,
              QuarantineRebuilds, PoolRebuilds, UndatedRebuild
  <1> QED BY <1>1, <1>2, <1>3, PTL DEF ListsSpec
=============================================================================
