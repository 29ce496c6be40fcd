----------------------------- MODULE MCReleases -----------------------------
(***************************************************************************)
(* What comes in and what goes out: the release intake, the figures and    *)
(* the claim, the price and its snapshot, the lists of an export, the      *)
(* round's package, and the files kept off the machine. They share no      *)
(* state: a behaviour is of one component, and the others rest.            *)
(***************************************************************************)
EXTENDS Retention, Snapshot, Price, Ship, Intake, Figures, Lists

\* The sources of a staged snapshot, the second one made late.
MCOrder == <<"his", "late">>

\* Two archives of one marker and one of the next; the last file is a candidate file.
Zips    == 1..3
Marks   == [a \in Zips |-> IF a = 3 THEN "next" ELSE "first"]
Listing == <<"1996", "2001", "pool">>

\* 1: a registrable, 2 and 3 beneath it, 4: a registrable of its own, 5: no name that ships.
MCParentOf == <<1, 1, 1, 4, Rejected>>
I(shape, st, y, p, hosts, prose) ==
  [shape |-> shape, status |-> st, year |-> y, at |-> p, field |-> hosts, text |-> prose]
MCItems ==
  {I("junk", "none", "none", 0, {}, {}),
   I("capture", "odd", "year", 1, {2}, {}), I("capture", "ok", "bad", 0, {2}, {}),
   I("capture", "ok", "year", 1, {2}, {3}), I("capture", "error", "year", 2, {4}, {}),
   I("capture", "ok", "year", 3, {2}, {4}), I("capture", "none", "year", 3, {4}, {}),
   I("item", "none", "year", 1, {}, {2, 3, 4}), I("item", "odd", "year", 2, {3}, {4, 5}),
   I("item", "none", "none", 0, {4}, {2}), I("item", "none", "bad", 0, {4}, {}),
   I("item", "ok", "year", 9, {3}, {})}
In(a, b, c) == <<a, b, c>>
MCReleasesOf ==
  {[his |-> In({1}, {4}, {}), ours |-> In({}, {}, {2}), attested |-> In({}, {4}, {}), pool |-> {3},
    unshippable |-> {<<3, 1>>, <<4, 0>>}, late |-> {3}],
   [his |-> In({4}, {}, {}), ours |-> In({3}, {}, {}), attested |-> In({1}, {}, {}), pool |-> {2},
    unshippable |-> {<<4, 2>>, <<2, 3>>}, late |-> {3}],
   [his |-> In({}, {}, {}), ours |-> In({}, {1, 3}, {}), attested |-> In({}, {}, {}), pool |-> {},
    unshippable |-> {}, late |-> {}]}

\* A registrable and two hostnames; what each year of the first two cites, and what the survey
\* quotes.
Leaves == {"h", "i"}
Roots  == [l \in Leaves |-> "d"]
Rec(n, y, kind) == [name |-> n, root |-> "d", year |-> y, kind |-> kind]
Cites(n, kinds) ==
  {{Rec(n, y, f[y]) : y \in {z \in 1..2 : f[z] # "none"}} : f \in [1..2 -> {"none"} \cup kinds]}
Surveys == {{}, {Rec("i", 1, "isc")}, {Rec("i", 1, "isc"), Rec("h", 1, "isc")},
            {Rec("i", 2, "isc"), Rec("h", 1, "isc")}}
Stores == {[domain |-> {[name |-> "d", by |-> b]}, evidence |-> d \cup h \cup i, cited |-> d \cup h] :
             b \in {"ours", "prior_task"}, d \in Cites("d", {"web", "header"}),
             h \in Cites("h", {"web", "error", "header"}), i \in Surveys}

\* His files hold a name in the first year, in their candidates (0) or nowhere (9).
HisOf(where) == [annual |-> [y \in 1..2 |-> {n \in DOMAIN where : where[n] = y}],
                 candidates |-> {n \in DOMAIN where : where[n] = 0}]
HisChoices == {HisOf([d |-> a, h |-> b, i |-> c]) : a \in {9, 1, 0}, b \in {9, 1}, c \in {9, 0}}
Barred == {{}, {"d", "h", "i"} \X {1}, {"d", "h", "i"} \X (0..2)}

VARIABLE component   \* whose behaviour this is

MCInit ==
  /\ component \in {"retention", "snapshot", "price", "ship", "intake", "figures", "lists"}
  /\ IF component = "retention" THEN TRUE
     ELSE /\ onDisk = [f \in KeptFile |-> IF f \in (CHOOSE s \in Scenes : TRUE) THEN 1 ELSE GoneFile]
  /\ IF component = "price" THEN TRUE
     ELSE /\ track = "annual"
          /\ split = "auto"
          /\ unread = <<>>
          /\ hisRelease = CHOOSE r \in Releases : TRUE
  /\ IF component = "lists" THEN TRUE
     ELSE /\ whole = (CHOOSE s \in Holdings : TRUE)
          /\ hisFiles = (CHOOSE r \in HisFiles : TRUE)
          /\ bars = {}
  /\ RetentionInit
  /\ SnapshotInit
  /\ PriceInit
  /\ ShipInit
  /\ IntakeInit
  /\ FiguresInit
  /\ ListsInit

othersVars == <<retentionVars, snapshotVars, priceVars, shipVars, intakeVars, figuresVars>>

\* Of what a staging, a pass of retention and a ship meet, edits, drifts, kills, arrivals, pulls
\* and retractions, so many at most.
MCNext ==
  \/ /\ component = "retention" /\ RetentionNext /\ writes' + drift' + passKills' <= 2
     /\ UNCHANGED <<component, snapshotVars, priceVars, shipVars, intakeVars, figuresVars, listsVars>>
  \/ /\ component = "snapshot" /\ SnapshotNext /\ sourceEdits' + stageKills' <= 2
     /\ UNCHANGED <<component, retentionVars, priceVars, shipVars, intakeVars, figuresVars, listsVars>>
  \/ /\ component = "price" /\ PriceNext
     /\ UNCHANGED <<component, retentionVars, snapshotVars, shipVars, intakeVars, figuresVars, listsVars>>
  \/ /\ component = "ship" /\ ShipNext
     /\ book'.led + book'.facts + pulls' + ships' <= 5
     /\ UNCHANGED <<component, retentionVars, snapshotVars, priceVars, intakeVars, figuresVars, listsVars>>
  \/ /\ component = "intake" /\ IntakeNext
     /\ UNCHANGED <<component, retentionVars, snapshotVars, priceVars, shipVars, figuresVars, listsVars>>
  \/ /\ component = "figures" /\ FiguresNext
     /\ UNCHANGED <<component, retentionVars, snapshotVars, priceVars, shipVars, intakeVars, listsVars>>
  \/ /\ component = "lists" /\ ListsNext
     /\ UNCHANGED <<component, othersVars>>

allVars == <<component, othersVars, listsVars>>

MCSpec == MCInit /\ [][MCNext]_allVars
=============================================================================
