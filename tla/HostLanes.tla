----------------------------- MODULE HostLanes -----------------------------
(***************************************************************************)
(* The hostname lanes that read a finished artifact: the nameserver        *)
(* targets of an InterNIC zone, the hosts of the squidGuard and chastity   *)
(* blocklists, the nameservers of two RIPE databases and the hosts of the  *)
(* ISC survey.  Each file is read once, under its name, in a transaction   *)
(* of its own; one command holds the store at a time.                      *)
(*                                                                         *)
(* Every host is of one parent; Other is no host of it.                    *)
(* A line is [kind, name, year].                                           *)
(***************************************************************************)
EXTENDS Naturals, Sequences, FiniteSets

CONSTANTS LaneHosts, Other,   \* what a line may name; Other is an address or the parent itself
          MaxFileLines,       \* bound: lines of the file the registry's changes are read from
          MaxFiles        \* bound: files that land

ASSUME HostLanesAssumption ==
  /\ Other \notin LaneHosts
  /\ MaxFileLines \in Nat \ {0} /\ MaxFiles \in Nat

YEARS == 1996..2001
Lanes == {"zone_1997", "zone_1999", "squidguard", "squidguard_diff", "chastity",
          "ripe_snapshot", "ripe_changed", "isc"}

\* The source row of a lane; a 1999 zone stands on a decision of its own.
SourceOf(lane) ==
  CASE lane = "zone_1997" -> "internic_zone_hostnames"
    [] lane = "zone_1999" -> "internic_zone_hostnames_1999"
    [] lane \in {"squidguard", "squidguard_diff"} -> "squidguard_2001_hostnames"
    [] lane = "chastity" -> "chastity_list_hostnames"
    [] lane \in {"ripe_snapshot", "ripe_changed"} -> "ripe_nserver_hostnames"
    [] lane = "isc" -> "isc_survey_hostnames"
ClassOf(lane) == IF lane = "chastity" THEN "dated_directory" ELSE "artifact_listing"
LaneSources == {SourceOf(lane) : lane \in Lanes}
WEB_FACING_HOST_SOURCES == {"squidguard_2001_hostnames", "chastity_list_hostnames"}

VARIABLES
  files,     \* lane -> the lines of its file, none before it lands
  approved,  \* sources with a Decision: master line
  attested,  \* the parent is dated, by a pair of ours or a name of his
  evidence,  \* rows [host, year, lane]
  hostYears, \* the rows that hostname years cite
  laneLedger,    \* lanes whose file is ingested
  parked     \* host-years a hand-kept list named and the split left out

hostLanesVars == <<files, approved, attested, evidence, hostYears, laneLedger, parked>>

Line(kinds, names, years) == [kind : kinds, name : names, year : years]
HostYear(h, y) == [host |-> h, year |-> y]
HostYears == [host : LaneHosts, year : YEARS]
LaneRows  == [host : LaneHosts, year : YEARS, lane : Lanes]

HostLanesTypeOK ==
  /\ DOMAIN files = Lanes /\ approved \subseteq LaneSources /\ attested \in BOOLEAN
  /\ evidence \subseteq LaneRows /\ hostYears \subseteq evidence
  /\ laneLedger \subseteq Lanes /\ parked \subseteq HostYears
-----------------------------------------------------------------------------
(* The readers: the host-years a file states.  A registrable and an address are no hosts. *)

\* The lines at these places that name a host, in one year.
Kept(lines, at, kind, year) ==
  {HostYear(lines[i].name, year) :
     i \in {j \in at : lines[j].kind = kind /\ lines[j].name \in LaneHosts /\ year \in YEARS}}

\* Where the first stamp is, 0 without one.
StampAt(lines) ==
  LET at == {i \in DOMAIN lines : lines[i].kind = "stamp"}
  IN  IF at = {} THEN 0 ELSE CHOOSE i \in at : \A j \in at : i <= j
StampYear(lines) == IF StampAt(lines) = 0 THEN 0 ELSE lines[StampAt(lines)].year

\* The SOA serial, the compile stamp or the survey's month dates the whole file.
zone_ns_targets(lines)  == Kept(lines, DOMAIN lines, "ns", StampYear(lines))
squidguard_hosts(lines) == Kept(lines, DOMAIN lines, "bare", StampYear(lines))
isc_survey_hosts(lines) == Kept(lines, DOMAIN lines, "host", StampYear(lines))

\* A diff is dated by its name, which the stamp stands for; only what it adds counts.
squidguard_diff(lines)  == Kept(lines, DOMAIN lines, "added", StampYear(lines))

\* A dump's stamp dates what follows it.
ripe_snapshot_nservers(lines) ==
  Kept(lines, {i \in DOMAIN lines : i > StampAt(lines)}, "ns", StampYear(lines))

\* A member of the tarball has a stamp of its own, which its lines carry; the
\* webmail category is not read.
chastity_members(lines) ==
  UNION {Kept(lines, {i}, "bare", lines[i].year) : i \in DOMAIN lines}

\* The lines of the object that opens at i, up to the next.
Object(lines, i) ==
  {j \in DOMAIN lines : j > i /\ \A k \in i + 1..j : lines[k].kind # "domain"}

\* Mutant: an object is dated by the last of its changed: lines.
MutChangedYear(lines, i) ==
  LET at == {j \in Object(lines, i) : lines[j].kind = "changed"}
  IN  IF at = {} THEN 0 ELSE lines[CHOOSE j \in at : \A k \in at : k <= j].year

\* The latest of its changed: lines dates an object, in or out of the window.
ChangedYear(lines, i) ==
  LET years == {lines[j].year : j \in {k \in Object(lines, i) : lines[k].kind = "changed"}}
  IN  IF years = {} THEN 0 ELSE CHOOSE y \in years : \A z \in years : z <= y

ripe_changed_nservers(lines) ==
  UNION {Kept(lines, Object(lines, i), "nserver", ChangedYear(lines, i)) :
           i \in {j \in DOMAIN lines : lines[j].kind = "domain"}}

States(lane, lines) ==
  CASE lane \in {"zone_1997", "zone_1999"} -> zone_ns_targets(lines)
    [] lane = "squidguard" -> squidguard_hosts(lines)
    [] lane = "squidguard_diff" -> squidguard_diff(lines)
    [] lane = "chastity" -> chastity_members(lines)
    [] lane = "ripe_snapshot" -> ripe_snapshot_nservers(lines)
    [] lane = "ripe_changed" -> ripe_changed_nservers(lines)
    [] lane = "isc" -> isc_survey_hosts(lines)
-----------------------------------------------------------------------------
(* The files that may land: a stamp, in the window or past it, before or after a line. *)

Stamped(years, kinds) ==
  LET stamps == Line({"stamp"}, {Other}, years \cup {2002})
      lines  == Line(kinds, LaneHosts \cup {Other}, {0})
  IN  {<<s, l>> : s \in stamps, l \in lines} \cup {<<l, s>> : s \in stamps, l \in lines}

TarMembers == Line({"bare"}, LaneHosts \cup {Other}, {2001, 2002}) \cup Line({"mail"}, LaneHosts, {2001})

\* An object opens, then lines of it or of the next.
Databases ==
  LET lines == Line({"domain"}, {Other}, {0}) \cup Line({"nserver"}, LaneHosts, {0})
                 \cup Line({"changed"}, {Other}, {1999, 2001, 2002})
  IN  {<<[kind |-> "domain", name |-> Other, year |-> 0]>> \o rest :
         rest \in UNION {[1..n -> lines] : n \in 0..MaxFileLines - 1}}

LaneForms(lane) ==
  CASE lane = "zone_1997" -> Stamped({1997}, {"ns"})
    [] lane = "zone_1999" -> Stamped({1999}, {"ns"})
    [] lane = "squidguard" -> Stamped({2001}, {"bare"})
    [] lane = "squidguard_diff" -> Stamped({2001}, {"added", "removed"})
    [] lane = "chastity" -> [1..2 -> TarMembers]
    [] lane = "ripe_snapshot" -> Stamped({1999}, {"ns"})
    [] lane = "ripe_changed" -> Databases
    [] lane = "isc" -> Stamped({1997, 1999}, {"host"})

HostLanesInit ==
  /\ files = [lane \in Lanes |-> <<>>]
  /\ approved = LaneSources \ {"internic_zone_hostnames_1999"}
  /\ attested = FALSE /\ evidence = {} /\ hostYears = {} /\ laneLedger = {} /\ parked = {}

Land(lane) ==
  /\ files[lane] = <<>> /\ Cardinality({l \in Lanes : files[l] # <<>>}) < MaxFiles
  /\ \E lines \in LaneForms(lane) : files' = [files EXCEPT ![lane] = lines]
  /\ UNCHANGED <<approved, attested, evidence, hostYears, laneLedger, parked>>

Approve ==
  /\ approved # LaneSources
  /\ approved' = LaneSources
  /\ UNCHANGED <<files, attested, evidence, hostYears, laneLedger, parked>>

DateParent ==
  /\ ~attested
  /\ attested' = TRUE
  /\ UNCHANGED <<files, approved, evidence, hostYears, laneLedger, parked>>
-----------------------------------------------------------------------------
(* ingest_zone_hostnames, ingest_blocklist_hostnames, ingest_ripe_nserver_hostnames and  *)
(* ingest_isc_hostnames, each a transaction.                                             *)

\* A class keeps one row that names a host in a year, from any source.
Fresh(lane, stated) ==
  {[host |-> s.host, year |-> s.year, lane |-> lane] :
     s \in {t \in stated : \A r \in evidence :
              r.host # t.host \/ r.year # t.year \/ ClassOf(r.lane) # ClassOf(lane)}}

\* What a row dates: a web-facing source's host, unless its year has a row already.
DatedBy(fresh) ==
  hostYears \cup {r \in fresh : /\ SourceOf(r.lane) \in WEB_FACING_HOST_SOURCES
                               /\ \A c \in hostYears : c.host # r.host \/ c.year # r.year}

\* A file waits under its name; its source needs its decision.
Queued(lane) == files[lane] # <<>> /\ lane \notin laneLedger /\ SourceOf(lane) \in approved

\* The rows, the years and the ledger's line commit together.
File(lane, stated) ==
  /\ evidence' = evidence \cup Fresh(lane, stated)
  /\ hostYears' = DatedBy(Fresh(lane, stated))
  /\ laneLedger' = laneLedger \cup {lane}
  /\ UNCHANGED <<files, approved, attested>>

\* A zone or a survey outside the window is left before the ledger.
IngestZone(lane) ==
  /\ Queued(lane) /\ StampYear(files[lane]) \in YEARS
  /\ File(lane, zone_ns_targets(files[lane]))
  /\ UNCHANGED parked

IngestSquidguard(lane) ==
  /\ Queued(lane)
  /\ File(lane, States(lane, files[lane]))
  /\ UNCHANGED parked

\* The hand-kept list takes the split: its hosts count under a parent that is dated.
IngestChastity ==
  LET stated == chastity_members(files["chastity"])
  IN  /\ Queued("chastity")
      /\ File("chastity", IF attested THEN stated ELSE {})
      /\ parked' = IF attested THEN parked ELSE parked \cup stated

IngestRipe(lane) ==
  /\ Queued(lane)
  /\ File(lane, States(lane, files[lane]))
  /\ UNCHANGED parked

IngestIsc ==
  /\ Queued("isc") /\ StampYear(files["isc"]) \in YEARS
  /\ File("isc", isc_survey_hosts(files["isc"]))
  /\ UNCHANGED parked

HostLanesNext ==
  \/ \E lane \in Lanes : Land(lane)
  \/ \E lane \in {"zone_1997", "zone_1999"} : IngestZone(lane)
  \/ \E lane \in {"squidguard", "squidguard_diff"} : IngestSquidguard(lane)
  \/ \E lane \in {"ripe_snapshot", "ripe_changed"} : IngestRipe(lane)
  \/ IngestChastity \/ IngestIsc
  \/ Approve \/ DateParent

HostLanesSpec == HostLanesInit /\ [][HostLanesNext]_hostLanesVars
-----------------------------------------------------------------------------
(* What the lanes promise. *)

\* The registry's object at i says its nservers stood in year y: a changed: line of y, none later.
LastChanged(lines, i, y) ==
  /\ \E j \in Object(lines, i) : lines[j].kind = "changed" /\ lines[j].year = y
  /\ \A j \in Object(lines, i) : lines[j].kind = "changed" => lines[j].year <= y

\* A host-year read from the registry's changes is one that some object of the file, naming
\* the host, was last changed in, however the changed: lines are ordered: not an earlier
\* change of it, and not the change of the object before (ripe_changed_nservers).
ChangeIsTheObjects ==
  \A r \in evidence : r.lane = "ripe_changed" =>
    LET lines == files["ripe_changed"]
    IN  \E i \in DOMAIN lines : /\ lines[i].kind = "domain"
                                /\ \E j \in Object(lines, i) : lines[j].kind = "nserver"
                                                               /\ lines[j].name = r.host
                                /\ LastChanged(lines, i, r.year)

\* A file leaves the queue of its lane for good once it is in the ledger, so by then every
\* host-year it states is held by a row of its class, or was parked by the split; and what is
\* held is cited only from the lanes that show the host in use, by one row a year.
ReadIsHeld ==
  /\ \A lane \in laneLedger : \A s \in States(lane, files[lane]) :
        \/ \E r \in evidence : r.host = s.host /\ r.year = s.year /\ ClassOf(r.lane) = ClassOf(lane)
        \/ lane = "chastity" /\ s \in parked
  /\ \A r \in hostYears : SourceOf(r.lane) \in WEB_FACING_HOST_SOURCES
  /\ \A r, s \in hostYears : r.host = s.host /\ r.year = s.year => r = s

\* A host that the robot's list names is dated in the list's year, once the list is read:
\* tests/test_hostnames.py:459 "test_blocklists_date_each_listed_host".  It is not when a
\* lane that only shows DNS filed the host-year first, in the same class.
ListedIsDated ==
  \A lane \in laneLedger \cap {"squidguard", "squidguard_diff"} :
    \A s \in States(lane, files[lane]) : \E r \in hostYears : r.host = s.host /\ r.year = s.year

(***************************************************************************)
(* What the ledger counts as read is held, of its own class and from the   *)
(* object that was changed (hostnames.py:720-1376).                        *)
(***************************************************************************)
LanesAreRead == HostLanesTypeOK /\ ChangeIsTheObjects /\ ReadIsHeld
=============================================================================
