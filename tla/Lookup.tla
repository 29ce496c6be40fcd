------------------------------- MODULE Lookup --------------------------------
(***************************************************************************)
(* One domain asked of the CDX by cdx.py: `lookup_years` with its three    *)
(* tiers and its probes, or the sweep `lookup_years_per_year`.  A tier     *)
(* sees what its question covers: the root pages of two hosts, one host,   *)
(* or every subdomain.  Every request may be answered, whole or cut at its *)
(* limit, or fail; the domain is asked again by later runs until a record  *)
(* settles it.                                                             *)
(***************************************************************************)
EXTENDS Naturals, FiniteSets

CONSTANTS Year,
          Domains     \* what may be archived of a domain, see LookupAssumption

Prefix == {"apex", "www"}
Level  == Prefix \cup {"host", "scan"}
ASSUME LookupAssumption ==
  /\ IsFiniteSet(Year) /\ Year \subseteq Nat /\ Year # {}
  \* Years by the narrowest question that sees them, and the questions whose rows pass their limit.
  /\ Domains \subseteq [archived : [Level -> SUBSET Year], wide : SUBSET {"host", "scan"}]

Status == {"answered", "big", "refused", "error"}   \* 200; 504 or timed out; refused; any other

VARIABLES
  domain,    \* the one asked about
  ltodo,     \* the next request: "idle", "host", "apex", "www", "scan", "probe"
  hostFirst, \* the order of the tiers
  years,     \* years of the record being made
  hostYears, hostStatus,   \* what tier 1 said
  scanned,   \* the scan's status
  answers,   \* the root pages answered
  left,      \* years still to be probed
  sweep,     \* the lookup asks year by year
  failures,  \* probes of a sweep that failed
  record,    \* the record the run journals: its status, years, and `truncated`
  heard,     \* history: a request of this lookup was answered 200
  cut,       \* history: an answer this record rests on stopped at its limit
  unproved   \* history: years whose probe failed

work == <<years, hostYears, hostStatus, scanned, answers, left, sweep, failures>>
ghost == <<heard, cut, unproved>>
lookupVars == <<domain, ltodo, hostFirst, work, record, ghost>>

Record == [status : Status \cup {"none"}, years : SUBSET Year, truncated : BOOLEAN,
           by : {"none", "by_host", "by_root", "scan", "per_year"}]
NoRecord == [status |-> "none", years |-> {}, truncated |-> FALSE, by |-> "none"]

LookupTypeOK ==
  /\ domain \in Domains
  /\ ltodo \in {"idle", "host", "apex", "www", "scan", "probe"} /\ hostFirst \in BOOLEAN
  /\ years \subseteq Year /\ hostYears \subseteq Year /\ left \subseteq Year /\ unproved \subseteq Year
  /\ hostStatus \in Status \cup {"none"} /\ scanned \in Status \cup {"none"}
  /\ answers \in 0..2 /\ sweep \in BOOLEAN /\ failures \in 0..Cardinality(Year)
  /\ record \in Record /\ heard \in BOOLEAN /\ cut \in BOOLEAN

Clear ==
  /\ years' = {} /\ hostYears' = {} /\ hostStatus' = "none" /\ scanned' = "none"
  /\ answers' = 0 /\ left' = {} /\ sweep' = FALSE /\ failures' = 0

LookupInit ==
  /\ domain \in Domains
  /\ ltodo = "idle" /\ hostFirst \in BOOLEAN
  /\ years = {} /\ hostYears = {} /\ hostStatus = "none" /\ scanned = "none"
  /\ answers = 0 /\ left = {} /\ sweep = FALSE /\ failures = 0
  /\ record = NoRecord /\ heard = FALSE /\ cut = FALSE /\ unproved = {}
-----------------------------------------------------------------------------
\* What a question of a level can see.
Covered(l) == LET seen == domain.archived IN
  CASE l \in Prefix -> seen[l]
    [] l = "host"   -> seen["host"] \cup seen["apex"] \cup seen["www"]
    [] l = "scan"   -> UNION {seen[k] : k \in Level}
Wide(l) == l \in domain.wide

\* A 200 to a question of a level: everything it covers, or a part when its rows pass the limit.
Replies(l) == IF Wide(l) THEN (SUBSET Covered(l)) \ {{}} ELSE {Covered(l)}

Journal(status, ys, truncated, by) ==
  /\ record' = [status |-> status, years |-> ys, truncated |-> truncated, by |-> by]
  /\ ltodo' = "idle" /\ Clear

\* `answered` settles a domain, so only one without an answered record is asked again; the
\* sweep is for the domains whose scan is too big.
Ask(bySweep) ==
  /\ ltodo = "idle" /\ record.status # "answered"
  /\ ltodo' = IF bySweep THEN "probe" ELSE IF hostFirst THEN "host" ELSE "scan"
  /\ years' = {} /\ left' = IF bySweep THEN Year ELSE {}
  /\ sweep' = bySweep /\ failures' = 0
  /\ heard' = FALSE /\ cut' = FALSE /\ unproved' = {}
  /\ UNCHANGED <<domain, hostFirst, hostYears, hostStatus, scanned, answers, record>>

\* Tier 1.  Its years end the lookup; none of them lets the scan look wider; a host too big to
\* match goes to its root pages; anything else leaves the domain to a later run.
Host(status, reply) ==
  /\ ltodo = "host"
  /\ heard' = (heard \/ status = "answered")
  /\ cut' = (status = "answered" /\ Wide("host"))
  /\ CASE status = "answered" /\ reply # {} -> Journal(status, reply, FALSE, "by_host")
       [] status = "answered" /\ reply = {} ->
            /\ ltodo' = "scan" /\ hostStatus' = status /\ hostYears' = reply
            /\ UNCHANGED <<years, scanned, answers, left, sweep, failures, record>>
       [] status = "big" ->
            /\ ltodo' = "apex" /\ hostStatus' = status
            /\ UNCHANGED <<years, hostYears, scanned, answers, left, sweep, failures, record>>
       [] OTHER -> Journal(status, {}, FALSE, "by_host")
  /\ UNCHANGED <<domain, hostFirst, unproved>>

\* Tier 2, apex then www: settled when either answered; else the record says what failed, which
\* is the host's status, or the scan's when that was asked first.
Failed == IF hostFirst THEN hostStatus ELSE scanned
Root(p, status) ==
  /\ ltodo = p
  /\ heard' = (heard \/ status = "answered")
  /\ LET n  == answers + IF status = "answered" THEN 1 ELSE 0
         ys == years \cup IF status = "answered" THEN Covered(p) ELSE {} IN
     IF p = "apex"
     THEN /\ ltodo' = "www" /\ answers' = n /\ years' = ys
          /\ UNCHANGED <<hostYears, hostStatus, scanned, left, sweep, failures, record>>
     ELSE IF n > 0 THEN Journal("answered", ys, FALSE, "by_root")
     ELSE Journal(Failed, {}, FALSE, "none")
  /\ UNCHANGED <<domain, hostFirst, cut, unproved>>

MutScan(status, reply) ==
  /\ ltodo = "scan"
  /\ heard' = (heard \/ status = "answered")
  /\ cut' = (cut \/ (status = "answered" /\ Wide("scan")))
  /\ CASE status # "answered" /\ hostFirst -> Journal(hostStatus, hostYears, FALSE, "by_host")
       [] status # "answered" /\ ~hostFirst -> Journal("answered", {}, FALSE, "scan")
       [] status = "answered" -> Journal(status, reply, FALSE, "scan")
  /\ UNCHANGED <<domain, hostFirst, unproved>>

\* Tier 3, or the first when the scan leads.  A scan that fails leaves the record to tier 1's
\* empty answer, or to the root pages; one cut at its limit has its missing years probed.
Scan(status, reply) ==
  /\ ltodo = "scan"
  /\ heard' = (heard \/ status = "answered")
  /\ cut' = (cut \/ (status = "answered" /\ Wide("scan")))
  /\ CASE status # "answered" /\ hostFirst -> Journal(hostStatus, hostYears, FALSE, "by_host")
       [] status # "answered" /\ ~hostFirst ->
            /\ ltodo' = "apex" /\ scanned' = status
            /\ UNCHANGED <<years, hostYears, hostStatus, answers, left, sweep, failures, record>>
       [] status = "answered" /\ Wide("scan") /\ reply # Year ->
            /\ ltodo' = "probe" /\ years' = reply /\ left' = Year \ reply
            /\ UNCHANGED <<hostYears, hostStatus, scanned, answers, sweep, failures, record>>
       [] OTHER -> Journal(status, reply, Wide("scan"), "scan")
  /\ UNCHANGED <<domain, hostFirst, unproved>>

\* One year, in order: any capture of it answers.  A failed probe leaves the year unknown, and a
\* sweep in which every probe failed is no answer.
Probe(status) ==
  /\ ltodo = "probe"
  /\ LET y  == CHOOSE x \in left : \A z \in left : x <= z
         ok == status = "answered"
         ys == IF ok /\ y \in Covered("scan") THEN years \cup {y} ELSE years
         bad == failures + IF sweep /\ ~ok THEN 1 ELSE 0 IN
     /\ heard' = (heard \/ ok)
     /\ unproved' = IF ok THEN unproved ELSE unproved \cup {y}
     /\ IF left = {y}
        THEN IF sweep /\ bad = Cardinality(Year) THEN Journal(status, ys, FALSE, "per_year")
             ELSE Journal("answered", ys, ~sweep, IF sweep THEN "per_year" ELSE "scan")
        ELSE /\ years' = ys /\ left' = left \ {y} /\ failures' = bad
             /\ UNCHANGED <<ltodo, hostYears, hostStatus, scanned, answers, sweep, record>>
  /\ UNCHANGED <<domain, hostFirst, cut>>

LookupNext ==
  \/ \E s \in BOOLEAN : Ask(s)
  \/ \E s \in Status :
       \/ \E r \in Replies("host") : Host(s, r)
       \/ \E p \in Prefix : Root(p, s)
       \/ \E r \in Replies("scan") : Scan(s, r)
       \/ Probe(s)

LookupSpec == LookupInit /\ [][LookupNext]_lookupVars
-----------------------------------------------------------------------------
(* Properties. *)

\* A record settles its domain exactly when some question about it was answered: a refusal is
\* never journalled as nothing archived, and no answer is thrown away and asked for again.
SettledIsAnswered == ltodo = "idle" /\ record.status # "none" => (record.status = "answered" <=> heard)

\* A settled record lacks a year of the domain only for a reason the record's tier names: its
\* question was narrower, its answer was cut, the year's own probe failed.
MissedIsExplained ==
  record.status = "answered" =>
    \A y \in Covered("scan") \ record.years :
      \/ record.by \in {"by_host", "by_root"} /\ (y \notin Covered("host") \/ cut \/ record.by = "by_root")
      \/ record.by \in {"scan", "per_year"} /\ y \in unproved

(***************************************************************************)
(* Said at cdx.py:14-16: an answer that stopped at its limit is reported   *)
(* as truncated.  Not kept by the tiers that ask one host or its root.     *)
(***************************************************************************)
TruncationIsReported == record.status = "answered" /\ cut => record.truncated

(***************************************************************************)
(* A record says answered exactly when a question was, and lacks a year    *)
(* only for a reason of its tier (cdx.py, lookup).                         *)
(***************************************************************************)
RecordIsExplained == LookupTypeOK /\ SettledIsAnswered /\ MissedIsExplained
=============================================================================
