----------------------------- MODULE Retraction -----------------------------
(***************************************************************************)
(* The host-years of one parent and one year that rest on captures the raw *)
(* index calls errors: status_audit.py lists them in two files, and a      *)
(* retraction takes host-years and the parent's year off them, in one      *)
(* transaction and then journal by journal over the other web families.    *)
(*                                                                         *)
(* A capture is [host, ts, ok]; a row quotes [host, ts] by its family.  A  *)
(* row in `stated` says in its value that its capture was an error, and so *)
(* passes no longer (XIV).                                                 *)
(***************************************************************************)
EXTENDS Naturals, FiniteSets

CONSTANTS Host, Www,    \* a host of the parent, and www.<parent>
          Parent, NoRow,
          MaxRaw, MaxRuns, MaxRetractKills   \* bounds: raw captures, audits and writes, kills

VARIABLES
  raw,      \* family -> the captures of its raw index
  web,      \* hosts a journal of another web family has a 2xx of
  hostRows, stated,           \* evidence rows, and those that carry an error status
  hostYear, domainYear,   \* the row each year rests on
  errors, repoint,        \* status_errors.tsv.gz, status_repoint.tsv.gz
  audit, write,           \* the two programs
  runs, kills3

retractionVars ==
  <<raw, web, hostRows, stated, hostYear, domainYear, errors, repoint, audit, write, runs, kills3>>

Families == {"nypw", "early_web", "dartmouth_arcs"}
Group(f) == IF f = "dartmouth_arcs" THEN "dartmouth_arcs" ELSE "ia_hostgrain"
Groups   == {Group(f) : f \in Families}
Members(g) == {f \in Families : Group(f) = g}

RetractHosts    == {Host, Www}
Stamps   == 1..2

ASSUME RetractionAssumption ==
  /\ Host # Www /\ Parent \notin RetractHosts /\ {MaxRaw, MaxRuns, MaxRetractKills} \subseteq Nat
  /\ NoRow \notin [host : RetractHosts \cup {Parent}, by : Families \cup {"web"}, ts : Stamps]

RetractRow(h, f, t) == [host |-> h, by |-> f, ts |-> t]
None     == [ts |-> 0, by |-> "none"]
NoErrors == [f \in Families |-> {}]
NoTargets == [g \in Groups |-> [h \in RetractHosts |-> None]]
NoAudit  == [at |-> "off", errors |-> NoErrors, repoint |-> NoTargets]
NoWrite  == [at |-> "off", left |-> {}]

\* A journal cut before rows carried a status quotes a host's first capture, whatever it answered.
Quoted(f, h) ==
  LET mine == {c \in raw[f] : c.host = h}
  IN  {RetractRow(h, f, c.ts) : c \in {d \in mine : \A e \in mine : d.ts <= e.ts}}

ErrorCaptures == [host : {Host}, ts : Stamps, ok : BOOLEAN] \cup {[host |-> Www, ts |-> 1, ok |-> FALSE]}

\* One row per host-year; the parent may have a row of its own.
RetractionInit ==
  /\ raw \in [Families -> SUBSET ErrorCaptures]
  /\ Cardinality(UNION {{f} \X raw[f] : f \in Families}) <= MaxRaw
  /\ web \in SUBSET RetractHosts
  /\ \E first \in [RetractHosts -> Families], own \in SUBSET {RetractRow(Parent, "web", 1)} :
       /\ \A h \in RetractHosts : Quoted(first[h], h) = {} => first[h] = "nypw"
       /\ hostRows = own \cup UNION {Quoted(first[h], h) : h \in RetractHosts}
  /\ hostYear = [h \in RetractHosts |-> IF \E r \in hostRows : r.host = h
                                 THEN CHOOSE r \in hostRows : r.host = h ELSE NoRow]
  /\ domainYear \in (IF hostRows = {} THEN {NoRow} ELSE hostRows)
  /\ stated = {} /\ errors = NoErrors /\ repoint = NoTargets
  /\ audit = NoAudit /\ write = NoWrite /\ runs = [audit |-> 0, write |-> 0, raw |-> 0] /\ kills3 = 0
-----------------------------------------------------------------------------
\* A same-second 2xx or 3xx of the host, in the same family, backs an error.
Backed(f, c) == \E d \in raw[f] : d.host = c.host /\ d.ts = c.ts /\ d.ok

ErrorsOf(f) == {[host |-> c.host, ts |-> c.ts] : c \in {d \in raw[f] : ~d.ok /\ ~Backed(f, d)}}

\* The earliest 2xx or 3xx of a host-year with an error, in the group's raw.
TargetOf(g, h) ==
  LET good == UNION {{[ts |-> c.ts, by |-> f] : c \in {d \in raw[f] : d.host = h /\ d.ok}} :
                     f \in Members(g)}
  IN  IF good = {} \/ \A e \in UNION {ErrorsOf(f) : f \in Members(g)} : e.host # h
      THEN None ELSE CHOOSE o \in good : \A p \in good : o.ts <= p.ts

\* A family not read keeps the rows of the last audit, and so does a group not read whole.
\* An audit beside a write serves the next one: the model does not overlap them.
Audit(read) ==
  /\ audit.at = "off" /\ write.at = "off"
  /\ runs.audit < MaxRuns /\ runs' = [runs EXCEPT !.audit = @ + 1]
  /\ audit' = [at |-> "errors",
               errors |-> [f \in Families |-> IF f \in read THEN ErrorsOf(f) ELSE errors[f]],
               repoint |-> [g \in Groups |->
                  IF Members(g) \subseteq read THEN [h \in RetractHosts |-> TargetOf(g, h)]
                  ELSE repoint[g]]]
  /\ UNCHANGED <<raw, web, hostRows, stated, hostYear, domainYear, errors, repoint, write, kills3>>

WriteErrors ==
  /\ audit.at = "errors" /\ write.at = "off"
  /\ errors' = audit.errors /\ audit' = [audit EXCEPT !.at = "repoint"]
  /\ UNCHANGED <<raw, web, hostRows, stated, hostYear, domainYear, repoint, write, runs, kills3>>

WriteRepoint ==
  /\ audit.at = "repoint" /\ write.at = "off"
  /\ repoint' = audit.repoint /\ audit' = NoAudit
  /\ UNCHANGED <<raw, web, hostRows, stated, hostYear, domainYear, errors, write, runs, kills3>>
-----------------------------------------------------------------------------
Passing == hostRows \ stated
ErrorListed(r) == r.by \in Families /\ [host |-> r.host, ts |-> r.ts] \in errors[r.by]

\* Mutant: a row is found by its host and second, of whatever family.
MutHitAny == {r \in hostRows : \E f \in Families : [host |-> r.host, ts |-> r.ts] \in errors[f]}

\* As banked, or as a stopped write left it.
Hit == {r \in hostRows : ErrorListed(r)}

Target(r) == repoint[Group(r.by)][r.host]

\* A row that is no error and quotes the target, one for a host-year.
Holds(S, r) == {e \in S : Target(r).ts > 0 /\ e.host = r.host /\ e.ts = Target(r).ts}
FreshError == {RetractRow(r.host, Target(r).by, Target(r).ts) :
            r \in {q \in Hit : Target(q).ts > 0 /\ Holds(Passing \ Hit, q) = {}}}

\* Mutant: the parent's other rows are those held before the repoint targets were filed.
MutOthers(now) == {e \in Passing \ Hit : e.host # Www}

\* A parent's year takes no capture of its www.
Others(now) == {e \in now : e.host # Www}

Commit ==
  /\ write.at = "off"
  /\ runs.write < MaxRuns /\ runs' = [runs EXCEPT !.write = @ + 1]
  /\ LET now   == (Passing \ Hit) \cup FreshError
         moved == {r \in Hit : Holds(now, r) # {}}
         On(r) == CHOOSE e \in Holds(now, r) : TRUE
         stays == domainYear \in Hit /\ ~(domainYear \in moved /\ domainYear.host # Www)
     IN  /\ hostRows' = hostRows \cup FreshError
         /\ stated' = stated \cup Hit
         /\ hostYear' = [h \in RetractHosts |-> IF hostYear[h] \in moved THEN On(hostYear[h])
                                         ELSE hostYear[h]]
         /\ domainYear' \in (IF ~stays THEN {IF domainYear \in Hit THEN On(domainYear) ELSE domainYear}
                             ELSE IF Others(now) = {} THEN {domainYear} ELSE Others(now))
         /\ write' = [at |-> "journals",
                      left |-> {h \in RetractHosts : hostYear'[h] \in Hit /\ hostYear'[h] \in stated'}]
  /\ UNCHANGED <<raw, web, errors, repoint, audit, kills3>>

\* A row that passes joins a held one that fails, and nothing joins one that passes.
Joins(h) == ~ \E r \in Passing : r.host = h

\* A web journal's rows for the hosts, and the years they date or take from an error.
Fold(hosts) ==
  LET new == {h \in hosts \cap web : Joins(h)}
  IN  /\ hostRows' = hostRows \cup {RetractRow(h, "web", 2) : h \in new}
      /\ hostYear' = [h \in RetractHosts |->
           IF h \in new /\ (hostYear[h] = NoRow \/ hostYear[h] \in stated)
           THEN RetractRow(h, "web", 2) ELSE hostYear[h]]

\* The other web families, for the host-years left on an error.
Reread ==
  /\ write.at = "journals"
  /\ Fold(write.left)
  /\ write' = [at |-> "ended", left |-> {}]
  /\ UNCHANGED <<raw, web, stated, domainYear, errors, repoint, audit, runs, kills3>>

End ==
  /\ write.at = "ended" /\ write' = NoWrite
  /\ UNCHANGED <<raw, web, hostRows, stated, hostYear, domainYear, errors, repoint, audit, runs, kills3>>
-----------------------------------------------------------------------------
\* A bank folds the web journals whole; the store has one writer.
BankWeb ==
  /\ write.at = "off" /\ Fold(RetractHosts)
  /\ UNCHANGED <<raw, web, stated, domainYear, errors, repoint, audit, write, runs, kills3>>

\* A collector adds a capture to a family's raw.
Grow(f, c) ==
  /\ c \notin raw[f] /\ audit.at = "off" /\ write.at = "off" /\ runs.audit > 0
  /\ raw' = [raw EXCEPT ![f] = @ \cup {c}]
  /\ runs.raw < 1 /\ runs' = [runs EXCEPT !.raw = @ + 1]
  /\ UNCHANGED <<web, hostRows, stated, hostYear, domainYear, errors, repoint, audit, write, kills3>>

Kill ==
  /\ kills3 < MaxRetractKills /\ kills3' = kills3 + 1
  /\ \/ audit.at # "off" /\ audit' = NoAudit /\ UNCHANGED write
     \/ write.at = "journals" /\ write' = NoWrite /\ UNCHANGED audit
  /\ UNCHANGED <<raw, web, hostRows, stated, hostYear, domainYear, errors, repoint, runs>>

RetractionNext ==
  \/ \E read \in {Families, Families \ {"early_web"}} : Audit(read)
  \/ WriteErrors \/ WriteRepoint \/ Commit \/ Reread \/ End \/ BankWeb \/ Kill
  \/ \E f \in Families : Grow(f, [host |-> Host, ts |-> 2, ok |-> TRUE])
RetractionSpec == RetractionInit /\ [][RetractionNext]_retractionVars
-----------------------------------------------------------------------------
RetractionTypeOK ==
  /\ \A r \in hostRows : r.host \in RetractHosts \cup {Parent} /\ r.ts \in Stamps
  /\ stated \subseteq hostRows
  /\ \A h \in RetractHosts : hostYear[h] = NoRow \/ (hostYear[h] \in hostRows /\ hostYear[h].host = h)
  /\ domainYear \in hostRows \cup {NoRow}
  /\ audit.at \in {"off", "errors", "repoint"} /\ write.at \in {"off", "journals", "ended"}

\* The two files are what an audit of every family's raw would write now.
AuditIsWhole ==
  /\ \A f \in Families : errors[f] = ErrorsOf(f)
  /\ \A g \in Groups, h \in RetractHosts : repoint[g][h] = TargetOf(g, h)

Erred(r) == r.by \in Families /\ ~ \E c \in raw[r.by] : c.host = r.host /\ c.ts = r.ts /\ c.ok

(***************************************************************************)
(* When a retraction over a whole audit has ended, whatever stopped an     *)
(* earlier one, no year passes on an error capture, and a host-year left   *)
(* on one it lists has no 2xx or 3xx in its group's raw nor in another web *)
(* family (hostnames.py:1777-1939).                                        *)
(***************************************************************************)
RetractedWhole ==
  write.at = "ended" /\ AuditIsWhole =>
    /\ \A r \in {hostYear[h] : h \in RetractHosts} \cup {domainYear} : r \in Passing => ~Erred(r)
    /\ \A h \in RetractHosts : hostYear[h] \in stated /\ ErrorListed(hostYear[h]) =>
         /\ h \notin web
         /\ \A f \in Members(Group(hostYear[h].by)) : \A c \in raw[f] : c.host = h => ~c.ok

(***************************************************************************)
(* A parent's year is left on a listed error only when no passing row of   *)
(* the parent could hold it, as the transaction leaves the store           *)
(* (hostnames.py:1896-1910).                                               *)
(***************************************************************************)
ParentTakesAnother ==
  write.at = "journals" /\ domainYear \in stated /\ ErrorListed(domainYear) =>
    Passing \subseteq {r \in hostRows : r.host = Www}

(***************************************************************************)
(* A host-year moves only off a row the audit lists or that states an      *)
(* error, only onto one that passes, and is never lost: neither a bank nor *)
(* a retraction takes a year from a capture that answered                  *)
(* (hostnames.py:584-617, 1879-1889).                                      *)
(***************************************************************************)
PassingStays ==
  [][\A h \in RetractHosts : hostYear[h] # NoRow /\ hostYear'[h] # hostYear[h] =>
       (hostYear[h] \in stated \/ ErrorListed(hostYear[h])) /\ hostYear'[h] \in hostRows' \ stated']_retractionVars

(***************************************************************************)
(* After a retraction over a whole audit no year rests on an error it      *)
(* could have moved, hosts' and parents' (hostnames.py:1777-1939).         *)
(***************************************************************************)
ErrorsAreRetracted == RetractionTypeOK /\ RetractedWhole /\ ParentTakesAnother
=============================================================================
