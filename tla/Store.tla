-------------------------------- MODULE Store --------------------------------
(***************************************************************************)
(* The evidence store: what one file's ingest writes (bulk.py,             *)
(* hostnames.py), what a red gate takes back (unbank_source.py), and what  *)
(* the annual records rest on (checks.py).                                 *)
(*                                                                         *)
(* A file is ingested in one transaction.  Its rows say what they are      *)
(* about: a pair (a registrable in a year) or a host beneath it in that    *)
(* year.  A row quotes a web capture that passes the claim's screen, an    *)
(* error capture, or another kind of evidence.                             *)
(***************************************************************************)
EXTENDS Naturals, FiniteSets, Sequences, FiniteSetsExt, SequencesExt

CONSTANTS Pair,          \* registrable-years
          Host,          \* hosts beneath each of them
          Source,
          File,          \* file names, each read by one lane for one source
          SourceOf, LaneOf, ClassOf,
          MaxRecords,    \* bound on the records of one bulk file
          MaxUnbanks,    \* bound on red gates that take a source back
          MaxKills       \* bound on kills between two of their statements

Lanes     == {"bulk", "captures", "items"}
Classes   == {"cdx_timestamp", "link_source", "artifact_listing", "link_target"}
Masters   == Classes \ {"link_target"}
Own       == "own"
Subject   == Host \cup {Own}
Quality   == {"web", "error", "other"}

ASSUME StoreAssumption ==
  /\ SourceOf \in [File -> Source] /\ LaneOf \in [File -> Lanes] /\ ClassOf \in [Source -> Classes]
  /\ IsFiniteSet(Pair) /\ IsFiniteSet(Host) /\ IsFiniteSet(File) /\ Own \notin Host
  /\ MaxRecords \in Nat /\ MaxUnbanks \in Nat /\ MaxKills \in Nat
  /\ \A f \in File : LaneOf[f] # "bulk" => ClassOf[SourceOf[f]] \in Masters

VARIABLES
  content,   \* File -> the records it holds now, none before it lands
  ledger,    \* File -> the records it held when it was ingested (its sha256)
  approved,  \* sources whose Decision line says master
  rows,      \* the evidence table
  year,      \* domain_year: Pair -> the cited row's id, 0 without a record
  hostyear,  \* hostname_year: Pair \X Host -> the cited row's id, 0 without one
  next,      \* evidence_seq
  before,    \* sources that held a row or a receipt when this bank started
  pc, target,  \* the unbank's next statement and the source it takes back
  unbanks, kills

tables == <<rows, year, hostyear, next>>
vars == <<content, ledger, approved, tables, before, pc, target, unbanks, kills>>

Record == [pair : Pair, subject : Subject, quality : Quality]
Row    == [id : Nat, source : Source, lane : Lanes, pair : Pair, subject : Subject,
           quality : Quality]

\* What each lane's files can hold: a crawl's captures, registrables among them,
\* hosts named in dated messages, and a bulk source's mixture.
Holds(f) == CASE LaneOf[f] = "captures" -> {r \in Record : r.quality # "other"}
              [] LaneOf[f] = "items" -> {r \in Record : r.subject # Own /\ r.quality = "other"}
              [] OTHER -> {r \in Record : r.quality # "error"}

Class(row) == ClassOf[row.source]
Dating(s)  == ClassOf[s] \in Masters

TypeOK ==
  /\ content \in [File -> SUBSET Record] /\ ledger \in [File -> SUBSET Record]
  /\ approved \subseteq Source /\ before \subseteq Source
  /\ rows \subseteq Row /\ \A row \in rows : row.id \in 1..next - 1
  /\ year \in [Pair -> Nat] /\ hostyear \in [Pair \X Host -> Nat] /\ next \in Nat \ {0}
  /\ pc \in {"idle", "hostyears", "years", "evidence", "receipts"}
  /\ target \subseteq Source /\ unbanks \in 0..MaxUnbanks /\ kills \in 0..MaxKills

Init ==
  /\ content = [f \in File |-> {}] /\ ledger = [f \in File |-> {}]
  /\ approved = {s \in Source : ~Dating(s)}
  /\ rows = {} /\ year = [p \in Pair |-> 0] /\ hostyear = [k \in Pair \X Host |-> 0] /\ next = 1
  /\ before = {} /\ pc = "idle" /\ target = {} /\ unbanks = 0 /\ kills = 0
-----------------------------------------------------------------------------
(* Helpers of the writers. *)

With(ids) == {row \in rows : row.id \in ids}

\* Fresh rows of source s take the next ids, an error capture before the web
\* capture that follows it.
Numbered(s, lane, records) ==
  LET ids == CHOOSE ids \in [records -> next..(next + Cardinality(records) - 1)] :
               \A a, b \in records : /\ ids[a] = ids[b] => a = b
                                     /\ a.quality = "error" /\ b.quality = "web" => ids[a] < ids[b]
  IN  {[id |-> ids[r], source |-> s, lane |-> lane, pair |-> r.pair, subject |-> r.subject,
        quality |-> r.quality] : r \in records}

\* Mutant: the key is the subject in its year alone, whatever the class.
MutTaken(held, s, r) ==
  \E h \in held : /\ h.pair = r.pair /\ h.subject = r.subject
                  /\ (h.quality = "web" \/ r.quality # "web")

\* A class keeps one row per subject and year, unless the held one fails the
\* claim's screen and the new one passes.
Taken(held, s, r) ==
  \E h \in held : /\ Class(h) = ClassOf[s] /\ h.pair = r.pair /\ h.subject = r.subject
                  /\ (h.quality = "web" \/ r.quality # "web")

\* A host lane's key is held by a host lane's row: a bulk row names its host by URL.
HostRows == {row \in rows : row.lane # "bulk"}

Lowest(set) == CHOOSE row \in set : \A other \in set : row.id <= other.id

-----------------------------------------------------------------------------
(* The world: files land and grow, the owner decides. *)

\* A bulk file lands whole; a journal grows under its name.
Land(f) ==
  /\ pc = "idle"
  /\ \E more \in SUBSET (Holds(f) \ content[f]) \ {{}} :
       /\ Cardinality(more) <= IF LaneOf[f] = "bulk" THEN MaxRecords ELSE 1
       /\ LaneOf[f] = "bulk" => content[f] = {}
       /\ content' = [content EXCEPT ![f] = @ \cup more]
  /\ UNCHANGED <<ledger, approved, tables, before, pc, target, unbanks, kills>>

Approve(s) ==
  /\ s \notin approved
  /\ approved' = approved \cup {s}
  /\ UNCHANGED <<content, ledger, tables, before, pc, target, unbanks, kills>>
-----------------------------------------------------------------------------
(* bulk.py ingest_file. *)

\* One record per pair: one that captures the registrable first.
Picks(records) ==
  {pick \in SUBSET records :
     \A p \in {r.pair : r \in records} :
       \E r \in pick : /\ {q \in pick : q.pair = p} = {r}
                       /\ \/ r.subject = Own /\ r.quality = "web"
                          \/ ~\E q \in records : q.pair = p /\ q.subject = Own /\ q.quality = "web"}

\* Mutant: a dated pair keeps its row.
MutDatedFirst(p, fresh, all) ==
  LET own == {row \in fresh : row.pair = p /\ row.subject = Own}
  IN  IF year[p] = 0 /\ own # {} THEN Lowest(own).id ELSE year[p]

\* A fresh row about the registrable dates its pair; a pair whose cited row fails
\* the screen moves to the lowest row that passes, once a fresh row does.
Dated(p, fresh, all) ==
  LET own     == {row \in fresh : row.pair = p /\ row.subject = Own}
      passing == {row \in all : /\ row.pair = p /\ row.subject = Own /\ row.quality = "web"
                                /\ Class(row) \in Masters}
      cited   == {row \in all : row.id = year[p]}
  IN  IF /\ \E row \in own : row.quality = "web"
         /\ ~\E row \in cited : row.quality = "web"
        THEN Lowest(passing).id
      ELSE IF year[p] = 0 /\ own # {} THEN Lowest(own).id
      ELSE year[p]

\* A file in the ledger is skipped whole: the same bytes quietly, others as an error.
IngestFile(f) ==
  /\ pc = "idle" /\ LaneOf[f] = "bulk" /\ content[f] # {}
  /\ SourceOf[f] \in approved
  /\ ledger[f] = {}
  /\ LET s == SourceOf[f]
     IN  \E pick \in Picks(content[f]) :
           LET fresh == Numbered(s, "bulk", {r \in pick : ~Taken(rows, s, r)})
           IN  /\ rows' = rows \cup fresh
               /\ next' = next + Cardinality(fresh)
               /\ year' = IF Dating(s) THEN [p \in Pair |-> Dated(p, fresh, rows \cup fresh)]
                                       ELSE year
  /\ ledger' = [ledger EXCEPT ![f] = content[f]]
  /\ UNCHANGED <<content, approved, hostyear, before, pc, target, unbanks, kills>>
-----------------------------------------------------------------------------
(* hostnames.py: journals of captures, in batches of one source's. *)

Keys(records) == {<<r.pair, r.subject>> : r \in records}

\* One journal quotes a web capture before an error; the batch quotes the first
\* journal's and, after an error, the first web capture of a later one.
Merged(batch) ==
  LET first(k) == batch[Min({i \in DOMAIN batch : k \in Keys(batch[i])})]
      all      == UNION {batch[i] : i \in DOMAIN batch}
      webIn(records, k) == \E r \in records : <<r.pair, r.subject>> = k /\ r.quality = "web"
  IN  {r \in all : r.quality = "web" \/ ~webIn(first(<<r.pair, r.subject>>), <<r.pair, r.subject>>)}

FreshHosts(s, batch, held) == {r \in Merged(batch) : r.subject # Own /\ ~Taken(held, s, r)}

\* A fresh row dates its host; a fresh row that quotes no error takes a host-year
\* that cites one.
HostDated(k, fresh) ==
  LET mine  == {row \in fresh : row.pair = k[1] /\ row.subject = k[2]}
      web   == {row \in mine : row.quality # "error"}
      error == \E row \in With({hostyear[k]}) : row.quality = "error"
  IN  IF web # {} /\ (hostyear[k] = 0 \/ error) THEN Lowest(web).id
      ELSE IF mine # {} /\ hostyear[k] = 0 THEN Lowest(mine).id
      ELSE hostyear[k]

\* A source's new and grown journals in name order, one transaction per batch.
FoldJournals(s, names) ==
  /\ pc = "idle" /\ s \in approved /\ names # {}
  /\ \A f \in names : /\ LaneOf[f] = "captures" /\ SourceOf[f] = s
                      /\ content[f] # {} /\ ledger[f] # content[f]
  /\ LET order == SetToSeq(names)
         batch == [i \in DOMAIN order |-> content[order[i]]]
         fresh == Numbered(s, "captures", FreshHosts(s, batch, HostRows))
     IN  /\ rows' = rows \cup fresh
         /\ next' = next + Cardinality(fresh)
         /\ hostyear' = [k \in Pair \X Host |-> HostDated(k, fresh)]
  /\ ledger' = [f \in File |-> IF f \in names THEN content[f] ELSE ledger[f]]
  /\ UNCHANGED <<content, approved, year, before, pc, target, unbanks, kills>>

\* hostnames.py ingest_usenet_item_journal: hosts of dated messages, no web method.
IngestItems(f) ==
  /\ pc = "idle" /\ LaneOf[f] = "items" /\ content[f] # {} /\ ledger[f] # content[f]
  /\ SourceOf[f] \in approved
  /\ LET s     == SourceOf[f]
         fresh == Numbered(s, "items", {r \in content[f] : ~Taken(HostRows, s, r)})
     IN  /\ rows' = rows \cup fresh
         /\ next' = next + Cardinality(fresh)
         /\ hostyear' = [k \in Pair \X Host |->
              LET mine == {row \in fresh : row.pair = k[1] /\ row.subject = k[2]}
              IN  IF mine # {} /\ hostyear[k] = 0 THEN Lowest(mine).id ELSE hostyear[k]]
  /\ ledger' = [ledger EXCEPT ![f] = content[f]]
  /\ UNCHANGED <<content, approved, year, before, pc, target, unbanks, kills>>
-----------------------------------------------------------------------------
(* unbank_source.py, run by a red bank: one statement per commit. *)

Present(s) == \/ \E row \in rows : row.source = s
              \/ \E f \in File : SourceOf[f] = s /\ ledger[f] # {}

\* The instant of --run-start.
BeginBank ==
  /\ pc = "idle" /\ unbanks < MaxUnbanks
  /\ before' = {s \in Source : Present(s)}
  /\ UNCHANGED <<content, ledger, approved, tables, pc, target, unbanks, kills>>

\* A source that held anything before this run is refused whole; the red also
\* takes its Decision line back.
Unbank(s) ==
  /\ pc = "idle" /\ unbanks < MaxUnbanks
  /\ Dating(s) /\ Present(s) /\ s \notin before
  /\ unbanks' = unbanks + 1
  /\ target' = {s} /\ pc' = "hostyears"
  /\ approved' = approved \ {s}
  /\ UNCHANGED <<content, ledger, tables, before, kills>>

Ids == {row.id : row \in {row \in rows : row.source \in target}}

\* Mutant: only the pairs' years are deleted.
MutDeleteHostYears ==
  /\ pc = "hostyears"
  /\ pc' = "years"
  /\ UNCHANGED <<content, ledger, approved, tables, before, target, unbanks, kills>>

DeleteHostYears ==
  /\ pc = "hostyears"
  /\ hostyear' = [k \in Pair \X Host |-> IF hostyear[k] \in Ids THEN 0 ELSE hostyear[k]]
  /\ pc' = "years"
  /\ UNCHANGED <<content, ledger, approved, rows, year, next, before, target, unbanks, kills>>

DeleteYears ==
  /\ pc = "years"
  /\ year' = [p \in Pair |-> IF year[p] \in Ids THEN 0 ELSE year[p]]
  /\ pc' = "evidence"
  /\ UNCHANGED <<content, ledger, approved, rows, hostyear, next, before, target, unbanks, kills>>

DeleteEvidence ==
  /\ pc = "evidence"
  /\ rows' = {row \in rows : row.source \notin target}
  /\ pc' = "receipts"
  /\ UNCHANGED <<content, ledger, approved, year, hostyear, next, before, target, unbanks, kills>>

DeleteReceipts ==
  /\ pc = "receipts"
  /\ ledger' = [f \in File |-> IF SourceOf[f] \in target THEN {} ELSE ledger[f]]
  /\ pc' = "idle" /\ target' = {}
  /\ UNCHANGED <<content, approved, tables, before, unbanks, kills>>

\* The bank is killed between two statements.
Kill ==
  /\ pc # "idle" /\ kills < MaxKills
  /\ kills' = kills + 1
  /\ pc' = "idle" /\ target' = {}
  /\ UNCHANGED <<content, ledger, approved, tables, before, unbanks>>

Ingest == \/ \E f \in File : IngestFile(f) \/ IngestItems(f)
          \/ \E s \in Source, names \in SUBSET File : FoldJournals(s, names)

TakeBack == \/ BeginBank \/ (\E s \in Source : Unbank(s))
            \/ DeleteHostYears \/ DeleteYears \/ DeleteEvidence \/ DeleteReceipts \/ Kill

Next == (\E f \in File : Land(f)) \/ (\E s \in Source : Approve(s)) \/ Ingest \/ TakeBack

Spec == Init /\ [][Next]_vars
-----------------------------------------------------------------------------
(***************************************************************************)
(* Every annual record cites a held row that may date it: of a class that  *)
(* dates years, about that very registrable or host (checks.py:106-134,    *)
(* 245-293), between any two statements of an unbank too.                  *)
(***************************************************************************)
Walls ==
  /\ \A p \in Pair : year[p] # 0 =>
       \E row \in rows : row.id = year[p] /\ row.pair = p /\ row.subject = Own /\ Class(row) \in Masters
  /\ \A k \in Pair \X Host : hostyear[k] # 0 =>
       \E row \in rows : row.id = hostyear[k] /\ row.pair = k[1] /\ row.subject = k[2]

(***************************************************************************)
(* A class keeps one row per subject and year, or two when the first fails *)
(* the screen and the second passes (bulk.py:11-12, hostnames.py:348-351). *)
(***************************************************************************)
OneRowPerSubject ==
  \A a, b \in rows :
    /\ a.id < b.id /\ Class(a) = Class(b) /\ a.pair = b.pair /\ a.subject = b.subject
    /\ (a.lane = "bulk" <=> b.lane = "bulk")
    => a.quality # "web" /\ b.quality = "web"

\* A year cites a capture that passes the screen.
CitesWeb(cited) == \E row \in rows : row.id = cited /\ row.quality = "web"

(***************************************************************************)
(* Every row that may date a pair has dated it: no proof of a year waits   *)
(* in the store (checks.py:316-335, the gate's own reading).               *)
(***************************************************************************)
EarnedIsAssigned ==
  pc = "idle" => \A row \in rows : row.subject = Own /\ Class(row) \in Masters => year[row.pair] # 0

(***************************************************************************)
(* A pair that has been dated cites its best row: a reader takes           *)
(* domain_year as it is (bulk.py:245-247).  Both hold until a red gate     *)
(* takes a source back (unbank_source.py:17-20).                           *)
(***************************************************************************)
PairCitesBest ==
  unbanks = 0 =>
    /\ EarnedIsAssigned
    /\ \A row \in rows : row.subject = Own /\ row.quality = "web" /\ Class(row) \in Masters
                           => CitesWeb(year[row.pair])

(***************************************************************************)
(* Until a red gate takes a source back, a host lane's row is never left   *)
(* without its host-year, and a host-year cites an error capture only      *)
(* while its lanes hold no web capture (hostnames.py:324-326, 603-605).    *)
(***************************************************************************)
HostsAreDated ==
  unbanks = 0 => \A row \in HostRows :
    LET cited == hostyear[row.pair, row.subject]
    IN  /\ cited # 0
        /\ row.quality = "web" => \A c \in With({cited}) : c.quality # "error"

(***************************************************************************)
(* What a receipt says was read is held: each subject-year of an ingested  *)
(* file has a row in its class, and a capture that passes when the file    *)
(* has one, so a file skipped for its bytes is never missed (bulk.py:8-12),*)
(* until a red gate takes a source back.                                   *)
(***************************************************************************)
LedgeredIsHeld ==
  unbanks = 0 => \A f \in File : ledger[f] # {} => \A r \in ledger[f] :
    LET wanted(row) == Class(row) = ClassOf[SourceOf[f]] /\ row.pair = r.pair
        same(row)   == wanted(row) /\ row.subject = r.subject
        screen(row) == r.quality = "web" => row.quality = "web"
    IN  CASE LaneOf[f] # "bulk" -> r.subject = Own \/ \E row \in HostRows : same(row) /\ screen(row)
          [] LaneOf[f] = "bulk" /\ r.subject = Own /\ r.quality = "web" -> \E row \in rows : same(row) /\ screen(row)
          [] OTHER -> \E row \in rows : wanted(row)

(***************************************************************************)
(* A batch writes the rows its journals, read one by one, would write      *)
(* (hostnames.py:528-529).                                                 *)
(***************************************************************************)
BatchIsSequential ==
  \A f, g \in File :
    LET s == SourceOf[f]
        h == FreshHosts(s, <<content[f]>>, HostRows)
        then == HostRows \cup Numbered(s, "captures", h)
    IN  f # g /\ LaneOf[f] = "captures" /\ LaneOf[g] = "captures" /\ SourceOf[g] = s
          => FreshHosts(s, <<content[f], content[g]>>, HostRows)
             = h \cup FreshHosts(s, <<content[g]>>, then)

(***************************************************************************)
(* Between any two statements of an unbank the annual records rest on rows *)
(* of theirs, a class holds one row per subject, and a batch of journals   *)
(* writes what they would one by one (checks.py:106-134, bulk.py:11-12,    *)
(* hostnames.py:528-529).                                                  *)
(***************************************************************************)
RowsAreSound == TypeOK /\ Walls /\ OneRowPerSubject /\ BatchIsSequential

(***************************************************************************)
(* What a receipt counts as read is in the store, dates what it may, and   *)
(* a pair cites its best row, until a red gate takes a source back         *)
(* (bulk.py:8-12 and 245-247, hostnames.py:324).                           *)
(***************************************************************************)
ReadIsStored == LedgeredIsHeld /\ HostsAreDated /\ PairCitesBest
=============================================================================
