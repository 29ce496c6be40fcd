-------------------------------- MODULE Graph --------------------------------
(***************************************************************************)
(* The provenance graph and the store rebuilt from it (provenance.py, `ark *)
(* export --provenance` and `ark rebuild` in cli.py, db.py): the graph is  *)
(* one Parquet file per table, written one after another, and a rebuild    *)
(* drops the store's tables and loads them again, one after another.       *)
(*                                                                         *)
(* DuckDB lets one process in at a time, so an ingest, an unbank, an       *)
(* export and a rebuild never overlap; a kill may end the last two between *)
(* any two of their statements, and the next process finds what they left. *)
(* An ingest is one transaction, and Store has the statements of an unbank.*)
(***************************************************************************)
EXTENDS Integers, FiniteSets, Sequences

CONSTANTS Registrable, Hostname,
          BeneathOf,     \* hostname -> the registrable it is recorded beneath
          Batch,         \* the files that are ingested
          Gives,         \* file -> the names it dates
          Sender,        \* file -> its source; a source is of one class
          MaxTakes, MaxRebuilds, MaxGraphKills   \* bounds on unbanks, rebuilds and kills

Entry == Registrable \cup Hostname

ASSUME GraphAssumption ==
  /\ Registrable \cap Hostname = {} /\ BeneathOf \in [Hostname -> Registrable]
  /\ Gives \in [Batch -> SUBSET Entry] /\ DOMAIN Sender = Batch
  /\ IsFiniteSet(Entry) /\ IsFiniteSet(Batch)
  /\ MaxTakes \in Nat /\ MaxRebuilds \in Nat /\ MaxGraphKills \in Nat

\* The order every loop over the tables takes; the retired language verdicts are left out.
CoreTables == <<"source", "domain", "evidence", "domain_year", "ingested_file">>
Tables     == CoreTables \o <<"hostname_year">>
TableNames == {Tables[i] : i \in 1..Len(Tables)}

VARIABLES
  db,        \* table -> its rows in the store
  issued,    \* evidence_seq: the next id, 0 while the sequence does not exist
  located,   \* located_from: the first id this store wrote itself, 0 while there is none
  parquet,   \* table -> its rows in the graph's folder
  there,     \* the tables whose Parquet file exists
  gpc, step, \* what the process in the store does next, and to which table
  torn,      \* history: this export, or one cut off, took a row out of a file that stands
             \* beside files of an older export; or it was of a spoiled store
  spoiled,   \* history: a rebuild loaded such a graph
  cutOff,    \* history: an export or a rebuild was cut off
  receded,   \* history: a file left the store's ledger since the graph's was written
  taken,     \* history: what an unbank took, a name and a source each
  takes, rebuilds, gkills

graphVars == <<db, issued, located, parquet, there, gpc, step, torn, spoiled, cutOff, receded,
               taken, takes, rebuilds, gkills>>

Registered(n) == IF n \in Registrable THEN n ELSE BeneathOf[n]
YearTable(n)  == IF n \in Registrable THEN "domain_year" ELSE "hostname_year"

\* A row of a file about a name; an older program's rows say no place in their file.
TableRow(id, n, f, placed) == [id |-> id, name |-> n, file |-> f, placed |-> placed]
RowsBelow(limit)      == [id : 1..limit, name : Entry, file : Batch, placed : BOOLEAN]
HeldFrom(rows, s)     == {row.name : row \in {r \in rows : Sender[r.file] = s}}
MaxId(rows) == IF rows = {} THEN 0 ELSE CHOOSE id \in {row.id : row \in rows} :
                                          \A row \in rows : row.id <= id

Columns == [source |-> {Sender[f] : f \in Batch},
            domain |-> [name : Registrable, by : {"ours", "prior_task"}],
            evidence |-> [id : Nat, name : Entry, file : Batch, placed : BOOLEAN],
            domain_year |-> [name : Registrable, id : Nat],
            ingested_file |-> Batch,
            hostname_year |-> [name : Hostname, id : Nat]]

GraphTypeOK ==
  /\ DOMAIN db = TableNames /\ DOMAIN parquet = TableNames
  /\ \A t \in TableNames : db[t] \subseteq Columns[t] /\ parquet[t] \subseteq Columns[t]
  /\ issued \in Nat /\ located \in Nat
  /\ there \subseteq TableNames
  /\ gpc \in {"idle", "export", "drop", "dropSeq", "startSeq", "dropLocated", "locate", "load"}
  /\ step \in 0..Len(Tables) + 1
  /\ {torn, spoiled, cutOff, receded} \subseteq BOOLEAN
  /\ takes \in 0..MaxTakes /\ rebuilds \in 0..MaxRebuilds /\ gkills \in 0..MaxGraphKills

NoTables == [t \in TableNames |-> {}]

\* A fresh store, his release filed or not, or an older program's with a file in it.
GraphInit ==
  /\ \E his \in SUBSET Registrable, old \in SUBSET (Batch \X Registrable) :
       /\ Cardinality(old) <= 1 /\ \A o \in old : Gives[o[1]] = {o[2]}
       /\ db = [NoTables EXCEPT
                  !["source"] = {Sender[o[1]] : o \in old},
                  !["domain"] = {[name |-> n, by |-> "prior_task"] : n \in his}
                                  \cup {[name |-> o[2], by |-> "ours"] : o \in {x \in old : x[2] \notin his}},
                  !["evidence"] = {TableRow(1, o[2], o[1], FALSE) : o \in old},
                  !["domain_year"] = {[name |-> o[2], id |-> 1] : o \in old},
                  !["ingested_file"] = {o[1] : o \in old}]
       /\ issued = IF old = {} THEN 0 ELSE 2
  /\ located = 0
  /\ parquet = NoTables /\ there = {}
  /\ gpc = "idle" /\ step = 0
  /\ torn = FALSE /\ spoiled = FALSE /\ cutOff = FALSE /\ receded = FALSE /\ taken = {}
  /\ takes = 0 /\ rebuilds = 0 /\ gkills = 0
-----------------------------------------------------------------------------
(* What writes the store between exports and rebuilds. *)

\* init_db: what does not exist is created; rows an older program wrote lie below the start.
Issued  == IF issued = 0 THEN 1 ELSE issued
Located == IF located = 0 THEN MaxId(db["evidence"]) + 1 ELSE located

\* `ark ingest`: one transaction; a name its class holds already gives no row, and only a
\* fresh row dates its name.
IngestBatch(f) ==
  /\ gpc = "idle" /\ f \notin db["ingested_file"]
  /\ LET fresh == Gives[f] \ HeldFrom(db["evidence"], Sender[f])
         last  == Issued + Cardinality(fresh) - 1
         id    == CHOOSE g \in [fresh -> Issued..last] : \A a, b \in fresh : g[a] = g[b] => a = b
         undated(t) == {n \in fresh : YearTable(n) = t /\ \A y \in db[t] : y.name # n}
         found == {Registered(n) : n \in fresh} \ {d.name : d \in db["domain"]}
     IN  /\ db' = [t \in TableNames |->
                     CASE t = "source" -> db[t] \cup {Sender[f]}
                       [] t = "domain" -> db[t] \cup {[name |-> n, by |-> "ours"] : n \in found}
                       [] t = "evidence" -> db[t] \cup {TableRow(id[n], n, f, TRUE) : n \in fresh}
                       [] t = "ingested_file" -> db[t] \cup {f}
                       [] OTHER -> db[t] \cup {[name |-> n, id |-> id[n]] : n \in undated(t)}]
         /\ issued' = last + 1
  /\ located' = Located
  /\ UNCHANGED <<parquet, there, gpc, step, torn, spoiled, cutOff, receded, taken, takes, rebuilds, gkills>>

\* A red bank takes a source back: its rows, the years that cite them, its receipts.
TakeSource(s) ==
  /\ gpc = "idle" /\ takes < MaxTakes
  /\ LET gone == {row \in db["evidence"] : Sender[row.file] = s}
         ids  == {row.id : row \in gone}
         files == {f \in db["ingested_file"] : Sender[f] = s}
     IN  /\ gone # {} \/ files # {}
         /\ db' = [t \in TableNames |->
                     CASE t = "evidence" -> db[t] \ gone
                       [] t = "ingested_file" -> db[t] \ files
                       [] t \in {"domain_year", "hostname_year"} -> {y \in db[t] : y.id \notin ids}
                       [] OTHER -> db[t]]
         /\ taken' = taken \cup {row.name : row \in gone}
         /\ receded' = (receded \/ files # {})
  /\ takes' = takes + 1
  /\ UNCHANGED <<issued, located, parquet, there, gpc, step, torn, spoiled, cutOff, rebuilds, gkills>>
-----------------------------------------------------------------------------
(* `ark export --provenance`: write_provenance. *)

\* A name only his release gave us is his, not ours to ship.
ShippedRows(t) ==
  IF t # "domain" THEN db[t]
  ELSE {d \in db[t] : \/ d.by # "prior_task"
                      \/ \E row \in db["evidence"] : Registered(row.name) = d.name}

BeginGraph ==
  /\ gpc = "idle"
  /\ gpc' = "export" /\ step' = 1
  /\ UNCHANGED <<db, issued, located, parquet, there, torn, spoiled, cutOff, receded, taken, takes, rebuilds, gkills>>

\* One COPY, which replaces the table's file.
CopyTable ==
  /\ gpc = "export"
  /\ LET t == Tables[step]
     IN  /\ parquet' = [parquet EXCEPT ![t] = ShippedRows(t)]
         /\ there' = there \cup {t}
         /\ torn' = IF step = Len(Tables) THEN spoiled
                    ELSE torn \/ ~(parquet[t] \subseteq ShippedRows(t))
         /\ receded' = IF t = "ingested_file" THEN FALSE ELSE receded
  /\ IF step = Len(Tables) THEN gpc' = "idle" /\ step' = 0 ELSE gpc' = gpc /\ step' = step + 1
  /\ UNCHANGED <<db, issued, located, spoiled, cutOff, taken, takes, rebuilds, gkills>>
-----------------------------------------------------------------------------
(* `ark rebuild`: the guard, then load_provenance. *)

\* Mutant: the comparison the other way round.
MutBehind == Cardinality(db["ingested_file"]) >= Cardinality(parquet["ingested_file"])

\* The store's ledger is no longer than the export's.
Behind == Cardinality(db["ingested_file"]) <= Cardinality(parquet["ingested_file"])

Loadable == \A i \in 1..Len(CoreTables) : CoreTables[i] \in there

\* Without a core table, or ahead of the export and not forced, it stops before it drops.
BeginRebuild(force) ==
  /\ gpc = "idle" /\ rebuilds < MaxRebuilds
  /\ Behind \/ force
  /\ Loadable
  /\ rebuilds' = rebuilds + 1
  /\ gpc' = "drop" /\ step' = Len(Tables)
  /\ UNCHANGED <<db, issued, located, parquet, there, torn, spoiled, cutOff, receded, taken, takes, gkills>>

\* Mutant: the tables go in the order they load.
MutNextDropped == Tables[Len(Tables) + 1 - step]

\* Referrers first.
NextDropped == Tables[step]

DropTable ==
  /\ gpc = "drop"
  /\ db' = [db EXCEPT ![NextDropped] = {}]
  /\ receded' = (receded \/ (NextDropped = "ingested_file" /\ db[NextDropped] # {}))
  /\ IF step = 1 THEN gpc' = "dropSeq" /\ step' = 0 ELSE gpc' = gpc /\ step' = step - 1
  /\ UNCHANGED <<issued, located, parquet, there, torn, spoiled, cutOff, taken, takes, rebuilds, gkills>>

DropSequence ==
  /\ gpc = "dropSeq"
  /\ issued' = 0 /\ gpc' = "startSeq"
  /\ UNCHANGED <<db, located, parquet, there, step, torn, spoiled, cutOff, receded, taken, takes, rebuilds, gkills>>

\* Mutant: the start is the number of rows, not the last id.
MutFirstFree == Cardinality(parquet["evidence"]) + 1

\* Past every id the export holds.
FirstFree == MaxId(parquet["evidence"]) + 1

StartSequence ==
  /\ gpc = "startSeq"
  /\ issued' = FirstFree /\ gpc' = "dropLocated"
  /\ UNCHANGED <<db, located, parquet, there, step, torn, spoiled, cutOff, receded, taken, takes, rebuilds, gkills>>

DropLocated ==
  /\ gpc = "dropLocated"
  /\ located' = 0 /\ gpc' = "locate"
  /\ UNCHANGED <<db, issued, parquet, there, step, torn, spoiled, cutOff, receded, taken, takes, rebuilds, gkills>>

StartLocated ==
  /\ gpc = "locate"
  /\ located' = FirstFree /\ gpc' = "load" /\ step' = 1
  /\ UNCHANGED <<db, issued, parquet, there, torn, spoiled, cutOff, receded, taken, takes, rebuilds, gkills>>

\* One INSERT and its checkpoint; an optional table without a file stays empty. After the last
\* the exporter runs over the store, without the graph.
LoadTable ==
  /\ gpc = "load"
  /\ LET t == Tables[step]
     IN  /\ db' = [db EXCEPT ![t] = IF t \in there THEN parquet[t] ELSE @]
         /\ receded' = IF t = "ingested_file" THEN FALSE ELSE receded
  /\ spoiled' = (spoiled \/ torn)
  /\ IF step = Len(Tables) THEN gpc' = "idle" /\ step' = 0 ELSE gpc' = gpc /\ step' = step + 1
  /\ UNCHANGED <<issued, located, parquet, there, torn, cutOff, taken, takes, rebuilds, gkills>>

\* Whoever is in the store is killed between two statements.
KillInStore ==
  /\ gpc # "idle" /\ gkills < MaxGraphKills
  /\ gkills' = gkills + 1
  /\ cutOff' = TRUE
  /\ gpc' = "idle" /\ step' = 0
  /\ UNCHANGED <<db, issued, located, parquet, there, torn, spoiled, receded, taken, takes, rebuilds>>

GraphNext ==
  \/ \E f \in Batch : IngestBatch(f)
  \/ \E f \in Batch : TakeSource(Sender[f])
  \/ BeginGraph \/ CopyTable
  \/ \E force \in BOOLEAN : BeginRebuild(force)
  \/ DropTable \/ DropSequence \/ StartSequence \/ DropLocated \/ StartLocated
  \/ LoadTable \/ KillInStore

GraphSpec == GraphInit /\ [][GraphNext]_graphVars
-----------------------------------------------------------------------------
(***************************************************************************)
(* What tables that stand side by side owe each other: a year cites a row  *)
(* of its own name; a row's source and registrable are there; and what the *)
(* ledger calls read is held, but for what an unbank took                  *)
(* (provenance.py:1-19, checks.py:106-113).                                *)
(***************************************************************************)
SoundTables(tables) ==
  /\ \A y \in tables["domain_year"] \cup tables["hostname_year"] :
       \E row \in tables["evidence"] : row.id = y.id /\ row.name = y.name
  /\ \A row \in tables["evidence"] :
       /\ Sender[row.file] \in tables["source"]
       /\ \E d \in tables["domain"] : d.name = Registered(row.name)
  /\ \A f \in tables["ingested_file"] :
       \A n \in Gives[f] : n \in HeldFrom(tables["evidence"], Sender[f]) \cup taken

\* `no id is issued twice` (provenance.py:213).
IdsAreIssuedOnce ==
  /\ \A a, b \in db["evidence"] : a.id = b.id => a = b
  /\ issued # 0 => \A row \in db["evidence"] : row.id < issued

\* A row from located_from on says where it was read (checks.py:61-65).
LocatedRowsArePlaced == located # 0 => \A row \in db["evidence"] : row.id >= located => row.placed

\* Until a statement sequence was cut off, a file that is skipped has dated its names.
ReadIsDated ==
  gpc = "idle" /\ ~cutOff =>
    \A f \in db["ingested_file"] : \A n \in Gives[f] \ taken : \E y \in db[YearTable(n)] : y.name = n

(***************************************************************************)
(* Cut off between any two tables, an export leaves a graph and a rebuild  *)
(* leaves a store that is sound, and takes ingests that keep it so: the    *)
(* ledger is written after the rows and dropped before them. It is not so  *)
(* of an export cut off after rows left the store, whose newer files no    *)
(* longer hold what the older ones name (`torn`), and of a store loaded    *)
(* from it.                                                                *)
(***************************************************************************)
GraphIsSound ==
  /\ ~torn => SoundTables(parquet)
  /\ ~spoiled => SoundTables(db)
  /\ IdsAreIssuedOnce
  /\ LocatedRowsArePlaced
  /\ ReadIsDated

(***************************************************************************)
(* `it refuses when the store holds ingested files the export does not`    *)
(* (cli.py:1064-1066), as the code has it: a rebuild that is not forced    *)
(* discards no ingest, unless a file left the ledger since the export, by  *)
(* an unbank or a rebuild cut off. It compares two counts, so one file out *)
(* and another in pass unseen.                                             *)
(***************************************************************************)
Refuses == BeginRebuild(FALSE) => receded \/ db["ingested_file"] \subseteq parquet["ingested_file"]

RebuildDiscardsNothing == [][Refuses]_graphVars

\* Refuted: what the docstring says, without the exception.
RebuildRefusesAhead ==
  [][BeginRebuild(FALSE) => db["ingested_file"] \subseteq parquet["ingested_file"]]_graphVars
=============================================================================
