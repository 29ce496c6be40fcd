------------------------------- MODULE Items -------------------------------
(***************************************************************************)
(* The IETF mail archive: `plan` lists the months of every list, `sweep`   *)
(* reads month after month into the list's one growing shard, and the      *)
(* ingest of item shards reads a shard whole whenever it is not the one    *)
(* the ledger names.                                                       *)
(*                                                                         *)
(* A month is <<list, number>> of Size messages that name a host; a row is *)
(* <<list, number, message>>.  A shard is its whole rows, whether its last *)
(* line is torn, and how many lines it took, which with the rows is what   *)
(* its digest tells apart.                                                 *)
(***************************************************************************)
EXTENDS Naturals, FiniteSets

CONSTANTS Lists, Numbers, Size,
          MaxPlans, MaxFaults, MaxKills   \* bounds: plans, requests that fail, kills

ASSUME ItemsAssumption ==
  /\ Numbers \subseteq Nat /\ Size \in Nat \ {0} /\ {MaxPlans, MaxFaults, MaxKills} \subseteq Nat

VARIABLES
  cached, listing,   \* the lists with a cached listing, and the months in it
  planned,  \* plan.tsv
  swept,    \* swept.txt
  shards,   \* list -> its shard
  behind,   \* months whose first row was written behind a torn line
  planner, sweep, ingest,   \* the three programs
  held, ledger,   \* rows the store has read; list -> the shard its ledger row names
  count     \* plans, faults and kills so far

itemsVars == <<cached, listing, planned, swept, shards, behind, planner, sweep, ingest, held, ledger, count>>

Months     == Lists \X Numbers
RowsOf(m)  == {<<m[1], m[2], n>> : n \in 1..Size}
Empty      == [rows |-> {}, torn |-> FALSE, lines |-> 0]
NoPlan     == [at |-> "off", left |-> {}]
NoSweep    == [at |-> "off", work |-> {}, month |-> <<>>, upTo |-> 0, clean |-> FALSE]
NoIngest   == [at |-> "off", list |-> "", digest |-> Empty, rows |-> {}]

ItemsInit ==
  /\ cached = {} /\ listing = [l \in Lists |-> {}] /\ planned = {} /\ swept = {}
  /\ shards = [l \in Lists |-> Empty] /\ behind = {}
  /\ planner = NoPlan /\ sweep = NoSweep /\ ingest = NoIngest
  /\ held = {} /\ ledger = [l \in Lists |-> Empty]
  /\ count = [plans |-> 0, faults |-> 0, kills |-> 0]

Fault == count.faults < MaxFaults /\ count' = [count EXCEPT !.faults = @ + 1]
-----------------------------------------------------------------------------
BeginPlan ==
  /\ planner.at = "off" /\ count.plans < MaxPlans
  /\ count' = [count EXCEPT !.plans = @ + 1] /\ planner' = [at |-> "lists", left |-> Lists]
  /\ UNCHANGED <<cached, listing, planned, swept, shards, behind, sweep, ingest, held, ledger>>

\* A listing is fetched once: one that could not be read is cached as one without months.
MonthsOf(l) ==
  /\ planner.at = "lists" /\ l \in planner.left
  /\ planner' = [planner EXCEPT !.left = @ \ {l}]
  /\ cached' = cached \cup {l}
  /\ \/ listing' = (IF l \in cached THEN listing ELSE [listing EXCEPT ![l] = {l} \X Numbers])
        /\ UNCHANGED count
     \/ l \notin cached /\ Fault /\ UNCHANGED listing
  /\ UNCHANGED <<planned, swept, shards, behind, sweep, ingest, held, ledger>>

WritePlan ==
  /\ planner.at = "lists" /\ planner.left = {}
  /\ planned' = UNION {listing[l] : l \in Lists} /\ planner' = NoPlan
  /\ UNCHANGED <<cached, listing, swept, shards, behind, sweep, ingest, held, ledger, count>>
-----------------------------------------------------------------------------
BeginSweep ==
  /\ sweep.at = "off" /\ planned \ swept # {}
  /\ sweep' = [NoSweep EXCEPT !.at = "next", !.work = planned \ swept]
  /\ UNCHANGED <<cached, listing, planned, swept, shards, behind, planner, ingest, held, ledger, count>>

\* Newest year first: the higher number.
FetchMonth(m) ==
  /\ sweep.at = "next" /\ m \in sweep.work /\ \A other \in sweep.work : other[2] <= m[2]
  /\ sweep' = [sweep EXCEPT !.at = "reading", !.month = m, !.work = @ \ {m}, !.upTo = 0]
  /\ UNCHANGED <<cached, listing, planned, swept, shards, behind, planner, ingest, held, ledger, count>>

\* The month's rows to the upTo-th, after those already written: behind a torn line the first is lost.
AppendShard(upTo, torn) ==
  LET l    == sweep.month[1]
      glued == sweep.upTo = 0 /\ upTo > 0 /\ shards[l].torn
      new  == {r \in RowsOf(sweep.month) : r[3] <= upTo /\ ~(glued /\ r[3] = 1)}
  IN  /\ shards' = [shards EXCEPT ![l] =
           [rows |-> @.rows \cup new, lines |-> @.lines + upTo - sweep.upTo,
            torn |-> IF upTo = sweep.upTo THEN @.torn ELSE torn]]
      /\ behind' = IF glued THEN behind \cup {sweep.month} ELSE behind

\* The buffer fills: whole rows reach the file, and part of the next.
Spill(upTo) ==
  /\ sweep.at = "reading" /\ sweep.upTo = 0 /\ upTo \in 1..(Size - 1)
  /\ AppendShard(upTo, TRUE) /\ sweep' = [sweep EXCEPT !.upTo = upTo]
  /\ UNCHANGED <<cached, listing, planned, swept, planner, ingest, held, ledger, count>>

\* The transfer ends, whole or cut, and the shard is closed on whole lines.
CloseMonth(upTo) ==
  /\ sweep.at = "reading" /\ upTo \in sweep.upTo..Size
  /\ IF upTo = Size THEN UNCHANGED count ELSE Fault
  /\ sweep.upTo > 0 => upTo > sweep.upTo
  /\ AppendShard(upTo, FALSE)
  /\ sweep' = [sweep EXCEPT !.at = "mark", !.upTo = upTo, !.clean = (upTo = Size)]
  /\ UNCHANGED <<cached, listing, planned, swept, planner, ingest, held, ledger>>

\* Mutant: a month that was asked for is swept.
MutMarks == {sweep.month}

\* Only a clean curl counts as swept.
Marks == IF sweep.clean THEN {sweep.month} ELSE {}

Mark ==
  /\ sweep.at = "mark"
  /\ swept' = swept \cup Marks
  /\ sweep' = IF sweep.work = {} THEN NoSweep
              ELSE [sweep EXCEPT !.at = "next", !.month = <<>>, !.upTo = 0, !.clean = FALSE]
  /\ UNCHANGED <<cached, listing, planned, shards, behind, planner, ingest, held, ledger, count>>
-----------------------------------------------------------------------------
\* A shard whose digest its ledger row names is skipped.
Hash(l) ==
  /\ ingest.at = "off" /\ shards[l].lines > 0 /\ ledger[l] # shards[l]
  /\ ingest' = [NoIngest EXCEPT !.at = "hashed", !.list = l, !.digest = shards[l]]
  /\ UNCHANGED <<cached, listing, planned, swept, shards, behind, planner, sweep, held, ledger, count>>

ItemRows ==
  /\ ingest.at = "hashed"
  /\ ingest' = [ingest EXCEPT !.at = "read", !.rows = shards[ingest.list].rows]
  /\ UNCHANGED <<cached, listing, planned, swept, shards, behind, planner, sweep, held, ledger, count>>

\* What the ledger row names: the shard as hashed before the read.
Digest == ingest.digest

IngestItems ==
  /\ ingest.at = "read"
  /\ held' = held \cup ingest.rows
  /\ ledger' = [ledger EXCEPT ![ingest.list] = Digest]
  /\ ingest' = NoIngest
  /\ UNCHANGED <<cached, listing, planned, swept, shards, behind, planner, sweep, count>>
-----------------------------------------------------------------------------
\* What a killed sweep had not yet written is gone, and what it wrote may end in a torn line.
KillItems ==
  /\ count.kills < MaxKills /\ count' = [count EXCEPT !.kills = @ + 1]
  /\ \/ planner.at # "off" /\ planner' = NoPlan /\ UNCHANGED <<sweep, ingest>>
     \/ sweep.at # "off" /\ sweep' = NoSweep /\ UNCHANGED <<planner, ingest>>
     \/ ingest.at # "off" /\ ingest' = NoIngest /\ UNCHANGED <<planner, sweep>>
  /\ UNCHANGED <<cached, listing, planned, swept, shards, behind, held, ledger>>

ItemsNext ==
  \/ BeginPlan \/ WritePlan \/ BeginSweep \/ Mark \/ ItemRows \/ IngestItems \/ KillItems
  \/ \E l \in Lists : MonthsOf(l) \/ Hash(l)
  \/ \E m \in Months : FetchMonth(m)
  \/ \E k \in 0..Size : Spill(k) \/ CloseMonth(k)
ItemsSpec == ItemsInit /\ [][ItemsNext]_itemsVars
-----------------------------------------------------------------------------
ItemsTypeOK ==
  /\ swept \subseteq Months /\ planned \subseteq Months /\ behind \subseteq Months
  /\ \A l \in Lists : shards[l].rows \subseteq UNION {RowsOf(m) : m \in {l} \X Numbers}
  /\ held \subseteq UNION {RowsOf(m) : m \in Months}
  /\ ingest.at \in {"off", "hashed", "read"}

(***************************************************************************)
(* A month counted as swept has every row in its list's shard, over cut    *)
(* transfers and kills, but its first where it was written behind the torn *)
(* line a killed sweep left (collect_ietf_mail_archive.py:306-342).        *)
(***************************************************************************)
SweptIsWhole ==
  \A m \in swept : \A r \in RowsOf(m) :
    r \in shards[m[1]].rows \/ (r[3] = 1 /\ m \in behind)

(***************************************************************************)
(* A shard that is the one its ledger row names has every whole row in the *)
(* store, though the sweep appends to it while the ingest reads it         *)
(* (hostnames.py:1606-1670).                                               *)
(***************************************************************************)
LedgeredIsBanked ==
  \A l \in Lists : ledger[l] = shards[l] => shards[l].rows \subseteq held

(***************************************************************************)
(* Said at collect_ietf_mail_archive.py:42-44: both modes are resumable,   *)
(* so a month skipped as swept is in the shard whole.  Not kept.           *)
(***************************************************************************)
SweptIsInShard == \A m \in swept : RowsOf(m) \subseteq shards[m[1]].rows

(***************************************************************************)
(* A month skipped as swept is in its shard and a shard skipped as read is *)
(* in the store, but for a row behind a torn line                          *)
(* (collect_ietf_mail_archive.py:306-342, hostnames.py:1606-1670).         *)
(***************************************************************************)
MonthsAreKept == ItemsTypeOK /\ SweptIsWhole /\ LedgeredIsBanked
=============================================================================
