---------------------------- MODULE SourcesProofs ----------------------------
(***************************************************************************)
(* Proofs about what is collected and kept, for any lists, pages, files    *)
(* and bounds: the months of a mail archive over cut transfers and kills,  *)
(* the pages expanded into rows and candidates, the provenance graph with  *)
(* the store rebuilt from it, the files of the hostname lanes, the         *)
(* retraction of the host-years that rest on errors, and what the bulk     *)
(* readers make of a file of any length.                                   *)
(***************************************************************************)
EXTENDS Items, Expand, Graph, HostLanes, Retraction, Readers, FiniteSetTheorems,
        SequenceTheorems, WellFoundedInduction, TLAPS

-----------------------------------------------------------------------------
(* The mail archive. *)

InList(l) == UNION {RowsOf(m) : m \in {l} \X Numbers}
Shard(l)  == [rows : SUBSET InList(l), torn : BOOLEAN, lines : Nat]

\* What is planned and swept is of listed months.
PlanTyped ==
  /\ DOMAIN listing = Lists /\ \A l \in Lists : listing[l] \subseteq {l} \X Numbers
  /\ planned \subseteq Months /\ swept \subseteq Months /\ behind \subseteq Months

ShardsTyped ==
  /\ DOMAIN shards = Lists /\ DOMAIN ledger = Lists
  /\ \A l \in Lists : shards[l] \in Shard(l) /\ ledger[l] \in Shard(l)
  /\ held \subseteq UNION {RowsOf(m) : m \in Months}

Sweep(s) == s = [at |-> s.at, work |-> s.work, month |-> s.month, upTo |-> s.upTo, clean |-> s.clean]

SweepTyped ==
  /\ sweep.at \in {"off", "next", "reading", "mark"}
  /\ sweep.work \subseteq Months /\ sweep.upTo \in 0..Size /\ sweep.clean \in BOOLEAN
  /\ sweep.at \in {"reading", "mark"} => sweep.month \in Months
  /\ Sweep(sweep)

IngestTyped ==
  /\ ingest.at \in {"off", "hashed", "read"}
  /\ ingest.at # "off" => /\ ingest.list \in Lists /\ ingest.digest \in Shard(ingest.list)
                          /\ ingest.rows \subseteq InList(ingest.list)
  /\ ingest = [at |-> ingest.at, list |-> ingest.list, digest |-> ingest.digest, rows |-> ingest.rows]

\* The month under way has in its shard the rows up to where it has been read.
UpTo(m, n) == \A r \in RowsOf(m) : r[3] <= n => r \in shards[m[1]].rows \/ (r[3] = 1 /\ m \in behind)

ReadSoFar ==
  /\ sweep.at \in {"reading", "mark"} => UpTo(sweep.month, sweep.upTo)
  /\ sweep.at = "mark" /\ sweep.clean => sweep.upTo = Size

\* A ledger row names a shard whose rows are held; an ingest reads after it has hashed.
BankedIsHeld ==
  /\ \A l \in Lists : ledger[l].rows \subseteq held
  /\ ingest.at # "off" => ingest.digest.rows \subseteq shards[ingest.list].rows
  /\ ingest.at = "read" => ingest.digest.rows \subseteq ingest.rows

ItemsInv ==
  /\ PlanTyped /\ ShardsTyped /\ SweepTyped /\ IngestTyped
  /\ SweptIsWhole /\ ReadSoFar /\ BankedIsHeld

LEMMA ItemsBegin == ItemsInit => ItemsInv
PROOF
  <1> SUFFICES ASSUME ItemsInit PROVE ItemsInv
      OBVIOUS
  <1>0. 0 \in 0..Size BY ItemsAssumption
  <1> USE ItemsAssumption DEF ItemsInit, NoSweep, NoIngest, Empty
  <1>1. PlanTyped BY DEF PlanTyped
  <1>2. ShardsTyped BY DEF ShardsTyped, Shard
  <1>3. SweepTyped
    <2>1. sweep.at = "off" /\ sweep.work = {} /\ sweep.upTo = 0 /\ sweep.clean = FALSE OBVIOUS
    <2>2. Sweep(sweep) BY DEF Sweep
    <2> QED BY <1>0, <2>1, <2>2, Zenon DEF SweepTyped
  <1>4. IngestTyped BY DEF IngestTyped
  <1>5. SweptIsWhole /\ ReadSoFar BY DEF SweptIsWhole, ReadSoFar
  <1>6. BankedIsHeld BY DEF BankedIsHeld
  <1> QED BY <1>1, <1>2, <1>3, <1>4, <1>5, <1>6 DEF ItemsInv

\* What a write adds to its list's shard: rows of the month, the first but behind a torn line.
LEMMA AppendAdds ==
  ASSUME ItemsInv, sweep.at = "reading", NEW k \in 0..Size, k >= sweep.upTo, NEW part \in BOOLEAN,
         AppendShard(k, part)
  PROVE  /\ DOMAIN shards' = Lists
         /\ \A l \in Lists : shards'[l] \in Shard(l) /\ shards[l].rows \subseteq shards'[l].rows
         /\ behind \subseteq behind' /\ behind' \subseteq Months
         /\ \A r \in RowsOf(sweep.month) : r[3] <= k =>
              r \in shards'[sweep.month[1]].rows \/ (r[3] = 1 /\ sweep.month \in behind')
PROOF
  <1> DEFINE m == sweep.month
             glued == sweep.upTo = 0 /\ k > 0 /\ shards[m[1]].torn
             new == {r \in RowsOf(m) : r[3] <= k /\ ~(glued /\ r[3] = 1)}
             grown == [rows |-> shards[m[1]].rows \cup new, lines |-> shards[m[1]].lines + k - sweep.upTo,
                       torn |-> IF k = sweep.upTo THEN shards[m[1]].torn ELSE part]
  <1>1. m \in Months /\ m[1] \in Lists BY DEF ItemsInv, SweepTyped, Months
  <1>2. sweep.upTo \in 0..Size /\ Size \in Nat /\ shards[m[1]] \in Shard(m[1])
    BY <1>1, ItemsAssumption DEF ItemsInv, SweepTyped, ShardsTyped
  <1>3. RowsOf(m) \subseteq InList(m[1])
    <2>1. m \in {m[1]} \X Numbers BY <1>1 DEF Months
    <2> QED BY <2>1 DEF InList
  <1>4. shards[m[1]].lines + k - sweep.upTo \in Nat BY <1>2 DEF Shard
  <1>5. (IF k = sweep.upTo THEN shards[m[1]].torn ELSE part) \in BOOLEAN BY <1>2 DEF Shard
  <1>6. grown \in Shard(m[1]) /\ shards[m[1]].rows \subseteq grown.rows /\ grown.rows = shards[m[1]].rows \cup new
    <2>1. shards[m[1]].rows \cup new \subseteq InList(m[1]) BY <1>2, <1>3 DEF Shard
    <2> QED BY <1>4, <1>5, <2>1 DEF Shard
  <1>7. /\ shards' = [shards EXCEPT ![m[1]] = grown]
        /\ behind' = IF glued THEN behind \cup {m} ELSE behind
    BY DEF AppendShard
  <1>8. \A r \in RowsOf(m) : r[3] <= k => r \in grown.rows \/ (r[3] = 1 /\ m \in behind')
    BY <1>6, <1>7
  <1> HIDE DEF grown, new, glued, m
  <1>9. DOMAIN shards = Lists /\ \A l \in Lists : shards[l] \in Shard(l) BY DEF ItemsInv, ShardsTyped
  <1>10. DOMAIN shards' = Lists /\ shards'[m[1]] = grown /\ \A l \in Lists : l # m[1] => shards'[l] = shards[l]
    BY <1>1, <1>7, <1>9
  <1>11. \A l \in Lists : shards'[l] \in Shard(l) /\ shards[l].rows \subseteq shards'[l].rows
    BY <1>6, <1>9, <1>10
  <1>12. behind \subseteq behind' /\ behind' \subseteq Months BY <1>1, <1>7 DEF ItemsInv, PlanTyped
  <1> QED BY <1>8, <1>10, <1>11, <1>12 DEF m

\* Both ends of a write: the buffer fills, or the transfer ends.
LEMMA SweepAppends ==
  ASSUME ItemsInv, NEW k \in 0..Size, Spill(k) \/ CloseMonth(k)
  PROVE  /\ sweep.at = "reading" /\ k >= sweep.upTo /\ DOMAIN shards' = Lists
         /\ \A l \in Lists : shards'[l] \in Shard(l) /\ shards[l].rows \subseteq shards'[l].rows
         /\ behind \subseteq behind' /\ behind' \subseteq Months
         /\ \A r \in RowsOf(sweep.month) : r[3] <= k =>
              r \in shards'[sweep.month[1]].rows \/ (r[3] = 1 /\ sweep.month \in behind')
PROOF
  <1>1. CASE Spill(k)
    <2>1. sweep.at = "reading" /\ k >= sweep.upTo BY <1>1, ItemsAssumption DEF Spill
    <2>2. AppendShard(k, TRUE) BY <1>1, Zenon DEF Spill
    <2> QED BY <2>1, <2>2, AppendAdds, Zenon
  <1>2. CASE CloseMonth(k)
    <2>1. sweep.at = "reading" /\ k >= sweep.upTo
      BY <1>2, ItemsAssumption DEF CloseMonth, ItemsInv, SweepTyped
    <2>2. AppendShard(k, FALSE) BY <1>2, Zenon DEF CloseMonth
    <2> QED BY <2>1, <2>2, AppendAdds, Zenon
  <1> QED BY <1>1, <1>2

LEMMA PlanStays == ItemsInv /\ [ItemsNext]_itemsVars => PlanTyped'
PROOF
  <1> SUFFICES ASSUME ItemsInv, [ItemsNext]_itemsVars PROVE PlanTyped'
      OBVIOUS
  <1>1. PlanTyped BY DEF ItemsInv
  <1>2. ASSUME UNCHANGED <<listing, planned, swept, behind>> PROVE PlanTyped' BY <1>1, <1>2 DEF PlanTyped
  <1>3. CASE BeginPlan \/ BeginSweep \/ ItemRows \/ IngestItems \/ KillItems
    BY <1>2, <1>3 DEF BeginPlan, BeginSweep, ItemRows, IngestItems, KillItems
  <1>4. ASSUME NEW l \in Lists, MonthsOf(l) PROVE PlanTyped' BY <1>1, <1>4 DEF MonthsOf, PlanTyped
  <1>5. ASSUME WritePlan PROVE PlanTyped' BY <1>1, <1>5 DEF WritePlan, PlanTyped, Months
  <1>6. ASSUME Mark PROVE PlanTyped'
    BY <1>1, <1>6 DEF Mark, Marks, PlanTyped, ItemsInv, SweepTyped
  <1>7. ASSUME NEW l \in Lists, Hash(l) PROVE PlanTyped' BY <1>2, <1>7 DEF Hash
  <1>8. ASSUME NEW m \in Months, FetchMonth(m) PROVE PlanTyped' BY <1>2, <1>8 DEF FetchMonth
  <1>9. ASSUME NEW k \in 0..Size, Spill(k) PROVE PlanTyped'
    BY <1>1, <1>9, SweepAppends DEF Spill, PlanTyped
  <1>10. ASSUME NEW k \in 0..Size, CloseMonth(k) PROVE PlanTyped'
    BY <1>1, <1>10, SweepAppends DEF CloseMonth, PlanTyped
  <1>11. CASE UNCHANGED itemsVars BY <1>2, <1>11 DEF itemsVars
  <1> QED BY <1>3, <1>4, <1>5, <1>6, <1>7, <1>8, <1>9, <1>10, <1>11 DEF ItemsNext

LEMMA ShardsStay == ItemsInv /\ [ItemsNext]_itemsVars => ShardsTyped'
PROOF
  <1> SUFFICES ASSUME ItemsInv, [ItemsNext]_itemsVars PROVE ShardsTyped'
      OBVIOUS
  <1>1. ShardsTyped BY DEF ItemsInv
  <1>2. ASSUME UNCHANGED <<shards, ledger, held>> PROVE ShardsTyped' BY <1>1, <1>2 DEF ShardsTyped
  <1>3. CASE BeginPlan \/ WritePlan \/ BeginSweep \/ Mark \/ ItemRows \/ KillItems
    BY <1>2, <1>3 DEF BeginPlan, WritePlan, BeginSweep, Mark, ItemRows, KillItems
  <1>4. ASSUME IngestItems PROVE ShardsTyped'
    <2>1. /\ ingest.list \in Lists /\ ingest.digest \in Shard(ingest.list)
          /\ ingest.rows \subseteq InList(ingest.list)
      BY <1>4 DEF IngestItems, ItemsInv, IngestTyped
    <2>2. InList(ingest.list) \subseteq UNION {RowsOf(m) : m \in Months} BY <2>1 DEF InList, Months
    <2>3. /\ shards' = shards /\ held' = held \cup ingest.rows
          /\ ledger' = [ledger EXCEPT ![ingest.list] = ingest.digest]
      BY <1>4 DEF IngestItems, Digest
    <2> QED BY <1>1, <2>1, <2>2, <2>3 DEF ShardsTyped
  <1>5. ASSUME NEW l \in Lists, MonthsOf(l) \/ Hash(l) PROVE ShardsTyped' BY <1>2, <1>5 DEF MonthsOf, Hash
  <1>6. ASSUME NEW m \in Months, FetchMonth(m) PROVE ShardsTyped' BY <1>2, <1>6 DEF FetchMonth
  <1>7. ASSUME NEW k \in 0..Size, Spill(k) PROVE ShardsTyped'
    BY <1>1, <1>7, SweepAppends DEF Spill, ShardsTyped
  <1>8. ASSUME NEW k \in 0..Size, CloseMonth(k) PROVE ShardsTyped'
    BY <1>1, <1>8, SweepAppends DEF CloseMonth, ShardsTyped
  <1>9. CASE UNCHANGED itemsVars BY <1>2, <1>9 DEF itemsVars
  <1> QED BY <1>3, <1>4, <1>5, <1>6, <1>7, <1>8, <1>9 DEF ItemsNext

LEMMA SweepStays == ItemsInv /\ [ItemsNext]_itemsVars => SweepTyped'
PROOF
  <1> SUFFICES ASSUME ItemsInv, [ItemsNext]_itemsVars PROVE SweepTyped'
      OBVIOUS
  <1>1. SweepTyped /\ Size \in Nat BY ItemsAssumption DEF ItemsInv
  <1>2. ASSUME UNCHANGED sweep PROVE SweepTyped' BY <1>1, <1>2 DEF SweepTyped
  <1>3. CASE BeginPlan \/ WritePlan \/ ItemRows \/ IngestItems
    BY <1>2, <1>3 DEF BeginPlan, WritePlan, ItemRows, IngestItems
  <1>4. ASSUME NEW l \in Lists, MonthsOf(l) \/ Hash(l) PROVE SweepTyped' BY <1>2, <1>4 DEF MonthsOf, Hash
  <1>5. ASSUME sweep'.at \in {"off", "next", "reading", "mark"}, Sweep(sweep'),
               sweep'.work \subseteq Months, sweep'.upTo \in 0..Size, sweep'.clean \in BOOLEAN,
               sweep'.at \in {"reading", "mark"} => sweep'.month \in Months
        PROVE  SweepTyped'
    BY <1>5, Zenon DEF SweepTyped, Sweep
  <1> USE DEF Sweep
  <1>0. 0 \in 0..Size BY <1>1
  <1>6. ASSUME sweep' = NoSweep PROVE SweepTyped'
    <2>1. /\ sweep'.at = "off" /\ Sweep(sweep') /\ sweep'.work = {} /\ sweep'.upTo = 0
          /\ sweep'.clean = FALSE
      BY <1>6 DEF NoSweep
    <2> QED BY <1>0, <1>5, <2>1
  <1>7. ASSUME BeginSweep PROVE SweepTyped'
    <2>1. planned \ swept \subseteq Months BY DEF ItemsInv, PlanTyped
    <2>2. /\ sweep'.at = "next" /\ Sweep(sweep') /\ sweep'.work = planned \ swept /\ sweep'.upTo = 0
          /\ sweep'.clean = FALSE
      BY <1>7 DEF BeginSweep, NoSweep
    <2> QED BY <1>0, <1>5, <2>1, <2>2
  <1>8. ASSUME KillItems PROVE SweepTyped' BY <1>2, <1>6, <1>8 DEF KillItems
  <1>9. ASSUME Mark PROVE SweepTyped'
    <2>1. CASE sweep' = NoSweep BY <1>6, <2>1
    <2>2. CASE sweep' = [sweep EXCEPT !.at = "next", !.month = <<>>, !.upTo = 0, !.clean = FALSE]
      <3>1. /\ sweep'.at = "next" /\ Sweep(sweep') /\ sweep'.work = sweep.work /\ sweep'.upTo = 0
            /\ sweep'.clean = FALSE
        BY <1>1, <2>2 DEF SweepTyped
      <3> QED BY <1>0, <1>1, <1>5, <3>1 DEF SweepTyped
    <2> QED BY <1>9, <2>1, <2>2 DEF Mark
  <1>10. ASSUME NEW m \in Months, FetchMonth(m) PROVE SweepTyped'
    <2>1. /\ sweep'.at = "reading" /\ Sweep(sweep') /\ sweep'.work = sweep.work \ {m} /\ sweep'.upTo = 0
          /\ sweep'.month = m /\ sweep'.clean = sweep.clean
      BY <1>1, <1>10 DEF FetchMonth, SweepTyped
    <2> QED BY <1>0, <1>1, <1>5, <2>1 DEF SweepTyped
  <1>11. ASSUME NEW k \in 0..Size, Spill(k) PROVE SweepTyped'
    <2>1. /\ sweep'.at = "reading" /\ Sweep(sweep') /\ sweep'.work = sweep.work /\ sweep'.upTo = k
          /\ sweep'.month = sweep.month /\ sweep'.clean = sweep.clean /\ sweep.at = "reading"
      BY <1>1, <1>11 DEF Spill, SweepTyped
    <2> QED BY <1>1, <1>5, <2>1 DEF SweepTyped
  <1>12. ASSUME NEW k \in 0..Size, CloseMonth(k) PROVE SweepTyped'
    <2>1. /\ sweep'.at = "mark" /\ Sweep(sweep') /\ sweep'.work = sweep.work /\ sweep'.upTo = k
          /\ sweep'.month = sweep.month /\ sweep.at = "reading"
      BY <1>1, <1>12 DEF CloseMonth, SweepTyped
    <2>2. sweep'.clean \in BOOLEAN
      <3>1. sweep'.clean = (k = Size) BY <1>1, <1>12 DEF CloseMonth, SweepTyped
      <3> QED BY <3>1, Zenon
    <2> QED BY <1>1, <1>5, <2>1, <2>2 DEF SweepTyped
  <1>13. CASE UNCHANGED itemsVars BY <1>2, <1>13 DEF itemsVars
  <1> QED BY <1>3, <1>4, <1>7, <1>8, <1>9, <1>10, <1>11, <1>12, <1>13 DEF ItemsNext

LEMMA IngestStays == ItemsInv /\ [ItemsNext]_itemsVars => IngestTyped' /\ BankedIsHeld'
PROOF
  <1> SUFFICES ASSUME ItemsInv, [ItemsNext]_itemsVars PROVE IngestTyped' /\ BankedIsHeld'
      OBVIOUS
  <1>1. IngestTyped /\ BankedIsHeld /\ \A l \in Lists : shards[l] \in Shard(l)
    BY DEF ItemsInv, ShardsTyped
  <1>2. ASSUME UNCHANGED <<ingest, shards, ledger, held>> PROVE IngestTyped' /\ BankedIsHeld'
    BY <1>1, <1>2 DEF IngestTyped, BankedIsHeld
  <1>3. CASE BeginPlan \/ WritePlan \/ BeginSweep \/ Mark
    BY <1>2, <1>3 DEF BeginPlan, WritePlan, BeginSweep, Mark
  <1>4. ASSUME NEW l \in Lists, MonthsOf(l) PROVE IngestTyped' /\ BankedIsHeld' BY <1>2, <1>4 DEF MonthsOf
  <1>5. ASSUME NEW m \in Months, FetchMonth(m) PROVE IngestTyped' /\ BankedIsHeld' BY <1>2, <1>5 DEF FetchMonth
  <1>6. ASSUME ingest' = NoIngest, UNCHANGED <<shards, ledger, held>> PROVE IngestTyped' /\ BankedIsHeld'
    BY <1>1, <1>6 DEF IngestTyped, BankedIsHeld, NoIngest
  <1>7. ASSUME KillItems PROVE IngestTyped' /\ BankedIsHeld' BY <1>2, <1>6, <1>7 DEF KillItems
  <1>8. ASSUME NEW l \in Lists, Hash(l) PROVE IngestTyped' /\ BankedIsHeld'
    BY <1>1, <1>8 DEF Hash, IngestTyped, BankedIsHeld, NoIngest
  <1>9. ASSUME ItemRows PROVE IngestTyped' /\ BankedIsHeld'
    BY <1>1, <1>9 DEF ItemRows, IngestTyped, BankedIsHeld, Shard
  <1>10. ASSUME IngestItems PROVE IngestTyped' /\ BankedIsHeld'
    BY <1>1, <1>10 DEF IngestItems, Digest, IngestTyped, BankedIsHeld, NoIngest, ItemsInv, ShardsTyped
  <1>11. ASSUME UNCHANGED <<ingest, ledger, held>>, \A l \in Lists : shards[l].rows \subseteq shards'[l].rows
         PROVE  IngestTyped' /\ BankedIsHeld'
    BY <1>1, <1>11 DEF IngestTyped, BankedIsHeld
  <1>12. ASSUME NEW k \in 0..Size, Spill(k) PROVE IngestTyped' /\ BankedIsHeld'
    BY <1>11, <1>12, SweepAppends DEF Spill
  <1>13. ASSUME NEW k \in 0..Size, CloseMonth(k) PROVE IngestTyped' /\ BankedIsHeld'
    BY <1>11, <1>13, SweepAppends DEF CloseMonth
  <1>14. CASE UNCHANGED itemsVars BY <1>2, <1>14 DEF itemsVars
  <1> QED BY <1>3, <1>4, <1>5, <1>7, <1>8, <1>9, <1>10, <1>12, <1>13, <1>14 DEF ItemsNext

LEMMA ReadStays == ItemsInv /\ [ItemsNext]_itemsVars => SweptIsWhole' /\ ReadSoFar'
PROOF
  <1> SUFFICES ASSUME ItemsInv, [ItemsNext]_itemsVars PROVE SweptIsWhole' /\ ReadSoFar'
      OBVIOUS
  <1>1. SweptIsWhole /\ ReadSoFar /\ SweepTyped /\ swept \subseteq Months BY DEF ItemsInv, PlanTyped
  <1>2. ASSUME UNCHANGED <<swept, behind, shards, sweep>> PROVE SweptIsWhole' /\ ReadSoFar'
    BY <1>1, <1>2 DEF SweptIsWhole, ReadSoFar, UpTo
  <1>3. CASE BeginPlan \/ WritePlan \/ ItemRows \/ IngestItems
    BY <1>2, <1>3 DEF BeginPlan, WritePlan, ItemRows, IngestItems
  <1>4. ASSUME NEW l \in Lists, MonthsOf(l) \/ Hash(l) PROVE SweptIsWhole' /\ ReadSoFar'
    BY <1>2, <1>4 DEF MonthsOf, Hash
  <1>5. ASSUME UNCHANGED <<swept, behind, shards>>, sweep'.at \in {"off", "next"}
        PROVE  SweptIsWhole' /\ ReadSoFar'
    BY <1>1, <1>5 DEF SweptIsWhole, ReadSoFar
  <1>6. ASSUME BeginSweep PROVE SweptIsWhole' /\ ReadSoFar' BY <1>5, <1>6 DEF BeginSweep, NoSweep
  <1>7. ASSUME KillItems PROVE SweptIsWhole' /\ ReadSoFar' BY <1>2, <1>5, <1>7 DEF KillItems, NoSweep
  <1>8. ASSUME NEW m \in Months, FetchMonth(m) PROVE SweptIsWhole' /\ ReadSoFar'
    <2>1. /\ UNCHANGED <<swept, behind, shards>>
          /\ sweep'.at = "reading" /\ sweep'.month = m /\ sweep'.upTo = 0
      BY <1>1, <1>8 DEF FetchMonth, SweepTyped
    <2>2. UpTo(m, 0)' BY DEF UpTo, RowsOf
    <2> QED BY <1>1, <2>1, <2>2 DEF SweptIsWhole, ReadSoFar
  <1>9. ASSUME Mark PROVE SweptIsWhole' /\ ReadSoFar'
    <2>1. sweep'.at \in {"off", "next"} /\ UNCHANGED <<behind, shards>> /\ swept' = swept \cup Marks
      BY <1>1, <1>9 DEF Mark, NoSweep, SweepTyped
    <2>2. ASSUME NEW m \in Marks, NEW r \in RowsOf(m) PROVE r \in shards[m[1]].rows \/ (r[3] = 1 /\ m \in behind)
      <3>1. m = sweep.month /\ UpTo(m, Size) BY <1>1, <1>9, <2>2 DEF Mark, Marks, ReadSoFar
      <3>2. r[3] <= Size BY <2>2, ItemsAssumption DEF RowsOf
      <3> QED BY <3>1, <3>2 DEF UpTo
    <2> QED BY <1>1, <2>1, <2>2 DEF SweptIsWhole, ReadSoFar
  <1>10. ASSUME UNCHANGED swept, behind \subseteq behind', \A l \in Lists : shards[l].rows \subseteq shards'[l].rows
         PROVE  SweptIsWhole'
    BY <1>1, <1>10 DEF SweptIsWhole, Months
  <1>11. ASSUME NEW k \in 0..Size, Spill(k) PROVE SweptIsWhole' /\ ReadSoFar'
    <2>1. UNCHANGED swept BY <1>11 DEF Spill
    <2>2. sweep'.at = "reading" /\ sweep'.month = sweep.month /\ sweep'.upTo = k
      BY <1>1, <1>11 DEF Spill, SweepTyped
    <2>3. /\ behind \subseteq behind' /\ \A l \in Lists : shards[l].rows \subseteq shards'[l].rows
          /\ \A r \in RowsOf(sweep.month) : r[3] <= k =>
               r \in shards'[sweep.month[1]].rows \/ (r[3] = 1 /\ sweep.month \in behind')
      BY <1>11, SweepAppends, Zenon
    <2>4. UpTo(sweep.month, k)' BY <2>2, <2>3 DEF UpTo, RowsOf
    <2>5. SweptIsWhole' BY <1>10, <2>1, <2>3
    <2> QED BY <2>2, <2>4, <2>5 DEF ReadSoFar, UpTo
  <1>12. ASSUME NEW k \in 0..Size, CloseMonth(k) PROVE SweptIsWhole' /\ ReadSoFar'
    <2>1. UNCHANGED swept BY <1>12 DEF CloseMonth
    <2>2. /\ sweep'.at = "mark" /\ sweep'.month = sweep.month /\ sweep'.upTo = k
          /\ sweep'.clean => k = Size
      BY <1>1, <1>12 DEF CloseMonth, Sweep, SweepTyped
    <2>3. /\ behind \subseteq behind' /\ \A l \in Lists : shards[l].rows \subseteq shards'[l].rows
          /\ \A r \in RowsOf(sweep.month) : r[3] <= k =>
               r \in shards'[sweep.month[1]].rows \/ (r[3] = 1 /\ sweep.month \in behind')
      BY <1>12, SweepAppends, Zenon
    <2>4. UpTo(sweep.month, k)' BY <2>2, <2>3 DEF UpTo, RowsOf
    <2>5. SweptIsWhole' BY <1>10, <2>1, <2>3
    <2> QED BY <2>2, <2>4, <2>5 DEF ReadSoFar, UpTo
  <1>13. CASE UNCHANGED itemsVars BY <1>2, <1>13 DEF itemsVars
  <1> QED BY <1>3, <1>4, <1>6, <1>7, <1>8, <1>9, <1>11, <1>12, <1>13 DEF ItemsNext

(***************************************************************************)
(* Of any number of lists and months of any size, however often a listing  *)
(* fails, a transfer is cut or a program is killed: a month skipped as     *)
(* swept is in its shard and a shard skipped as read is in the store, but  *)
(* for a row behind a torn line (collect_ietf_mail_archive.py,             *)
(* hostnames.py).                                                          *)
(***************************************************************************)
THEOREM MonthsStayKept == ItemsSpec => []MonthsAreKept
PROOF
  <1>1. ItemsInit => ItemsInv BY ItemsBegin
  <1>2. ItemsInv /\ [ItemsNext]_itemsVars => ItemsInv'
    BY PlanStays, ShardsStay, SweepStays, IngestStays, ReadStays DEF ItemsInv
  <1>3. ItemsInv => MonthsAreKept
    <2> SUFFICES ASSUME ItemsInv PROVE MonthsAreKept
        OBVIOUS
    <2>1. ItemsTypeOK
      BY DEF ItemsInv, ItemsTypeOK, PlanTyped, ShardsTyped, IngestTyped, Shard, InList
    <2>2. LedgeredIsBanked BY DEF ItemsInv, BankedIsHeld, LedgeredIsBanked, ShardsTyped
    <2> QED BY <2>1, <2>2 DEF ItemsInv, MonthsAreKept
  <1> QED BY <1>1, <1>2, <1>3, PTL DEF ItemsSpec

-----------------------------------------------------------------------------
(* Pages expanded, and the names they leave to verify. *)

LEMMA ConcatSet ==
  ASSUME NEW S, NEW s \in Seq(S), NEW t \in Seq(S)
  PROVE  ToSet(s \o t) = ToSet(s) \cup ToSet(t)
PROOF
  <1>1. ASSUME NEW x \in ToSet(s \o t) PROVE x \in ToSet(s) \cup ToSet(t)
    <2>1. PICK i \in DOMAIN (s \o t) : x = (s \o t)[i] BY <1>1 DEF ToSet
    <2>2. i \in 1..(Len(s) + Len(t)) BY <2>1, ConcatProperties
    <2>3. CASE i <= Len(s)
      <3>1. i \in DOMAIN s /\ x = s[i] BY <2>1, <2>2, <2>3, ConcatProperties
      <3> QED BY <3>1 DEF ToSet
    <2>4. CASE i > Len(s)
      <3>1. i - Len(s) \in DOMAIN t /\ x = t[i - Len(s)] BY <2>1, <2>2, <2>4, ConcatProperties
      <3> QED BY <3>1 DEF ToSet
    <2> QED BY <2>2, <2>3, <2>4
  <1>2. ASSUME NEW x \in ToSet(s) PROVE x \in ToSet(s \o t)
    <2>1. PICK i \in DOMAIN s : x = s[i] BY <1>2 DEF ToSet
    <2>2. i \in DOMAIN (s \o t) /\ (s \o t)[i] = x BY <2>1, ConcatProperties
    <2> QED BY <2>2 DEF ToSet
  <1>3. ASSUME NEW x \in ToSet(t) PROVE x \in ToSet(s \o t)
    <2>1. PICK i \in DOMAIN t : x = t[i] BY <1>3 DEF ToSet
    <2>2. Len(s) + i \in DOMAIN (s \o t) /\ (s \o t)[Len(s) + i] = x BY <2>1, ConcatProperties
    <2> QED BY <2>2 DEF ToSet
  <1> QED BY <1>1, <1>2, <1>3

LEMMA OneLine ==
  ASSUME NEW S, NEW x \in S
  PROVE  <<x>> \in Seq(S) /\ ToSet(<<x>>) = {x}
PROOF
  <1>1. <<x>> \in Seq(S) /\ DOMAIN <<x>> = {1} /\ <<x>>[1] = x OBVIOUS
  <1> QED BY <1>1 DEF ToSet

LEMMA CutSet ==
  ASSUME NEW S, NEW s \in Seq(S), NEW n \in 0..Len(s)
  PROVE  /\ SubSeq(s, 1, n) \in Seq(S)
         /\ ToSet(SubSeq(s, 1, n)) \subseteq ToSet(s)
         /\ ToSet(s) \subseteq ToSet(SubSeq(s, 1, n)) \cup ToSet(SubSeq(s, n + 1, Len(s)))
PROOF
  <1> DEFINE kept == SubSeq(s, 1, n)
             lost == SubSeq(s, n + 1, Len(s))
  <1>1. kept \in Seq(S) /\ Len(kept) = n /\ \A i \in 1..n : kept[i] = s[i]
    BY SubSeqProperties
  <1>2. lost \in Seq(S) /\ Len(lost) = Len(s) - n /\ \A i \in 1..(Len(s) - n) : lost[i] = s[n + i]
    BY SubSeqProperties
  <1> HIDE DEF kept, lost
  <1>3. ToSet(kept) \subseteq ToSet(s) BY <1>1 DEF ToSet
  <1>4. ASSUME NEW x \in ToSet(s) PROVE x \in ToSet(kept) \cup ToSet(lost)
    <2>1. PICK i \in 1..Len(s) : x = s[i] BY <1>4 DEF ToSet
    <2>2. CASE i <= n
      <3>1. i \in DOMAIN kept /\ kept[i] = x BY <1>1, <2>1, <2>2
      <3> QED BY <3>1 DEF ToSet
    <2>3. CASE i > n
      <3>1. i - n \in DOMAIN lost /\ lost[i - n] = x BY <1>2, <2>1, <2>3
      <3> QED BY <3>1 DEF ToSet
    <2> QED BY <2>1, <2>2, <2>3
  <1> QED BY <1>1, <1>3, <1>4 DEF kept, lost

\* A page with one answered capture among these lines has all it was asked for.
Filed(S, p, y)  == \E l \in S : l.page = p /\ l.year = y /\ l.ok
Whole(S, past)  ==
  \A p \in Page \ past : (\E l \in S : l.page = p /\ l.ok) => \A y \in Asked(p) : Filed(S, p, y)
Marked(S, noted) == \A l \in S : l.curated <=> l.page \in noted

LinesTyped ==
  /\ journal \in Seq(Seq(Fetched)) /\ unflushed \in Seq(Fetched)
  /\ waiting \subseteq Page /\ (~fetching => unflushed = <<>>)

PagesWhole ==
  /\ \A r \in DOMAIN journal : Whole(ToSet(journal[r]), passed)
  /\ Whole(ToSet(unflushed), passed)

\* A line says of its page what the seed file says, unless that changed once the page was settled.
AsMarked ==
  /\ \A r \in DOMAIN journal : Marked({l \in ToSet(journal[r]) : l.ok /\ l.page \notin late}, curated)
  /\ Marked(ToSet(unflushed), curated)

ReadAsFiled ==
  /\ receipt \subseteq Half \X DOMAIN journal /\ toRead \subseteq DOMAIN journal
  /\ \A half \in Half : \A r \in DOMAIN journal : <<half, r>> \in receipt => LinksOf(half, r) \subseteq row

\* A pass owes what it has not queued, and a seed holds it.
PassOwes ==
  /\ pass = "links" => "links" \in owing
  /\ pass = "seed" => "seed" \in owing /\ SeedFile \ Proven \subseteq toQueue
  /\ toQueue \subseteq domain /\ \A e \in row : e.name \in domain

ExpandInv == LinesTyped /\ PagesWhole /\ AsMarked /\ ReadAsFiled /\ PassOwes /\ UndatedIsQueued

LEMMA ExpandBegins == ExpandInit => ExpandInv
PROOF
  <1> SUFFICES ASSUME ExpandInit PROVE ExpandInv
      OBVIOUS
  <1> USE DEF ExpandInit
  <1>1. journal = <<>> /\ unflushed = <<>> /\ DOMAIN journal = {} /\ ToSet(unflushed) = {} BY DEF ToSet
  <1>2. LinesTyped BY <1>1 DEF LinesTyped
  <1>3. PagesWhole /\ AsMarked BY <1>1 DEF PagesWhole, AsMarked, Whole, Marked
  <1>4. ReadAsFiled BY <1>1 DEF ReadAsFiled
  <1>5. PassOwes /\ UndatedIsQueued BY DEF PassOwes, UndatedIsQueued, Named
  <1> QED BY <1>2, <1>3, <1>4, <1>5 DEF ExpandInv

\* What a page's read adds to the lines of its run.
LEMMA PageGives ==
  ASSUME LinesTyped, NEW p \in Page, ReadPage(p)
  PROVE  /\ fetching /\ passed \subseteq passed'
         /\ \E lines \in Seq(Fetched) :
              /\ unflushed' = unflushed \o lines
              /\ \A l \in ToSet(lines) : l.page = p /\ (l.curated <=> p \in curated)
              /\ p \notin passed' => Whole(ToSet(lines), passed')
PROOF
  <1> DEFINE is(y, ok) == [page |-> p, year |-> y, ok |-> ok, curated |-> p \in curated]
  <1>1. ASSUME NEW y \in Nat, NEW ok \in BOOLEAN
        PROVE  is(y, ok) \in Fetched /\ is(y, ok).page = p /\ is(y, ok).year = y
               /\ (is(y, ok).ok <=> ok) /\ (is(y, ok).curated <=> p \in curated)
    <2>1. (p \in curated) \in BOOLEAN BY SMT
    <2>2. ASSUME NEW c \in BOOLEAN
          PROVE  [page |-> p, year |-> y, ok |-> ok, curated |-> c] \in Fetched
      BY <2>2 DEF Fetched
    <2>3. is(y, ok) \in Fetched BY <2>1, <2>2, Zenon
    <2> QED BY <2>3
  <1>2. /\ FirstStamps(p) \in Seq(Nat \ {0}) /\ Asked(p) = {FirstStamps(p)[i] : i \in DOMAIN FirstStamps(p)}
    <2>1. StampsOf[p] \in Seq(Nat \ {0}) /\ PerPage \in Nat BY ExpandAssumption DEF ExpandAssumption
    <2> DEFINE n == IF Len(StampsOf[p]) < PerPage THEN Len(StampsOf[p]) ELSE PerPage
    <2>2. n \in 0..Len(StampsOf[p]) BY <2>1
    <2> HIDE DEF n
    <2>3. SubSeq(StampsOf[p], 1, n) \in Seq(Nat \ {0}) BY <2>1, <2>2, CutSet
    <2> QED BY <2>3 DEF n, FirstStamps, Asked, ToSet
  <1> HIDE DEF is
  <1>3. CASE outages < MaxOutages /\ unflushed' = Append(unflushed, is(0, FALSE)) /\ passed' = passed
    <2> DEFINE lines == <<is(0, FALSE)>>
    <2>1. is(0, FALSE) \in Fetched /\ is(0, FALSE).page = p /\ ~is(0, FALSE).ok
          /\ (is(0, FALSE).curated <=> p \in curated)
      BY <1>1
    <2>2. lines \in Seq(Fetched) /\ ToSet(lines) = {is(0, FALSE)} BY <2>1, OneLine
    <2>3. unflushed' = unflushed \o lines BY <1>3, <2>1, AppendIsConcat DEF LinesTyped
    <2>4. Whole(ToSet(lines), passed') BY <2>1, <2>2 DEF Whole
    <2>5. fetching /\ passed \subseteq passed' BY <1>3 DEF ReadPage
    <2> HIDE DEF lines
    <2> QED BY <2>1, <2>2, <2>3, <2>4, <2>5
  <1>4. ASSUME NEW failed \in SUBSET Asked(p),
               unflushed' = unflushed \o
                 (IF Asked(p) = {} THEN <<is(0, TRUE)>>
                  ELSE [i \in DOMAIN FirstStamps(p) |-> is(FirstStamps(p)[i], FirstStamps(p)[i] \notin failed)]),
               passed' = IF failed # {} /\ failed # Asked(p) THEN passed \cup {p} ELSE passed
        PROVE  /\ passed \subseteq passed'
               /\ \E lines \in Seq(Fetched) :
                    /\ unflushed' = unflushed \o lines
                    /\ \A l \in ToSet(lines) : l.page = p /\ (l.curated <=> p \in curated)
                    /\ p \notin passed' => Whole(ToSet(lines), passed')
    <2>1. CASE Asked(p) = {}
      <3> DEFINE lines == <<is(0, TRUE)>>
      <3>1. is(0, TRUE) \in Fetched /\ is(0, TRUE).page = p /\ (is(0, TRUE).curated <=> p \in curated)
        BY <1>1
      <3>2. lines \in Seq(Fetched) /\ ToSet(lines) = {is(0, TRUE)} BY <3>1, OneLine
      <3>3. Whole(ToSet(lines), passed') BY <2>1, <3>1, <3>2 DEF Whole
      <3>4. unflushed' = unflushed \o lines /\ passed \subseteq passed' BY <1>4, <2>1
      <3> HIDE DEF lines
      <3> QED BY <3>1, <3>2, <3>3, <3>4
    <2>2. CASE Asked(p) # {}
      <3> DEFINE lines == [i \in DOMAIN FirstStamps(p) |-> is(FirstStamps(p)[i], FirstStamps(p)[i] \notin failed)]
      <3>1. ASSUME NEW i \in DOMAIN FirstStamps(p)
            PROVE  /\ lines[i] \in Fetched /\ lines[i].page = p /\ lines[i].year = FirstStamps(p)[i]
                   /\ (lines[i].ok <=> FirstStamps(p)[i] \notin failed) /\ (lines[i].curated <=> p \in curated)
        <4>1. FirstStamps(p)[i] \in Nat BY <1>2
        <4>2. (FirstStamps(p)[i] \notin failed) \in BOOLEAN BY Zenon
        <4>3. lines[i] = is(FirstStamps(p)[i], FirstStamps(p)[i] \notin failed) BY Zenon
        <4> QED BY <1>1, <4>1, <4>2, <4>3, Zenon
      <3>2. DOMAIN lines = 1..Len(FirstStamps(p)) BY <1>2
      <3>3. DOMAIN FirstStamps(p) = 1..Len(FirstStamps(p)) /\ Len(FirstStamps(p)) \in Nat BY <1>2
      <3>4. unflushed' = unflushed \o lines BY <1>4, <2>2, Zenon
      <3>5. lines = [i \in DOMAIN FirstStamps(p) |-> lines[i]] BY Zenon
      <3> HIDE DEF lines
      <3>6. lines \in Seq(Fetched) BY <3>1, <3>2, <3>3, <3>5, IsASeq
      <3>7. ToSet(lines) = {lines[i] : i \in DOMAIN FirstStamps(p)} BY <3>2, <3>3 DEF ToSet
      <3>8. passed \subseteq passed' BY <1>4
      <3>9. ASSUME p \notin passed' PROVE Whole(ToSet(lines), passed')
        <4>1. failed = {} \/ failed = Asked(p) BY <1>4, <3>9
        <4>2. CASE failed = Asked(p)
          <5>1. \A l \in ToSet(lines) : ~l.ok BY <1>2, <3>1, <3>7, <4>2
          <5> QED BY <5>1 DEF Whole
        <4>3. CASE failed = {}
          <5>1. \A y \in Asked(p) : Filed(ToSet(lines), p, y) BY <1>2, <3>1, <3>7, <4>3 DEF Filed
          <5>2. \A l \in ToSet(lines) : l.page = p BY <3>1, <3>7
          <5> QED BY <5>1, <5>2 DEF Whole
        <4> QED BY <4>1, <4>2, <4>3
      <3>10. \A l \in ToSet(lines) : l.page = p /\ (l.curated <=> p \in curated) BY <3>1, <3>7
      <3> QED BY <3>4, <3>6, <3>8, <3>9, <3>10
    <2> QED BY <2>1, <2>2
  <1>5. \/ outages < MaxOutages /\ unflushed' = Append(unflushed, is(0, FALSE)) /\ passed' = passed
        \/ \E failed \in SUBSET Asked(p) :
             /\ unflushed' = unflushed \o
                  (IF Asked(p) = {} THEN <<is(0, TRUE)>>
                   ELSE [i \in DOMAIN FirstStamps(p) |-> is(FirstStamps(p)[i], FirstStamps(p)[i] \notin failed)])
             /\ passed' = IF failed # {} /\ failed # Asked(p) THEN passed \cup {p} ELSE passed
    BY Zenon DEF ReadPage, is
  <1>6. fetching BY Zenon DEF ReadPage
  <1> QED BY <1>3, <1>4, <1>5, <1>6

\* A run that ends, or is killed, leaves its journal beside those there were.
LEMMA JournalEnds ==
  ASSUME LinesTyped, NEW s \in Seq(Fetched), journal' = Append(journal, s)
  PROVE  /\ journal' \in Seq(Seq(Fetched)) /\ DOMAIN journal \subseteq DOMAIN journal'
         /\ \A r \in DOMAIN journal : journal'[r] = journal[r]
         /\ \A r \in DOMAIN journal' \ DOMAIN journal : journal'[r] = s
PROOF
  <1>1. journal \in Seq(Seq(Fetched)) BY DEF LinesTyped
  <1> QED BY <1>1, AppendProperties

\* What a kill leaves of a run: lines of it, and whole pages but of those that passed.
LEMMA KillLeaves ==
  ASSUME LinesTyped, PagesWhole, KillDownload
  PROVE  /\ passed \subseteq passed'
         /\ \E s \in Seq(Fetched) : /\ journal' = Append(journal, s) /\ ToSet(s) \subseteq ToSet(unflushed)
                                   /\ Whole(ToSet(s), passed')
PROOF
  <1>1. PICK n \in 0..Len(unflushed) :
          LET kept == SubSeq(unflushed, 1, n) lost == SubSeq(unflushed, n + 1, Len(unflushed))
          IN  /\ journal' = Append(journal, kept)
              /\ passed' = passed \cup {l.page : l \in {k \in ToSet(kept) :
                                            k.ok /\ \E m \in ToSet(lost) : m.page = k.page}}
    BY DEF KillDownload
  <1> DEFINE kept == SubSeq(unflushed, 1, n)
             lost == SubSeq(unflushed, n + 1, Len(unflushed))
  <1>2. /\ kept \in Seq(Fetched) /\ ToSet(kept) \subseteq ToSet(unflushed)
        /\ ToSet(unflushed) \subseteq ToSet(kept) \cup ToSet(lost)
    BY CutSet DEF LinesTyped
  <1>3. /\ journal' = Append(journal, kept)
        /\ passed' = passed \cup {l.page : l \in {k \in ToSet(kept) :
                                      k.ok /\ \E m \in ToSet(lost) : m.page = k.page}}
    BY <1>1
  <1> HIDE DEF kept, lost
  <1>4. Whole(ToSet(kept), passed')
    <2> SUFFICES ASSUME NEW p \in Page \ passed', NEW l \in ToSet(kept), l.page = p, l.ok, NEW y \in Asked(p)
                 PROVE  Filed(ToSet(kept), p, y)
        BY DEF Whole
    <2>1. \A m \in ToSet(lost) : m.page # p BY <1>3
    <2>2. p \in Page \ passed /\ l \in ToSet(unflushed) BY <1>2, <1>3
    <2>3. Filed(ToSet(unflushed), p, y) BY <2>2 DEF PagesWhole, Whole
    <2> QED BY <1>2, <2>1, <2>3 DEF Filed
  <1> QED BY <1>2, <1>3, <1>4

LEMMA LinesStay == ExpandInv /\ [ExpandNext]_expandVars => LinesTyped' /\ PagesWhole' /\ AsMarked'
PROOF
  <1> SUFFICES ASSUME ExpandInv, [ExpandNext]_expandVars PROVE LinesTyped' /\ PagesWhole' /\ AsMarked'
      OBVIOUS
  <1>1. LinesTyped /\ PagesWhole /\ AsMarked BY DEF ExpandInv
  <1>2. ASSUME UNCHANGED run PROVE LinesTyped' /\ PagesWhole' /\ AsMarked'
    BY <1>1, <1>2 DEF run, LinesTyped, PagesWhole, AsMarked, Whole, Marked, Filed
  <1>3. ASSUME StartDownload PROVE LinesTyped' /\ PagesWhole' /\ AsMarked'
    <2>1. /\ UNCHANGED <<curated, journal, unflushed, passed, late>> /\ ~fetching /\ fetching' = TRUE
          /\ waiting' \subseteq Page
      BY <1>3 DEF StartDownload, NextPages
    <2>2. LinesTyped' BY <1>1, <2>1 DEF LinesTyped
    <2>3. PagesWhole' /\ AsMarked' BY <1>1, <2>1 DEF PagesWhole, AsMarked
    <2> QED BY <2>2, <2>3
  <1>4. ASSUME NEW p \in Page, ReadPage(p) PROVE LinesTyped' /\ PagesWhole' /\ AsMarked'
    <2>1. /\ UNCHANGED <<curated, journal, fetching, late>> /\ waiting' \subseteq waiting
      BY <1>4 DEF ReadPage
    <2>2. /\ fetching /\ passed \subseteq passed'
          /\ \E lines \in Seq(Fetched) :
               /\ unflushed' = unflushed \o lines
               /\ \A l \in ToSet(lines) : l.page = p /\ (l.curated <=> p \in curated)
               /\ p \notin passed' => Whole(ToSet(lines), passed')
      BY <1>1, <1>4, PageGives
    <2>3. PICK lines \in Seq(Fetched) :
               /\ unflushed' = unflushed \o lines
               /\ \A l \in ToSet(lines) : l.page = p /\ (l.curated <=> p \in curated)
               /\ p \notin passed' => Whole(ToSet(lines), passed')
      BY <2>2
    <2>4. unflushed' \in Seq(Fetched) /\ ToSet(unflushed') = ToSet(unflushed) \cup ToSet(lines)
      BY <1>1, <2>3, ConcatProperties, ConcatSet DEF LinesTyped
    <2>5. LinesTyped' BY <1>1, <2>1, <2>2, <2>4 DEF LinesTyped
    <2>6. Whole(ToSet(lines), passed') BY <2>3 DEF Whole
    <2>7. Whole(ToSet(unflushed), passed') /\ \A r \in DOMAIN journal : Whole(ToSet(journal[r]), passed')
      BY <1>1, <2>2 DEF PagesWhole, Whole
    <2>8. Whole(ToSet(unflushed'), passed') BY <2>4, <2>6, <2>7 DEF Whole, Filed
    <2>9. PagesWhole' BY <2>1, <2>7, <2>8 DEF PagesWhole
    <2>10. AsMarked' BY <1>1, <2>1, <2>3, <2>4 DEF AsMarked, Marked
    <2> QED BY <2>5, <2>9, <2>10
  <1>5. ASSUME NEW s \in Seq(Fetched), journal' = Append(journal, s), ToSet(s) \subseteq ToSet(unflushed),
               unflushed' = <<>>, waiting' \subseteq Page, passed \subseteq passed', Whole(ToSet(s), passed'),
               UNCHANGED <<curated, late>>
        PROVE  LinesTyped' /\ PagesWhole' /\ AsMarked'
    <2>1. /\ journal' \in Seq(Seq(Fetched)) /\ DOMAIN journal \subseteq DOMAIN journal'
          /\ \A r \in DOMAIN journal : journal'[r] = journal[r]
          /\ \A r \in DOMAIN journal' \ DOMAIN journal : journal'[r] = s
      BY <1>1, <1>5, JournalEnds
    <2>2. <<>> \in Seq(Fetched) /\ ToSet(<<>>) = {} BY DEF ToSet
    <2>3. LinesTyped' BY <1>5, <2>1, <2>2 DEF LinesTyped
    <2>4. \A r \in DOMAIN journal : Whole(ToSet(journal[r]), passed') BY <1>1, <1>5 DEF PagesWhole, Whole
    <2>5. PagesWhole'
      <3>1. Whole(ToSet(unflushed'), passed') BY <1>5, <2>2 DEF Whole
      <3>2. \A r \in DOMAIN journal' : Whole(ToSet(journal'[r]), passed') BY <1>5, <2>1, <2>4
      <3> QED BY <3>1, <3>2 DEF PagesWhole
    <2>6. AsMarked'
      <3>1. Marked(ToSet(unflushed'), curated') BY <1>5, <2>2 DEF Marked
      <3>2. Marked({l \in ToSet(s) : l.ok /\ l.page \notin late'}, curated')
        BY <1>1, <1>5 DEF AsMarked, Marked
      <3>3. \A r \in DOMAIN journal' : Marked({l \in ToSet(journal'[r]) : l.ok /\ l.page \notin late'}, curated')
        <4> SUFFICES ASSUME NEW r \in DOMAIN journal'
                     PROVE  Marked({l \in ToSet(journal'[r]) : l.ok /\ l.page \notin late'}, curated')
            OBVIOUS
        <4>1. CASE r \in DOMAIN journal BY <1>1, <1>5, <2>1, <4>1 DEF AsMarked
        <4>2. CASE r \notin DOMAIN journal BY <2>1, <3>2, <4>2
        <4> QED BY <4>1, <4>2
      <3> QED BY <3>1, <3>3 DEF AsMarked
    <2> QED BY <2>3, <2>5, <2>6
  <1>6. ASSUME EndDownload PROVE LinesTyped' /\ PagesWhole' /\ AsMarked'
    <2>1. /\ journal' = Append(journal, unflushed) /\ unflushed' = <<>> /\ waiting' = waiting
          /\ UNCHANGED <<curated, late, passed>>
      BY <1>6 DEF EndDownload
    <2>2. Whole(ToSet(unflushed), passed') BY <1>1, <2>1 DEF PagesWhole
    <2> QED BY <1>1, <1>5, <2>1, <2>2 DEF LinesTyped
  <1>7. ASSUME KillDownload PROVE LinesTyped' /\ PagesWhole' /\ AsMarked'
    <2>1. /\ unflushed' = <<>> /\ waiting' = {} /\ UNCHANGED <<curated, late>> BY <1>7 DEF KillDownload
    <2>2. /\ passed \subseteq passed'
          /\ \E s \in Seq(Fetched) : /\ journal' = Append(journal, s) /\ ToSet(s) \subseteq ToSet(unflushed)
                                    /\ Whole(ToSet(s), passed')
      BY <1>1, <1>7, KillLeaves
    <2> QED BY <1>5, <2>1, <2>2
  <1>8. ASSUME NEW p \in Page, MarkDirectory(p) PROVE LinesTyped' /\ PagesWhole' /\ AsMarked'
    <2>1. /\ UNCHANGED <<journal, waiting, unflushed, fetching, passed>> /\ ~fetching
          /\ curated' = curated \cup {p} /\ late' = IF Settled(p) THEN late \cup {p} ELSE late
      BY <1>8 DEF MarkDirectory
    <2>2. LinesTyped' /\ PagesWhole' BY <1>1, <2>1 DEF LinesTyped, PagesWhole
    <2>3. ToSet(unflushed') = {} BY <1>1, <2>1 DEF LinesTyped, ToSet
    <2>4. ASSUME NEW r \in DOMAIN journal, NEW l \in ToSet(journal[r]), l.ok, l.page \notin late'
          PROVE  l.curated <=> l.page \in curated'
      <3>1. l.page # p
        <4>1. SUFFICES ASSUME l.page = p PROVE Settled(p)
          BY <2>1, <2>4
        <4> QED BY <2>4, <4>1 DEF Settled, Lines, Answered
      <3>2. l.page \notin late BY <2>1, <2>4
      <3>3. l.curated <=> l.page \in curated BY <1>1, <2>4, <3>2 DEF AsMarked, Marked
      <3> QED BY <2>1, <3>1, <3>3
    <2>5. AsMarked' BY <2>1, <2>3, <2>4 DEF AsMarked, Marked
    <2> QED BY <2>2, <2>5
  <1>9. ASSUME NEW half \in Half, Unbank(half) \/ \E given \in SUBSET (DOMAIN journal) : BeginPass(half, given)
        PROVE  LinesTyped' /\ PagesWhole' /\ AsMarked'
    BY <1>2, <1>9 DEF Unbank, BeginPass
  <1>10. ASSUME NEW r \in toRead, ReadJournal(r) PROVE LinesTyped' /\ PagesWhole' /\ AsMarked'
    BY <1>2, <1>10 DEF ReadJournal
  <1>11. CASE EndPass \/ BeginSeed \/ EndSeed \/ KillPass
    BY <1>2, <1>11 DEF EndPass, BeginSeed, EndSeed, KillPass
  <1>12. CASE UNCHANGED expandVars BY <1>2, <1>12 DEF expandVars, run
  <1> QED BY <1>3, <1>4, <1>6, <1>7, <1>8, <1>9, <1>10, <1>11, <1>12 DEF ExpandNext

LEMMA FilesStay == ExpandInv /\ [ExpandNext]_expandVars => ReadAsFiled'
PROOF
  <1> SUFFICES ASSUME ExpandInv, [ExpandNext]_expandVars PROVE ReadAsFiled'
      OBVIOUS
  <1>1. LinesTyped /\ PagesWhole /\ ReadAsFiled BY DEF ExpandInv
  <1>2. ASSUME receipt' \subseteq receipt, toRead' \subseteq toRead, UNCHANGED journal, row \subseteq row'
        PROVE  ReadAsFiled'
    BY <1>1, <1>2 DEF ReadAsFiled, LinksOf
  <1>3. ASSUME NEW s \in Seq(Fetched), journal' = Append(journal, s), UNCHANGED <<receipt, toRead, row>>
        PROVE  ReadAsFiled'
    <2>1. /\ DOMAIN journal \subseteq DOMAIN journal' /\ \A r \in DOMAIN journal : journal'[r] = journal[r]
      BY <1>1, <1>3, JournalEnds
    <2>2. \A half \in Half : \A r \in DOMAIN journal : LinksOf(half, r)' = LinksOf(half, r)
      BY <2>1 DEF LinksOf
    <2> QED BY <1>1, <1>3, <2>1, <2>2 DEF ReadAsFiled
  <1>4. ASSUME EndDownload PROVE ReadAsFiled' BY <1>1, <1>3, <1>4 DEF EndDownload, LinesTyped, banked
  <1>5. ASSUME KillDownload PROVE ReadAsFiled'
    <2>1. \E s \in Seq(Fetched) : journal' = Append(journal, s) BY <1>1, <1>5, KillLeaves
    <2>2. UNCHANGED <<receipt, toRead, row>> BY <1>5 DEF KillDownload, banked
    <2> QED BY <1>3, <2>1, <2>2
  <1>6. CASE StartDownload BY <1>2, <1>6 DEF StartDownload, banked
  <1>7. ASSUME NEW p \in Page, ReadPage(p) \/ MarkDirectory(p) PROVE ReadAsFiled'
    BY <1>2, <1>7 DEF ReadPage, MarkDirectory, banked
  <1>8. ASSUME NEW half \in Half, Unbank(half) PROVE ReadAsFiled'
    <2>1. /\ UNCHANGED <<journal, toRead>> /\ row' = {e \in row : e.half # half}
          /\ receipt' = {f \in receipt : f[1] # half}
      BY <1>8 DEF Unbank, run
    <2>2. ASSUME NEW other \in Half, NEW r \in DOMAIN journal, NEW e \in LinksOf(other, r)
          PROVE  e.half = other
      <3>1. PICK l \in ToSet(journal[r]) :
              e \in [half : {other}, name : Anchors[<<l.page, l.year>>], year : {l.year}]
        BY DEF LinksOf
      <3> QED BY <3>1
    <2>3. ASSUME NEW other \in Half, NEW r \in DOMAIN journal, <<other, r>> \in receipt'
          PROVE  LinksOf(other, r) \subseteq row'
      <3>1. other # half /\ <<other, r>> \in receipt BY <2>1, <2>3
      <3> QED BY <1>1, <2>1, <2>2, <3>1 DEF ReadAsFiled
    <2>4. \A other \in Half, r \in DOMAIN journal : LinksOf(other, r)' = LinksOf(other, r) BY <2>1 DEF LinksOf
    <2> QED BY <1>1, <2>1, <2>3, <2>4 DEF ReadAsFiled
  <1>9. ASSUME NEW half \in Half, NEW given \in SUBSET (DOMAIN journal), BeginPass(half, given)
        PROVE  ReadAsFiled'
    <2>1. UNCHANGED <<journal, receipt, row>> /\ toRead' = given BY <1>9 DEF BeginPass, run
    <2> QED BY <1>1, <2>1 DEF ReadAsFiled, LinksOf
  <1>10. ASSUME NEW r \in toRead, ReadJournal(r) PROVE ReadAsFiled'
    <2>1. UNCHANGED journal /\ toRead' \subseteq toRead /\ pass \in Half BY <1>10 DEF ReadJournal, run
    <2>2. CASE receipt' = receipt \cup {<<pass, r>>} /\ row' = row \cup LinksOf(pass, r)
      <3>1. \A half \in Half, q \in DOMAIN journal : LinksOf(half, q)' = LinksOf(half, q) BY <2>1 DEF LinksOf
      <3>2. r \in DOMAIN journal BY <1>1 DEF ReadAsFiled
      <3> QED BY <1>1, <2>1, <2>2, <3>1, <3>2 DEF ReadAsFiled
    <2>3. CASE UNCHANGED <<receipt, row>> BY <1>2, <2>1, <2>3
    <2> QED BY <1>10, <2>2, <2>3 DEF ReadJournal
  <1>11. CASE EndPass \/ BeginSeed \/ EndSeed \/ KillPass
    BY <1>2, <1>11 DEF EndPass, BeginSeed, EndSeed, KillPass, run
  <1>12. CASE UNCHANGED expandVars BY <1>2, <1>12 DEF expandVars
  <1> QED BY <1>4, <1>5, <1>6, <1>7, <1>8, <1>9, <1>10, <1>11, <1>12 DEF ExpandNext

\* What the rows date, they still date when rows are only added.
LEMMA ProvenGrows ==
  ASSUME row \subseteq row'
  PROVE  Proven \subseteq Proven'
PROOF
  <1>1. DatedNames \subseteq DatedNames' BY DEF DatedNames
  <1> QED BY <1>1 DEF Proven

\* By source: what it names undated is queued, unless its pass is owing.
QueuedBySource ==
  /\ "links" \notin owing => Named("links") \ Proven \subseteq queue
  /\ "seed" \notin owing => Named("seed") \ Proven \subseteq queue
  /\ queue \subseteq domain

LEMMA BySource == (UndatedIsQueued <=> QueuedBySource) /\ (UndatedIsQueued' <=> QueuedBySource')
PROOF
  <1>1. UndatedIsQueued <=> QueuedBySource BY DEF UndatedIsQueued, QueuedBySource
  <1>2. UndatedIsQueued' <=> QueuedBySource' BY DEF UndatedIsQueued, QueuedBySource
  <1> QED BY <1>1, <1>2

LEMMA OwesStay == ExpandInv /\ [ExpandNext]_expandVars => PassOwes' /\ UndatedIsQueued'
PROOF
  <1> SUFFICES ASSUME ExpandInv, [ExpandNext]_expandVars PROVE PassOwes' /\ UndatedIsQueued'
      OBVIOUS
  <1>1. PassOwes /\ UndatedIsQueued /\ QueuedBySource BY BySource DEF ExpandInv
  <1>2. ASSUME UNCHANGED <<row, domain, queue, pass, toQueue, owing>> PROVE PassOwes' /\ UndatedIsQueued'
    <2>1. Proven' = Proven /\ \A s \in {"links", "seed"} : Named(s)' = Named(s)
      BY <1>2 DEF Proven, DatedNames, Named
    <2> QED BY <1>1, <1>2, <2>1 DEF PassOwes, UndatedIsQueued
  <1>3. CASE StartDownload \/ EndDownload \/ KillDownload
    BY <1>2, <1>3 DEF StartDownload, EndDownload, KillDownload, banked
  <1>4. ASSUME NEW p \in Page, ReadPage(p) \/ MarkDirectory(p) PROVE PassOwes' /\ UndatedIsQueued'
    BY <1>2, <1>4 DEF ReadPage, MarkDirectory, banked
  <1>5. ASSUME NEW half \in Half, Unbank(half) PROVE PassOwes' /\ UndatedIsQueued'
    <2>1. /\ pass = "idle" /\ UNCHANGED <<domain, queue, pass, toQueue>> /\ row' = {e \in row : e.half # half}
          /\ owing' = IF half = "directory" THEN {"links", "seed"} ELSE owing
      BY <1>5 DEF Unbank
    <2>2. PassOwes' BY <1>1, <2>1 DEF PassOwes
    <2>3. CASE half = "directory" BY <1>1, <2>1, <2>3, <2>2, BySource DEF QueuedBySource
    <2>4. CASE half = "links"
      <3>1. Proven' = Proven
        <4>1. DatedNames' = DatedNames BY <2>1, <2>4 DEF DatedNames
        <4> QED BY <4>1 DEF Proven
      <3>2. Named("links")' \subseteq Named("links") /\ Named("seed")' = Named("seed") BY <2>1 DEF Named
      <3> QED BY <1>1, <2>1, <2>4, <3>1, <3>2, <2>2, BySource DEF QueuedBySource
    <2> QED BY <2>2, <2>3, <2>4 DEF Half
  <1>6. ASSUME NEW half \in Half, NEW given \in SUBSET (DOMAIN journal), BeginPass(half, given)
        PROVE  PassOwes' /\ UndatedIsQueued'
    <2>1. /\ UNCHANGED <<row, domain, queue, toQueue>> /\ pass' = half
          /\ owing' = IF half = "links" THEN owing \cup {"links"} ELSE owing
      BY <1>6 DEF BeginPass
    <2>2. Proven' = Proven /\ \A s \in {"links", "seed"} : Named(s)' = Named(s)
      BY <2>1 DEF Proven, DatedNames, Named
    <2> QED BY <1>1, <2>1, <2>2 DEF PassOwes, UndatedIsQueued, Half
  <1>7. ASSUME NEW r \in toRead, ReadJournal(r) PROVE PassOwes' /\ UndatedIsQueued'
    <2>1. pass \in Half /\ UNCHANGED <<queue, pass, toQueue, owing>> BY <1>7 DEF ReadJournal
    <2>2. CASE UNCHANGED <<row, domain>> BY <1>2, <2>1, <2>2
    <2>3. CASE row' = row \cup LinksOf(pass, r) /\ domain' = domain \cup {e.name : e \in LinksOf(pass, r)}
      <3>1. PassOwes' BY <1>1, <2>1, <2>3 DEF PassOwes, Half
      <3>2. Proven \subseteq Proven' BY <2>3, ProvenGrows
      <3>3. Named("seed")' = Named("seed") BY DEF Named
      <3>4. "links" \notin owing => Named("links")' = Named("links")
        <4>1. SUFFICES ASSUME "links" \notin owing PROVE Named("links")' = Named("links")
          OBVIOUS
        <4>2. pass = "directory" BY <1>1, <2>1, <4>1 DEF PassOwes, Half
        <4>3. \A e \in LinksOf(pass, r) : e.half = "directory"
          <5> SUFFICES ASSUME NEW e \in LinksOf("directory", r) PROVE e.half = "directory"
              BY <4>2
          <5>1. PICK l \in ToSet(journal[r]) :
                  e \in [half : {"directory"}, name : Anchors[<<l.page, l.year>>], year : {l.year}]
            BY DEF LinksOf
          <5> QED BY <5>1
        <4>4. {f \in row' : f.half = "links"} = {f \in row : f.half = "links"} BY <2>3, <4>3
        <4> QED BY <4>4 DEF Named
      <3> QED BY <1>1, <2>1, <2>3, <3>1, <3>2, <3>3, <3>4 DEF UndatedIsQueued
    <2> QED BY <1>7, <2>2, <2>3 DEF ReadJournal
  <1>8. ASSUME EndPass PROVE PassOwes' /\ UndatedIsQueued'
    <2>1. UNCHANGED <<row, domain, toQueue>> /\ pass' = "idle" BY <1>8 DEF EndPass
    <2>2. Proven' = Proven /\ \A s \in {"links", "seed"} : Named(s)' = Named(s)
      BY <2>1 DEF Proven, DatedNames, Named
    <2>3. PassOwes' BY <1>1, <2>1, <2>2 DEF PassOwes
    <2>4. CASE pass = "links"
      <3>1. queue' = queue \cup Unverified /\ owing' = owing \ {"links"} BY <1>8, <2>4 DEF EndPass
      <3>2. Unverified \subseteq domain BY <1>1 DEF Unverified, Named, PassOwes
      <3> QED BY <1>1, <2>1, <2>2, <3>1, <3>2, <2>3, BySource DEF QueuedBySource, Unverified
    <2>5. CASE pass # "links"
      <3>1. UNCHANGED <<queue, owing>> BY <1>8, <2>5 DEF EndPass
      <3> QED BY <1>1, <2>1, <2>2, <2>3, <3>1, BySource DEF QueuedBySource
    <2> QED BY <2>3, <2>4, <2>5
  <1>9. ASSUME BeginSeed PROVE PassOwes' /\ UndatedIsQueued'
    <2>1. /\ UNCHANGED <<row, queue>> /\ pass' = "seed" /\ toQueue' = Unproven /\ domain' = domain \cup Unproven
          /\ owing' = owing \cup {"seed"}
      BY <1>9 DEF BeginSeed
    <2>2. Proven' = Proven /\ \A s \in {"links", "seed"} : Named(s)' = Named(s)
      BY <2>1 DEF Proven, DatedNames, Named
    <2> QED BY <1>1, <2>1, <2>2 DEF PassOwes, UndatedIsQueued, Unproven
  <1>10. ASSUME EndSeed PROVE PassOwes' /\ UndatedIsQueued'
    <2>1. /\ UNCHANGED <<row, domain>> /\ pass = "seed" /\ pass' = "idle" /\ toQueue' = {}
          /\ queue' = queue \cup toQueue /\ owing' = owing \ {"seed"}
      BY <1>10 DEF EndSeed
    <2>2. Proven' = Proven /\ \A s \in {"links", "seed"} : Named(s)' = Named(s)
      BY <2>1 DEF Proven, DatedNames, Named
    <2>3. Named("seed") = SeedFile BY DEF Named
    <2> QED BY <1>1, <2>1, <2>2, <2>3 DEF PassOwes, UndatedIsQueued
  <1>11. ASSUME KillPass PROVE PassOwes' /\ UndatedIsQueued'
    <2>1. /\ UNCHANGED <<row, domain, queue, owing>> /\ pass' = "idle" /\ toQueue' = {} BY <1>11 DEF KillPass
    <2>2. Proven' = Proven /\ \A s \in {"links", "seed"} : Named(s)' = Named(s)
      BY <2>1 DEF Proven, DatedNames, Named
    <2> QED BY <1>1, <2>1, <2>2 DEF PassOwes, UndatedIsQueued
  <1>12. CASE UNCHANGED expandVars BY <1>2, <1>12 DEF expandVars
  <1> QED BY <1>3, <1>4, <1>5, <1>6, <1>7, <1>8, <1>9, <1>10, <1>11, <1>12 DEF ExpandNext

\* The rows of a settled page follow from its lines and the receipt of its journal.
LEMMA SettledGives == ExpandInv => SettledIsFiled
PROOF
  <1> SUFFICES ASSUME ExpandInv, NEW p \in Page \ (passed \cup late), NEW half \in Half,
                      half = IF p \in curated THEN "directory" ELSE "links",
                      Settled(p), \A r \in DOMAIN journal : <<half, r>> \in receipt,
                      NEW y \in Asked(p), NEW n \in Anchors[<<p, y>>]
               PROVE  [half |-> half, name |-> n, year |-> y] \in row
      BY DEF SettledIsFiled, Half
  <1>1. PICK r \in DOMAIN journal : \E l \in ToSet(journal[r]) : l.page = p /\ l.ok
    BY DEF Settled, Lines, Answered
  <1>2. PICK k \in ToSet(journal[r]) : k.page = p /\ k.year = y /\ k.ok
    BY <1>1 DEF ExpandInv, PagesWhole, Whole, Filed
  <1>3. k.curated <=> p \in curated BY <1>2 DEF ExpandInv, AsMarked, Marked
  <1>4. k.curated <=> half = "directory" BY <1>3
  <1>5. k.year # 0
    <2>1. StampsOf[p] \in Seq(Nat \ {0}) /\ PerPage \in Nat BY ExpandAssumption DEF ExpandAssumption
    <2> DEFINE m == IF Len(StampsOf[p]) < PerPage THEN Len(StampsOf[p]) ELSE PerPage
    <2>2. m \in 0..Len(StampsOf[p]) BY <2>1
    <2> HIDE DEF m
    <2>3. SubSeq(StampsOf[p], 1, m) \in Seq(Nat \ {0}) BY <2>1, <2>2, CutSet
    <2>4. FirstStamps(p) \in Seq(Nat \ {0}) BY <2>3 DEF m, FirstStamps
    <2> QED BY <1>2, <2>4 DEF Asked, ToSet
  <1>6. k.curated = (half = "directory")
    <2>1. k.curated \in BOOLEAN
      <3>1. journal[r] \in Seq(Fetched) BY DEF ExpandInv, LinesTyped
      <3>2. k \in Fetched BY <3>1 DEF ToSet
      <3> QED BY <3>2 DEF Fetched
    <2> QED BY <1>4, <2>1
  <1>7. [half |-> half, name |-> n, year |-> y] \in LinksOf(half, r)
    <2>1. [half |-> half, name |-> n, year |-> y]
            \in [half : {half}, name : Anchors[<<k.page, k.year>>], year : {k.year}]
      BY <1>2
    <2>2. k \in {j \in ToSet(journal[r]) : j.ok /\ j.year # 0 /\ j.curated = (half = "directory")}
      BY <1>2, <1>5, <1>6
    <2> QED BY <2>1, <2>2 DEF LinksOf
  <1>8. LinksOf(half, r) \subseteq row BY DEF ExpandInv, ReadAsFiled
  <1> QED BY <1>7, <1>8

(***************************************************************************)
(* For any pages and captures, however many fetches fail, runs and passes  *)
(* are killed and halves are taken back: a page that is skipped has filed  *)
(* every capture it was asked for, and a name no year dates is queued,     *)
(* with the exceptions the property names (cli.py, expand.py,              *)
(* work_queue.py).                                                         *)
(***************************************************************************)
THEOREM ExpansionStaysFollowed == ExpandSpec => []ExpansionIsFollowed
PROOF
  <1>1. ExpandInit => ExpandInv BY ExpandBegins
  <1>2. ExpandInv /\ [ExpandNext]_expandVars => ExpandInv'
    BY LinesStay, FilesStay, OwesStay DEF ExpandInv
  <1>3. ExpandInv => ExpansionIsFollowed BY SettledGives DEF ExpandInv, ExpansionIsFollowed
  <1> QED BY <1>1, <1>2, <1>3, PTL DEF ExpandSpec

-----------------------------------------------------------------------------
(* The provenance graph and the store rebuilt from it. *)

LEMMA TableList ==
  /\ Len(Tables) = 6 /\ Len(CoreTables) = 5
  /\ Tables[1] = "source" /\ Tables[2] = "domain" /\ Tables[3] = "evidence"
  /\ Tables[4] = "domain_year" /\ Tables[5] = "ingested_file" /\ Tables[6] = "hostname_year"
  /\ \A i \in 1..5 : CoreTables[i] = Tables[i]
  /\ TableNames = {"source", "domain", "evidence", "domain_year", "ingested_file", "hostname_year"}
PROOF
  <1> DEFINE S == {"source", "domain", "evidence", "domain_year", "ingested_file", "hostname_year"}
  <1>1. /\ CoreTables \in Seq(S) /\ Len(CoreTables) = 5
        /\ <<"hostname_year">> \in Seq(S) /\ Len(<<"hostname_year">>) = 1
        /\ <<"hostname_year">>[1] = "hostname_year"
    <2>1. CoreTables \in Seq(S) BY DEF CoreTables
    <2>2. Len(CoreTables) = 5 BY DEF CoreTables
    <2>3. <<"hostname_year">> \in Seq(S) OBVIOUS
    <2>4. Len(<<"hostname_year">>) = 1 /\ <<"hostname_year">>[1] = "hostname_year" OBVIOUS
    <2> QED BY <2>1, <2>2, <2>3, <2>4
  <1>2. /\ Len(Tables) = 6 /\ Tables[6] = "hostname_year"
        /\ \A i \in 1..5 : Tables[i] = CoreTables[i]
    <2>1. /\ Len(Tables) = Len(CoreTables) + 1
          /\ \A i \in 1..(Len(CoreTables) + 1) :
               Tables[i] = IF i <= Len(CoreTables) THEN CoreTables[i]
                           ELSE <<"hostname_year">>[i - Len(CoreTables)]
      BY <1>1, ConcatProperties DEF Tables
    <2> QED BY <1>1, <2>1
  <1>3. /\ CoreTables[1] = "source" /\ CoreTables[2] = "domain" /\ CoreTables[3] = "evidence"
        /\ CoreTables[4] = "domain_year" /\ CoreTables[5] = "ingested_file"
    BY DEF CoreTables
  <1>4. \A i \in 1..6 : i = 1 \/ i = 2 \/ i = 3 \/ i = 4 \/ i = 5 \/ i = 6 OBVIOUS
  <1> QED BY <1>1, <1>2, <1>3, <1>4 DEF TableNames

\* What is read and shipped, and where the process in the store stands.
PlacesTyped ==
  /\ DOMAIN db = TableNames /\ DOMAIN parquet = TableNames
  /\ db["ingested_file"] \subseteq Batch /\ parquet["ingested_file"] \subseteq Batch
  /\ there \subseteq TableNames
  /\ gpc \in {"idle", "export", "drop", "dropSeq", "startSeq", "dropLocated", "locate", "load"}
  /\ gpc \in {"export", "drop", "load"} => step \in 1..6
  /\ gpc \in {"drop", "dropSeq", "startSeq", "dropLocated", "locate", "load"} => Loadable

\* Unless a file left the ledger since, the store has read all the graph says was read.
LedgerAhead == receded \/ parquet["ingested_file"] \subseteq db["ingested_file"]

LEMMA PlacesBegin == GraphInit => PlacesTyped /\ LedgerAhead
PROOF
  <1> SUFFICES ASSUME GraphInit PROVE PlacesTyped /\ LedgerAhead
      OBVIOUS
  <1>1. PICK his \in SUBSET Registrable, old \in SUBSET (Batch \X Registrable) :
          /\ db = [NoTables EXCEPT
                  !["source"] = {Sender[o[1]] : o \in old},
                  !["domain"] = {[name |-> n, by |-> "prior_task"] : n \in his}
                                  \cup {[name |-> o[2], by |-> "ours"] : o \in {x \in old : x[2] \notin his}},
                  !["evidence"] = {TableRow(1, o[2], o[1], FALSE) : o \in old},
                  !["domain_year"] = {[name |-> o[2], id |-> 1] : o \in old},
                  !["ingested_file"] = {o[1] : o \in old}]
    BY DEF GraphInit
  <1>2. DOMAIN NoTables = TableNames /\ \A t \in TableNames : NoTables[t] = {} BY DEF NoTables
  <1>3. DOMAIN db = TableNames /\ db["ingested_file"] = {o[1] : o \in old} BY <1>1, <1>2, TableList
  <1>4. parquet = NoTables /\ there = {} /\ gpc = "idle" BY DEF GraphInit
  <1>5. parquet["ingested_file"] = {} BY <1>2, <1>4, TableList
  <1> QED BY <1>2, <1>3, <1>4, <1>5 DEF PlacesTyped, LedgerAhead

\* What an ingest writes, table by table; its ids are a choice among those not yet issued.
IngestsTo(f, fresh, id) ==
  /\ db'["source"] = db["source"] \cup {Sender[f]}
  /\ db'["domain"] = db["domain"] \cup {[name |-> n, by |-> "ours"] :
                       n \in {Registered(m) : m \in fresh} \ {d.name : d \in db["domain"]}}
  /\ db'["evidence"] = db["evidence"] \cup {TableRow(id[n], n, f, TRUE) : n \in fresh}
  /\ db'["ingested_file"] = db["ingested_file"] \cup {f}
  /\ \A t \in {"domain_year", "hostname_year"} :
       db'[t] = db[t] \cup {[name |-> n, id |-> id[n]] :
                              n \in {m \in fresh : YearTable(m) = t /\ \A y \in db[t] : y.name # m}}

FreshOf(f)    == Gives[f] \ HeldFrom(db["evidence"], Sender[f])
LastOf(fresh) == Issued + Cardinality(fresh) - 1
IdOf(fresh)   == CHOOSE g \in [fresh -> Issued..LastOf(fresh)] :
                   \A a, b \in fresh : g[a] = g[b] => a = b

LEMMA IngestWrites ==
  ASSUME NEW f \in Batch, IngestBatch(f)
  PROVE  /\ gpc = "idle" /\ f \notin db["ingested_file"] /\ DOMAIN db' = TableNames
         /\ IngestsTo(f, FreshOf(f), IdOf(FreshOf(f)))
         /\ issued' = LastOf(FreshOf(f)) + 1 /\ located' = Located
         /\ UNCHANGED <<parquet, there, gpc, step, torn, spoiled, cutOff, receded, taken>>
PROOF
  <1> DEFINE fresh == FreshOf(f)
             id == IdOf(fresh)
             undated(t) == {n \in fresh : YearTable(n) = t /\ \A y \in db[t] : y.name # n}
             found == {Registered(n) : n \in fresh} \ {d.name : d \in db["domain"]}
  <1>1. db' = [t \in TableNames |->
                 CASE t = "source" -> db[t] \cup {Sender[f]}
                   [] t = "domain" -> db[t] \cup {[name |-> n, by |-> "ours"] : n \in found}
                   [] t = "evidence" -> db[t] \cup {TableRow(id[n], n, f, TRUE) : n \in fresh}
                   [] t = "ingested_file" -> db[t] \cup {f}
                   [] OTHER -> db[t] \cup {[name |-> n, id |-> id[n]] : n \in undated(t)}]
    BY DEF IngestBatch, FreshOf, LastOf, IdOf
  <1>2. issued' = LastOf(fresh) + 1 BY DEF IngestBatch, FreshOf, LastOf
  <1>3. IngestsTo(f, fresh, id)
    <2> HIDE DEF fresh, id
    <2> QED BY <1>1, TableList DEF IngestsTo
  <1>4. DOMAIN db' = TableNames BY <1>1
  <1> QED BY <1>2, <1>3, <1>4 DEF IngestBatch

\* What an unbank takes from each table.
LEMMA TakeTakes ==
  ASSUME NEW s, TakeSource(s)
  PROVE  /\ gpc = "idle" /\ DOMAIN db' = TableNames
         /\ \A t \in {"source", "domain"} : db'[t] = db[t]
         /\ db'["evidence"] = {r \in db["evidence"] : Sender[r.file] # s}
         /\ db'["ingested_file"] = {f \in db["ingested_file"] : Sender[f] # s}
         /\ \A t \in {"domain_year", "hostname_year"} :
              db'[t] = {y \in db[t] : \A r \in db["evidence"] : Sender[r.file] = s => r.id # y.id}
         /\ taken' = taken \cup {r.name : r \in {q \in db["evidence"] : Sender[q.file] = s}}
         /\ receded' = (receded \/ \E f \in db["ingested_file"] : Sender[f] = s)
         /\ UNCHANGED <<issued, located, parquet, there, gpc, step, torn, spoiled, cutOff>>
PROOF
  <1> DEFINE gone == {r \in db["evidence"] : Sender[r.file] = s}
             ids  == {r.id : r \in gone}
             led  == {f \in db["ingested_file"] : Sender[f] = s}
  <1>1. db' = [t \in TableNames |->
                 CASE t = "evidence" -> db[t] \ gone
                   [] t = "ingested_file" -> db[t] \ led
                   [] t \in {"domain_year", "hostname_year"} -> {y \in db[t] : y.id \notin ids}
                   [] OTHER -> db[t]]
    BY DEF TakeSource
  <1>2. /\ DOMAIN db' = TableNames /\ db'["evidence"] = db["evidence"] \ gone
        /\ db'["ingested_file"] = db["ingested_file"] \ led
        /\ \A t \in {"domain_year", "hostname_year"} : db'[t] = {y \in db[t] : y.id \notin ids}
        /\ \A t \in {"source", "domain"} : db'[t] = db[t]
    <2> HIDE DEF gone, ids, led
    <2> QED BY <1>1, TableList
  <1>3. taken' = taken \cup {r.name : r \in gone} /\ receded' = (receded \/ led # {})
    BY DEF TakeSource
  <1>4. (led # {}) = (\E f \in db["ingested_file"] : Sender[f] = s) OBVIOUS
  <1>5. receded' = (receded \/ \E f \in db["ingested_file"] : Sender[f] = s)
    <2> HIDE DEF led
    <2> QED BY <1>3, <1>4, Zenon
  <1>6. /\ gpc = "idle"
        /\ UNCHANGED <<issued, located, parquet, there, gpc, step, torn, spoiled, cutOff>>
    BY DEF TakeSource
  <1> QED BY <1>2, <1>3, <1>5, <1>6

LEMMA PlacesStay ==
  PlacesTyped /\ LedgerAhead /\ [GraphNext]_graphVars => PlacesTyped' /\ LedgerAhead'
PROOF
  <1> SUFFICES ASSUME PlacesTyped, LedgerAhead, [GraphNext]_graphVars PROVE PlacesTyped' /\ LedgerAhead'
      OBVIOUS
  <1> USE TableList DEF PlacesTyped, LedgerAhead
  <1>1. ASSUME UNCHANGED <<db, parquet, there, receded>>,
               gpc' \in {"idle", "export", "drop", "dropSeq", "startSeq", "dropLocated", "locate", "load"},
               gpc' \in {"export", "drop", "load"} => step' \in 1..6,
               gpc' \in {"drop", "dropSeq", "startSeq", "dropLocated", "locate", "load"} => Loadable
        PROVE  PlacesTyped' /\ LedgerAhead'
    BY <1>1 DEF Loadable
  <1>2. ASSUME NEW f \in Batch, IngestBatch(f) PROVE PlacesTyped' /\ LedgerAhead'
    <2>1. /\ DOMAIN db' = TableNames /\ db'["ingested_file"] = db["ingested_file"] \cup {f} /\ gpc = "idle"
          /\ UNCHANGED <<parquet, there, gpc, receded>>
      BY <1>2, IngestWrites DEF IngestsTo
    <2> QED BY <2>1 DEF Loadable
  <1>3. ASSUME NEW f \in Batch, TakeSource(Sender[f]) PROVE PlacesTyped' /\ LedgerAhead'
    <2>1. /\ DOMAIN db' = TableNames /\ gpc = "idle" /\ UNCHANGED <<parquet, there, gpc>>
          /\ db'["ingested_file"] = {g \in db["ingested_file"] : Sender[g] # Sender[f]}
          /\ receded' = (receded \/ \E g \in db["ingested_file"] : Sender[g] = Sender[f])
      BY <1>3, TakeTakes
    <2>2. receded \/ (\E g \in db["ingested_file"] : Sender[g] = Sender[f]) => receded' BY <2>1, Zenon
    <2>3. LedgerAhead' BY <2>1, <2>2
    <2> QED BY <2>1, <2>3 DEF Loadable
  <1>4. CASE BeginGraph BY <1>1, <1>4 DEF BeginGraph
  <1>5. CASE CopyTable
    <2> DEFINE t == Tables[step]
    <2>1. step \in 1..6 /\ t \in TableNames /\ gpc = "export" BY <1>5 DEF CopyTable
    <2>2. /\ parquet' = [parquet EXCEPT ![t] = ShippedRows(t)] /\ there' = there \cup {t} /\ db' = db
          /\ receded' = IF t = "ingested_file" THEN FALSE ELSE receded
      BY <1>5 DEF CopyTable
    <2>3. gpc' \in {"idle", "export"} /\ (gpc' = "export" => step' \in 1..6) BY <1>5, <2>1 DEF CopyTable
    <2> HIDE DEF t
    <2>4. t = "ingested_file" => parquet'["ingested_file"] = db["ingested_file"]
      BY <2>1, <2>2 DEF ShippedRows
    <2>5. t # "ingested_file" => parquet'["ingested_file"] = parquet["ingested_file"] /\ receded' = receded
      BY <2>1, <2>2
    <2>6. PlacesTyped' BY <2>1, <2>2, <2>3, <2>4, <2>5
    <2>7. LedgerAhead' BY <2>2, <2>4, <2>5
    <2> QED BY <2>6, <2>7
  <1>6. ASSUME NEW force \in BOOLEAN, BeginRebuild(force) PROVE PlacesTyped' /\ LedgerAhead'
    BY <1>1, <1>6 DEF BeginRebuild
  <1>7. CASE DropTable
    <2> DEFINE t == NextDropped
    <2>1. step \in 1..6 /\ t \in TableNames /\ gpc = "drop" BY <1>7 DEF DropTable, NextDropped
    <2>2. /\ db' = [db EXCEPT ![t] = {}] /\ UNCHANGED <<parquet, there>>
          /\ receded' = (receded \/ (t = "ingested_file" /\ db[t] # {}))
      BY <1>7 DEF DropTable
    <2>3. gpc' \in {"drop", "dropSeq"} /\ (gpc' = "drop" => step' \in 1..6) BY <1>7, <2>1 DEF DropTable
    <2> HIDE DEF t
    <2>4. receded \/ (t = "ingested_file" /\ db[t] # {}) => receded' BY <2>2, Zenon
    <2>5. LedgerAhead' BY <2>1, <2>2, <2>4
    <2>6. PlacesTyped' BY <2>1, <2>2, <2>3 DEF Loadable
    <2> QED BY <2>5, <2>6
  <1>8. CASE DropSequence \/ StartSequence \/ DropLocated
    BY <1>1, <1>8 DEF DropSequence, StartSequence, DropLocated
  <1>9. CASE StartLocated BY <1>1, <1>9 DEF StartLocated
  <1>10. CASE LoadTable
    <2> DEFINE t == Tables[step]
    <2>1. step \in 1..6 /\ t \in TableNames /\ gpc = "load" /\ Loadable BY <1>10 DEF LoadTable
    <2>2. /\ db' = [db EXCEPT ![t] = IF t \in there THEN parquet[t] ELSE @] /\ UNCHANGED <<parquet, there>>
          /\ receded' = IF t = "ingested_file" THEN FALSE ELSE receded
      BY <1>10 DEF LoadTable
    <2>3. gpc' \in {"load", "idle"} /\ (gpc' = "load" => step' \in 1..6) BY <1>10, <2>1 DEF LoadTable
    <2> HIDE DEF t
    <2>4. "ingested_file" \in there BY <2>1 DEF Loadable
    <2>5. t = "ingested_file" => db'["ingested_file"] = parquet["ingested_file"] BY <2>1, <2>2, <2>4
    <2>6. t # "ingested_file" => db'["ingested_file"] = db["ingested_file"] /\ receded' = receded
      BY <2>1, <2>2
    <2>7. PlacesTyped' BY <2>1, <2>2, <2>3, <2>5, <2>6 DEF Loadable
    <2>8. LedgerAhead' BY <2>2, <2>5, <2>6
    <2> QED BY <2>7, <2>8
  <1>11. CASE KillInStore BY <1>1, <1>11 DEF KillInStore
  <1>12. CASE UNCHANGED graphVars BY <1>1, <1>12 DEF graphVars
  <1> QED BY <1>2, <1>3, <1>4, <1>5, <1>6, <1>7, <1>8, <1>9, <1>10, <1>11, <1>12 DEF GraphNext

(***************************************************************************)
(* For any files, ingests, exports, rebuilds and kills, a rebuild that is  *)
(* not forced discards no ingest unless a file left the ledger since the   *)
(* export: the two counts it compares then count one set within the other  *)
(* (cli.py:1064-1066, provenance.py).                                      *)
(***************************************************************************)
THEOREM RebuildKeepsIngests == GraphSpec => RebuildDiscardsNothing
PROOF
  <1>1. GraphInit => PlacesTyped /\ LedgerAhead BY PlacesBegin
  <1>2. (PlacesTyped /\ LedgerAhead) /\ [GraphNext]_graphVars => (PlacesTyped /\ LedgerAhead)'
    BY PlacesStay
  <1>3. (PlacesTyped /\ LedgerAhead) /\ [GraphNext]_graphVars => [Refuses]_graphVars
    <2> SUFFICES ASSUME PlacesTyped, LedgerAhead, BeginRebuild(FALSE), ~receded
                 PROVE  db["ingested_file"] \subseteq parquet["ingested_file"]
        BY DEF Refuses
    <2>1. parquet["ingested_file"] \subseteq db["ingested_file"] BY DEF LedgerAhead
    <2>2. Cardinality(db["ingested_file"]) <= Cardinality(parquet["ingested_file"])
      BY DEF BeginRebuild, Behind
    <2>3. IsFiniteSet(db["ingested_file"]) BY GraphAssumption, FS_Subset DEF PlacesTyped, GraphAssumption
    <2>4. /\ Cardinality(parquet["ingested_file"]) <= Cardinality(db["ingested_file"])
          /\ IsFiniteSet(parquet["ingested_file"])
      BY <2>1, <2>3, FS_Subset
    <2>5. Cardinality(parquet["ingested_file"]) = Cardinality(db["ingested_file"])
      BY <2>2, <2>3, <2>4, FS_CardinalityType
    <2> QED BY <2>1, <2>3, <2>5, FS_Subset
  <1> QED BY <1>1, <1>2, <1>3, PTL DEF GraphSpec, RebuildDiscardsNothing

\* What a row of the evidence is, and that ids tell rows apart and have an end.
RowsOfBatch(S) == \A r \in S : r.id \in Nat \ {0} /\ r.name \in Entry /\ r.file \in Batch
Unique(S)      == \A a, b \in S : a.id = b.id => a = b
Over(S, n)     == \A r \in S : r.id < n

RowsTyped ==
  /\ issued \in Nat /\ located \in Nat
  /\ RowsOfBatch(db["evidence"]) /\ RowsOfBatch(parquet["evidence"])

\* How far an export or a rebuild has come.
HowFar ==
  /\ gpc = "export" => \A i \in 1..6 : i < step => parquet[Tables[i]] = ShippedRows(Tables[i])
  /\ gpc = "drop" => \A i \in 1..6 : i > step => db[Tables[i]] = {}
  /\ gpc \in {"dropSeq", "startSeq", "dropLocated", "locate"} => \A t \in TableNames : db[t] = {}
  /\ gpc = "load" => \A i \in 1..6 : db[Tables[i]] = IF i < step THEN parquet[Tables[i]] ELSE {}
  /\ \A t \in TableNames \ there : parquet[t] = {}

BothSound ==
  /\ spoiled => torn
  /\ ~torn => SoundTables(parquet)
  /\ ~spoiled => SoundTables(db)

IdsInv ==
  /\ Unique(db["evidence"]) /\ Unique(parquet["evidence"])
  /\ \E n \in Nat : Over(parquet["evidence"], n)
  /\ IF issued = 0 THEN db["evidence"] = {} ELSE Over(db["evidence"], issued)
  /\ gpc \in {"dropLocated", "locate", "load"} => issued # 0 /\ Over(parquet["evidence"], issued)
  /\ gpc \in {"locate"} => located = 0
  /\ gpc = "load" => located # 0 /\ Over(parquet["evidence"], located)
  /\ LocatedRowsArePlaced

\* What is read or held has its year, unless an unbank took it.
DatedIn(tables, n) == \E y \in tables[YearTable(n)] : y.name = n
AllDated(tables) ==
  /\ \A r \in tables["evidence"] : r.name \in taken \/ DatedIn(tables, r.name)
  /\ \A f \in tables["ingested_file"] : \A n \in Gives[f] \ taken : DatedIn(tables, n)

DatedInv ==
  ~cutOff => /\ ~spoiled
             /\ gpc \in {"idle", "export"} => AllDated(db)
             /\ gpc # "export" => AllDated(parquet) /\ ~torn

GraphInv == PlacesTyped /\ LedgerAhead /\ RowsTyped /\ HowFar /\ BothSound /\ IdsInv /\ DatedInv

LEMMA YearTables == \A n \in Entry : YearTable(n) \in {"domain_year", "hostname_year"}
PROOF BY DEF YearTable

LEMMA GraphBegins == GraphInit => GraphInv
PROOF
  <1> SUFFICES ASSUME GraphInit PROVE GraphInv
      OBVIOUS
  <1>1. PICK his \in SUBSET Registrable, old \in SUBSET (Batch \X Registrable) :
          /\ Cardinality(old) <= 1 /\ \A o \in old : Gives[o[1]] = {o[2]}
          /\ db = [NoTables EXCEPT
                  !["source"] = {Sender[o[1]] : o \in old},
                  !["domain"] = {[name |-> n, by |-> "prior_task"] : n \in his}
                                  \cup {[name |-> o[2], by |-> "ours"] : o \in {x \in old : x[2] \notin his}},
                  !["evidence"] = {TableRow(1, o[2], o[1], FALSE) : o \in old},
                  !["domain_year"] = {[name |-> o[2], id |-> 1] : o \in old},
                  !["ingested_file"] = {o[1] : o \in old}]
          /\ issued = IF old = {} THEN 0 ELSE 2
    BY DEF GraphInit
  <1>2. DOMAIN NoTables = TableNames /\ \A t \in TableNames : NoTables[t] = {} BY DEF NoTables
  <1>3. /\ db["source"] = {Sender[o[1]] : o \in old}
        /\ db["domain"] = {[name |-> n, by |-> "prior_task"] : n \in his}
                            \cup {[name |-> o[2], by |-> "ours"] : o \in {x \in old : x[2] \notin his}}
        /\ db["evidence"] = {TableRow(1, o[2], o[1], FALSE) : o \in old}
        /\ db["domain_year"] = {[name |-> o[2], id |-> 1] : o \in old}
        /\ db["ingested_file"] = {o[1] : o \in old} /\ db["hostname_year"] = {}
    BY <1>1, <1>2, TableList
  <1>4. /\ parquet = NoTables /\ there = {} /\ gpc = "idle" /\ located = 0 /\ taken = {}
        /\ torn = FALSE /\ spoiled = FALSE /\ cutOff = FALSE
    BY DEF GraphInit
  <1>5. \A t \in TableNames : parquet[t] = {} BY <1>2, <1>4
  <1>6. \A a, b \in old : a = b
    <2>1. IsFiniteSet(old)
      <3>1. IsFiniteSet(Registrable)
        <4>1. Registrable \in SUBSET Entry BY DEF Entry
        <4> QED BY <4>1, GraphAssumption, FS_Subset DEF GraphAssumption
      <3>2. IsFiniteSet(Batch \X Registrable) BY <3>1, GraphAssumption, FS_Product DEF GraphAssumption
      <3> QED BY <3>2, FS_Subset
    <2>2. ASSUME NEW a \in old, NEW b \in old, a # b PROVE FALSE
      <3>1. {a, b} \in SUBSET old BY <2>2
      <3>2. Cardinality({a, b}) = 2 /\ IsFiniteSet({a, b})
        <4>1. IsFiniteSet({a}) /\ Cardinality({a}) = 1 BY FS_Singleton
        <4>2. {a, b} = {a} \cup {b} OBVIOUS
        <4>3. b \notin {a} BY <2>2
        <4>4. IsFiniteSet({a} \cup {b}) /\ Cardinality({a} \cup {b}) = Cardinality({a}) + 1
          BY <4>1, <4>3, FS_AddElement
        <4> QED BY <4>1, <4>2, <4>4
      <3>3. Cardinality({a, b}) <= Cardinality(old) BY <2>1, <3>1, FS_Subset
      <3>4. Cardinality(old) \in Nat BY <2>1, FS_CardinalityType
      <3> QED BY <1>1, <3>2, <3>3, <3>4
    <2> QED BY <2>2
  <1>7. \A o \in old : o[1] \in Batch /\ o[2] \in Registrable /\ o[2] \in Entry BY DEF Entry
  <1>8. RowsTyped BY <1>1, <1>3, <1>4, <1>5, <1>7, TableList DEF RowsTyped, RowsOfBatch, TableRow
  <1>9. HowFar BY <1>4, <1>5 DEF HowFar
  <1>10. BothSound
    <2>1. SoundTables(parquet) BY <1>5, TableList DEF SoundTables
    <2>2. SoundTables(db)
      <3>1. \A y \in db["domain_year"] \cup db["hostname_year"] :
              \E r \in db["evidence"] : r.id = y.id /\ r.name = y.name
        <4> SUFFICES ASSUME NEW y \in db["domain_year"]
                     PROVE  \E r \in db["evidence"] : r.id = y.id /\ r.name = y.name
            BY <1>3
        <4>1. PICK o \in old : y = [name |-> o[2], id |-> 1] BY <1>3
        <4>2. TableRow(1, o[2], o[1], FALSE) \in db["evidence"] BY <1>3
        <4> QED BY <4>1, <4>2 DEF TableRow
      <3>2. \A r \in db["evidence"] : Sender[r.file] \in db["source"] BY <1>3 DEF TableRow
      <3>3. \A r \in db["evidence"] : \E d \in db["domain"] : d.name = Registered(r.name)
        <4> SUFFICES ASSUME NEW o \in old PROVE \E d \in db["domain"] : d.name = o[2]
            BY <1>3, <1>7 DEF TableRow, Registered
        <4>1. CASE o[2] \in his
          <5>1. [name |-> o[2], by |-> "prior_task"] \in db["domain"] BY <1>3, <4>1
          <5> QED BY <5>1
        <4>2. CASE o[2] \notin his
          <5>1. [name |-> o[2], by |-> "ours"] \in db["domain"] BY <1>3, <4>2
          <5> QED BY <5>1
        <4> QED BY <4>1, <4>2
      <3>4. \A f \in db["ingested_file"] : \A n \in Gives[f] :
              n \in HeldFrom(db["evidence"], Sender[f]) \cup taken
        <4>1. ASSUME NEW o \in old PROVE o[2] \in HeldFrom(db["evidence"], Sender[o[1]])
          <5>1. TableRow(1, o[2], o[1], FALSE) \in db["evidence"] BY <1>3
          <5> QED BY <5>1 DEF HeldFrom, TableRow
        <4>2. ASSUME NEW f \in db["ingested_file"], NEW n \in Gives[f]
              PROVE  n \in HeldFrom(db["evidence"], Sender[f])
          <5>1. PICK o \in old : f = o[1] BY <1>3, <4>2
          <5>2. n = o[2] BY <1>1, <4>2, <5>1
          <5> QED BY <4>1, <5>1, <5>2
        <4> QED BY <4>2
      <3> QED BY <3>1, <3>2, <3>3, <3>4 DEF SoundTables
    <2> QED BY <1>4, <2>1, <2>2 DEF BothSound
  <1>11. IdsInv
    <2>1. Unique(db["evidence"]) BY <1>3, <1>6 DEF Unique
    <2>2. IF issued = 0 THEN db["evidence"] = {} ELSE Over(db["evidence"], issued)
      BY <1>1, <1>3 DEF Over, TableRow
    <2>3. Unique(parquet["evidence"]) /\ Over(parquet["evidence"], 0) BY <1>5, TableList DEF Unique, Over
    <2> QED BY <1>4, <2>1, <2>2, <2>3 DEF IdsInv, LocatedRowsArePlaced
  <1>12. DatedInv
    <2>1. AllDated(parquet) BY <1>5, TableList DEF AllDated
    <2>2. ASSUME NEW o \in old PROVE DatedIn(db, o[2])
      <3>1. [name |-> o[2], id |-> 1] \in db["domain_year"] BY <1>3
      <3>2. YearTable(o[2]) = "domain_year" BY <1>7 DEF YearTable
      <3> QED BY <3>1, <3>2 DEF DatedIn
    <2>3. \A r \in db["evidence"] : DatedIn(db, r.name) BY <1>3, <2>2 DEF TableRow
    <2>4. ASSUME NEW f \in db["ingested_file"], NEW n \in Gives[f] PROVE DatedIn(db, n)
      <3>1. PICK o \in old : f = o[1] BY <1>3, <2>4
      <3>2. n = o[2] BY <1>1, <2>4, <3>1
      <3> QED BY <2>2, <3>2
    <2>5. AllDated(db) BY <2>3, <2>4 DEF AllDated
    <2> QED BY <1>4, <2>1, <2>5 DEF DatedInv
  <1> QED BY <1>8, <1>9, <1>10, <1>11, <1>12, PlacesBegin DEF GraphInv

\* Rows with an end have a greatest id.
LEMMA LastId ==
  ASSUME NEW S, RowsOfBatch(S), NEW n \in Nat, Over(S, n)
  PROVE  MaxId(S) \in Nat /\ \A r \in S : r.id <= MaxId(S)
PROOF
  <1>1. CASE S = {} BY <1>1 DEF MaxId
  <1>2. CASE S # {}
    <2> DEFINE Bounds == {b \in Nat : \A r \in S : r.id <= b}
               R == OpToRel(<, Nat)
    <2>1. n \in Bounds BY DEF Over, RowsOfBatch
    <2>2. ASSUME NEW x \in Nat, NEW y \in Nat, x < y PROVE <<x, y>> \in R BY <2>2 DEF OpToRel
    <2>3. IsWellFoundedOn(R, Nat) BY NatLessThanWellFounded DEF R
    <2>4. Bounds \in SUBSET Nat /\ Bounds # {} BY <2>1
    <2> HIDE DEF R, Bounds
    <2>5. PICK b \in Bounds : \A c \in Bounds : <<c, b>> \notin R BY <2>3, <2>4, WFMin
    <2> USE DEF Bounds
    <2>6. b \in Nat /\ (\A r \in S : r.id <= b) /\ \A c \in Bounds : ~(c < b) BY <2>2, <2>5
    <2>7. \E r \in S : r.id = b
      <3> SUFFICES ASSUME \A r \in S : r.id # b PROVE FALSE
          OBVIOUS
      <3>1. \A r \in S : r.id < b /\ 0 < r.id BY <2>6 DEF RowsOfBatch
      <3>2. b - 1 \in Nat /\ \A r \in S : r.id <= b - 1 BY <1>2, <2>6, <3>1 DEF RowsOfBatch
      <3> QED BY <2>6, <3>2
    <2>8. \E id \in {r.id : r \in S} : \A r \in S : r.id <= id BY <2>6, <2>7
    <2>9. MaxId(S) = CHOOSE id \in {r.id : r \in S} : \A r \in S : r.id <= id BY <1>2 DEF MaxId
    <2>10. MaxId(S) \in {r.id : r \in S} /\ \A r \in S : r.id <= MaxId(S) BY <2>8, <2>9
    <2> QED BY <2>10 DEF RowsOfBatch
  <1> QED BY <1>1, <1>2

LEMMA FreshIds ==
  ASSUME GraphInv, NEW f \in Batch
  PROVE  /\ IdOf(FreshOf(f)) \in [FreshOf(f) -> Issued..LastOf(FreshOf(f))]
         /\ \A a, b \in FreshOf(f) : IdOf(FreshOf(f))[a] = IdOf(FreshOf(f))[b] => a = b
         /\ Issued \in Nat \ {0} /\ LastOf(FreshOf(f)) \in Int
         /\ LastOf(FreshOf(f)) + 1 \in Nat /\ LastOf(FreshOf(f)) + 1 >= Issued
PROOF
  <1> DEFINE fresh == FreshOf(f)
  <1>1. IsFiniteSet(fresh)
    <2>1. Gives[f] \in SUBSET Entry BY GraphAssumption DEF GraphAssumption
    <2>2. IsFiniteSet(Entry) BY GraphAssumption DEF GraphAssumption
    <2>3. fresh \in SUBSET Entry BY <2>1 DEF FreshOf
    <2> QED BY <2>2, <2>3, FS_Subset
  <1> HIDE DEF fresh
  <1>2. Cardinality(fresh) \in Nat BY <1>1, FS_CardinalityType
  <1>3. Issued \in Nat \ {0} BY DEF GraphInv, RowsTyped, Issued
  <1>4. /\ LastOf(fresh) \in Int /\ LastOf(fresh) + 1 \in Nat /\ LastOf(fresh) + 1 >= Issued
        /\ (IF Issued > LastOf(fresh) THEN 0 ELSE LastOf(fresh) - Issued + 1) = Cardinality(fresh)
    BY <1>2, <1>3 DEF LastOf
  <1>5. IsFiniteSet(Issued..LastOf(fresh)) /\ Cardinality(Issued..LastOf(fresh)) = Cardinality(fresh)
    <2>1. Issued \in Int /\ LastOf(fresh) \in Int BY <1>3, <1>4
    <2>2. /\ IsFiniteSet(Issued..LastOf(fresh))
          /\ Cardinality(Issued..LastOf(fresh)) =
               IF Issued > LastOf(fresh) THEN 0 ELSE LastOf(fresh) - Issued + 1
      BY <2>1, FS_Interval
    <2> QED BY <1>4, <2>2
  <1>6. ExistsBijection(fresh, Issued..LastOf(fresh)) BY <1>1, <1>5, FS_SameCardinalityBij
  <1>7. \E g \in [fresh -> Issued..LastOf(fresh)] : \A a, b \in fresh : g[a] = g[b] => a = b
    BY <1>6 DEF ExistsBijection, Bijection, Injection, IsInjective
  <1>8. /\ IdOf(fresh) \in [fresh -> Issued..LastOf(fresh)]
        /\ \A a, b \in fresh : IdOf(fresh)[a] = IdOf(fresh)[b] => a = b
    BY <1>7 DEF IdOf
  <1> QED BY <1>3, <1>4, <1>8 DEF fresh

LEMMA RowsStay == GraphInv /\ [GraphNext]_graphVars => RowsTyped'
PROOF
  <1> SUFFICES ASSUME GraphInv, [GraphNext]_graphVars PROVE RowsTyped'
      OBVIOUS
  <1>1. RowsTyped /\ PlacesTyped BY DEF GraphInv
  <1>2. ASSUME UNCHANGED <<db, parquet, issued, located>> PROVE RowsTyped' BY <1>1, <1>2 DEF RowsTyped
  <1>3. ASSUME NEW f \in Batch, IngestBatch(f) PROVE RowsTyped'
    <2> DEFINE fresh == FreshOf(f)
               id == IdOf(fresh)
    <2>1. /\ db'["evidence"] = db["evidence"] \cup {TableRow(id[n], n, f, TRUE) : n \in fresh}
          /\ issued' = LastOf(fresh) + 1 /\ located' = Located /\ parquet' = parquet
      BY <1>3, IngestWrites DEF IngestsTo
    <2>2. /\ id \in [fresh -> Issued..LastOf(fresh)] /\ Issued \in Nat \ {0} /\ LastOf(fresh) + 1 \in Nat
      BY FreshIds
    <2>3. fresh \subseteq Entry BY GraphAssumption DEF GraphAssumption, FreshOf
    <2> HIDE DEF fresh, id
    <2>4. \A n \in fresh : id[n] \in Nat \ {0} BY <2>2
    <2>5. RowsOfBatch(db'["evidence"]) BY <1>1, <2>1, <2>3, <2>4 DEF RowsTyped, RowsOfBatch, TableRow
    <2>6. Located \in Nat
      <3>1. CASE located = 0
        <4>1. \E n \in Nat : Over(db["evidence"], n)
          <5>1. CASE issued = 0 BY <5>1 DEF GraphInv, IdsInv, Over
          <5>2. CASE issued # 0 BY <1>1, <5>2 DEF GraphInv, IdsInv, RowsTyped
          <5> QED BY <5>1, <5>2
        <4>2. MaxId(db["evidence"]) \in Nat BY <1>1, <4>1, LastId DEF RowsTyped
        <4> QED BY <3>1, <4>2 DEF Located
      <3>2. CASE located # 0 BY <1>1, <3>2 DEF Located, RowsTyped
      <3> QED BY <3>1, <3>2
    <2> QED BY <1>1, <2>1, <2>2, <2>5, <2>6 DEF RowsTyped
  <1>4. ASSUME NEW f \in Batch, TakeSource(Sender[f]) PROVE RowsTyped'
    <2>1. /\ db'["evidence"] = {r \in db["evidence"] : Sender[r.file] # Sender[f]}
          /\ UNCHANGED <<parquet, issued, located>>
      BY <1>4, TakeTakes
    <2> QED BY <1>1, <2>1 DEF RowsTyped, RowsOfBatch
  <1>5. CASE CopyTable
    <2> DEFINE t == Tables[step]
    <2>1. t \in TableNames BY <1>1, <1>5, TableList DEF CopyTable, PlacesTyped
    <2>2. parquet' = [parquet EXCEPT ![t] = ShippedRows(t)] /\ UNCHANGED <<db, issued, located>>
      BY <1>5 DEF CopyTable
    <2> HIDE DEF t
    <2>3. parquet'["evidence"] \in {parquet["evidence"], db["evidence"]}
      BY <1>1, <2>1, <2>2, TableList DEF PlacesTyped, ShippedRows
    <2> QED BY <1>1, <2>2, <2>3 DEF RowsTyped
  <1>6. CASE DropTable
    <2> DEFINE t == NextDropped
    <2>1. db' = [db EXCEPT ![t] = {}] /\ UNCHANGED <<parquet, issued, located>> BY <1>6 DEF DropTable
    <2> HIDE DEF t
    <2>2. db'["evidence"] \subseteq db["evidence"] BY <1>1, <2>1, TableList DEF PlacesTyped
    <2> QED BY <1>1, <2>1, <2>2 DEF RowsTyped, RowsOfBatch
  <1>7. CASE LoadTable
    <2> DEFINE t == Tables[step]
    <2>1. db' = [db EXCEPT ![t] = IF t \in there THEN parquet[t] ELSE @] /\ UNCHANGED <<parquet, issued, located>>
      BY <1>7 DEF LoadTable
    <2> HIDE DEF t
    <2>2. db'["evidence"] \in {parquet["evidence"], db["evidence"]} BY <1>1, <2>1, TableList DEF PlacesTyped
    <2> QED BY <1>1, <2>1, <2>2 DEF RowsTyped
  <1>8. FirstFree \in Nat
    <2>1. MaxId(parquet["evidence"]) \in Nat BY LastId DEF GraphInv, RowsTyped, IdsInv
    <2> QED BY <2>1 DEF FirstFree
  <1>9. CASE DropSequence \/ StartSequence \/ DropLocated \/ StartLocated
    BY <1>1, <1>8, <1>9 DEF DropSequence, StartSequence, DropLocated, StartLocated, RowsTyped
  <1>10. CASE BeginGraph \/ (\E force \in BOOLEAN : BeginRebuild(force)) \/ KillInStore \/ UNCHANGED graphVars
    BY <1>2, <1>10 DEF BeginGraph, BeginRebuild, KillInStore, graphVars
  <1> QED BY <1>3, <1>4, <1>5, <1>6, <1>7, <1>9, <1>10 DEF GraphNext

\* A copy and a load write one table; what either does to the others is nothing.
LEMMA CopyWrites ==
  ASSUME GraphInv, CopyTable
  PROVE  /\ gpc = "export" /\ step \in 1..6 /\ UNCHANGED <<db, taken, spoiled, cutOff, issued, located>>
         /\ parquet'[Tables[step]] = ShippedRows(Tables[step])
         /\ \A i \in 1..6 : i # step => parquet'[Tables[i]] = parquet[Tables[i]]
         /\ there' = there \cup {Tables[step]}
         /\ IF step = 6 THEN torn' = spoiled /\ gpc' = "idle"
            ELSE /\ (torn \/ ~(parquet[Tables[step]] \subseteq ShippedRows(Tables[step])) <=> torn')
                 /\ gpc' = "export" /\ step' = step + 1
PROOF
  <1>1. gpc = "export" /\ step \in 1..6 /\ DOMAIN parquet = TableNames BY DEF CopyTable, GraphInv, PlacesTyped
  <1>2. parquet' = [parquet EXCEPT ![Tables[step]] = ShippedRows(Tables[step])] BY DEF CopyTable
  <1>3. \A i \in 1..6 : Tables[i] \in TableNames /\ (i # step => Tables[i] # Tables[step])
    BY <1>1, TableList
  <1>4. /\ parquet'[Tables[step]] = ShippedRows(Tables[step])
        /\ \A i \in 1..6 : i # step => parquet'[Tables[i]] = parquet[Tables[i]]
    BY <1>1, <1>2, <1>3
  <1>5. Len(Tables) = 6 BY TableList
  <1>6. IF step = 6 THEN torn' = spoiled /\ gpc' = "idle"
        ELSE /\ (torn \/ ~(parquet[Tables[step]] \subseteq ShippedRows(Tables[step])) <=> torn')
             /\ gpc' = "export" /\ step' = step + 1
    <2>1. torn' = IF step = 6 THEN spoiled
                  ELSE torn \/ ~(parquet[Tables[step]] \subseteq ShippedRows(Tables[step]))
      BY <1>5 DEF CopyTable
    <2>2. IF step = 6 THEN gpc' = "idle" ELSE gpc' = "export" /\ step' = step + 1
      BY <1>1, <1>5 DEF CopyTable
    <2> QED BY <2>1, <2>2, Zenon
  <1>7. UNCHANGED <<db, taken, spoiled, cutOff, issued, located>> /\ there' = there \cup {Tables[step]}
    BY DEF CopyTable
  <1> QED BY <1>1, <1>4, <1>6, <1>7

LEMMA LoadWrites ==
  ASSUME GraphInv, LoadTable
  PROVE  /\ gpc = "load" /\ step \in 1..6
         /\ UNCHANGED <<parquet, there, taken, torn, cutOff, issued, located>> /\ DOMAIN db' = TableNames
         /\ db'[Tables[step]] = parquet[Tables[step]]
         /\ \A i \in 1..6 : i # step => db'[Tables[i]] = db[Tables[i]]
         /\ (spoiled' <=> spoiled \/ torn)
         /\ IF step = 6 THEN gpc' = "idle" ELSE gpc' = "load" /\ step' = step + 1
PROOF
  <1>1. gpc = "load" /\ step \in 1..6 /\ DOMAIN db = TableNames BY DEF LoadTable, GraphInv, PlacesTyped
  <1>2. db' = [db EXCEPT ![Tables[step]] = IF Tables[step] \in there THEN parquet[Tables[step]] ELSE @]
    BY DEF LoadTable
  <1>3. \A i \in 1..6 : Tables[i] \in TableNames /\ (i # step => Tables[i] # Tables[step])
    BY <1>1, TableList
  <1>4. db'[Tables[step]] = parquet[Tables[step]]
    <2>1. CASE Tables[step] \in there BY <1>1, <1>2, <1>3, <2>1
    <2>2. CASE Tables[step] \notin there
      <3>1. parquet[Tables[step]] = {} BY <1>1, <1>3, <2>2 DEF GraphInv, HowFar
      <3>2. db[Tables[step]] = {} BY <1>1 DEF GraphInv, HowFar
      <3> QED BY <1>1, <1>2, <1>3, <2>2, <3>1, <3>2
    <2> QED BY <2>1, <2>2
  <1>5. /\ \A i \in 1..6 : i # step => db'[Tables[i]] = db[Tables[i]]
        /\ DOMAIN db' = TableNames
    BY <1>1, <1>2, <1>3
  <1>6. spoiled' <=> spoiled \/ torn BY Zenon DEF LoadTable
  <1>7. IF step = 6 THEN gpc' = "idle" ELSE gpc' = "load" /\ step' = step + 1
    BY <1>1, TableList DEF LoadTable
  <1>8. UNCHANGED <<parquet, there, taken, torn, cutOff, issued, located>> BY DEF LoadTable
  <1> QED BY <1>1, <1>4, <1>5, <1>6, <1>7, <1>8

LEMMA DropWrites ==
  ASSUME GraphInv, DropTable
  PROVE  /\ gpc = "drop" /\ step \in 1..6 /\ DOMAIN db' = TableNames
         /\ UNCHANGED <<parquet, there, taken, torn, spoiled, cutOff, issued, located>>
         /\ db'[Tables[step]] = {}
         /\ \A i \in 1..6 : i # step => db'[Tables[i]] = db[Tables[i]]
         /\ IF step = 1 THEN gpc' = "dropSeq" ELSE gpc' = "drop" /\ step' = step - 1
PROOF
  <1>1. gpc = "drop" /\ step \in 1..6 /\ DOMAIN db = TableNames BY DEF DropTable, GraphInv, PlacesTyped
  <1>2. db' = [db EXCEPT ![Tables[step]] = {}] BY DEF DropTable, NextDropped
  <1>3. \A i \in 1..6 : Tables[i] \in TableNames /\ (i # step => Tables[i] # Tables[step])
    BY <1>1, TableList
  <1> QED BY <1>1, <1>2, <1>3 DEF DropTable

\* What leaves the tables, and how far the process is, as they are.
Still == UNCHANGED <<db, parquet, there, taken, torn, spoiled>>

LEMMA StillSteps ==
  ASSUME \/ BeginGraph \/ (\E force \in BOOLEAN : BeginRebuild(force)) \/ DropSequence \/ StartSequence
         \/ DropLocated \/ StartLocated \/ KillInStore \/ UNCHANGED graphVars
  PROVE  Still
PROOF BY DEF BeginGraph, BeginRebuild, DropSequence, StartSequence, DropLocated, StartLocated, KillInStore,
             graphVars, Still

LEMMA HowFarStays == GraphInv /\ [GraphNext]_graphVars => HowFar'
PROOF
  <1> SUFFICES ASSUME GraphInv, [GraphNext]_graphVars PROVE HowFar'
      OBVIOUS
  <1>1. HowFar /\ PlacesTyped BY DEF GraphInv
  <1>2. ASSUME Still, gpc' = "idle" PROVE HowFar' BY <1>1, <1>2 DEF HowFar, Still
  <1>3. ASSUME NEW f \in Batch, IngestBatch(f) PROVE HowFar'
    BY <1>1, <1>3, IngestWrites DEF HowFar
  <1>4. ASSUME NEW f \in Batch, TakeSource(Sender[f]) PROVE HowFar' BY <1>1, <1>4, TakeTakes DEF HowFar
  <1>5. CASE BeginGraph BY <1>1, <1>5, StillSteps DEF BeginGraph, HowFar, Still
  <1>6. CASE CopyTable
    <2>1. /\ gpc = "export" /\ step \in 1..6 /\ UNCHANGED db
          /\ parquet'[Tables[step]] = ShippedRows(Tables[step])
          /\ \A i \in 1..6 : i # step => parquet'[Tables[i]] = parquet[Tables[i]]
          /\ there' = there \cup {Tables[step]}
          /\ gpc' = "idle" \/ (gpc' = "export" /\ step' = step + 1)
      BY <1>6, CopyWrites
    <2>2. \A t : ShippedRows(t)' = ShippedRows(t) BY <2>1 DEF ShippedRows
    <2>3. \A t \in TableNames : \E i \in 1..6 : t = Tables[i] BY TableList
    <2>4. \A t \in TableNames \ there' : parquet'[t] = {} BY <1>1, <2>1, <2>3 DEF HowFar
    <2> QED BY <1>1, <2>1, <2>2, <2>4 DEF HowFar
  <1>7. ASSUME NEW force \in BOOLEAN, BeginRebuild(force) PROVE HowFar'
    <2>1. Still /\ gpc' = "drop" /\ step' = 6 BY <1>7, StillSteps, TableList DEF BeginRebuild
    <2> QED BY <1>1, <2>1 DEF HowFar, Still
  <1>8. CASE DropTable
    <2>1. /\ gpc = "drop" /\ step \in 1..6 /\ UNCHANGED <<parquet, there>> /\ db'[Tables[step]] = {}
          /\ \A i \in 1..6 : i # step => db'[Tables[i]] = db[Tables[i]]
          /\ IF step = 1 THEN gpc' = "dropSeq" ELSE gpc' = "drop" /\ step' = step - 1
      BY <1>8, DropWrites
    <2>2. \A i \in 1..6 : i >= step => db'[Tables[i]] = {} BY <1>1, <2>1 DEF HowFar
    <2>3. CASE step = 1
      <3>1. \A t \in TableNames : db'[t] = {}
        <4>1. \A t \in TableNames : \E i \in 1..6 : t = Tables[i] BY TableList
        <4> QED BY <2>2, <2>3, <4>1
      <3> QED BY <1>1, <2>1, <2>3, <3>1 DEF HowFar
    <2>4. CASE step # 1
      <3>1. \A i \in 1..6 : i > step' => db'[Tables[i]] = {} BY <2>1, <2>2, <2>4
      <3> QED BY <1>1, <2>1, <2>4, <3>1 DEF HowFar
    <2> QED BY <2>3, <2>4
  <1>9. CASE DropSequence \/ StartSequence \/ DropLocated
    <2>1. /\ Still /\ gpc \in {"dropSeq", "startSeq", "dropLocated"}
          /\ gpc' \in {"startSeq", "dropLocated", "locate"}
      BY <1>9, StillSteps DEF DropSequence, StartSequence, DropLocated
    <2> QED BY <1>1, <2>1 DEF HowFar, Still
  <1>10. CASE StartLocated
    <2>1. Still /\ gpc = "locate" /\ gpc' = "load" /\ step' = 1 BY <1>10, StillSteps DEF StartLocated
    <2>2. \A i \in 1..6 : db[Tables[i]] = {} BY <1>1, <2>1, TableList DEF HowFar
    <2>3. \A i \in 1..6 : ~(i < 1) OBVIOUS
    <2> QED BY <1>1, <2>1, <2>2, <2>3 DEF HowFar, Still
  <1>11. CASE LoadTable
    <2>1. /\ gpc = "load" /\ step \in 1..6 /\ UNCHANGED <<parquet, there>>
          /\ db'[Tables[step]] = parquet[Tables[step]]
          /\ \A i \in 1..6 : i # step => db'[Tables[i]] = db[Tables[i]]
          /\ IF step = 6 THEN gpc' = "idle" ELSE gpc' = "load" /\ step' = step + 1
      BY <1>11, LoadWrites
    <2>2. CASE step = 6 BY <1>1, <2>1, <2>2 DEF HowFar
    <2>3. CASE step # 6
      <3>1. \A i \in 1..6 : db'[Tables[i]] = IF i < step' THEN parquet[Tables[i]] ELSE {}
        BY <1>1, <2>1, <2>3 DEF HowFar
      <3> QED BY <1>1, <2>1, <2>3, <3>1 DEF HowFar
    <2> QED BY <2>2, <2>3
  <1>12. CASE KillInStore BY <1>2, <1>12, StillSteps DEF KillInStore
  <1>13. CASE UNCHANGED graphVars BY <1>1, <1>13 DEF HowFar, graphVars, ShippedRows
  <1> QED BY <1>3, <1>4, <1>5, <1>6, <1>7, <1>8, <1>9, <1>10, <1>11, <1>12, <1>13 DEF GraphNext

\* Tables of which the first k are of one sound set and the others of another, no larger, are sound.
LEMMA PrefixSound ==
  ASSUME NEW old, NEW whole, NEW new, NEW k \in 0..6, SoundTables(old), SoundTables(whole),
         \A i \in 1..6 : new[Tables[i]] = IF i <= k THEN whole[Tables[i]] ELSE old[Tables[i]],
         \A i \in 1..6 : i <= k => old[Tables[i]] \subseteq whole[Tables[i]]
  PROVE  SoundTables(new)
PROOF
  <1>1. \A i \in 1..6 : old[Tables[i]] \subseteq new[Tables[i]] OBVIOUS
  <1>2. \A i \in 1..6 : \/ i <= k /\ \A j \in 1..i : new[Tables[j]] = whole[Tables[j]]
                        \/ new[Tables[i]] = old[Tables[i]]
    OBVIOUS
  <1>3. /\ old["evidence"] \subseteq new["evidence"] /\ old["source"] \subseteq new["source"]
        /\ old["domain"] \subseteq new["domain"]
    BY <1>1, TableList
  <1>4. ASSUME NEW y \in new["domain_year"] \cup new["hostname_year"]
        PROVE  \E r \in new["evidence"] : r.id = y.id /\ r.name = y.name
    <2>1. \/ y \in old["domain_year"] \cup old["hostname_year"]
          \/ y \in whole["domain_year"] \cup whole["hostname_year"] /\ new["evidence"] = whole["evidence"]
      BY <1>2, <1>4, TableList
    <2> QED BY <1>3, <2>1 DEF SoundTables
  <1>5. ASSUME NEW r \in new["evidence"]
        PROVE  Sender[r.file] \in new["source"] /\ \E d \in new["domain"] : d.name = Registered(r.name)
    <2>1. \/ r \in old["evidence"]
          \/ /\ r \in whole["evidence"]
             /\ new["source"] = whole["source"] /\ new["domain"] = whole["domain"]
      BY <1>2, <1>5, TableList
    <2> QED BY <1>3, <2>1 DEF SoundTables
  <1>6. ASSUME NEW f \in new["ingested_file"], NEW n \in Gives[f]
        PROVE  n \in HeldFrom(new["evidence"], Sender[f]) \cup taken
    <2>1. \/ f \in old["ingested_file"]
          \/ f \in whole["ingested_file"] /\ new["evidence"] = whole["evidence"]
      BY <1>2, <1>6, TableList
    <2>2. HeldFrom(old["evidence"], Sender[f]) \subseteq HeldFrom(new["evidence"], Sender[f])
      BY <1>3 DEF HeldFrom
    <2> QED BY <1>6, <2>1, <2>2 DEF SoundTables
  <1> QED BY <1>4, <1>5, <1>6 DEF SoundTables

LEMMA EmptySound == SoundTables(NoTables)
PROOF
  <1>1. \A t \in TableNames : NoTables[t] = {} BY DEF NoTables
  <1> QED BY <1>1, TableList DEF SoundTables

LEMMA ShippedSound ==
  ASSUME SoundTables(db)
  PROVE  SoundTables([t \in TableNames |-> ShippedRows(t)])
PROOF
  <1> DEFINE out == [t \in TableNames |-> ShippedRows(t)]
  <1>1. /\ out["domain_year"] = db["domain_year"] /\ out["hostname_year"] = db["hostname_year"]
        /\ out["evidence"] = db["evidence"] /\ out["source"] = db["source"]
        /\ out["ingested_file"] = db["ingested_file"] /\ out["domain"] = ShippedRows("domain")
    BY TableList DEF ShippedRows
  <1> HIDE DEF out
  <1>2. ASSUME NEW r \in db["evidence"] PROVE \E d \in ShippedRows("domain") : d.name = Registered(r.name)
    <2>1. PICK d \in db["domain"] : d.name = Registered(r.name) BY DEF SoundTables
    <2> QED BY <2>1 DEF ShippedRows
  <1>3. SoundTables(out) BY <1>1, <1>2 DEF SoundTables
  <1> QED BY <1>3 DEF out

LEMMA IngestSound ==
  ASSUME NEW f \in Batch, IngestBatch(f), SoundTables(db)
  PROVE  SoundTables(db)'
PROOF
  <1> DEFINE fresh == FreshOf(f)
             id == IdOf(fresh)
  <1>1. IngestsTo(f, fresh, id) /\ taken' = taken BY IngestWrites
  <1>2. fresh = Gives[f] \ HeldFrom(db["evidence"], Sender[f]) BY DEF FreshOf
  <1> HIDE DEF fresh, id
  <1>3. \A n \in fresh : TableRow(id[n], n, f, TRUE) \in db'["evidence"] BY <1>1 DEF IngestsTo
  <1>4. db["evidence"] \subseteq db'["evidence"] /\ db["source"] \subseteq db'["source"]
        /\ db["domain"] \subseteq db'["domain"]
    BY <1>1 DEF IngestsTo
  <1>5. ASSUME NEW t \in {"domain_year", "hostname_year"}, NEW y \in db'[t]
        PROVE  \E r \in db'["evidence"] : r.id = y.id /\ r.name = y.name
    <2>1. CASE y \in db[t] BY <1>4, <2>1 DEF SoundTables
    <2>2. CASE y \notin db[t]
      <3>1. PICK n \in fresh : y = [name |-> n, id |-> id[n]] BY <1>1, <1>5, <2>2 DEF IngestsTo
      <3> QED BY <1>3, <3>1 DEF TableRow
    <2> QED BY <2>1, <2>2
  <1>6. ASSUME NEW r \in db'["evidence"]
        PROVE  Sender[r.file] \in db'["source"] /\ \E d \in db'["domain"] : d.name = Registered(r.name)
    <2>1. CASE r \in db["evidence"] BY <1>4, <2>1 DEF SoundTables
    <2>2. CASE r \notin db["evidence"]
      <3>1. PICK n \in fresh : r = TableRow(id[n], n, f, TRUE) BY <1>1, <1>6, <2>2 DEF IngestsTo
      <3>2. r.file = f /\ r.name = n BY <3>1 DEF TableRow
      <3>3. CASE \E d \in db["domain"] : d.name = Registered(n) BY <1>1, <1>4, <3>2, <3>3 DEF IngestsTo
      <3>4. CASE ~ \E d \in db["domain"] : d.name = Registered(n)
        <4>1. Registered(n) \in {Registered(m) : m \in fresh} \ {d.name : d \in db["domain"]} BY <3>1, <3>4
        <4>2. [name |-> Registered(n), by |-> "ours"] \in db'["domain"] BY <1>1, <4>1 DEF IngestsTo
        <4> QED BY <1>1, <3>2, <4>2 DEF IngestsTo
      <3> QED BY <3>3, <3>4
    <2> QED BY <2>1, <2>2
  <1>7. ASSUME NEW g \in db'["ingested_file"], NEW n \in Gives[g]
        PROVE  n \in HeldFrom(db'["evidence"], Sender[g]) \cup taken
    <2>1. \A s : HeldFrom(db["evidence"], s) \subseteq HeldFrom(db'["evidence"], s) BY <1>4 DEF HeldFrom
    <2>2. CASE g \in db["ingested_file"] BY <1>7, <2>1, <2>2 DEF SoundTables
    <2>3. CASE g = f
      <3>1. CASE n \in fresh
        <4>1. TableRow(id[n], n, f, TRUE) \in db'["evidence"] BY <1>3, <3>1
        <4> QED BY <2>3, <4>1 DEF HeldFrom, TableRow
      <3>2. CASE n \notin fresh BY <1>2, <1>7, <2>1, <2>3, <3>2
      <3> QED BY <3>1, <3>2
    <2> QED BY <1>1, <1>7, <2>2, <2>3 DEF IngestsTo
  <1>8. SoundTables(db)'
    BY <1>1, <1>5, <1>6, <1>7 DEF SoundTables
  <1> QED BY <1>8

LEMMA TakeSound ==
  ASSUME NEW s, TakeSource(s), SoundTables(db)
  PROVE  SoundTables(db)'
PROOF
  <1>1. /\ \A t \in {"source", "domain"} : db'[t] = db[t]
        /\ db'["evidence"] = {r \in db["evidence"] : Sender[r.file] # s}
        /\ db'["ingested_file"] = {f \in db["ingested_file"] : Sender[f] # s}
        /\ \A t \in {"domain_year", "hostname_year"} :
             db'[t] = {y \in db[t] : \A r \in db["evidence"] : Sender[r.file] = s => r.id # y.id}
        /\ taken' = taken \cup {r.name : r \in {q \in db["evidence"] : Sender[q.file] = s}}
    BY TakeTakes
  <1>2. ASSUME NEW t \in {"domain_year", "hostname_year"}, NEW y \in db'[t]
        PROVE  \E r \in db'["evidence"] : r.id = y.id /\ r.name = y.name
    <2>1. y \in db[t] /\ \A r \in db["evidence"] : Sender[r.file] = s => r.id # y.id BY <1>1, <1>2
    <2>2. PICK r \in db["evidence"] : r.id = y.id /\ r.name = y.name BY <2>1 DEF SoundTables
    <2> QED BY <1>1, <2>1, <2>2
  <1>3. ASSUME NEW f \in db'["ingested_file"], NEW n \in Gives[f]
        PROVE  n \in HeldFrom(db'["evidence"], Sender[f]) \cup taken'
    <2>1. f \in db["ingested_file"] /\ Sender[f] # s BY <1>1
    <2>2. HeldFrom(db["evidence"], Sender[f]) \subseteq HeldFrom(db'["evidence"], Sender[f])
      BY <1>1, <2>1 DEF HeldFrom
    <2>3. n \in HeldFrom(db["evidence"], Sender[f]) \cup taken BY <2>1 DEF SoundTables
    <2> QED BY <1>1, <2>2, <2>3
  <1>4. \A r \in db'["evidence"] :
          Sender[r.file] \in db'["source"] /\ \E d \in db'["domain"] : d.name = Registered(r.name)
    BY <1>1 DEF SoundTables
  <1> QED BY <1>2, <1>3, <1>4 DEF SoundTables

LEMMA BothSoundStays == GraphInv /\ [GraphNext]_graphVars => BothSound'
PROOF
  <1> SUFFICES ASSUME GraphInv, [GraphNext]_graphVars PROVE BothSound'
      OBVIOUS
  <1>1. BothSound /\ HowFar /\ PlacesTyped BY DEF GraphInv
  <1>2. ASSUME Still PROVE BothSound' BY <1>1, <1>2 DEF BothSound, Still, SoundTables
  <1>3. ASSUME NEW f \in Batch, IngestBatch(f) PROVE BothSound'
    <2>1. UNCHANGED <<parquet, torn, spoiled, taken>> BY <1>3, IngestWrites
    <2>2. SoundTables(db) => SoundTables(db)' BY <1>3, IngestSound
    <2>3. SoundTables(parquet) => SoundTables(parquet)' BY <2>1 DEF SoundTables
    <2> QED BY <1>1, <2>1, <2>2, <2>3 DEF BothSound
  <1>4. ASSUME NEW f \in Batch, TakeSource(Sender[f]) PROVE BothSound'
    <2>1. UNCHANGED <<parquet, torn, spoiled>> /\ taken \subseteq taken' BY <1>4, TakeTakes
    <2>2. SoundTables(db) => SoundTables(db)' BY <1>4, TakeSound
    <2>3. SoundTables(parquet) => SoundTables(parquet)' BY <2>1 DEF SoundTables
    <2> QED BY <1>1, <2>1, <2>2, <2>3 DEF BothSound
  <1>5. CASE CopyTable
    <2> DEFINE out == [t \in TableNames |-> ShippedRows(t)]
    <2>1. /\ gpc = "export" /\ step \in 1..6 /\ UNCHANGED <<db, taken, spoiled>>
          /\ parquet'[Tables[step]] = ShippedRows(Tables[step])
          /\ \A i \in 1..6 : i # step => parquet'[Tables[i]] = parquet[Tables[i]]
          /\ IF step = 6 THEN torn' = spoiled
             ELSE torn \/ ~(parquet[Tables[step]] \subseteq ShippedRows(Tables[step])) <=> torn'
      BY <1>5, CopyWrites
    <2>2. \A i \in 1..6 : out[Tables[i]] = ShippedRows(Tables[i]) BY TableList
    <2>3. \A i \in 1..6 : i < step => parquet[Tables[i]] = ShippedRows(Tables[i]) BY <1>1, <2>1 DEF HowFar
    <2> HIDE DEF out
    <2>4. ASSUME ~torn' PROVE SoundTables(parquet)'
      <3>1. ~spoiled /\ (step # 6 => ~torn /\ parquet[Tables[step]] \subseteq ShippedRows(Tables[step]))
        BY <1>1, <2>1, <2>4 DEF BothSound
      <3>2. SoundTables(out) BY <1>1, <3>1, ShippedSound DEF BothSound, out
      <3>3. CASE step = 6
        <4>1. \A i \in 1..6 : parquet'[Tables[i]] = out[Tables[i]] BY <2>1, <2>2, <2>3, <3>3
        <4>2. SoundTables(parquet') <=> SoundTables(out) BY <4>1, TableList DEF SoundTables
        <4> QED BY <2>1, <3>2, <4>2 DEF SoundTables
      <3>4. CASE step # 6
        <4>1. SoundTables(parquet) BY <1>1, <3>1, <3>4 DEF BothSound
        <4>2. \A i \in 1..6 : parquet'[Tables[i]] = IF i <= step THEN out[Tables[i]] ELSE parquet[Tables[i]]
          BY <2>1, <2>2, <2>3
        <4>3. \A i \in 1..6 : i <= step => parquet[Tables[i]] \subseteq out[Tables[i]]
          BY <2>1, <2>2, <2>3, <3>1, <3>4
        <4>4. step \in 0..6 BY <2>1
        <4>5. SoundTables(parquet') BY <3>2, <4>1, <4>2, <4>3, <4>4, PrefixSound
        <4> QED BY <2>1, <4>5 DEF SoundTables
      <3> QED BY <3>3, <3>4
    <2>5. ~spoiled => SoundTables(db)' BY <1>1, <2>1 DEF BothSound, SoundTables
    <2>6. spoiled => torn' BY <1>1, <2>1 DEF BothSound
    <2> QED BY <2>1, <2>4, <2>5, <2>6 DEF BothSound
  <1>6. CASE DropTable
    <2>1. /\ gpc = "drop" /\ step \in 1..6 /\ UNCHANGED <<parquet, taken, torn, spoiled>>
          /\ db'[Tables[step]] = {} /\ \A i \in 1..6 : i # step => db'[Tables[i]] = db[Tables[i]]
      BY <1>6, DropWrites
    <2>2. \A i \in 1..6 : NoTables[Tables[i]] = {} BY TableList DEF NoTables
    <2>3. ASSUME NEW i \in 1..6
          PROVE  db'[Tables[i]] = IF i <= step - 1 THEN db[Tables[i]] ELSE NoTables[Tables[i]]
      <3>1. i > step => db[Tables[i]] = {} BY <1>1, <2>1 DEF HowFar
      <3>2. CASE i < step BY <2>1, <3>2
      <3>3. CASE i = step
        <4>1. ~(i <= step - 1) BY <2>1, <3>3
        <4>2. db'[Tables[i]] = {} BY <2>1, <3>3
        <4> QED BY <2>2, <4>1, <4>2
      <3>4. CASE i > step
        <4>1. ~(i <= step - 1) BY <2>1, <3>4
        <4>2. db'[Tables[i]] = {} BY <2>1, <3>1, <3>4
        <4> QED BY <2>2, <4>1, <4>2
      <3> QED BY <2>1, <3>2, <3>3, <3>4
    <2>4. step - 1 \in 0..6 BY <2>1
    <2>5. SoundTables(db) => SoundTables(db') BY <2>2, <2>3, <2>4, EmptySound, PrefixSound
    <2> QED BY <1>1, <2>1, <2>5 DEF BothSound, SoundTables
  <1>7. CASE LoadTable
    <2>1. /\ gpc = "load" /\ step \in 1..6 /\ UNCHANGED <<parquet, taken, torn>>
          /\ db'[Tables[step]] = parquet[Tables[step]]
          /\ \A i \in 1..6 : i # step => db'[Tables[i]] = db[Tables[i]]
          /\ (spoiled' <=> spoiled \/ torn)
      BY <1>7, LoadWrites
    <2>2. \A i \in 1..6 : NoTables[Tables[i]] = {} BY TableList DEF NoTables
    <2>3. ASSUME NEW i \in 1..6
          PROVE  db'[Tables[i]] = IF i <= step THEN parquet[Tables[i]] ELSE NoTables[Tables[i]]
      <3>1. db[Tables[i]] = IF i < step THEN parquet[Tables[i]] ELSE {} BY <1>1, <2>1 DEF HowFar
      <3>2. CASE i < step BY <2>1, <3>1, <3>2
      <3>3. CASE i = step BY <2>1, <3>3
      <3>4. CASE i > step
        <4>1. ~(i < step) /\ ~(i <= step) /\ i # step BY <2>1, <3>4
        <4>2. db'[Tables[i]] = {} BY <2>1, <3>1, <4>1
        <4> QED BY <2>2, <4>1, <4>2
      <3> QED BY <2>1, <3>2, <3>3, <3>4
    <2>4. step \in 0..6 BY <2>1
    <2>5. SoundTables(parquet) => SoundTables(db') BY <2>2, <2>3, <2>4, EmptySound, PrefixSound
    <2> QED BY <1>1, <2>1, <2>5 DEF BothSound, SoundTables
  <1> QED BY <1>2, <1>3, <1>4, <1>5, <1>6, <1>7, StillSteps DEF GraphNext

LEMMA IdsStay == GraphInv /\ [GraphNext]_graphVars => IdsInv'
PROOF
  <1> SUFFICES ASSUME GraphInv, [GraphNext]_graphVars PROVE IdsInv'
      OBVIOUS
  <1>1. IdsInv /\ HowFar /\ PlacesTyped /\ RowsTyped BY DEF GraphInv
  <1>2. ASSUME UNCHANGED <<issued, located, parquet>>, db'["evidence"] \subseteq db["evidence"],
               gpc' \in {"idle", "drop", "export", "dropSeq"}
        PROVE  IdsInv'
    BY <1>1, <1>2 DEF IdsInv, Unique, Over, LocatedRowsArePlaced
  <1>3. ASSUME NEW f \in Batch, IngestBatch(f) PROVE IdsInv'
    <2> DEFINE fresh == FreshOf(f)
               id == IdOf(fresh)
    <2>1. /\ gpc = "idle" /\ UNCHANGED <<parquet, gpc>>
          /\ db'["evidence"] = db["evidence"] \cup {TableRow(id[n], n, f, TRUE) : n \in fresh}
          /\ issued' = LastOf(fresh) + 1 /\ located' = Located
      BY <1>3, IngestWrites DEF IngestsTo
    <2>2. /\ id \in [fresh -> Issued..LastOf(fresh)] /\ \A a, b \in fresh : id[a] = id[b] => a = b
          /\ Issued \in Nat \ {0} /\ LastOf(fresh) \in Int
          /\ LastOf(fresh) + 1 \in Nat /\ LastOf(fresh) + 1 >= Issued
      BY FreshIds
    <2> DEFINE last == LastOf(fresh)
    <2>3. last \in Int BY <2>2
    <2> HIDE DEF fresh, id, last
    <2>4. Over(db["evidence"], Issued) BY <1>1, <2>2 DEF IdsInv, Issued, Over
    <2>5. \A n \in fresh : id[n] \in Nat /\ id[n] >= Issued /\ id[n] < last + 1
      BY <2>2, <2>3 DEF last
    <2>6. \A r \in db'["evidence"] \ db["evidence"] :
            \E n \in fresh : r = TableRow(id[n], n, f, TRUE) /\ r.id = id[n] /\ r.placed
      BY <2>1 DEF TableRow
    <2>7. \A r \in db["evidence"] : r.id \in Nat /\ r.id < Issued
      BY <1>1, <2>4 DEF RowsTyped, RowsOfBatch, Over
    <2>8. Unique(db'["evidence"])
      <3> SUFFICES ASSUME NEW a \in db'["evidence"], NEW b \in db'["evidence"], a.id = b.id PROVE a = b
          BY DEF Unique
      <3>1. CASE a \in db["evidence"] /\ b \in db["evidence"] BY <1>1, <3>1 DEF IdsInv, Unique
      <3>2. ASSUME NEW c \in db'["evidence"], c \notin db["evidence"] PROVE c.id \in Nat /\ c.id >= Issued
        <4>1. PICK n \in fresh : c.id = id[n] BY <2>6, <3>2
        <4> QED BY <2>5, <4>1
      <3>3. CASE a \in db["evidence"] /\ b \notin db["evidence"] BY <2>2, <2>7, <3>2, <3>3
      <3>4. CASE a \notin db["evidence"] /\ b \in db["evidence"] BY <2>2, <2>7, <3>2, <3>4
      <3>5. CASE a \notin db["evidence"] /\ b \notin db["evidence"]
        <4>1. PICK n \in fresh : a = TableRow(id[n], n, f, TRUE) /\ a.id = id[n] BY <2>6, <3>5
        <4>2. PICK m \in fresh : b = TableRow(id[m], m, f, TRUE) /\ b.id = id[m] BY <2>6, <3>5
        <4>3. m = n BY <2>2, <4>1, <4>2
        <4> QED BY <4>1, <4>2, <4>3
      <3> QED BY <3>1, <3>3, <3>4, <3>5
    <2>9. issued' # 0 /\ Over(db'["evidence"], issued')
      <3>1. issued' = last + 1 /\ last + 1 \in Nat /\ last + 1 >= Issued BY <2>1, <2>2 DEF last
      <3>2. ASSUME NEW r \in db'["evidence"] PROVE r.id < last + 1
        <4>1. CASE r \in db["evidence"] BY <2>2, <2>3, <2>7, <3>1, <4>1
        <4>2. CASE r \notin db["evidence"] BY <2>5, <2>6, <4>2
        <4> QED BY <4>1, <4>2
      <3> QED BY <2>2, <3>1, <3>2 DEF Over
    <2>10. LocatedRowsArePlaced'
      <3> SUFFICES ASSUME NEW r \in db'["evidence"], r.id >= located' PROVE r.placed
          BY DEF LocatedRowsArePlaced
      <3>1. CASE r \in db["evidence"]
        <4>1. CASE located # 0 BY <1>1, <2>1, <3>1, <4>1 DEF IdsInv, LocatedRowsArePlaced, Located
        <4>2. CASE located = 0
          <5>1. MaxId(db["evidence"]) \in Nat /\ r.id <= MaxId(db["evidence"])
            BY <1>1, <2>2, <2>4, <3>1, LastId DEF RowsTyped
          <5> QED BY <2>1, <2>7, <3>1, <4>2, <5>1 DEF Located
        <4> QED BY <4>1, <4>2
      <3>2. CASE r \notin db["evidence"] BY <2>6, <3>2
      <3> QED BY <3>1, <3>2
    <2> QED BY <1>1, <2>1, <2>8, <2>9, <2>10 DEF IdsInv
  <1>4. ASSUME NEW f \in Batch, TakeSource(Sender[f]) PROVE IdsInv' BY <1>2, <1>4, TakeTakes
  <1>5. CASE BeginGraph BY <1>2, <1>5 DEF BeginGraph
  <1>6. CASE CopyTable
    <2>1. /\ step \in 1..6 /\ UNCHANGED <<db, issued, located>> /\ gpc' \in {"idle", "export"}
          /\ parquet'[Tables[step]] = ShippedRows(Tables[step])
          /\ \A i \in 1..6 : i # step => parquet'[Tables[i]] = parquet[Tables[i]]
      BY <1>6, CopyWrites
    <2>2. parquet'["evidence"] \in {parquet["evidence"], db["evidence"]}
      BY <2>1, TableList DEF ShippedRows
    <2>3. \E n \in Nat : Over(db["evidence"], n)
      <3>1. CASE issued = 0 BY <1>1, <3>1 DEF IdsInv, Over
      <3>2. CASE issued # 0 BY <1>1, <3>2 DEF IdsInv, RowsTyped
      <3> QED BY <3>1, <3>2
    <2> QED BY <1>1, <2>1, <2>2, <2>3 DEF IdsInv, LocatedRowsArePlaced
  <1>7. ASSUME NEW force \in BOOLEAN, BeginRebuild(force) PROVE IdsInv' BY <1>2, <1>7 DEF BeginRebuild
  <1>8. CASE DropTable
    <2>1. /\ UNCHANGED <<parquet, issued, located>> /\ gpc' \in {"drop", "dropSeq"} /\ step \in 1..6
          /\ db'[Tables[step]] = {} /\ \A i \in 1..6 : i # step => db'[Tables[i]] = db[Tables[i]]
      BY <1>8, DropWrites
    <2>2. db'["evidence"] \subseteq db["evidence"] BY <2>1, TableList
    <2> QED BY <1>2, <2>1, <2>2
  <1>9. MaxId(parquet["evidence"]) \in Nat /\ FirstFree # 0 /\ Over(parquet["evidence"], FirstFree)
    <2>1. MaxId(parquet["evidence"]) \in Nat /\ \A r \in parquet["evidence"] : r.id <= MaxId(parquet["evidence"])
      BY <1>1, LastId DEF RowsTyped, IdsInv
    <2> QED BY <1>1, <2>1 DEF FirstFree, Over, RowsTyped, RowsOfBatch
  <1>10. ASSUME gpc \in {"dropSeq", "startSeq", "dropLocated", "locate"} PROVE db["evidence"] = {}
    BY <1>1, <1>10, TableList DEF HowFar
  <1>11. CASE DropSequence
    BY <1>1, <1>10, <1>11 DEF DropSequence, IdsInv, Unique, LocatedRowsArePlaced
  <1>12. CASE StartSequence
    BY <1>1, <1>9, <1>10, <1>12 DEF StartSequence, IdsInv, Unique, Over, LocatedRowsArePlaced
  <1>13. CASE DropLocated
    BY <1>1, <1>10, <1>13 DEF DropLocated, IdsInv, Unique, Over, LocatedRowsArePlaced
  <1>14. CASE StartLocated
    BY <1>1, <1>9, <1>10, <1>14 DEF StartLocated, IdsInv, Unique, Over, LocatedRowsArePlaced
  <1>15. CASE LoadTable
    <2>1. /\ gpc = "load" /\ UNCHANGED <<parquet, issued, located>> /\ gpc' \in {"load", "idle"} /\ step \in 1..6
          /\ db'[Tables[step]] = parquet[Tables[step]]
          /\ \A i \in 1..6 : i # step => db'[Tables[i]] = db[Tables[i]]
      BY <1>15, LoadWrites
    <2>2. db'["evidence"] \in {db["evidence"], parquet["evidence"]} BY <2>1, TableList
    <2>3. Unique(db'["evidence"]) /\ Over(db'["evidence"], issued) /\ issued # 0
      BY <1>1, <2>1, <2>2 DEF IdsInv
    <2>4. LocatedRowsArePlaced'
      <3>1. CASE db'["evidence"] = db["evidence"] BY <1>1, <2>1, <3>1 DEF IdsInv, LocatedRowsArePlaced
      <3>2. CASE db'["evidence"] = parquet["evidence"]
        <4>1. \A r \in parquet["evidence"] : ~(r.id >= located)
          BY <1>1, <2>1 DEF IdsInv, Over, RowsTyped, RowsOfBatch
        <4> QED BY <2>1, <3>2, <4>1 DEF LocatedRowsArePlaced
      <3> QED BY <2>2, <3>1, <3>2
    <2> QED BY <1>1, <2>1, <2>3, <2>4 DEF IdsInv
  <1>16. CASE KillInStore BY <1>2, <1>16 DEF KillInStore
  <1>17. CASE UNCHANGED graphVars BY <1>1, <1>17 DEF graphVars, IdsInv, LocatedRowsArePlaced
  <1> QED BY <1>3, <1>4, <1>5, <1>6, <1>7, <1>8, <1>11, <1>12, <1>13, <1>14, <1>15, <1>16, <1>17 DEF GraphNext

\* A name that is dated stays so: an ingest takes no year away, an unbank notes what it took.
LEMMA IngestDates ==
  ASSUME GraphInv, NEW f \in Batch, IngestBatch(f), AllDated(db)
  PROVE  AllDated(db)'
PROOF
  <1> DEFINE fresh == FreshOf(f)
             id == IdOf(fresh)
  <1>1. /\ IngestsTo(f, fresh, id) /\ UNCHANGED taken BY IngestWrites
  <1>2. Gives[f] \subseteq Entry /\ fresh \subseteq Gives[f] BY GraphAssumption DEF GraphAssumption, FreshOf
  <1>3. \A m \in Gives[f] \ fresh : \E r \in db["evidence"] : r.name = m BY DEF FreshOf, HeldFrom
  <1> HIDE DEF fresh, id
  <1>4. ASSUME NEW m \in Entry, DatedIn(db, m) PROVE DatedIn(db', m)
    BY <1>1, <1>4, YearTables DEF IngestsTo, DatedIn
  <1>5. ASSUME NEW m \in fresh PROVE DatedIn(db', m)
    <2> DEFINE t == YearTable(m)
    <2>1. t \in {"domain_year", "hostname_year"} BY <1>2, <1>5, YearTables
    <2>2. CASE DatedIn(db, m) BY <1>2, <1>4, <1>5, <2>2
    <2>3. CASE ~DatedIn(db, m)
      <3>1. \A y \in db[t] : y.name # m BY <2>3 DEF DatedIn
      <3>2. m \in {k \in fresh : YearTable(k) = t /\ \A y \in db[t] : y.name # k} BY <1>5, <3>1
      <3>3. [name |-> m, id |-> id[m]] \in db'[t] BY <1>1, <2>1, <3>2 DEF IngestsTo
      <3> QED BY <3>3 DEF DatedIn
    <2> QED BY <2>2, <2>3
  <1>6. ASSUME NEW r \in db'["evidence"] PROVE r.name \in taken \/ DatedIn(db', r.name)
    <2>1. CASE r \in db["evidence"] BY <1>4, <2>1 DEF AllDated, GraphInv, RowsTyped, RowsOfBatch
    <2>2. CASE r \notin db["evidence"]
      <3>1. PICK m \in fresh : r = TableRow(id[m], m, f, TRUE) BY <1>1, <2>2 DEF IngestsTo
      <3>2. r.name = m BY <3>1 DEF TableRow
      <3> QED BY <1>5, <3>2
    <2> QED BY <2>1, <2>2
  <1>7. ASSUME NEW g \in db'["ingested_file"], NEW m \in Gives[g] \ taken PROVE DatedIn(db', m)
    <2>1. CASE g \in db["ingested_file"]
      <3>1. m \in Entry BY <2>1, GraphAssumption DEF GraphAssumption, GraphInv, PlacesTyped
      <3> QED BY <1>4, <1>7, <2>1, <3>1 DEF AllDated
    <2>2. CASE g = f
      <3>1. CASE m \in fresh BY <1>5, <3>1
      <3>2. CASE m \notin fresh
        <4>1. PICK r \in db["evidence"] : r.name = m BY <1>3, <1>7, <2>2, <3>2
        <4>2. DatedIn(db, m) BY <1>7, <4>1 DEF AllDated
        <4> QED BY <1>2, <1>4, <1>7, <2>2, <4>2
      <3> QED BY <3>1, <3>2
    <2> QED BY <1>1, <2>1, <2>2 DEF IngestsTo
  <1> QED BY <1>1, <1>6, <1>7 DEF AllDated

LEMMA TakeDates ==
  ASSUME GraphInv, NEW s, TakeSource(s), AllDated(db), ~spoiled
  PROVE  AllDated(db)'
PROOF
  <1>1. /\ db'["evidence"] \subseteq db["evidence"] /\ db'["ingested_file"] \subseteq db["ingested_file"]
        /\ \A t \in {"domain_year", "hostname_year"} :
             db'[t] = {y \in db[t] : \A r \in db["evidence"] : Sender[r.file] = s => r.id # y.id}
        /\ taken' = taken \cup {r.name : r \in {q \in db["evidence"] : Sender[q.file] = s}}
    BY TakeTakes
  <1>2. SoundTables(db) /\ Unique(db["evidence"]) BY DEF GraphInv, BothSound, IdsInv
  <1>3. ASSUME NEW m \in Entry, m \notin taken', DatedIn(db, m) PROVE DatedIn(db', m)
    <2> DEFINE t == YearTable(m)
    <2>1. t \in {"domain_year", "hostname_year"} BY YearTables
    <2>2. PICK y \in db[t] : y.name = m BY <1>3 DEF DatedIn
    <2>3. PICK q \in db["evidence"] : q.id = y.id /\ q.name = y.name BY <1>2, <2>1, <2>2 DEF SoundTables
    <2>4. ASSUME NEW r \in db["evidence"], Sender[r.file] = s PROVE r.id # y.id
      <3>1. r.name \in taken' BY <1>1, <2>4
      <3>2. r # q BY <1>3, <2>2, <2>3, <3>1
      <3> QED BY <1>2, <2>3, <3>2 DEF Unique
    <2>5. y \in db'[t] BY <1>1, <2>1, <2>4
    <2> QED BY <2>2, <2>5 DEF DatedIn
  <1>4. \A r \in db["evidence"] : r.name \in Entry BY DEF GraphInv, RowsTyped, RowsOfBatch
  <1>5. \A g \in db["ingested_file"] : Gives[g] \subseteq Entry
    BY GraphAssumption DEF GraphAssumption, GraphInv, PlacesTyped
  <1>6. taken \subseteq taken' BY <1>1
  <1>7. \A r \in db'["evidence"] : r.name \in taken' \/ DatedIn(db', r.name) BY <1>1, <1>3, <1>4, <1>6 DEF AllDated
  <1>8. \A g \in db'["ingested_file"] : \A m \in Gives[g] \ taken' : DatedIn(db', m)
    BY <1>1, <1>3, <1>5, <1>6 DEF AllDated
  <1> QED BY <1>7, <1>8 DEF AllDated

\* Of two sets of tables alike in what dates and is dated, both are dated or neither.
LEMMA AlikeDated ==
  ASSUME NEW a, NEW b, \A i \in 3..6 : a[Tables[i]] = b[Tables[i]], RowsOfBatch(a["evidence"]),
         a["ingested_file"] \subseteq Batch, AllDated(a)
  PROVE  AllDated(b)
PROOF
  <1>1. /\ a["evidence"] = b["evidence"] /\ a["ingested_file"] = b["ingested_file"]
        /\ \A t \in {"domain_year", "hostname_year"} : a[t] = b[t]
    BY TableList
  <1>2. \A n \in Entry : DatedIn(a, n) => DatedIn(b, n) BY <1>1, YearTables DEF DatedIn
  <1>3. \A g \in a["ingested_file"] : Gives[g] \subseteq Entry BY GraphAssumption DEF GraphAssumption
  <1> QED BY <1>1, <1>2, <1>3 DEF AllDated, RowsOfBatch

LEMMA DatedStay == GraphInv /\ [GraphNext]_graphVars => DatedInv'
PROOF
  <1> SUFFICES ASSUME GraphInv, [GraphNext]_graphVars, ~cutOff' PROVE DatedInv'
      BY DEF DatedInv
  <1>1. DatedInv /\ HowFar /\ PlacesTyped /\ RowsTyped BY DEF GraphInv
  <1>2. ASSUME UNCHANGED <<parquet, torn, spoiled, cutOff>>, taken \subseteq taken', gpc # "export",
               gpc' \in {"idle", "export"} => AllDated(db)'
        PROVE  DatedInv'
    <2>1. AllDated(parquet)' BY <1>1, <1>2 DEF DatedInv, AllDated
    <2> QED BY <1>1, <1>2, <2>1 DEF DatedInv
  <1>3. ASSUME NEW f \in Batch, IngestBatch(f) PROVE DatedInv'
    <2>1. gpc = "idle" /\ UNCHANGED <<parquet, torn, spoiled, cutOff, taken>> BY <1>3, IngestWrites
    <2>2. AllDated(db)' BY <1>1, <1>3, <2>1, IngestDates DEF DatedInv
    <2> QED BY <1>2, <2>1, <2>2
  <1>4. ASSUME NEW f \in Batch, TakeSource(Sender[f]) PROVE DatedInv'
    <2>1. gpc = "idle" /\ UNCHANGED <<parquet, torn, spoiled, cutOff>> /\ taken \subseteq taken'
      BY <1>4, TakeTakes
    <2>2. AllDated(db)' BY <1>1, <1>4, <2>1, TakeDates DEF DatedInv
    <2> QED BY <1>2, <2>1, <2>2
  <1>5. CASE BeginGraph
    <2>1. gpc = "idle" /\ gpc' = "export" /\ UNCHANGED <<db, taken, spoiled, cutOff>> BY <1>5 DEF BeginGraph
    <2> QED BY <1>1, <2>1 DEF DatedInv, AllDated, DatedIn
  <1>6. CASE CopyTable
    <2>1. /\ gpc = "export" /\ step \in 1..6 /\ UNCHANGED <<db, taken, spoiled, cutOff>>
          /\ parquet'[Tables[step]] = ShippedRows(Tables[step])
          /\ \A i \in 1..6 : i # step => parquet'[Tables[i]] = parquet[Tables[i]]
          /\ IF step = 6 THEN torn' = spoiled /\ gpc' = "idle" ELSE gpc' = "export"
      BY <1>6, CopyWrites, Zenon
    <2>2. ~spoiled /\ AllDated(db) BY <1>1, <2>1 DEF DatedInv
    <2>3. AllDated(db)' BY <2>1, <2>2 DEF AllDated, DatedIn
    <2>4. CASE step # 6 BY <1>1, <2>1, <2>2, <2>3, <2>4 DEF DatedInv
    <2>5. CASE step = 6
      <3>1. \A i \in 1..6 : parquet'[Tables[i]] = ShippedRows(Tables[i]) BY <1>1, <2>1, <2>5 DEF HowFar
      <3>2. \A i \in 3..6 : ShippedRows(Tables[i]) = db[Tables[i]]
        <4>1. \A i \in 3..6 : Tables[i] # "domain"
          <5>1. \A i \in 3..6 : i = 3 \/ i = 4 \/ i = 5 \/ i = 6 OBVIOUS
          <5> QED BY <5>1, TableList
        <4> QED BY <4>1 DEF ShippedRows
      <3>3. \A i \in 3..6 : db[Tables[i]] = parquet'[Tables[i]] BY <3>1, <3>2
      <3>4. AllDated(parquet')
        BY <1>1, <2>2, <3>3, AlikeDated DEF RowsTyped, PlacesTyped
      <3>5. AllDated(parquet)' BY <2>1, <3>4 DEF AllDated, DatedIn
      <3> QED BY <2>1, <2>2, <2>3, <2>5, <3>5 DEF DatedInv
    <2> QED BY <2>4, <2>5
  <1>7. ASSUME NEW force \in BOOLEAN, BeginRebuild(force) PROVE DatedInv'
    BY <1>2, <1>7 DEF BeginRebuild
  <1>8. CASE DropTable
    <2>1. /\ gpc = "drop" /\ UNCHANGED <<parquet, taken, torn, spoiled, cutOff>>
          /\ gpc' \in {"drop", "dropSeq"}
      BY <1>8, DropWrites
    <2> QED BY <1>2, <2>1
  <1>9. CASE DropSequence \/ StartSequence \/ DropLocated \/ StartLocated
    BY <1>2, <1>9 DEF DropSequence, StartSequence, DropLocated, StartLocated
  <1>10. CASE LoadTable
    <2>1. /\ gpc = "load" /\ step \in 1..6 /\ UNCHANGED <<parquet, taken, torn, cutOff>>
          /\ db'[Tables[step]] = parquet[Tables[step]]
          /\ \A i \in 1..6 : i # step => db'[Tables[i]] = db[Tables[i]]
          /\ (spoiled' <=> spoiled \/ torn)
          /\ IF step = 6 THEN gpc' = "idle" ELSE gpc' = "load"
      BY <1>10, LoadWrites
    <2>2. ~spoiled /\ ~torn /\ AllDated(parquet) BY <1>1, <2>1 DEF DatedInv
    <2>3. AllDated(parquet)' BY <2>1, <2>2 DEF AllDated, DatedIn
    <2>4. ~spoiled' /\ ~torn' BY <2>1, <2>2
    <2>5. CASE step # 6 BY <2>1, <2>3, <2>4, <2>5 DEF DatedInv
    <2>6. CASE step = 6
      <3>1. \A i \in 3..6 : parquet[Tables[i]] = db'[Tables[i]] BY <1>1, <2>1, <2>6 DEF HowFar
      <3>2. AllDated(db') BY <1>1, <2>2, <3>1, AlikeDated DEF RowsTyped, PlacesTyped
      <3>3. AllDated(db)' BY <2>1, <3>2 DEF AllDated, DatedIn
      <3> QED BY <2>1, <2>3, <2>4, <2>6, <3>3 DEF DatedInv
    <2> QED BY <2>5, <2>6
  <1>11. CASE KillInStore
    <2>1. cutOff' = TRUE BY <1>11 DEF KillInStore
    <2> QED BY <2>1
  <1>12. CASE UNCHANGED graphVars BY <1>1, <1>12 DEF graphVars, DatedInv, AllDated, DatedIn
  <1> QED BY <1>3, <1>4, <1>5, <1>6, <1>7, <1>8, <1>9, <1>10, <1>11, <1>12 DEF GraphNext

(***************************************************************************)
(* Wherever an export or a rebuild is cut off, the graph and the store are *)
(* sound, no id is issued twice, what this store wrote says its place, and *)
(* what the ledger calls read has dated its names: write_provenance and    *)
(* load_provenance (provenance.py).                                        *)
(***************************************************************************)
THEOREM GraphStaysSound == GraphSpec => []GraphIsSound
PROOF
  <1>1. GraphInit => GraphInv BY GraphBegins
  <1>2. GraphInv /\ [GraphNext]_graphVars => GraphInv'
    <2> SUFFICES ASSUME GraphInv, [GraphNext]_graphVars PROVE GraphInv'
        OBVIOUS
    <2>1. (PlacesTyped /\ LedgerAhead)' BY PlacesStay DEF GraphInv
    <2> QED BY <2>1, RowsStay, HowFarStays, BothSoundStays, IdsStay, DatedStay DEF GraphInv
  <1>3. GraphInv => GraphIsSound
    <2> SUFFICES ASSUME GraphInv PROVE GraphIsSound
        OBVIOUS
    <2>1. IdsAreIssuedOnce
      <3>1. \A a, b \in db["evidence"] : a.id = b.id => a = b BY DEF GraphInv, IdsInv, Unique
      <3>2. issued # 0 => \A r \in db["evidence"] : r.id < issued BY DEF GraphInv, IdsInv, Over
      <3> QED BY <3>1, <3>2 DEF IdsAreIssuedOnce
    <2>2. ReadIsDated BY DEF GraphInv, DatedInv, AllDated, DatedIn, ReadIsDated
    <2> QED BY <2>1, <2>2 DEF GraphInv, BothSound, IdsInv, GraphIsSound
  <1> QED BY <1>1, <1>2, <1>3, PTL DEF GraphSpec

-----------------------------------------------------------------------------
(* The hostname lanes. *)

\* A file is landed once, and what is read of a lane is of the file that landed.
FilesKept ==
  /\ \A lane \in laneLedger : files[lane] # <<>>
  /\ \A r \in evidence : r.lane \in laneLedger

\* The dates of the registry's changes, in and out of the window.
ChangeYears == {1999, 2001, 2002}
ChangesTyped(lines) == \A j \in DOMAIN lines : lines[j].kind = "changed" => lines[j].year \in ChangeYears

LanesInv ==
  HostLanesTypeOK /\ FilesKept /\ ChangesTyped(files["ripe_changed"]) /\ ChangeIsTheObjects /\ ReadIsHeld

LEMMA KeptTyped ==
  ASSUME NEW lines, NEW places, NEW kind, NEW year PROVE Kept(lines, places, kind, year) \subseteq HostYears
  BY DEF Kept, HostYears, HostYear

LEMMA StatesTyped ==
  ASSUME NEW lane \in Lanes, NEW lines PROVE States(lane, lines) \subseteq HostYears
  <1>1. zone_ns_targets(lines) \subseteq HostYears BY KeptTyped DEF zone_ns_targets
  <1>2. squidguard_hosts(lines) \subseteq HostYears BY KeptTyped DEF squidguard_hosts
  <1>3. squidguard_diff(lines) \subseteq HostYears BY KeptTyped DEF squidguard_diff
  <1>4. isc_survey_hosts(lines) \subseteq HostYears BY KeptTyped DEF isc_survey_hosts
  <1>5. ripe_snapshot_nservers(lines) \subseteq HostYears BY KeptTyped DEF ripe_snapshot_nservers
  <1>6. chastity_members(lines) \subseteq HostYears
    <2>1. ASSUME NEW i \in DOMAIN lines PROVE Kept(lines, {i}, "bare", lines[i].year) \subseteq HostYears
      BY KeptTyped
    <2> QED BY <2>1 DEF chastity_members
  <1>7. ripe_changed_nservers(lines) \subseteq HostYears BY KeptTyped DEF ripe_changed_nservers
  <1> QED BY <1>1, <1>2, <1>3, <1>4, <1>5, <1>6, <1>7 DEF States, Lanes

\* The latest change of an object is there, and none is later.
LEMMA ChangedIsLast ==
  ASSUME NEW lines, ChangesTyped(lines), NEW i, ChangedYear(lines, i) \in YEARS
  PROVE  LastChanged(lines, i, ChangedYear(lines, i))
  <1> DEFINE years == {lines[j].year : j \in {k \in Object(lines, i) : lines[k].kind = "changed"}}
  <1>1. years \subseteq ChangeYears BY DEF ChangesTyped, Object
  <1>2. years # {}
    <2>1. 0 \notin YEARS BY DEF YEARS
    <2> QED BY <2>1 DEF ChangedYear
  <1>3. ChangedYear(lines, i) = CHOOSE y \in years : \A z \in years : z <= y BY <1>2 DEF ChangedYear
  <1>4. ASSUME NEW j \in Object(lines, i), lines[j].kind = "changed" PROVE lines[j].year \in years
    BY <1>4
  <1>5. ASSUME NEW y \in years PROVE \E j \in Object(lines, i) : lines[j].kind = "changed" /\ lines[j].year = y
    BY <1>5
  <1> HIDE DEF years
  <1>6. \E y \in years : \A z \in years : z <= y
    <2>1. CASE 2002 \in years BY <1>1, <2>1 DEF ChangeYears
    <2>2. CASE 2002 \notin years /\ 2001 \in years BY <1>1, <2>2 DEF ChangeYears
    <2>3. CASE 2002 \notin years /\ 2001 \notin years
      <3>1. \A z \in years : z = 1999 BY <1>1, <2>3 DEF ChangeYears
      <3> QED BY <1>2, <3>1
    <2> QED BY <2>1, <2>2, <2>3
  <1>7. ChangedYear(lines, i) \in years /\ \A z \in years : z <= ChangedYear(lines, i) BY <1>3, <1>6
  <1> QED BY <1>4, <1>5, <1>7 DEF LastChanged

\* What the registry's changes state of a host-year is one object's, by its latest change.
LEMMA ChangedStates ==
  ASSUME NEW lines, ChangesTyped(lines), NEW s \in ripe_changed_nservers(lines)
  PROVE  \E i \in DOMAIN lines : /\ lines[i].kind = "domain"
                                 /\ \E j \in Object(lines, i) : lines[j].kind = "nserver" /\ lines[j].name = s.host
                                 /\ LastChanged(lines, i, s.year)
  <1>1. PICK i \in DOMAIN lines : lines[i].kind = "domain"
                                  /\ s \in Kept(lines, Object(lines, i), "nserver", ChangedYear(lines, i))
    BY DEF ripe_changed_nservers
  <1>2. PICK j \in Object(lines, i) : /\ lines[j].kind = "nserver" /\ ChangedYear(lines, i) \in YEARS
                                      /\ s = HostYear(lines[j].name, ChangedYear(lines, i))
    BY <1>1 DEF Kept
  <1>3. s.host = lines[j].name /\ s.year = ChangedYear(lines, i) BY <1>2 DEF HostYear
  <1> QED BY <1>1, <1>2, <1>3, ChangedIsLast

LEMMA LanesStart == HostLanesInit => LanesInv
  <1> SUFFICES ASSUME HostLanesInit PROVE LanesInv OBVIOUS
  <1>1. HostLanesTypeOK
    <2>1. DOMAIN files = Lanes /\ evidence = {} /\ hostYears = {} /\ laneLedger = {} /\ parked = {}
      BY DEF HostLanesInit
    <2>2. approved \subseteq LaneSources BY DEF HostLanesInit
    <2>3. attested \in BOOLEAN BY Zenon DEF HostLanesInit
    <2> QED BY <2>1, <2>2, <2>3 DEF HostLanesTypeOK
  <1>2. ChangesTyped(files["ripe_changed"])
    <2>1. files["ripe_changed"] = <<>> BY DEF HostLanesInit, Lanes
    <2>2. DOMAIN <<>> = {} OBVIOUS
    <2> QED BY <2>1, <2>2 DEF ChangesTyped
  <1>3. evidence = {} /\ hostYears = {} /\ laneLedger = {} BY DEF HostLanesInit
  <1> QED BY <1>1, <1>2, <1>3 DEF LanesInv, FilesKept, ChangeIsTheObjects, ReadIsHeld

\* A database's changed: lines are of the years they may be of.
LEMMA DatabasesTyped == ASSUME NEW lines \in Databases PROVE ChangesTyped(lines)
  <1> DEFINE some == Line({"domain"}, {Other}, {0}) \cup Line({"nserver"}, LaneHosts, {0})
                       \cup Line({"changed"}, {Other}, ChangeYears)
             first == [kind |-> "domain", name |-> Other, year |-> 0]
  <1>1. \A l \in some : l.kind = "changed" => l.year \in ChangeYears BY DEF Line
  <1>2. first.kind # "changed" OBVIOUS
  <1>3. Databases = {<<first>> \o rest : rest \in UNION {[1..n -> some] : n \in 0..MaxFileLines - 1}}
    BY DEF Databases, ChangeYears
  <1> HIDE DEF some, first
  <1>4. PICK rest \in UNION {[1..n -> some] : n \in 0..MaxFileLines - 1} : lines = <<first>> \o rest BY <1>3
  <1>5. PICK n \in 0..MaxFileLines - 1 : rest \in [1..n -> some] BY <1>4
  <1>6. n \in Nat /\ rest \in Seq(some) /\ Len(rest) = n BY <1>5, HostLanesAssumption
  <1>7. DOMAIN lines = 1..n + 1 /\ lines[1] = first /\ \A j \in 2..n + 1 : lines[j] = rest[j - 1]
    <2>1. <<first>> \in Seq({first}) /\ Len(<<first>>) = 1 /\ <<first>>[1] = first OBVIOUS
    <2> QED BY <1>4, <1>6, <2>1
  <1>8. ASSUME NEW j \in 1..n + 1, lines[j].kind = "changed" PROVE lines[j].year \in ChangeYears
    <2>1. j # 1 BY <1>2, <1>7, <1>8
    <2>2. j \in 2..n + 1 /\ j - 1 \in 1..n BY <1>6, <2>1
    <2>3. lines[j] \in some BY <1>5, <1>7, <2>2
    <2> QED BY <1>1, <1>8, <2>3
  <1> QED BY <1>7, <1>8 DEF ChangesTyped

LEMMA LanesLand == ASSUME LanesInv, NEW lane \in Lanes, Land(lane) PROVE LanesInv'
  <1>1. /\ files[lane] = <<>> /\ DOMAIN files' = Lanes
        /\ UNCHANGED <<approved, attested, evidence, hostYears, laneLedger, parked>>
    BY DEF Land, LanesInv, HostLanesTypeOK
  <1>2. lane \notin laneLedger BY <1>1 DEF LanesInv, FilesKept
  <1>3. \A l \in Lanes : l # lane => files'[l] = files[l] BY DEF Land, LanesInv, HostLanesTypeOK
  <1>4. HostLanesTypeOK' BY <1>1 DEF LanesInv, HostLanesTypeOK
  <1>5. laneLedger \subseteq Lanes BY DEF LanesInv, HostLanesTypeOK
  <1>6. \A l \in laneLedger : files'[l] = files[l] BY <1>2, <1>3, <1>5
  <1>7. FilesKept' BY <1>1, <1>6 DEF LanesInv, FilesKept
  <1>8. ChangesTyped(files'["ripe_changed"])
    <2>1. CASE lane = "ripe_changed"
      <3>1. LaneForms(lane) = Databases BY <2>1 DEF LaneForms
      <3>2. files'[lane] \in Databases BY <3>1 DEF Land, LanesInv, HostLanesTypeOK
      <3> QED BY <2>1, <3>2, DatabasesTyped
    <2>2. CASE lane # "ripe_changed" BY <1>3, <2>2 DEF LanesInv, Lanes
    <2> QED BY <2>1, <2>2
  <1>9. ChangeIsTheObjects'
    <2>1. \A r \in evidence : r.lane = "ripe_changed" => files'["ripe_changed"] = files["ripe_changed"]
      BY <1>6 DEF LanesInv, FilesKept
    <2> QED BY <1>1, <2>1 DEF LanesInv, ChangeIsTheObjects
  <1>10. ReadIsHeld' BY <1>1, <1>6 DEF LanesInv, ReadIsHeld
  <1> QED BY <1>4, <1>7, <1>8, <1>9, <1>10 DEF LanesInv

\* A file read in its transaction: what it states is filed, or is parked.
LEMMA LanesFile ==
  ASSUME LanesInv, NEW lane \in Lanes, Queued(lane), NEW told, told \subseteq States(lane, files[lane]),
         File(lane, told), parked \subseteq parked', parked' \subseteq HostYears,
         \A s \in States(lane, files[lane]) : s \in told \/ (lane = "chastity" /\ s \in parked')
  PROVE  LanesInv'
  <1> DEFINE fresh == Fresh(lane, told)
  <1>1. /\ evidence' = evidence \cup fresh /\ hostYears' = DatedBy(fresh) /\ laneLedger' = laneLedger \cup {lane}
        /\ UNCHANGED <<files, approved, attested>>
    BY DEF File
  <1>2. HostLanesTypeOK /\ FilesKept /\ ChangesTyped(files["ripe_changed"]) /\ ChangeIsTheObjects /\ ReadIsHeld
    BY DEF LanesInv
  <1>3. told \subseteq HostYears BY StatesTyped
  <1>4. ASSUME NEW r \in fresh
        PROVE  r \in LaneRows /\ r.lane = lane /\ \E s \in told : r.host = s.host /\ r.year = s.year
    BY <1>3, <1>4 DEF Fresh, LaneRows, HostYears
  <1>5. ASSUME NEW s \in told
        PROVE  \E r \in evidence' : r.host = s.host /\ r.year = s.year /\ ClassOf(r.lane) = ClassOf(lane)
    <2>1. CASE \E r \in evidence : r.host = s.host /\ r.year = s.year /\ ClassOf(r.lane) = ClassOf(lane)
      BY <1>1, <2>1
    <2>2. CASE ~ \E r \in evidence : r.host = s.host /\ r.year = s.year /\ ClassOf(r.lane) = ClassOf(lane)
      <3> DEFINE r == [host |-> s.host, year |-> s.year, lane |-> lane]
      <3>1. r \in fresh BY <2>2 DEF Fresh
      <3>2. r.host = s.host /\ r.year = s.year /\ r.lane = lane OBVIOUS
      <3> QED BY <1>1, <3>1, <3>2
    <2> QED BY <2>1, <2>2
  <1> HIDE DEF fresh
  <1>6. hostYears \subseteq hostYears' /\ \A r \in hostYears' \ hostYears :
          /\ r \in fresh /\ SourceOf(r.lane) \in WEB_FACING_HOST_SOURCES
          /\ \A c \in hostYears : c.host # r.host \/ c.year # r.year
    BY <1>1 DEF DatedBy
  <1>7. HostLanesTypeOK'
    <2>1. evidence' \subseteq LaneRows /\ hostYears' \subseteq evidence' /\ laneLedger' \subseteq Lanes
      BY <1>1, <1>2, <1>4, <1>6 DEF HostLanesTypeOK
    <2> QED BY <1>1, <1>2, <2>1 DEF HostLanesTypeOK
  <1>8. FilesKept' BY <1>1, <1>2, <1>4 DEF FilesKept, Queued
  <1>9. ChangesTyped(files["ripe_changed"])' BY <1>1, <1>2 DEF ChangesTyped
  <1>10. ChangeIsTheObjects'
    <2>1. ASSUME NEW r \in fresh, r.lane = "ripe_changed"
          PROVE  LET lines == files["ripe_changed"]
                 IN  \E i \in DOMAIN lines : /\ lines[i].kind = "domain"
                                             /\ \E j \in Object(lines, i) : lines[j].kind = "nserver"
                                                                            /\ lines[j].name = r.host
                                             /\ LastChanged(lines, i, r.year)
      <3>1. PICK s \in told : r.host = s.host /\ r.year = s.year BY <1>4, <2>1
      <3>2. lane = "ripe_changed" BY <1>4, <2>1
      <3>3. s \in ripe_changed_nservers(files["ripe_changed"]) BY <3>2 DEF States
      <3> QED BY <1>2, <3>1, <3>3, ChangedStates
    <2> QED BY <1>1, <1>2, <2>1 DEF ChangeIsTheObjects
  <1>11. ReadIsHeld'
    <2>1. ASSUME NEW l \in laneLedger', NEW s \in States(l, files'[l])
          PROVE  \/ \E r \in evidence' : r.host = s.host /\ r.year = s.year /\ ClassOf(r.lane) = ClassOf(l)
                 \/ l = "chastity" /\ s \in parked'
      <3>1. CASE l = lane BY <1>1, <1>5, <2>1, <3>1
      <3>2. CASE l # lane BY <1>1, <1>2, <2>1, <3>2 DEF ReadIsHeld
      <3> QED BY <3>1, <3>2
    <2>2. \A r \in hostYears' : SourceOf(r.lane) \in WEB_FACING_HOST_SOURCES BY <1>2, <1>6 DEF ReadIsHeld
    <2>3. ASSUME NEW r \in hostYears', NEW s \in hostYears', r.host = s.host, r.year = s.year PROVE r = s
      <3>1. CASE r \in hostYears /\ s \in hostYears BY <1>2, <2>3, <3>1 DEF ReadIsHeld
      <3>2. CASE r \notin hostYears /\ s \notin hostYears
        <4>1. r \in LaneRows /\ s \in LaneRows /\ r.lane = s.lane BY <1>4, <1>6, <3>2
        <4> QED BY <2>3, <4>1 DEF LaneRows
      <3>3. CASE (r \in hostYears) # (s \in hostYears) BY <1>6, <2>3, <3>3
      <3> QED BY <3>1, <3>2, <3>3
    <2> QED BY <2>1, <2>2, <2>3 DEF ReadIsHeld
  <1> QED BY <1>7, <1>8, <1>9, <1>10, <1>11 DEF LanesInv

(***************************************************************************)
(* Whatever files land, in whatever order they are read, approved and      *)
(* dated: what the ledger calls read is held in its class or parked, what  *)
(* is cited is cited once and from a web-facing lane, and a registry's     *)
(* host-year is its own object's (hostnames.py:720-1376).                  *)
(***************************************************************************)
THEOREM LanesStayRead == HostLanesSpec => []LanesAreRead
  <1>1. HostLanesInit => LanesInv BY LanesStart
  <1>2. LanesInv /\ [HostLanesNext]_hostLanesVars => LanesInv'
    <2> SUFFICES ASSUME LanesInv, [HostLanesNext]_hostLanesVars PROVE LanesInv' OBVIOUS
    <2>1. parked \subseteq HostYears BY DEF LanesInv, HostLanesTypeOK
    <2>2. ASSUME NEW lane \in Lanes, Queued(lane), File(lane, States(lane, files[lane])), UNCHANGED parked
          PROVE  LanesInv'
      BY <2>1, <2>2, LanesFile
    <2>3. ASSUME NEW lane \in {"zone_1997", "zone_1999"}, IngestZone(lane) PROVE LanesInv'
      <3>1. lane \in Lanes /\ States(lane, files[lane]) = zone_ns_targets(files[lane]) BY DEF Lanes, States
      <3> QED BY <2>2, <2>3, <3>1 DEF IngestZone
    <2>4. ASSUME NEW lane \in {"squidguard", "squidguard_diff"}, IngestSquidguard(lane) PROVE LanesInv'
      <3>1. lane \in Lanes BY DEF Lanes
      <3> QED BY <2>2, <2>4, <3>1 DEF IngestSquidguard
    <2>5. ASSUME NEW lane \in {"ripe_snapshot", "ripe_changed"}, IngestRipe(lane) PROVE LanesInv'
      <3>1. lane \in Lanes BY DEF Lanes
      <3> QED BY <2>2, <2>5, <3>1 DEF IngestRipe
    <2>6. CASE IngestIsc
      <3>1. "isc" \in Lanes /\ States("isc", files["isc"]) = isc_survey_hosts(files["isc"]) BY DEF Lanes, States
      <3> QED BY <2>2, <2>6, <3>1 DEF IngestIsc
    <2>7. CASE IngestChastity
      <3> DEFINE all == chastity_members(files["chastity"])
      <3>1. "chastity" \in Lanes /\ States("chastity", files["chastity"]) = all BY DEF Lanes, States
      <3>2. all \subseteq HostYears BY <3>1, StatesTyped
      <3>3. Queued("chastity") /\ File("chastity", IF attested THEN all ELSE {})
            /\ parked' = IF attested THEN parked ELSE parked \cup all
        BY <2>7 DEF IngestChastity
      <3> HIDE DEF all
      <3>4. CASE attested BY <2>1, <3>1, <3>3, <3>4, LanesFile
      <3>5. CASE ~attested
        <4>1. File("chastity", {}) /\ parked' = parked \cup all BY <3>3, <3>5
        <4>2. parked \subseteq parked' /\ parked' \subseteq HostYears /\ all \subseteq parked' BY <2>1, <3>2, <4>1
        <4> QED BY <3>1, <3>3, <4>1, <4>2, LanesFile
      <3> QED BY <3>4, <3>5
    <2>8. ASSUME NEW lane \in Lanes, Land(lane) PROVE LanesInv' BY <2>8, LanesLand
    <2>9. CASE Approve \/ DateParent
      <3>1. UNCHANGED <<files, evidence, hostYears, laneLedger, parked>> BY <2>9 DEF Approve, DateParent
      <3>2. approved' \subseteq LaneSources
        BY <2>9 DEF Approve, DateParent, LanesInv, HostLanesTypeOK
      <3>3. attested' = attested \/ attested' = TRUE BY <2>9 DEF Approve, DateParent
      <3>4. attested' \in BOOLEAN BY <3>3, Zenon DEF LanesInv, HostLanesTypeOK
      <3>5. HostLanesTypeOK' BY <3>1, <3>2, <3>4 DEF LanesInv, HostLanesTypeOK
      <3> QED BY <3>1, <3>5 DEF LanesInv, FilesKept, ChangesTyped, ChangeIsTheObjects, ReadIsHeld
    <2>10. CASE UNCHANGED hostLanesVars
      BY <2>10 DEF hostLanesVars, LanesInv, HostLanesTypeOK, FilesKept, ChangesTyped, ChangeIsTheObjects, ReadIsHeld
    <2> QED BY <2>3, <2>4, <2>5, <2>6, <2>7, <2>8, <2>9, <2>10 DEF HostLanesNext
  <1>3. LanesInv => LanesAreRead BY DEF LanesInv, LanesAreRead
  <1> QED BY <1>1, <1>2, <1>3, PTL DEF HostLanesSpec

-----------------------------------------------------------------------------
(* The retraction of errors. *)

RetractRows == [host : RetractHosts \cup {Parent}, by : Families \cup {"web"}, ts : Stamps]

RetractTyped ==
  /\ raw \in [Families -> SUBSET ErrorCaptures] /\ web \subseteq RetractHosts
  /\ hostRows \subseteq RetractRows /\ stated \subseteq hostRows /\ \A r \in stated : r.by \in Families
  /\ domainYear \in hostRows \cup {NoRow} /\ DOMAIN hostYear = RetractHosts
  /\ audit.at \in {"off", "errors", "repoint"} /\ write.at \in {"off", "journals", "ended"}

\* A row's capture, as the raw index has it.
Capture(r)  == [host |-> r.host, ts |-> r.ts]
AnsweredRow(r) == \E c \in raw[r.by] : c.host = r.host /\ c.ts = r.ts /\ c.ok
Quotes(r)   == r.by \in Families => \E c \in raw[r.by] : c.host = r.host /\ c.ts = r.ts

\* A row that an audit listed, lists or may list.
Doubtful(r) ==
  r.by \in Families /\ (ErrorListed(r) \/ Capture(r) \in audit.errors[r.by] \/ r \in stated \/ ~AnsweredRow(r))

\* A host has one such row, and its year rests on it only while it is the host's only row.
HostSound(h) ==
  /\ \A r, s \in hostRows : r.host = h /\ s.host = h /\ Doubtful(r) /\ Doubtful(s) => r = s
  /\ hostYear[h] = NoRow => \A r \in hostRows : r.host # h
  /\ hostYear[h] # NoRow => hostYear[h] \in hostRows /\ hostYear[h].host = h
  /\ hostYear[h] \in stated => \A p \in hostRows : p.host = h => p \in stated
  /\ hostYear[h] \in hostRows \ stated /\ Doubtful(hostYear[h]) =>
       \A p \in hostRows : p.host = h => p = hostYear[h]

\* A target answered, and neither the errors filed nor those about to be list it.
Offered(o, g, h) == o.ts = 0 \/ (o.ts \in Stamps /\ o.by \in Members(g) /\ AnsweredRow(RetractRow(h, o.by, o.ts)))
Unlisted(o, h, table) == o.ts # 0 => [host |-> h, ts |-> o.ts] \notin table[o.by]
TargetsSound ==
  /\ \A g \in Groups, h \in RetractHosts :
       /\ Offered(repoint[g][h], g, h) /\ Offered(audit.repoint[g][h], g, h)
       /\ Unlisted(repoint[g][h], h, errors) /\ Unlisted(repoint[g][h], h, audit.errors)
       /\ Unlisted(audit.repoint[g][h], h, audit.errors)
  /\ audit.at = "repoint" => errors = audit.errors

\* What the transaction, and then the journals, have settled.
LeftOnError(h) == hostYear[h] \in stated /\ ErrorListed(hostYear[h])
WriteSound ==
  /\ write.at # "off" => /\ \A r \in hostRows : ErrorListed(r) => r \in stated
                         /\ \A h \in RetractHosts : LeftOnError(h) => Target(hostYear[h]).ts = 0
  /\ write.at = "journals" => \A h \in RetractHosts : LeftOnError(h) => h \in write.left
  /\ write.at = "ended" => \A h \in RetractHosts : LeftOnError(h) => h \notin web
  /\ ParentTakesAnother

RetractInv ==
  /\ RetractTyped /\ (\A r \in hostRows : Quotes(r)) /\ (\A h \in RetractHosts : HostSound(h))
  /\ TargetsSound /\ WriteSound

LEMMA FamilyFacts ==
  /\ \A f \in Families : Group(f) \in Groups /\ f \in Members(Group(f))
  /\ \A g \in Groups : Members(g) \subseteq Families
  /\ "web" \notin Families
  BY DEF Group, Groups, Members, Families

LEMMA CaptureFacts ==
  ASSUME RetractTyped, NEW f \in Families, NEW c \in raw[f]
  PROVE  c.host \in RetractHosts /\ c.ts \in Stamps /\ c.ok \in BOOLEAN
  <1>1. c \in ErrorCaptures BY DEF RetractTyped
  <1>2. CASE c \in [host : {Host}, ts : Stamps, ok : BOOLEAN] BY <1>2 DEF RetractHosts
  <1>3. CASE c = [host |-> Www, ts |-> 1, ok |-> FALSE] BY <1>3 DEF RetractHosts, Stamps
  <1> QED BY <1>1, <1>2, <1>3 DEF ErrorCaptures

\* What the audit lists did not answer, and what did not answer it lists.
LEMMA ErrorsFacts ==
  ASSUME NEW f \in Families, NEW h, NEW t
  PROVE  [host |-> h, ts |-> t] \in ErrorsOf(f) <=>
           /\ \E c \in raw[f] : c.host = h /\ c.ts = t /\ ~c.ok
           /\ ~ \E d \in raw[f] : d.host = h /\ d.ts = t /\ d.ok
  BY DEF ErrorsOf, Backed

\* A target is the earliest capture that answered, and there is none only without one.
LEMMA TargetFacts ==
  ASSUME RetractTyped, NEW g \in Groups, NEW h \in RetractHosts
  PROVE  /\ Offered(TargetOf(g, h), g, h)
         /\ TargetOf(g, h).ts = 0 /\ (\E f \in Members(g) : \E e \in ErrorsOf(f) : e.host = h) =>
              \A f \in Members(g) : \A c \in raw[f] : c.host = h => ~c.ok
  <1> DEFINE goodOf(f) == {[ts |-> c.ts, by |-> f] : c \in {d \in raw[f] : d.host = h /\ d.ok}}
             good == UNION {goodOf(f) : f \in Members(g)}
  <1>1. ASSUME NEW o \in good PROVE o.ts \in Stamps /\ o.by \in Members(g) /\ AnsweredRow(RetractRow(h, o.by, o.ts))
    <2>1. PICK f \in Members(g) : \E c \in raw[f] : c.host = h /\ c.ok /\ o = [ts |-> c.ts, by |-> f] BY <1>1
    <2>2. PICK c \in raw[f] : c.host = h /\ c.ok /\ o = [ts |-> c.ts, by |-> f] BY <2>1
    <2>3. c.ts \in Stamps BY <2>2, CaptureFacts, FamilyFacts
    <2>4. o.ts = c.ts /\ o.by = f BY <2>2
    <2> QED BY <2>2, <2>3, <2>4 DEF AnsweredRow, RetractRow
  <1>2. ASSUME NEW f \in Members(g), NEW c \in raw[f], c.host = h, c.ok PROVE good # {}
    <2>1. [ts |-> c.ts, by |-> f] \in goodOf(f) BY <1>2
    <2> HIDE DEF goodOf
    <2> QED BY <2>1
  <1>3. None.ts = 0 BY DEF None
  <1>4. CASE TargetOf(g, h) = None
    <2>1. Offered(TargetOf(g, h), g, h) BY <1>3, <1>4 DEF Offered
    <2>2. CASE good = {} BY <1>2, <2>1, <2>2
    <2>3. CASE good # {} /\ ~ \A e \in UNION {ErrorsOf(f) : f \in Members(g)} : e.host # h
      <3>1. TargetOf(g, h) = CHOOSE o \in good : \A p \in good : o.ts <= p.ts BY <2>3 DEF TargetOf
      <3> HIDE DEF good
      <3>2. \E o \in good : \A p \in good : o.ts <= p.ts
        <4>1. CASE \E o \in good : o.ts = 1 BY <1>1, <4>1 DEF Stamps
        <4>2. CASE ~ \E o \in good : o.ts = 1 BY <1>1, <2>3, <4>2 DEF Stamps
        <4> QED BY <4>1, <4>2
      <3>3. TargetOf(g, h) \in good BY <3>1, <3>2
      <3>4. TargetOf(g, h).ts \in Stamps BY <1>1, <3>3
      <3> QED BY <1>3, <1>4, <3>4 DEF Stamps
    <2>4. CASE \A e \in UNION {ErrorsOf(f) : f \in Members(g)} : e.host # h BY <2>1, <2>4
    <2> QED BY <2>2, <2>3, <2>4
  <1>5. CASE TargetOf(g, h) # None
    <2>1. good # {} /\ TargetOf(g, h) = CHOOSE o \in good : \A p \in good : o.ts <= p.ts BY <1>5 DEF TargetOf
    <2> HIDE DEF good
    <2>2. \E o \in good : \A p \in good : o.ts <= p.ts
      <3>1. CASE \E o \in good : o.ts = 1 BY <1>1, <3>1 DEF Stamps
      <3>2. CASE ~ \E o \in good : o.ts = 1 BY <1>1, <2>1, <3>2 DEF Stamps
      <3> QED BY <3>1, <3>2
    <2>3. TargetOf(g, h) \in good BY <2>1, <2>2
    <2>4. TargetOf(g, h).ts \in Stamps BY <1>1, <2>3
    <2>5. TargetOf(g, h).ts # 0 BY <2>4 DEF Stamps
    <2> QED BY <1>1, <2>3, <2>5 DEF Offered
  <1> QED BY <1>4, <1>5

LEMMA RetractionStarts == RetractionInit => RetractInv
  <1> SUFFICES ASSUME RetractionInit PROVE RetractInv OBVIOUS
  <1>1. PICK first \in [RetractHosts -> Families], own \in SUBSET {RetractRow(Parent, "web", 1)} :
          hostRows = own \cup UNION {Quoted(first[h], h) : h \in RetractHosts}
    BY DEF RetractionInit
  <1>2. raw \in [Families -> SUBSET ErrorCaptures] /\ web \subseteq RetractHosts BY DEF RetractionInit
  <1>3. ASSUME NEW h \in RetractHosts, NEW r \in Quoted(first[h], h)
        PROVE  \E c \in raw[first[h]] : /\ c.host = h /\ r = RetractRow(h, first[h], c.ts)
                                        /\ \A e \in raw[first[h]] : e.host = h => c.ts <= e.ts
    BY <1>3 DEF Quoted
  <1>4. ASSUME NEW f \in Families, NEW c \in raw[f] PROVE c.host \in RetractHosts /\ c.ts \in Stamps
    <2>1. c \in ErrorCaptures BY <1>2, <1>4
    <2>2. CASE c \in [host : {Host}, ts : Stamps, ok : BOOLEAN] BY <2>2 DEF RetractHosts
    <2>3. CASE c = [host |-> Www, ts |-> 1, ok |-> FALSE] BY <2>3 DEF RetractHosts, Stamps
    <2> QED BY <2>1, <2>2, <2>3 DEF ErrorCaptures
  <1>5. ASSUME NEW r \in hostRows
        PROVE  /\ r \in RetractRows /\ (r.by \in Families => r.host \in RetractHosts /\ Quotes(r))
               /\ \/ r = RetractRow(Parent, "web", 1) /\ r.host = Parent
                  \/ r.host \in RetractHosts /\ r \in Quoted(first[r.host], r.host)
    <2>1. CASE r \in own
      <3>1. r = RetractRow(Parent, "web", 1) BY <2>1
      <3>2. r.host = Parent /\ r.by = "web" /\ r.ts = 1 BY <3>1 DEF RetractRow
      <3>3. r \in RetractRows BY <3>1 DEF RetractRow, RetractRows, Stamps
      <3> QED BY <3>1, <3>2, <3>3, FamilyFacts
    <2>2. ASSUME NEW h \in RetractHosts, r \in Quoted(first[h], h)
          PROVE  r \in RetractRows /\ r.host = h /\ Quotes(r)
      <3>1. PICK c \in raw[first[h]] : c.host = h /\ r = RetractRow(h, first[h], c.ts) BY <1>3, <2>2
      <3>2. first[h] \in Families /\ c.ts \in Stamps BY <1>4, <3>1
      <3>3. r.host = h /\ r.by = first[h] /\ r.ts = c.ts BY <3>1 DEF RetractRow
      <3>4. r \in RetractRows BY <3>1, <3>2 DEF RetractRow, RetractRows
      <3> QED BY <3>1, <3>3, <3>4 DEF Quotes
    <2> QED BY <1>1, <1>5, <2>1, <2>2
  <1>6. ASSUME NEW h \in RetractHosts, NEW r \in hostRows, NEW s \in hostRows, r.host = h, s.host = h PROVE r = s
    <2>1. r \in Quoted(first[h], h) /\ s \in Quoted(first[h], h) BY <1>5, <1>6, RetractionAssumption
    <2>2. PICK c \in raw[first[h]] : /\ c.host = h /\ r = RetractRow(h, first[h], c.ts)
                                     /\ \A e \in raw[first[h]] : e.host = h => c.ts <= e.ts
      BY <1>3, <2>1
    <2>3. PICK d \in raw[first[h]] : /\ d.host = h /\ s = RetractRow(h, first[h], d.ts)
                                     /\ \A e \in raw[first[h]] : e.host = h => d.ts <= e.ts
      BY <1>3, <2>1
    <2>4. c.ts <= d.ts /\ d.ts <= c.ts /\ c.ts \in Stamps /\ d.ts \in Stamps BY <1>4, <2>2, <2>3
    <2>5. c.ts = d.ts BY <2>4 DEF Stamps
    <2> QED BY <2>2, <2>3, <2>5
  <1>7. /\ stated = {} /\ errors = NoErrors /\ repoint = NoTargets /\ audit = NoAudit /\ write = NoWrite
        /\ domainYear \in hostRows \cup {NoRow}
    BY DEF RetractionInit
  <1>8. ASSUME NEW h \in RetractHosts PROVE hostYear[h] = IF \E r \in hostRows : r.host = h
                                                          THEN CHOOSE r \in hostRows : r.host = h ELSE NoRow
    BY DEF RetractionInit
  <1>9. audit.at = "off" /\ write.at = "off" /\ audit.repoint = NoTargets /\ audit.errors = NoErrors
    BY <1>7 DEF NoAudit, NoWrite
  <1>10. RetractTyped
    <2>1. hostRows \subseteq RetractRows BY <1>5
    <2>2. DOMAIN hostYear = RetractHosts BY DEF RetractionInit
    <2> QED BY <1>2, <1>7, <1>9, <2>1, <2>2 DEF RetractTyped
  <1>11. ASSUME NEW h \in RetractHosts PROVE HostSound(h)
    <2>1. CASE \E r \in hostRows : r.host = h
      <3>1. hostYear[h] \in hostRows /\ hostYear[h].host = h BY <1>8, <2>1
      <3>2. hostYear[h] # NoRow BY <1>5, <3>1, RetractionAssumption DEF RetractRows
      <3> QED BY <1>6, <1>7, <3>1, <3>2 DEF HostSound
    <2>2. CASE ~ \E r \in hostRows : r.host = h
      <3>1. hostYear[h] = NoRow BY <1>8, <2>2
      <3>2. NoRow \notin hostRows BY <1>5, RetractionAssumption DEF RetractRows
      <3> QED BY <1>7, <2>2, <3>1, <3>2 DEF HostSound
    <2> QED BY <2>1, <2>2
  <1>12. TargetsSound
    <2>1. \A g \in Groups, h \in RetractHosts : repoint[g][h].ts = 0 /\ audit.repoint[g][h].ts = 0
      BY <1>7, <1>9 DEF NoTargets, None
    <2> QED BY <1>9, <2>1 DEF TargetsSound, Offered, Unlisted
  <1>13. WriteSound BY <1>9 DEF WriteSound, ParentTakesAnother
  <1>14. \A r \in hostRows : Quotes(r) BY <1>5 DEF Quotes
  <1> QED BY <1>10, <1>11, <1>12, <1>13, <1>14 DEF RetractInv

LEMMA HitFacts ==
  ASSUME RetractInv, NEW r \in Hit
  PROVE  /\ r \in hostRows /\ r.by \in Families /\ r.host \in RetractHosts /\ Doubtful(r) /\ ErrorListed(r)
         /\ Target(r) = repoint[Group(r.by)][r.host] /\ Group(r.by) \in Groups
         /\ Target(r).ts = 0 \/ Target(r).ts \in Stamps
  <1>1. r \in hostRows /\ r.by \in Families /\ ErrorListed(r) BY DEF Hit, ErrorListed
  <1>2. Doubtful(r) BY <1>1 DEF Doubtful
  <1>3. PICK c \in raw[r.by] : c.host = r.host BY <1>1 DEF RetractInv, Quotes
  <1>4. r.host \in RetractHosts BY <1>1, <1>3, CaptureFacts DEF RetractInv
  <1>5. Group(r.by) \in Groups BY <1>1, FamilyFacts
  <1>6. Offered(Target(r), Group(r.by), r.host) BY <1>4, <1>5 DEF Target, RetractInv, TargetsSound
  <1> QED BY <1>1, <1>2, <1>4, <1>5, <1>6 DEF Target, Offered

\* A row filed for a target is of a host that has a listed row, and no audit doubts it.
LEMMA FreshFacts ==
  ASSUME RetractInv, NEW e \in FreshError
  PROVE  /\ e \in RetractRows /\ e.host \in RetractHosts /\ e.by \in Families /\ e \notin stated \cup Hit
         /\ AnsweredRow(e) /\ ~ErrorListed(e) /\ Capture(e) \notin audit.errors[e.by]
         /\ \E r \in Hit : r.host = e.host /\ Target(r).ts # 0
  <1>1. PICK r \in Hit : Target(r).ts > 0 /\ e = RetractRow(r.host, Target(r).by, Target(r).ts)
    BY DEF FreshError
  <1> DEFINE o == Target(r)
             g == Group(r.by)
  <1>2. /\ o = repoint[g][r.host] /\ g \in Groups /\ r.host \in RetractHosts /\ r \in hostRows
        /\ Doubtful(r) /\ ErrorListed(r) /\ (o.ts = 0 \/ o.ts \in Stamps)
    BY HitFacts
  <1>3. o.ts # 0 BY <1>1, <1>2 DEF Stamps
  <1>4. Offered(o, g, r.host) /\ Unlisted(o, r.host, errors) /\ Unlisted(o, r.host, audit.errors)
    BY <1>2 DEF RetractInv, TargetsSound
  <1>5. e.host = r.host /\ e.by = o.by /\ e.ts = o.ts BY <1>1 DEF RetractRow
  <1>6. e = RetractRow(r.host, o.by, o.ts) BY <1>1
  <1> HIDE DEF o, g
  <1>7. o.ts \in Stamps /\ o.by \in Families /\ AnsweredRow(e) BY <1>2, <1>3, <1>4, <1>6, FamilyFacts DEF Offered
  <1>8. e \in RetractRows BY <1>2, <1>6, <1>7 DEF RetractRow, RetractRows
  <1>9. ~ErrorListed(e) /\ Capture(e) \notin audit.errors[e.by]
    BY <1>3, <1>4, <1>5 DEF Unlisted, ErrorListed, Capture
  <1>10. e \notin stated
    <2> SUFFICES ASSUME e \in stated PROVE FALSE OBVIOUS
    <2>1. e \in hostRows /\ Doubtful(e) BY <1>5, <1>7 DEF RetractInv, RetractTyped, Doubtful
    <2>2. e = r BY <1>2, <1>5, <2>1 DEF RetractInv, HostSound
    <2> QED BY <1>2, <1>9, <2>2
  <1>11. e \notin Hit BY <1>9 DEF Hit
  <1> QED BY <1>1, <1>2, <1>3, <1>5, <1>7, <1>8, <1>9, <1>10, <1>11 DEF o

\* What a retraction does to a host's year.
Repointed(h) == hostYear[h] \in Hit /\ Target(hostYear[h]).ts # 0
LEMMA CommitYears ==
  ASSUME RetractInv, Commit, NEW h \in RetractHosts
  PROVE  /\ Repointed(h) => hostYear'[h] \in FreshError /\ hostYear'[h].host = h
         /\ ~Repointed(h) => hostYear'[h] = hostYear[h]
         /\ ~Repointed(h) /\ (hostYear[h] \in Hit \cup stated \cup {NoRow} \/ Doubtful(hostYear[h])) =>
              \A e \in FreshError : e.host # h
  <1> DEFINE now == (Passing \ Hit) \cup FreshError
             r == hostYear[h]
  <1>1. hostYear'[h] = IF r \in {q \in Hit : Holds(now, q) # {}} THEN CHOOSE e \in Holds(now, r) : TRUE ELSE r
    BY DEF Commit
  <1>2. HostSound(h) BY DEF RetractInv
  <1>3. CASE Repointed(h)
    <2>1. r \in Hit /\ r \in hostRows /\ Doubtful(r) /\ Target(r).ts \in Stamps
      BY <1>3, HitFacts DEF Repointed
    <2>2. r.host = h
      <3>1. r # NoRow BY <2>1, RetractionAssumption DEF RetractInv, RetractTyped, RetractRows
      <3> QED BY <1>2, <3>1 DEF HostSound
    <2>3. Target(r).ts > 0 BY <2>1 DEF Stamps
    <2>4. ASSUME NEW p \in Passing \ Hit PROVE p.host # h
      BY <1>2, <2>1, <2>4 DEF HostSound, Passing
    <2>5. Holds(Passing \ Hit, r) = {} BY <2>2, <2>4 DEF Holds
    <2> DEFINE e == RetractRow(r.host, Target(r).by, Target(r).ts)
    <2>6. e \in FreshError BY <2>1, <2>3, <2>5 DEF FreshError
    <2>7. e.host = r.host /\ e.ts = Target(r).ts BY DEF RetractRow
    <2> HIDE DEF e, r
    <2>8. e \in Holds(now, r) BY <2>3, <2>6, <2>7 DEF Holds
    <2>9. hostYear'[h] \in Holds(now, r) BY <1>1, <2>1, <2>8
    <2>10. hostYear'[h] \in now /\ hostYear'[h].host = h BY <2>2, <2>9 DEF Holds
    <2> QED BY <1>3, <2>4, <2>10
  <1>4. CASE ~Repointed(h)
    <2>1. r \in Hit => Holds(now, r) = {}
      <3>1. r \in Hit => Target(r).ts = 0 BY <1>4 DEF Repointed
      <3> HIDE DEF r, now
      <3> QED BY <3>1 DEF Holds
    <2>2. hostYear'[h] = r BY <1>1, <2>1
    <2>3. ASSUME r \in Hit \cup stated \cup {NoRow} \/ Doubtful(r), NEW e \in FreshError, e.host = h PROVE FALSE
      <3>1. PICK q \in Hit : q.host = h /\ Target(q).ts # 0 BY <2>3, FreshFacts
      <3>2. q \in hostRows /\ Doubtful(q) BY HitFacts
      <3>3. r # NoRow /\ r \in hostRows /\ r.host = h BY <1>2, <3>1, <3>2 DEF HostSound
      <3>4. r \in Hit \/ r \in stated \/ Doubtful(r) BY <2>3, <3>3
      <3>5. Doubtful(r)
        <4>1. CASE r \in Hit BY <4>1, HitFacts
        <4>2. CASE r \in stated BY <4>2 DEF RetractInv, RetractTyped, Doubtful
        <4> QED BY <3>4, <4>1, <4>2
      <3>6. q = r BY <1>2, <3>1, <3>2, <3>3, <3>5 DEF HostSound
      <3> QED BY <1>4, <3>1, <3>6 DEF Repointed
    <2> QED BY <1>4, <2>2, <2>3
  <1> QED BY <1>3, <1>4

\* What a fold of the web journals does to a host.
LEMMA FoldYears ==
  ASSUME RetractInv, NEW hosts, Fold(hosts), NEW h \in RetractHosts
  PROVE  LET r == RetractRow(h, "web", 2)
             joined == h \in hosts \cap web /\ \A p \in hostRows : p.host = h => p \in stated
         IN  /\ r.host = h /\ r.by = "web" /\ r \in RetractRows /\ r \notin stated /\ ~Doubtful(r)
             /\ joined => /\ hostYear'[h] = r /\ (hostYear[h] = NoRow \/ hostYear[h] \in stated)
                          /\ {p \in hostRows' : p.host = h} = {p \in hostRows : p.host = h} \cup {r}
             /\ ~joined => /\ hostYear'[h] = hostYear[h]
                           /\ {p \in hostRows' : p.host = h} = {p \in hostRows : p.host = h}
  <1> DEFINE new == {i \in hosts \cap web : Joins(i)}
             r == RetractRow(h, "web", 2)
             joined == h \in hosts \cap web /\ \A p \in hostRows : p.host = h => p \in stated
  <1>1. /\ hostRows' = hostRows \cup {RetractRow(i, "web", 2) : i \in new}
        /\ hostYear'[h] = IF h \in new /\ (hostYear[h] = NoRow \/ hostYear[h] \in stated) THEN r ELSE hostYear[h]
    BY DEF Fold
  <1>2. joined <=> h \in new BY DEF Joins, Passing
  <1>3. r.host = h /\ r.by = "web" /\ r \in RetractRows BY DEF RetractRow, RetractRows, Stamps
  <1>4. r \notin stated /\ ~Doubtful(r) BY <1>3, FamilyFacts DEF RetractInv, RetractTyped, Doubtful
  <1>5. \A i : RetractRow(i, "web", 2).host = i BY DEF RetractRow
  <1>6. joined => hostYear[h] = NoRow \/ hostYear[h] \in stated BY DEF RetractInv, HostSound
  <1> HIDE DEF new, r, joined
  <1>7. h \in new => {p \in hostRows' : p.host = h} = {p \in hostRows : p.host = h} \cup {r}
    BY <1>1, <1>5 DEF r
  <1>8. h \notin new => {p \in hostRows' : p.host = h} = {p \in hostRows : p.host = h}
    BY <1>1, <1>5
  <1>9. joined => hostYear'[h] = r BY <1>1, <1>2, <1>6
  <1>10. ~joined => hostYear'[h] = hostYear[h] BY <1>1, <1>2
  <1> QED BY <1>2, <1>3, <1>4, <1>6, <1>7, <1>8, <1>9, <1>10 DEF r, joined

\* What any step leaves and adds.
LEMMA RetractSteps ==
  ASSUME RetractInv, [RetractionNext]_retractionVars
  PROVE  /\ web' = web /\ raw' \in [Families -> SUBSET ErrorCaptures] /\ \A f \in Families : raw[f] \subseteq raw'[f]
         /\ \A f \in Families : /\ errors'[f] \in {errors[f], audit.errors[f]}
                                /\ audit'.errors[f] \in {audit.errors[f], errors[f], {}, ErrorsOf(f)}
         /\ \/ UNCHANGED <<hostRows, stated, hostYear, domainYear>>
            \/ Commit
            \/ UNCHANGED <<stated, domainYear, errors, repoint, audit, raw>> /\ \E hosts : Fold(hosts)
  <1>1. RetractTyped BY DEF RetractInv
  <1>2. raw \in [Families -> SUBSET ErrorCaptures] BY <1>1 DEF RetractTyped
  <1>3. \A f \in Families : NoAudit.errors[f] = {} BY DEF NoAudit, NoErrors
  <1>4. ASSUME NEW read, Audit(read) PROVE \A f \in Families : audit'.errors[f] \in {errors[f], ErrorsOf(f)}
    BY <1>4 DEF Audit
  <1>5. ASSUME NEW read, Audit(read)
        PROVE  UNCHANGED <<raw, web, hostRows, stated, hostYear, domainYear, errors>>
    BY <1>5 DEF Audit
  <1>6. CASE WriteErrors
    <2>1. /\ errors' = audit.errors /\ audit' = [audit EXCEPT !.at = "repoint"]
          /\ UNCHANGED <<raw, web, hostRows, stated, hostYear, domainYear>>
      BY <1>6 DEF WriteErrors
    <2>2. audit'.errors = audit.errors BY <2>1
    <2> QED BY <1>2, <2>1, <2>2
  <1>7. CASE WriteRepoint BY <1>2, <1>3, <1>7 DEF WriteRepoint
  <1>8. CASE Commit
    <2>1. UNCHANGED <<raw, web, errors, audit>> BY <1>8 DEF Commit
    <2> QED BY <1>2, <1>8, <2>1
  <1>9. CASE Reread BY <1>2, <1>9 DEF Reread
  <1>10. CASE End BY <1>2, <1>10 DEF End
  <1>11. CASE BankWeb BY <1>2, <1>11 DEF BankWeb
  <1>12. CASE Kill
    <2>1. audit' \in {audit, NoAudit} /\ UNCHANGED <<raw, web, hostRows, stated, hostYear, domainYear, errors>>
      BY <1>12 DEF Kill
    <2> QED BY <1>2, <1>3, <2>1
  <1>13. ASSUME NEW f \in Families, Grow(f, [host |-> Host, ts |-> 2, ok |-> TRUE])
         PROVE  /\ raw' \in [Families -> SUBSET ErrorCaptures] /\ \A i \in Families : raw[i] \subseteq raw'[i]
                /\ UNCHANGED <<web, hostRows, stated, hostYear, domainYear, errors, audit>>
    <2>1. [host |-> Host, ts |-> 2, ok |-> TRUE] \in ErrorCaptures BY DEF ErrorCaptures, Stamps
    <2> DEFINE c == [host |-> Host, ts |-> 2, ok |-> TRUE]
    <2>2. /\ raw' = [raw EXCEPT ![f] = @ \cup {c}]
          /\ UNCHANGED <<web, hostRows, stated, hostYear, domainYear, errors, audit>>
      BY <1>13 DEF Grow
    <2>3. c \in ErrorCaptures BY <2>1
    <2> HIDE DEF c
    <2> QED BY <1>2, <2>2, <2>3
  <1>14. CASE UNCHANGED retractionVars BY <1>2, <1>14 DEF retractionVars
  <1> QED BY <1>2, <1>4, <1>5, <1>6, <1>7, <1>8, <1>9, <1>10, <1>11, <1>12, <1>13, <1>14 DEF RetractionNext

\* Doubt of a row never begins.
LEMMA DoubtStays ==
  ASSUME RetractInv, [RetractionNext]_retractionVars, NEW r \in hostRows, Doubtful(r)' PROVE Doubtful(r)
  <1>1. r.by \in Families BY DEF Doubtful
  <1>2. AnsweredRow(r) => AnsweredRow(r)' BY <1>1, RetractSteps DEF AnsweredRow
  <1>3. ErrorListed(r)' => ErrorListed(r) \/ Capture(r) \in audit.errors[r.by]
    BY <1>1, RetractSteps DEF ErrorListed, Capture
  <1>4. Capture(r) \in ErrorsOf(r.by) => ~AnsweredRow(r)
    BY <1>1, ErrorsFacts DEF Capture, AnsweredRow
  <1>5. Capture(r)' \in audit'.errors[r.by] => Capture(r) \in audit.errors[r.by] \/ ErrorListed(r) \/ ~AnsweredRow(r)
    BY <1>1, <1>4, RetractSteps DEF Capture, ErrorListed
  <1>6. r \in stated' => r \in stated \/ ErrorListed(r)
    <2>1. stated' = stated \/ stated' = stated \cup Hit BY RetractSteps DEF Commit
    <2> QED BY <2>1 DEF Hit
  <1> QED BY <1>1, <1>2, <1>3, <1>5, <1>6 DEF Doubtful

LEMMA RetractKeepsTypes ==
  ASSUME RetractInv, [RetractionNext]_retractionVars
  PROVE  RetractTyped' /\ \A r \in hostRows' : Quotes(r)'
  <1>1. /\ RetractTyped /\ hostRows \subseteq RetractRows /\ stated \subseteq hostRows
        /\ domainYear \in hostRows \cup {NoRow} /\ web \subseteq RetractHosts /\ DOMAIN hostYear = RetractHosts
        /\ \A r \in stated : r.by \in Families
    BY DEF RetractInv, RetractTyped
  <1>2. web' \subseteq RetractHosts /\ raw' \in [Families -> SUBSET ErrorCaptures] BY <1>1, RetractSteps
  <1>3. audit'.at \in {"off", "errors", "repoint"}
    <2>1. ASSUME NEW read, Audit(read) PROVE audit'.at = "errors" BY <2>1 DEF Audit
    <2>2. CASE WriteErrors
      <3>1. audit' = [audit EXCEPT !.at = "repoint"] BY <2>2 DEF WriteErrors
      <3>2. audit'.at = "repoint" \/ audit'.at = audit.at BY <3>1
      <3> QED BY <1>1, <3>2 DEF RetractTyped
    <2>3. NoAudit.at = "off" BY DEF NoAudit
    <2>4. CASE audit' \in {audit, NoAudit} BY <1>1, <2>3, <2>4 DEF RetractTyped
    <2>5. WriteRepoint \/ Commit \/ Reread \/ End \/ BankWeb \/ Kill \/ UNCHANGED retractionVars
            => audit' \in {audit, NoAudit}
      BY DEF WriteRepoint, Commit, Reread, End, BankWeb, Kill, retractionVars
    <2>6. \A f, c : Grow(f, c) => audit' = audit BY DEF Grow
    <2> QED BY <2>1, <2>2, <2>4, <2>5, <2>6 DEF RetractionNext
  <1>4. write'.at \in {"off", "journals", "ended"}
    <2>1. CASE Commit
      <3>1. write'.at = "journals" BY <2>1 DEF Commit
      <3> QED BY <3>1
    <2>2. CASE Reread BY <2>2 DEF Reread
    <2>3. NoWrite.at = "off" BY DEF NoWrite
    <2>4. CASE write' \in {write, NoWrite} BY <1>1, <2>3, <2>4 DEF RetractTyped
    <2>5. WriteErrors \/ WriteRepoint \/ End \/ BankWeb \/ Kill \/ UNCHANGED retractionVars
            => write' \in {write, NoWrite}
      BY DEF WriteErrors, WriteRepoint, End, BankWeb, Kill, retractionVars
    <2>6. \A f, c : Grow(f, c) => write' = write BY DEF Grow
    <2>7. \A read : Audit(read) => write' = write BY DEF Audit
    <2> QED BY <2>1, <2>2, <2>4, <2>5, <2>6, <2>7 DEF RetractionNext
  <1>5. ASSUME NEW r \in hostRows, Quotes(r) PROVE Quotes(r)'
    BY <1>5, RetractSteps DEF Quotes
  <1>6. \A r \in hostRows : Quotes(r)' BY <1>5 DEF RetractInv
  <1>7. ASSUME hostRows' \subseteq RetractRows, stated' \subseteq hostRows', \A r \in stated' : r.by \in Families,
               domainYear' \in hostRows' \cup {NoRow}, DOMAIN hostYear' = RetractHosts
        PROVE  RetractTyped'
    BY <1>2, <1>3, <1>4, <1>7 DEF RetractTyped
  <1>8. CASE UNCHANGED <<hostRows, stated, hostYear, domainYear>> BY <1>1, <1>6, <1>7, <1>8
  <1>9. CASE Commit
    <2>1. /\ hostRows' = hostRows \cup FreshError /\ stated' = stated \cup Hit
          /\ DOMAIN hostYear' = RetractHosts /\ raw' = raw
      BY <1>9 DEF Commit
    <2>2. hostRows' \subseteq RetractRows BY <1>1, <2>1, FreshFacts
    <2>3. stated' \subseteq hostRows' /\ \A r \in stated' : r.by \in Families BY <1>1, <2>1, HitFacts
    <2>4. domainYear' \in hostRows' \cup {NoRow}
      <3> DEFINE now == (Passing \ Hit) \cup FreshError
                 moved == {r \in Hit : Holds(now, r) # {}}
      <3>1. \/ domainYear' = domainYear \/ domainYear' \in Others(now)
            \/ domainYear \in moved /\ domainYear' = CHOOSE e \in Holds(now, domainYear) : TRUE
        BY <1>9 DEF Commit
      <3>2. now \subseteq hostRows' BY <2>1 DEF Passing
      <3> HIDE DEF now
      <3>3. Others(now) \subseteq now /\ \A r : Holds(now, r) \subseteq now BY DEF Others, Holds
      <3> QED BY <1>1, <2>1, <3>1, <3>2, <3>3
    <2>5. \A r \in FreshError : Quotes(r)' BY <2>1, FreshFacts DEF Quotes, AnsweredRow
    <2> QED BY <1>6, <1>7, <2>1, <2>2, <2>3, <2>4, <2>5
  <1>10. ASSUME NEW hosts, Fold(hosts), UNCHANGED <<stated, domainYear>>
         PROVE  RetractTyped' /\ \A r \in hostRows' : Quotes(r)'
    <2> DEFINE new == {h \in hosts \cap web : Joins(h)}
    <2>1. hostRows' = hostRows \cup {RetractRow(h, "web", 2) : h \in new} /\ DOMAIN hostYear' = RetractHosts
      BY <1>10 DEF Fold
    <2>2. new \subseteq RetractHosts BY <1>1
    <2> HIDE DEF new
    <2>3. \A h \in new : RetractRow(h, "web", 2) \in RetractRows /\ RetractRow(h, "web", 2).by = "web"
      BY <2>2 DEF RetractRow, RetractRows, Stamps
    <2>4. \A r \in hostRows' \ hostRows : r \in RetractRows /\ r.by \notin Families BY <2>1, <2>3, FamilyFacts
    <2>5. \A r \in hostRows' \ hostRows : Quotes(r)' BY <2>4 DEF Quotes
    <2> QED BY <1>1, <1>6, <1>7, <1>10, <2>1, <2>4, <2>5
  <1> QED BY <1>8, <1>9, <1>10, RetractSteps

LEMMA RetractKeepsHosts ==
  ASSUME RetractInv, [RetractionNext]_retractionVars, NEW h \in RetractHosts
  PROVE  HostSound(h)'
  <1>1. HostSound(h) BY DEF RetractInv
  <1>2. CASE UNCHANGED <<hostRows, stated, hostYear, domainYear>>
    BY <1>1, <1>2, DoubtStays DEF HostSound
  <1>3. CASE Commit
    <2>1. /\ hostRows' = hostRows \cup FreshError /\ stated' = stated \cup Hit
          /\ UNCHANGED <<raw, errors, audit>>
      BY <1>3 DEF Commit
    <2>2. ASSUME NEW e \in FreshError PROVE ~Doubtful(e)' /\ e \notin stated' /\ e # NoRow
      <3>1. e # NoRow BY FreshFacts, RetractionAssumption DEF RetractRows
      <3>2. e \notin stated' /\ AnsweredRow(e)' /\ ~ErrorListed(e)' /\ Capture(e)' \notin audit'.errors[e.by]
        BY <2>1, FreshFacts DEF AnsweredRow, ErrorListed, Capture
      <3> QED BY <3>1, <3>2 DEF Doubtful
    <2>3. ASSUME NEW r \in hostRows', Doubtful(r)' PROVE r \in hostRows /\ Doubtful(r)
      <3>1. r \in hostRows BY <2>1, <2>2, <2>3
      <3> QED BY <2>3, <3>1, DoubtStays
    <2>4. \A r, s \in hostRows' : r.host = h /\ s.host = h /\ Doubtful(r)' /\ Doubtful(s)' => r = s
      BY <1>1, <2>3 DEF HostSound
    <2>5. CASE Repointed(h)
      <3>1. hostYear'[h] \in FreshError /\ hostYear'[h].host = h BY <1>3, <2>5, CommitYears
      <3> QED BY <2>1, <2>2, <2>4, <3>1 DEF HostSound
    <2>6. CASE ~Repointed(h) /\ hostYear[h] \in Hit
      <3>1. hostYear'[h] = hostYear[h] /\ \A e \in FreshError : e.host # h BY <1>3, <2>6, CommitYears
      <3>2. hostYear[h] \in hostRows /\ Doubtful(hostYear[h]) BY <2>6, HitFacts
      <3>3. hostYear[h] # NoRow BY <3>2, RetractionAssumption DEF RetractInv, RetractTyped, RetractRows
      <3>4. \A p \in hostRows' : p.host = h => p \in hostRows BY <2>1, <3>1
      <3>5. ASSUME NEW p \in hostRows, p.host = h PROVE p \in stated'
        BY <1>1, <2>1, <2>6, <3>2, <3>5 DEF HostSound
      <3>6. hostYear'[h] \in stated' BY <2>1, <2>6, <3>1
      <3> QED BY <1>1, <2>1, <2>4, <3>1, <3>2, <3>3, <3>4, <3>5, <3>6 DEF HostSound
    <2>7. CASE hostYear[h] \notin Hit
      <3>1. ~Repointed(h) BY <2>7 DEF Repointed
      <3>2. PICK y : y = hostYear[h] OBVIOUS
      <3>3. hostYear'[h] = y BY <1>3, <3>1, <3>2, CommitYears
      <3>4. y \in stated \cup {NoRow} \/ Doubtful(y) => \A p \in hostRows' : p.host = h => p \in hostRows
        BY <1>3, <2>1, <3>1, <3>2, CommitYears
      <3>5. y = NoRow => \A r \in hostRows' : r.host # h BY <1>1, <3>2, <3>4 DEF HostSound
      <3>6. y # NoRow => y \in hostRows' /\ y.host = h BY <1>1, <2>1, <3>2 DEF HostSound
      <3>7. y \in stated' => \A p \in hostRows' : p.host = h => p \in stated'
        BY <1>1, <2>1, <2>7, <3>2, <3>4 DEF HostSound
      <3>8. y \in hostRows' \ stated' /\ Doubtful(y)' => \A p \in hostRows' : p.host = h => p = y
        <4> SUFFICES ASSUME y \in hostRows' \ stated', Doubtful(y)'
                     PROVE  \A p \in hostRows' : p.host = h => p = y
          OBVIOUS
        <4>1. Doubtful(y) /\ y \in hostRows /\ y \notin stated BY <2>1, <2>3
        <4> QED BY <1>1, <3>2, <3>4, <4>1 DEF HostSound
      <3> QED BY <2>4, <3>3, <3>5, <3>6, <3>7, <3>8 DEF HostSound
    <2> QED BY <2>5, <2>6, <2>7
  <1>4. ASSUME NEW hosts, Fold(hosts), UNCHANGED <<stated, errors, audit, raw>> PROVE HostSound(h)'
    <2> DEFINE r == RetractRow(h, "web", 2)
               joined == h \in hosts \cap web /\ \A p \in hostRows : p.host = h => p \in stated
    <2>1. /\ r.host = h /\ r.by = "web" /\ r \in RetractRows /\ r \notin stated /\ ~Doubtful(r)
          /\ joined => /\ hostYear'[h] = r /\ (hostYear[h] = NoRow \/ hostYear[h] \in stated)
                       /\ {p \in hostRows' : p.host = h} = {p \in hostRows : p.host = h} \cup {r}
          /\ ~joined => /\ hostYear'[h] = hostYear[h]
                        /\ {p \in hostRows' : p.host = h} = {p \in hostRows : p.host = h}
      BY <1>4, FoldYears
    <2>2. ~Doubtful(r)' BY <2>1, FamilyFacts DEF Doubtful
    <2>3. r # NoRow BY <2>1, RetractionAssumption DEF RetractRows
    <2>4. \A p \in hostRows : Doubtful(p)' => Doubtful(p) BY DoubtStays
    <2>5. joined => \A p \in hostRows : p.host = h => p \in stated OBVIOUS
    <2> HIDE DEF r, joined
    <2>6. ASSUME NEW p \in hostRows', p.host = h PROVE p \in hostRows \/ (joined /\ p = r)
      <3>1. p \in {q \in hostRows' : q.host = h} BY <2>6
      <3> QED BY <2>1, <3>1
    <2>7. \A p, q \in hostRows' : p.host = h /\ q.host = h /\ Doubtful(p)' /\ Doubtful(q)' => p = q
      BY <1>1, <2>2, <2>4, <2>6 DEF HostSound
    <2>8. CASE joined
      <3>1. r \in hostRows' BY <2>1, <2>8
      <3> QED BY <1>4, <2>1, <2>2, <2>3, <2>7, <2>8, <3>1 DEF HostSound
    <2>9. CASE ~joined
      <3>1. PICK y : y = hostYear[h] OBVIOUS
      <3>2. hostYear'[h] = y /\ \A p \in hostRows' : p.host = h => p \in hostRows BY <2>1, <2>6, <2>9, <3>1
      <3>3. y # NoRow => y \in hostRows /\ y \in hostRows' /\ y.host = h BY <1>1, <2>1, <2>9, <3>1 DEF HostSound
      <3>4. NoRow \notin hostRows' BY RetractKeepsTypes, RetractionAssumption DEF RetractTyped, RetractRows
      <3>5. y = NoRow => \A p \in hostRows' : p.host # h BY <1>1, <3>1, <3>2 DEF HostSound
      <3>6. y \in stated' => \A p \in hostRows' : p.host = h => p \in stated'
        BY <1>1, <1>4, <3>1, <3>2 DEF HostSound
      <3>7. y \in hostRows' \ stated' /\ Doubtful(y)' => \A p \in hostRows' : p.host = h => p = y
        <4> SUFFICES ASSUME y \in hostRows' \ stated', Doubtful(y)'
                     PROVE  \A p \in hostRows' : p.host = h => p = y
          OBVIOUS
        <4>1. y \in hostRows BY <3>3, <3>4
        <4>2. Doubtful(y) /\ y \notin stated BY <1>4, <2>4, <4>1
        <4> QED BY <1>1, <3>1, <3>2, <4>1, <4>2 DEF HostSound
      <3> QED BY <2>7, <3>2, <3>3, <3>5, <3>6, <3>7 DEF HostSound
    <2> QED BY <2>8, <2>9
  <1> QED BY <1>2, <1>3, <1>4, RetractSteps

\* A target answered, whatever a collector adds, and an audit of its family does not list it.
LEMMA OfferedFacts ==
  ASSUME RetractInv, [RetractionNext]_retractionVars, NEW o, NEW g \in Groups, NEW h, Offered(o, g, h)
  PROVE  Offered(o, g, h)' /\ (o.ts # 0 => o.by \in Families /\ [host |-> h, ts |-> o.ts] \notin ErrorsOf(o.by))
  <1>1. CASE o.ts = 0 BY <1>1 DEF Offered
  <1>2. CASE o.ts # 0
    <2>1. o.ts \in Stamps /\ o.by \in Members(g) /\ \E c \in raw[o.by] : c.host = h /\ c.ts = o.ts /\ c.ok
      BY <1>2 DEF Offered, AnsweredRow, RetractRow
    <2>2. o.by \in Families BY <2>1, FamilyFacts
    <2>3. \E c \in raw'[o.by] : c.host = h /\ c.ts = o.ts /\ c.ok BY <2>1, <2>2, RetractSteps
    <2>4. Offered(o, g, h)' BY <2>1, <2>3 DEF Offered, AnsweredRow, RetractRow
    <2>5. [host |-> h, ts |-> o.ts] \notin ErrorsOf(o.by) BY <2>1, <2>2, ErrorsFacts
    <2> QED BY <2>2, <2>4, <2>5
  <1> QED BY <1>1, <1>2

LEMMA RetractKeepsTargets ==
  ASSUME RetractInv, [RetractionNext]_retractionVars
  PROVE  TargetsSound'
  <1>1. TargetsSound /\ RetractTyped BY DEF RetractInv
  <1>2. ASSUME NEW g \in Groups, NEW h \in RetractHosts, NEW o, NEW a,
               repoint'[g][h] = o, audit'.repoint[g][h] = a, Offered(o, g, h), Offered(a, g, h),
               Unlisted(o, h, errors'), Unlisted(o, h, audit'.errors), Unlisted(a, h, audit'.errors)
        PROVE  /\ Offered(repoint[g][h], g, h)' /\ Offered(audit.repoint[g][h], g, h)'
               /\ Unlisted(repoint[g][h], h, errors)' /\ Unlisted(repoint[g][h], h, audit.errors)'
               /\ Unlisted(audit.repoint[g][h], h, audit.errors)'
    <2>1. Offered(o, g, h)' /\ Offered(a, g, h)' BY <1>2, OfferedFacts
    <2>2. Offered(repoint[g][h], g, h)' /\ Offered(audit.repoint[g][h], g, h)' BY <1>2, <2>1 DEF Offered
    <2> QED BY <1>2, <2>2 DEF Unlisted
  <1>3. ASSUME NEW g \in Groups, NEW h \in RetractHosts
        PROVE  /\ Offered(repoint[g][h], g, h) /\ Offered(audit.repoint[g][h], g, h)
               /\ Unlisted(repoint[g][h], h, errors) /\ Unlisted(repoint[g][h], h, audit.errors)
               /\ Unlisted(audit.repoint[g][h], h, audit.errors)
    BY <1>1 DEF TargetsSound
  <1>4. ASSUME NEW read, Audit(read) PROVE TargetsSound'
    <2>1. /\ audit'.at = "errors" /\ UNCHANGED <<errors, repoint>>
          /\ \A f \in Families : audit'.errors[f] = IF f \in read THEN ErrorsOf(f) ELSE errors[f]
          /\ \A g \in Groups, h \in RetractHosts : audit'.repoint[g][h] =
               IF Members(g) \subseteq read THEN TargetOf(g, h) ELSE repoint[g][h]
      BY <1>4 DEF Audit
    <2>2. ASSUME NEW g \in Groups, NEW h \in RetractHosts
          PROVE  \E o, a : /\ repoint'[g][h] = o /\ audit'.repoint[g][h] = a /\ Offered(o, g, h) /\ Offered(a, g, h)
                           /\ Unlisted(o, h, errors') /\ Unlisted(o, h, audit'.errors) /\ Unlisted(a, h, audit'.errors)
      <3>1. Offered(repoint[g][h], g, h) /\ Unlisted(repoint[g][h], h, errors) BY <1>3
      <3>2. Unlisted(repoint[g][h], h, audit'.errors) BY <2>1, <3>1, OfferedFacts DEF Unlisted
      <3>3. CASE Members(g) \subseteq read
        <4>1. Offered(TargetOf(g, h), g, h) BY <1>1, TargetFacts
        <4>2. TargetOf(g, h).ts # 0 => TargetOf(g, h).by \in read BY <3>3, <4>1 DEF Offered
        <4>3. Unlisted(TargetOf(g, h), h, audit'.errors) BY <2>1, <4>1, <4>2, OfferedFacts DEF Unlisted
        <4> QED BY <2>1, <3>1, <3>2, <3>3, <4>1, <4>3
      <3>4. CASE ~ (Members(g) \subseteq read) BY <2>1, <3>1, <3>2, <3>4
      <3> QED BY <3>3, <3>4
    <2> QED BY <1>2, <2>1, <2>2 DEF TargetsSound
  <1>5. CASE WriteErrors
    <2>1. audit' = [audit EXCEPT !.at = "repoint"] /\ errors' = audit.errors /\ repoint' = repoint
      BY <1>5 DEF WriteErrors
    <2>2. audit'.errors = audit.errors /\ audit'.repoint = audit.repoint BY <2>1
    <2> QED BY <1>2, <1>3, <2>1, <2>2 DEF TargetsSound
  <1>6. /\ NoAudit.at = "off" /\ \A f \in Families : NoAudit.errors[f] = {}
        /\ \A g \in Groups, h \in RetractHosts : NoAudit.repoint[g][h].ts = 0
    BY DEF NoAudit, NoErrors, NoTargets, None
  <1>7. ASSUME NEW g \in Groups, NEW h, NEW o, Offered(o, g, h) PROVE Unlisted(o, h, NoAudit.errors)
    BY <1>6, <1>7, OfferedFacts DEF Unlisted
  <1>8. CASE WriteRepoint
    <2>1. audit.at = "repoint" /\ repoint' = audit.repoint /\ audit' = NoAudit /\ errors' = errors
      BY <1>8 DEF WriteRepoint
    <2>2. errors = audit.errors BY <1>1, <2>1 DEF TargetsSound
    <2>3. ASSUME NEW g \in Groups, NEW h \in RetractHosts
          PROVE  \E o, a : /\ repoint'[g][h] = o /\ audit'.repoint[g][h] = a /\ Offered(o, g, h) /\ Offered(a, g, h)
                           /\ Unlisted(o, h, errors') /\ Unlisted(o, h, audit'.errors) /\ Unlisted(a, h, audit'.errors)
      <3>1. Offered(audit.repoint[g][h], g, h) /\ Unlisted(audit.repoint[g][h], h, audit.errors) BY <1>3
      <3>2. Offered(NoAudit.repoint[g][h], g, h) BY <1>6 DEF Offered
      <3>3. Unlisted(audit.repoint[g][h], h, NoAudit.errors) /\ Unlisted(NoAudit.repoint[g][h], h, NoAudit.errors)
        BY <1>7, <3>1, <3>2
      <3> QED BY <2>1, <2>2, <3>1, <3>2, <3>3
    <2> QED BY <1>2, <1>6, <2>1, <2>3 DEF TargetsSound
  <1>9. CASE UNCHANGED <<errors, repoint, audit>> BY <1>1, <1>2, <1>3, <1>9 DEF TargetsSound
  <1>10. CASE UNCHANGED <<errors, repoint>> /\ audit' = NoAudit
    <2>1. ASSUME NEW g \in Groups, NEW h \in RetractHosts
          PROVE  \E o, a : /\ repoint'[g][h] = o /\ audit'.repoint[g][h] = a /\ Offered(o, g, h) /\ Offered(a, g, h)
                           /\ Unlisted(o, h, errors') /\ Unlisted(o, h, audit'.errors) /\ Unlisted(a, h, audit'.errors)
      <3>1. Offered(repoint[g][h], g, h) /\ Unlisted(repoint[g][h], h, errors) BY <1>3
      <3>2. Offered(NoAudit.repoint[g][h], g, h) BY <1>6 DEF Offered
      <3>3. Unlisted(repoint[g][h], h, NoAudit.errors) /\ Unlisted(NoAudit.repoint[g][h], h, NoAudit.errors)
        BY <1>7, <3>1, <3>2
      <3> QED BY <1>10, <3>1, <3>2, <3>3
    <2> QED BY <1>2, <1>6, <1>10, <2>1 DEF TargetsSound
  <1>11. Commit \/ Reread \/ End \/ BankWeb \/ UNCHANGED retractionVars => UNCHANGED <<errors, repoint, audit>>
    BY DEF Commit, Reread, End, BankWeb, retractionVars
  <1>12. Kill => UNCHANGED <<errors, repoint>> /\ audit' \in {audit, NoAudit} BY DEF Kill
  <1>13. \A f, c : Grow(f, c) => UNCHANGED <<errors, repoint, audit>> BY DEF Grow
  <1> QED BY <1>4, <1>5, <1>8, <1>9, <1>10, <1>11, <1>12, <1>13 DEF RetractionNext

\* The parent's year, as the transaction leaves it.
LEMMA CommitParent ==
  ASSUME RetractInv, Commit PROVE ParentTakesAnother'
  <1> DEFINE now == (Passing \ Hit) \cup FreshError
             moved == {r \in Hit : Holds(now, r) # {}}
             stays == domainYear \in Hit /\ ~(domainYear \in moved /\ domainYear.host # Www)
  <1>1. /\ hostRows' = hostRows \cup FreshError /\ stated' = stated \cup Hit /\ errors' = errors
        /\ domainYear' \in (IF ~stays THEN {IF domainYear \in Hit THEN CHOOSE e \in Holds(now, domainYear) : TRUE
                                            ELSE domainYear}
                            ELSE IF Others(now) = {} THEN {domainYear} ELSE Others(now))
    BY DEF Commit
  <1>2. now = hostRows' \ stated' BY <1>1, FreshFacts DEF Passing
  <1>3. Passing' = now BY <1>2 DEF Passing
  <1>4. domainYear \in moved => domainYear \in Hit /\ Holds(now, domainYear) # {} OBVIOUS
  <1> HIDE DEF now, moved
  <1>5. CASE domainYear' \in now BY <1>2, <1>5 DEF ParentTakesAnother
  <1>6. \A r : Holds(now, r) \subseteq now BY DEF Holds
  <1>7. CASE ~stays /\ domainYear \in Hit
    <2>1. domainYear' \in Holds(now, domainYear) BY <1>1, <1>4, <1>7
    <2> QED BY <1>5, <1>6, <2>1
  <1>8. CASE domainYear \notin Hit
    <2>1. PICK d : d = domainYear OBVIOUS
    <2>2. domainYear' = d BY <1>1, <1>8, <2>1
    <2>3. d \in stated' => d \in hostRows BY <1>1, <1>8, <2>1 DEF RetractInv, RetractTyped
    <2>4. d \in stated' => ~ErrorListed(d) BY <1>8, <2>1, <2>3 DEF Hit
    <2>5. ErrorListed(d)' => ErrorListed(d) BY <1>1 DEF ErrorListed
    <2>6. ErrorListed(domainYear)' => ErrorListed(d)' BY <2>2 DEF ErrorListed
    <2> QED BY <2>2, <2>4, <2>5, <2>6 DEF ParentTakesAnother
  <1>9. CASE stays
    <2>1. CASE Others(now) = {}
      <3>1. \A e \in now : e.host = Www BY <2>1 DEF Others
      <3> QED BY <1>2, <1>3, <3>1 DEF ParentTakesAnother
    <2>2. CASE Others(now) # {}
      <3>1. domainYear' \in Others(now) BY <1>1, <1>9, <2>2
      <3> QED BY <1>5, <3>1 DEF Others
    <2> QED BY <2>1, <2>2
  <1> QED BY <1>7, <1>8, <1>9

LEMMA RetractKeepsWrite ==
  ASSUME RetractInv, [RetractionNext]_retractionVars
  PROVE  WriteSound'
  <1>1. WriteSound BY DEF RetractInv
  <1>2. CASE write'.at = "off" BY <1>2 DEF WriteSound, ParentTakesAnother
  <1>3. CASE UNCHANGED <<hostRows, stated, hostYear, domainYear, errors, repoint, web, write>>
    BY <1>1, <1>3 DEF WriteSound, ParentTakesAnother, LeftOnError, ErrorListed, Target, Passing
  <1>4. CASE Commit
    <2>1. /\ hostRows' = hostRows \cup FreshError /\ stated' = stated \cup Hit
          /\ UNCHANGED <<errors, repoint>> /\ write'.at = "journals"
          /\ write'.left = {h \in RetractHosts : hostYear'[h] \in Hit /\ hostYear'[h] \in stated'}
      BY <1>4 DEF Commit
    <2>2. ASSUME NEW r \in hostRows', ErrorListed(r)' PROVE r \in stated'
      <3>1. ErrorListed(r) BY <2>1, <2>2 DEF ErrorListed
      <3>2. r \notin FreshError BY <3>1, FreshFacts
      <3> QED BY <2>1, <3>1, <3>2 DEF Hit
    <2>3. ASSUME NEW h \in RetractHosts, LeftOnError(h)'
          PROVE  hostYear'[h] \in Hit /\ hostYear'[h] \in stated' /\ Target(hostYear[h])'.ts = 0
      <3>1. PICK y : y = hostYear'[h] OBVIOUS
      <3>2. y \in stated' /\ ErrorListed(y) BY <2>1, <2>3, <3>1 DEF LeftOnError, ErrorListed
      <3>3. y \notin FreshError BY <3>2, FreshFacts
      <3>4. ~Repointed(h) /\ y = hostYear[h] BY <1>4, <3>1, <3>3, CommitYears
      <3>5. y \in Hit BY <2>1, <3>2 DEF Hit, RetractInv, RetractTyped
      <3>6. Target(y).ts = 0 BY <3>4, <3>5 DEF Repointed
      <3> QED BY <2>1, <3>1, <3>2, <3>5, <3>6 DEF Target
    <2> QED BY <1>4, <2>1, <2>2, <2>3, CommitParent DEF WriteSound
  <1>5. CASE Reread
    <2>1. /\ write.at = "journals" /\ Fold(write.left) /\ write'.at = "ended"
          /\ UNCHANGED <<stated, errors, repoint, web>>
      BY <1>5 DEF Reread
    <2>2. ASSUME NEW r \in hostRows', ErrorListed(r)' PROVE r \in stated'
      <3>1. ErrorListed(r) /\ r.by \in Families BY <2>1, <2>2 DEF ErrorListed
      <3>2. r \in hostRows
        <4>1. hostRows' = hostRows \cup {RetractRow(h, "web", 2) : h \in {i \in write.left \cap web : Joins(i)}}
          BY <2>1 DEF Fold
        <4>2. \A h : RetractRow(h, "web", 2).by = "web" BY DEF RetractRow
        <4> QED BY <3>1, <4>1, <4>2, FamilyFacts
      <3> QED BY <1>1, <2>1, <3>1, <3>2 DEF WriteSound
    <2>3. ASSUME NEW h \in RetractHosts, LeftOnError(h)'
          PROVE  Target(hostYear[h])'.ts = 0 /\ h \notin web'
      <3> DEFINE r == RetractRow(h, "web", 2)
                 joined == h \in write.left \cap web /\ \A p \in hostRows : p.host = h => p \in stated
      <3>1. /\ r \notin stated /\ (joined => hostYear'[h] = r) /\ (~joined => hostYear'[h] = hostYear[h])
        BY <2>1, FoldYears
      <3>2. hostYear'[h] \in stated BY <2>1, <2>3 DEF LeftOnError
      <3>3. ~joined /\ hostYear'[h] = hostYear[h] BY <3>1, <3>2
      <3>4. LeftOnError(h) BY <2>1, <2>3, <3>3 DEF LeftOnError, ErrorListed
      <3>5. Target(hostYear[h]).ts = 0 /\ h \in write.left BY <1>1, <2>1, <3>4 DEF WriteSound
      <3>6. \A p \in hostRows : p.host = h => p \in stated BY <3>2, <3>3 DEF RetractInv, HostSound
      <3>7. h \notin web BY <3>3, <3>5, <3>6
      <3> QED BY <2>1, <3>3, <3>5, <3>7 DEF Target
    <2> QED BY <2>1, <2>2, <2>3 DEF WriteSound, ParentTakesAnother
  <1>6. NoWrite.at = "off" BY DEF NoWrite
  <1>7. WriteErrors \/ WriteRepoint \/ BankWeb => write'.at = "off" BY DEF WriteErrors, WriteRepoint, BankWeb
  <1>8. \A read : Audit(read) => write'.at = "off" BY DEF Audit
  <1>9. \A f, c : Grow(f, c) => write'.at = "off" BY DEF Grow
  <1>10. End => write'.at = "off" BY <1>6 DEF End
  <1>11. CASE Kill
    <2>1. \/ write' = NoWrite
          \/ UNCHANGED <<hostRows, stated, hostYear, domainYear, errors, repoint, web, write>>
      BY <1>11 DEF Kill
    <2> QED BY <1>2, <1>3, <1>6, <2>1
  <1>12. CASE UNCHANGED retractionVars BY <1>3, <1>12 DEF retractionVars
  <1> QED BY <1>2, <1>4, <1>5, <1>7, <1>8, <1>9, <1>10, <1>11, <1>12 DEF RetractionNext

\* The invariant holds of every state the two programs reach.
LEMMA RetractionStaysSound == RetractionSpec => []RetractInv
  <1>1. RetractInv /\ [RetractionNext]_retractionVars => RetractInv'
    BY RetractKeepsTypes, RetractKeepsHosts, RetractKeepsTargets, RetractKeepsWrite DEF RetractInv
  <1> QED BY <1>1, RetractionStarts, PTL DEF RetractionSpec

(***************************************************************************)
(* After a retraction over a whole audit no year passes on an error, and a *)
(* host-year left on a listed one has no capture that answered, for any raw *)
(* indexes, web journals, audits and kills: a host has one row that an     *)
(* audit may list, and a target is one that none lists                     *)
(* (hostnames.py:1777-1939).                                               *)
(***************************************************************************)
THEOREM RetractionLeavesNoError == RetractionSpec => []ErrorsAreRetracted
  <1>1. RetractInv => ErrorsAreRetracted
    <2> SUFFICES ASSUME RetractInv PROVE ErrorsAreRetracted OBVIOUS
    <2>1. RetractTyped /\ WriteSound /\ (\A r \in hostRows : Quotes(r)) /\ \A h \in RetractHosts : HostSound(h)
      BY DEF RetractInv
    <2>2. RetractionTypeOK
      <3>1. \A r \in hostRows : r.host \in RetractHosts \cup {Parent} /\ r.ts \in Stamps
        BY <2>1 DEF RetractTyped, RetractRows
      <3>2. \A h \in RetractHosts : hostYear[h] = NoRow \/ (hostYear[h] \in hostRows /\ hostYear[h].host = h)
        BY <2>1 DEF HostSound
      <3> QED BY <2>1, <3>1, <3>2 DEF RetractionTypeOK, RetractTyped
    <2>3. ASSUME write.at = "ended", AuditIsWhole, NEW r \in Passing, Erred(r) PROVE FALSE
      <3>1. /\ r \in hostRows /\ r \notin stated /\ r.by \in Families
            /\ ~ \E c \in raw[r.by] : c.host = r.host /\ c.ts = r.ts /\ c.ok
        BY <2>3 DEF Passing, Erred
      <3>2. \E c \in raw[r.by] : c.host = r.host /\ c.ts = r.ts /\ ~c.ok BY <2>1, <3>1 DEF Quotes
      <3>3. [host |-> r.host, ts |-> r.ts] \in ErrorsOf(r.by) BY <3>1, <3>2, ErrorsFacts
      <3>4. ErrorListed(r) BY <2>3, <3>1, <3>3 DEF AuditIsWhole, ErrorListed
      <3> QED BY <2>1, <2>3, <3>1, <3>4 DEF WriteSound
    <2>4. ASSUME write.at = "ended", AuditIsWhole, NEW h \in RetractHosts,
                 hostYear[h] \in stated, ErrorListed(hostYear[h])
          PROVE  /\ h \notin web
                 /\ \A f \in Members(Group(hostYear[h].by)) : \A c \in raw[f] : c.host = h => ~c.ok
      <3> DEFINE y == hostYear[h]
                 g == Group(y.by)
      <3>1. LeftOnError(h) BY <2>4 DEF LeftOnError
      <3>2. Target(y).ts = 0 /\ h \notin web BY <2>1, <2>4, <3>1 DEF WriteSound
      <3>3. y.by \in Families /\ [host |-> y.host, ts |-> y.ts] \in errors[y.by] BY <2>4 DEF ErrorListed
      <3>4. y.host = h
        <4>1. y \in hostRows BY <2>1, <2>4 DEF RetractTyped
        <4>2. y # NoRow BY <2>1, <4>1, RetractionAssumption DEF RetractTyped, RetractRows
        <4> QED BY <2>1, <4>2 DEF HostSound
      <3>5. g \in Groups /\ y.by \in Members(g) BY <3>3, FamilyFacts
      <3>6. [host |-> h, ts |-> y.ts] \in ErrorsOf(y.by) BY <2>4, <3>3, <3>4 DEF AuditIsWhole
      <3>7. TargetOf(g, h).ts = 0 BY <2>4, <3>2, <3>4, <3>5 DEF AuditIsWhole, Target
      <3>8. \E f \in Members(g) : \E e \in ErrorsOf(f) : e.host = h BY <3>5, <3>6
      <3> QED BY <2>1, <3>2, <3>5, <3>7, <3>8, TargetFacts
    <2>5. RetractedWhole BY <2>3, <2>4 DEF RetractedWhole
    <2> QED BY <2>1, <2>2, <2>5 DEF ErrorsAreRetracted, WriteSound
  <1> QED BY <1>1, RetractionStaysSound, PTL

(***************************************************************************)
(* For any raw indexes, audits, banks and kills, a host-year leaves only a *)
(* row that is listed or states an error, and only for one that passes: a  *)
(* repoint target is never itself a row the two files doubt                *)
(* (hostnames.py:584-617, 1879-1889).                                      *)
(***************************************************************************)
THEOREM PassingYearsStay == RetractionSpec => PassingStays
  <1> DEFINE Stays == \A h \in RetractHosts : hostYear[h] # NoRow /\ hostYear'[h] # hostYear[h] =>
                (hostYear[h] \in stated \/ ErrorListed(hostYear[h])) /\ hostYear'[h] \in hostRows' \ stated'
  <1>1. ASSUME RetractInv, RetractionNext PROVE Stays
    <2> SUFFICES ASSUME NEW h \in RetractHosts, hostYear[h] # NoRow, hostYear'[h] # hostYear[h]
                 PROVE  /\ hostYear[h] \in stated \/ ErrorListed(hostYear[h])
                        /\ hostYear'[h] \in hostRows' /\ hostYear'[h] \notin stated'
      OBVIOUS
    <2>1. CASE Commit
      <3>1. hostRows' = hostRows \cup FreshError /\ stated' = stated \cup Hit BY <2>1 DEF Commit
      <3>2. Repointed(h) /\ hostYear'[h] \in FreshError BY <1>1, <2>1, CommitYears
      <3> QED BY <1>1, <3>1, <3>2, FreshFacts, HitFacts DEF Repointed
    <2>2. ASSUME NEW hosts, Fold(hosts), stated' = stated PROVE
            /\ hostYear[h] \in stated \/ ErrorListed(hostYear[h])
            /\ hostYear'[h] \in hostRows' /\ hostYear'[h] \notin stated'
      <3> DEFINE r == RetractRow(h, "web", 2)
                 joined == h \in hosts \cap web /\ \A p \in hostRows : p.host = h => p \in stated
      <3>1. /\ r \notin stated
            /\ joined => /\ hostYear'[h] = r /\ (hostYear[h] = NoRow \/ hostYear[h] \in stated)
                         /\ {p \in hostRows' : p.host = h} = {p \in hostRows : p.host = h} \cup {r}
            /\ ~joined => hostYear'[h] = hostYear[h]
        BY <1>1, <2>2, FoldYears
      <3> HIDE DEF r, joined
      <3>2. joined BY <3>1
      <3>3. r \in hostRows' BY <3>1, <3>2
      <3> QED BY <2>2, <3>1, <3>2, <3>3
    <2> QED BY <1>1, <2>1, <2>2, RetractSteps
  <1>2. RetractInv /\ [RetractionNext]_retractionVars => [Stays]_retractionVars BY <1>1
  <1> HIDE DEF Stays
  <1>3. RetractionSpec => [][Stays]_retractionVars BY <1>2, RetractionStaysSound, PTL DEF RetractionSpec
  <1> QED BY <1>3 DEF PassingStays, Stays
-----------------------------------------------------------------------------
(* The readers: what the table says of each, and the kinds of line each may meet. *)
Ungated == {"internet_scout", "expansion_links", "expansion_directory"}
OwnYear ==
  {"early_web_cdx", "nypw", "nypw_timemap_nonok", "arquivo_cdxj", "ukwa_geoindex",
   "domain_year_captures", "domain_creation_csv", "rdap_snapshot", "cdx_snapshot",
   "internet_scout", "fac_filings", "ncsa_whats_new", "namewinner_expiring", "ukwa_link_source",
   "ukwa_link_target", "ukwa_link_target_bare", "expansion_links", "expansion_directory",
   "usenet_journal", "usenet_whois_journal", "registry_items", "udrp_proceedings"}
ByEdition == {"isc_survey", "junkfilter_split", "chastity_split", "granitecanyon_split",
              "cctld_capture_split", "us_domain_delegated", "coza_queue"}
Parsers == OwnYear \cup ByEdition \cup
  {"afnic_fr", "squidguard_blacklist", "internic_zone", "iedr_register", "jpnic_register",
   "cctld_register_inbody", "edelman_whois", "can_domain_registry_notices", "ripe_dbase_changed",
   "ripe_dbase_1999", "mynic_listing", "odp"}
Gated == {"cdx_timestamp", "artifact_listing", "link_source", "whois_creation"}

\* What the table says of a source that the proofs use.
Entered(s, e) ==
  /\ e.parse \in Parsers
  /\ e.parse \in Ungated => e.type \notin Gated
  /\ e.parse = "afnic_fr" => s = "afnic_fr" /\ e.type = "whois_creation"
  /\ e.parse = "usenet_journal" => e.type \notin {"cdx_timestamp", "link_source"}

LEMMA SourceTable == \A s \in DOMAIN Sources : Entered(s, Sources[s])
  <1> DEFINE Good(f) == \A s \in DOMAIN f : Entered(s, f[s])
  <1>1. Good(Registers)
    BY DEF Registers, Entered, Reads, Parsers, OwnYear, ByEdition, Ungated, Gated
  <1>2. Good(Editions)
    BY DEF Editions, Entered, Reads, Parsers, OwnYear, ByEdition, Ungated, Gated
  <1>3. Good(Dumps)
    BY DEF Dumps, Entered, Reads, Parsers, OwnYear, ByEdition, Ungated, Gated
  <1>4. Good(Posts)
    BY DEF Posts, Entered, Reads, Parsers, OwnYear, ByEdition, Ungated, Gated
  <1>5. Good(Captures)
    BY DEF Captures, Entered, Reads, Parsers, OwnYear, ByEdition, Ungated, Gated
  <1> HIDE DEF Good
  <1>6. \A t \in Parts : Good(t) BY <1>1, <1>2, <1>3, <1>4, <1>5 DEF Parts
  <1> SUFFICES ASSUME NEW s \in DOMAIN Sources PROVE Entered(s, Sources[s])
      OBVIOUS
  <1>7. PICK t \in Parts : t = (CHOOSE x \in Parts : s \in DOMAIN x) /\ s \in DOMAIN t
    BY DEF Sources
  <1>8. Sources[s] = t[s] BY <1>7 DEF Sources
  <1> QED BY <1>6, <1>7, <1>8 DEF Good

Excluded == {"reserved", "abolished", "removed", "truncated", "contact", "target"}
Screened == {"us_domain_delegated", "coza_queue", "squidguard_blacklist", "internic_zone",
             "jpnic_register"}

LEMMA LineFacts ==
  ASSUME NEW K, NEW N, NEW Y, NEW l \in L(K, N, Y)
  PROVE  l.kind \in K /\ l.year \in Y /\ l.run = 0
  BY DEF L

LEMMA BesideFacts ==
  ASSUME NEW K, NEW Y, NEW O, NEW R, NEW l \in Beside(K, Y, O, R)
  PROVE  l.kind \in K /\ l.year \in Y /\ l.run \in R
  BY DEF Beside

\* What the forms of a source's lines say.
LEMMA FormFacts ==
  ASSUME Parse \in Parsers, NEW l \in Forms
  PROVE  /\ Parse \notin Screened => l.kind \notin Excluded
         /\ Parse = "usenet_journal" /\ Type \in {"artifact_listing", "whois_creation"}
              => l.run = 0
         /\ Parse = "odp" /\ l.kind = "stamp" => l.year # 0
         /\ Parse = "ripe_dbase_1999" /\ l.kind = "stamp" => l.year = 1999
         /\ Parse = "namewinner_expiring" => l.year \in TwoDigit
  <1> HIDE DEF Parse, Type
  <1>1. CASE Parse \in {"early_web_cdx", "nypw", "nypw_timemap_nonok", "arquivo_cdxj"}
    <2>1. Forms = L({"200", "302", "404", "noanswer", "torn"}, {Some}, Years) BY <1>1 DEF Forms
    <2> QED BY <1>1, <2>1, LineFacts DEF Excluded
  <1>2. CASE Parse \in {"ukwa_geoindex", "ukwa_link_source"}
    <2>1. Forms = L({"bare", "torn"}, {Some}, Years) BY <1>2 DEF Forms
    <2> QED BY <1>2, <2>1, LineFacts DEF Excluded
  <1>3. CASE Parse \in {"ukwa_link_target", "ukwa_link_target_bare"}
    <2>1. Forms = L({"bare", "www", "deeper", "torn"}, {Some}, Years) BY <1>3 DEF Forms
    <2> QED BY <1>3, <2>1, LineFacts DEF Excluded
  <1>4. CASE Parse = "domain_year_captures"
    <2>1. Forms = Beside({"row", "torn"}, Years, {0}, Digits) BY <1>4 DEF Forms
    <2> QED BY <1>4, <2>1, BesideFacts DEF Excluded, PostDigits
  <1>5. CASE Parse = "domain_creation_csv"
    <2>1. Forms = L({"row", "idn", "torn"}, {Some}, Years) BY <1>5 DEF Forms
    <2> QED BY <1>5, <2>1, LineFacts DEF Excluded
  <1>6. CASE Parse = "namewinner_expiring"
    <2>1. Forms = L({"row", "idn", "torn"}, {Some}, Years \cap TwoDigit) BY <1>6 DEF Forms
    <2> QED BY <1>6, <2>1, LineFacts DEF Excluded
  <1>7. CASE Parse \in {"rdap_snapshot", "cdx_snapshot"}
    <2>1. Forms = L({"record", "failed"}, {Some}, Years) BY <1>7 DEF Forms
    <2> QED BY <1>7, <2>1, LineFacts DEF Excluded
  <1>8. CASE Parse \in {"internet_scout", "ncsa_whats_new"}
    <2>1. Forms = Beside({"record"}, Years \cup {0}, {0}, Digits) BY <1>8 DEF Forms
    <2> QED BY <1>8, <2>1, BesideFacts DEF Excluded, PostDigits
  <1>9. CASE Parse = "fac_filings"
    <2>1. Forms = L({"row"}, {Some}, Years) BY <1>9 DEF Forms
    <2> QED BY <1>9, <2>1, LineFacts DEF Excluded
  <1>10. CASE Parse = "afnic_fr"
    <2>1. Forms = Beside({"row"}, Years \cup {0}, Years \cup {0}, {0}) BY <1>10 DEF Forms
    <2> QED BY <1>10, <2>1, BesideFacts DEF Excluded, PostDigits
  <1>11. CASE Parse \in {"expansion_links", "expansion_directory"}
    <2>1. Forms = Beside({"curated", "plain", "failed"}, Years, {0}, Digits) BY <1>11 DEF Forms
    <2> QED BY <1>11, <2>1, BesideFacts DEF Excluded, PostDigits
  <1>12. CASE Parse = "usenet_journal"
    <2>1. Forms = Beside({"post", "torn"}, Years, {0}, PostDigits) BY <1>12 DEF Forms
    <2> QED BY <1>12, <2>1, BesideFacts DEF Excluded, PostDigits
  <1>13. CASE Parse \in {"usenet_whois_journal", "registry_items"}
    <2>1. Forms = Beside({"post", "torn"}, Years, Years \cup {0}, Digits) BY <1>13 DEF Forms
    <2> QED BY <1>13, <2>1, BesideFacts DEF Excluded, PostDigits
  <1>14. CASE Parse = "udrp_proceedings"
    <2>1. Forms = Beside({"numbered", "unnumbered"}, Years, Years \cup {0}, Digits)
      BY <1>14 DEF Forms
    <2> QED BY <1>14, <2>1, BesideFacts DEF Excluded, PostDigits
  <1>15. CASE Parse \in {"isc_survey", "junkfilter_split", "chastity_split",
                        "granitecanyon_split", "cctld_capture_split"}
    <2>1. Forms = L({"name"}, {Some}, {0}) BY <1>15 DEF Forms
    <2> QED BY <1>15, <2>1, LineFacts DEF Excluded
  <1>16. CASE Parse = "us_domain_delegated"
    BY <1>16 DEF Screened
  <1>17. CASE Parse = "coza_queue"
    BY <1>17 DEF Screened
  <1>18. CASE Parse = "squidguard_blacklist"
    BY <1>18 DEF Screened
  <1>19. CASE Parse = "internic_zone"
    BY <1>19 DEF Screened
  <1>20. CASE Parse = "iedr_register"
    <2>1. Forms = L({"footer"}, {Some}, Years) \cup L({"name", "own"}, Names, {0})
      BY <1>20 DEF Forms
    <2> QED BY <1>20, <2>1, LineFacts DEF Excluded
  <1>21. CASE Parse = "jpnic_register"
    BY <1>21 DEF Screened
  <1>22. CASE Parse = "cctld_register_inbody"
    <2>1. Forms = L({"row"}, Names, Years) \cup L({"name"}, Names, {0}) BY <1>22 DEF Forms
    <2> QED BY <1>22, <2>1, LineFacts DEF Excluded
  <1>23. CASE Parse = "edelman_whois"
    <2>1. Forms = L({"subject"}, Names, {0}) \cup L({"registered", "triple"}, {Some}, Years)
      BY <1>23 DEF Forms
    <2> QED BY <1>23, <2>1, LineFacts DEF Excluded
  <1>24. CASE Parse = "can_domain_registry_notices"
    <2>1. Forms = L({"subject"}, Names, {0}) \cup L({"approved", "modified"}, {Some}, Years)
      BY <1>24 DEF Forms
    <2> QED BY <1>24, <2>1, LineFacts DEF Excluded
  <1>25. CASE Parse = "ripe_dbase_changed"
    <2>1. Forms = L({"object"}, Names, {0}) \cup L({"reverse"}, {Some}, {0})
                  \cup L({"changed"}, {Some}, Years)
      BY <1>25 DEF Forms
    <2> QED BY <1>25, <2>1, LineFacts DEF Excluded
  <1>26. CASE Parse = "ripe_dbase_1999"
    <2>1. Forms = L({"stamp"}, {Some}, {1999}) \cup L({"object"}, Names, {0})
                  \cup L({"changed"}, {Some}, Years)
      BY <1>26 DEF Forms
    <2> QED BY <1>26, <2>1, LineFacts DEF Excluded
  <1>27. CASE Parse = "mynic_listing"
    <2>1. Forms = L({"heading"}, {Some}, Years) \cup L({"new", "delete"}, Names, {0})
      BY <1>27 DEF Forms
    <2> QED BY <1>27, <2>1, LineFacts DEF Excluded
  <1>28. CASE Parse = "odp"
    <2>1. Forms = L({"stamp"}, {Some}, Years) \cup L({"site"}, Names, {0}) BY <1>28 DEF Forms
    <2> QED BY <1>28, <2>1, LineFacts, ReadersAssumption DEF Excluded
  <1> QED
    BY <1>1, <1>2, <1>3, <1>4, <1>5, <1>6, <1>7, <1>8, <1>9, <1>10, <1>11, <1>12, <1>13, <1>14,
       <1>15, <1>16, <1>17, <1>18, <1>19, <1>20, <1>21, <1>22, <1>23, <1>24, <1>25, <1>26, <1>27,
       <1>28 DEF Parsers, OwnYear, ByEdition

Cited(r) == GateReads /\ Parse # "mynic_listing" => (r.runs # <<>> => Head(r.runs) = r.year)

LEMMA SourceFacts ==
  ASSUME source \in DOMAIN Sources
  PROVE  /\ Parse \in Parsers
         /\ Parse \in Ungated => ~GateReads
         /\ Parse = "afnic_fr" => ~GateReads
         /\ Parse = "usenet_journal" /\ GateReads
              => Type \in {"artifact_listing", "whois_creation"}
  <1>1. Entered(source, Sources[source]) BY SourceTable
  <1>2. Parse = Sources[source].parse /\ Type = Sources[source].type BY DEF Parse, Type
  <1> QED BY <1>1, <1>2 DEF Entered, Gated, GateReads

\* The digits a value carries behind a year leave it the first.
LEMMA RunsFacts ==
  ASSUME NEW y, NEW l
  PROVE  Head(<<y>>) = y /\ Head(<<y>> \o Run(l)) = y /\ (l.run = 0 => Run(l) = <<>>)
  <1>1. CASE l.run = 0
    <2>1. Run(l) = <<>> BY <1>1 DEF Run
    <2> QED BY <2>1
  <1>2. CASE l.run # 0
    <2>1. Run(l) = <<l.run>> BY <1>2 DEF Run
    <2> QED BY <1>2, <2>1
  <1> QED BY <1>1, <1>2

\* A reader of lines that state their own year.
LEMMA OwnRows ==
  ASSUME source \in DOMAIN Sources, Parse \in OwnYear, NEW l \in Forms, NEW r \in Made(l),
         r.year \in Window
  PROVE  r.name = l.name /\ r.year = l.year /\ Cited(r)
  <1> HIDE DEF Parse
  <1>1. CASE Parse = "early_web_cdx"
    <2>1. r \in early_web_cdx(l) BY <1>1 DEF Made
    <2> QED BY <2>1, RunsFacts DEF early_web_cdx, Dated, When, Row, Cited
  <1>2. CASE Parse = "nypw"
    <2>1. r \in nypw(l) BY <1>2 DEF Made
    <2> QED BY <2>1, RunsFacts DEF nypw, Dated, When, Row, Cited
  <1>3. CASE Parse = "nypw_timemap_nonok"
    <2>1. r \in nypw_timemap_nonok(l) BY <1>3 DEF Made
    <2> QED BY <2>1, RunsFacts DEF nypw_timemap_nonok, Dated, When, Row, Cited
  <1>4. CASE Parse = "arquivo_cdxj"
    <2>1. r \in arquivo_cdxj(l) BY <1>4 DEF Made
    <2> QED BY <2>1, RunsFacts DEF arquivo_cdxj, Dated, When, Row, Cited
  <1>5. CASE Parse = "ukwa_geoindex"
    <2>1. r \in ukwa_geoindex(l) BY <1>5 DEF Made
    <2> QED BY <2>1, RunsFacts DEF ukwa_geoindex, Dated, When, Row, Cited
  <1>6. CASE Parse = "domain_year_captures"
    <2>1. r \in domain_year_captures(l) BY <1>6 DEF Made
    <2> QED BY <2>1, RunsFacts DEF domain_year_captures, Dated, When, Row, Cited
  <1>7. CASE Parse = "domain_creation_csv"
    <2>1. r \in domain_creation_csv(l) BY <1>7 DEF Made
    <2> QED BY <2>1, RunsFacts DEF domain_creation_csv, Dated, When, Row, Cited
  <1>8. CASE Parse = "rdap_snapshot"
    <2>1. r \in rdap_snapshot(l) BY <1>8 DEF Made
    <2> QED BY <2>1, RunsFacts DEF rdap_snapshot, Dated, When, Row, Cited
  <1>9. CASE Parse = "cdx_snapshot"
    <2>1. r \in cdx_snapshot(l) BY <1>9 DEF Made
    <2> QED BY <2>1, RunsFacts DEF cdx_snapshot, Dated, When, Row, Cited
  <1>10. CASE Parse = "internet_scout"
    <2>1. r \in internet_scout(l) BY <1>10 DEF Made
    <2> QED BY <1>10, <2>1, SourceFacts DEF internet_scout, Dated, When, Row, Cited, Ungated
  <1>11. CASE Parse = "fac_filings"
    <2>1. r \in fac_filings(l) BY <1>11 DEF Made
    <2> QED BY <2>1, RunsFacts DEF fac_filings, Dated, When, Row, Cited
  <1>12. CASE Parse = "ncsa_whats_new"
    <2>1. r \in ncsa_whats_new(l) BY <1>12 DEF Made
    <2> QED BY <2>1, RunsFacts DEF ncsa_whats_new, Dated, When, Row, Cited
  <1>13. CASE Parse = "namewinner_expiring"
    <2>1. r \in namewinner_expiring(l) BY <1>13 DEF Made
    <2>2. l.year \in 1931..2030 BY <1>13, SourceFacts, FormFacts DEF TwoDigit
    <2>3. (IF l.year % 100 <= 30 THEN 2000 + (l.year % 100) ELSE 1900 + (l.year % 100)) = l.year
      BY <2>2
    <2> QED BY <2>1, <2>3 DEF namewinner_expiring, When, Row, Cited
  <1>14. CASE Parse = "ukwa_link_source"
    <2>1. r \in ukwa_link_source(l) BY <1>14 DEF Made
    <2> QED BY <2>1, RunsFacts DEF ukwa_link_source, Dated, When, Row, Cited
  <1>15. CASE Parse = "ukwa_link_target"
    <2>1. r \in ukwa_link_target(l) BY <1>15 DEF Made
    <2> QED BY <2>1, RunsFacts DEF ukwa_link_target, Dated, When, Row, Cited
  <1>16. CASE Parse = "ukwa_link_target_bare"
    <2>1. r \in ukwa_link_target_bare(l) BY <1>16 DEF Made
    <2> QED BY <2>1, RunsFacts DEF ukwa_link_target_bare, Dated, When, Row, Cited
  <1>17. CASE Parse = "expansion_links"
    <2>1. r \in expansion_links(l) BY <1>17 DEF Made
    <2> QED
      BY <1>17, <2>1, SourceFacts DEF expansion_links, Linked, Dated, When, Row, Cited, Ungated
  <1>18. CASE Parse = "expansion_directory"
    <2>1. r \in expansion_directory(l) BY <1>18 DEF Made
    <2> QED
      BY <1>18, <2>1, SourceFacts DEF expansion_directory, Linked, Dated, When, Row, Cited,
         Ungated
  <1>19. CASE Parse = "usenet_journal"
    <2>1. r \in usenet_journal(l) BY <1>19 DEF Made
    <2>2. r.name = l.name /\ r.year = l.year /\ r.runs = Run(l)
      BY <2>1 DEF usenet_journal, Dated, When, Row
    <2>3. GateReads => l.run = 0 BY <1>19, SourceFacts, FormFacts
    <2> QED BY <2>2, <2>3, RunsFacts DEF Cited
  <1>20. CASE Parse = "usenet_whois_journal"
    <2>1. r \in usenet_whois_journal(l) BY <1>20 DEF Made
    <2> QED BY <2>1, RunsFacts DEF usenet_whois_journal, Dated, When, Row, Cited
  <1>21. CASE Parse = "registry_items"
    <2>1. r \in registry_items(l) BY <1>21 DEF Made
    <2> QED BY <2>1, RunsFacts DEF registry_items, Dated, When, Row, Cited
  <1>22. CASE Parse = "udrp_proceedings"
    <2>1. r \in udrp_proceedings(l) BY <1>22 DEF Made
    <2> QED BY <2>1, RunsFacts DEF udrp_proceedings, Dated, When, Row, Cited
  <1> QED
    BY <1>1, <1>2, <1>3, <1>4, <1>5, <1>6, <1>7, <1>8, <1>9, <1>10, <1>11, <1>12, <1>13, <1>14,
       <1>15, <1>16, <1>17, <1>18, <1>19, <1>20, <1>21, <1>22 DEF OwnYear

\* Line i is the item a row is about.
ItemOn(r, i) ==
  /\ NameOf(i) = r.name /\ r.year \in DateOf(i) /\ file[i].kind \notin Excluded
  /\ Parse = "jpnic_register" =>
       LET s == LastBefore(i, {"section"}) IN s # 0 /\ file[s].name = r.under

FileTyped ==
  /\ source \in DOMAIN Sources
  /\ Len(file) \in Nat /\ DOMAIN file = 1..Len(file) /\ \A i \in DOMAIN file : file[i] \in Forms

LEMMA LeastLine ==
  ASSUME NEW at, at \subseteq Nat, at # {} PROVE \E i \in at : \A j \in at : i <= j
  <1> DEFINE R == OpToRel(<, Nat)
  <1>1. \A x, y \in Nat : <<x, y>> \in R <=> x < y BY DEF OpToRel
  <1>2. IsWellFoundedOn(R, Nat) BY NatLessThanWellFounded DEF R
  <1> HIDE DEF R
  <1>3. PICK i \in at : \A j \in at : <<j, i>> \notin R BY <1>2, WFMin
  <1>4. \A j \in at : ~ (j < i) BY <1>1, <1>3
  <1> QED BY <1>3, <1>4

LEMMA LastLine ==
  ASSUME NEW n \in Nat, NEW at, at \subseteq 1..n, at # {}
  PROVE  \E i \in at : \A j \in at : j <= i
  <1> DEFINE back == {n - i : i \in at}
  <1>1. \A i \in at : i \in 1..n /\ n - i \in Nat OBVIOUS
  <1>6. back \subseteq Nat /\ back # {} BY <1>1
  <1>2. PICK b \in back : \A c \in back : b <= c BY <1>6, LeastLine
  <1>3. PICK i \in at : b = n - i BY <1>2
  <1>4. \A j \in at : n - i <= n - j BY <1>2, <1>3
  <1>5. \A j \in at : j <= i BY <1>1, <1>3, <1>4
  <1> QED BY <1>3, <1>5

\* A reader of lines that state their own year: the line is the item.
LEMMA OwnItem ==
  ASSUME FileTyped, Parse \in OwnYear, NEW i \in DOMAIN file, NEW r \in Made(file[i]),
         r.year \in Window
  PROVE  Cited(r) /\ ItemOn(r, i)
  <1> HIDE DEF Parse
  <1>1. file[i] \in Forms /\ source \in DOMAIN Sources BY DEF FileTyped
  <1>2. r.name = file[i].name /\ r.year = file[i].year /\ Cited(r) BY <1>1, OwnRows
  <1>3. NameOf(i) = file[i].name BY DEF NameOf, OwnYear
  <1>4. file[i].year \in DateOf(i)
    <2>1. Parse \notin ByName BY DEF OwnYear, ByName
    <2>2. DateOf(i) = {file[i].year} \cup {FirstYear(k) : k \in {"stamp", "serial", "footer"}}
      BY <2>1 DEF DateOf, OwnYear
    <2> QED BY <2>2
  <1>5. file[i].kind \notin Excluded
    <2>1. Parse \in Parsers /\ Parse \notin Screened BY DEF Parsers, OwnYear, Screened
    <2> QED BY <1>1, <2>1, FormFacts
  <1>6. Parse # "jpnic_register" BY DEF OwnYear
  <1> QED BY <1>2, <1>3, <1>4, <1>5, <1>6 DEF ItemOn

\* A reader whose file's name dates every line.
LEMMA EditionItem ==
  ASSUME FileTyped, Parse \in ByEdition, NEW i \in DOMAIN file, NEW r \in Made(file[i]),
         r.year \in Window
  PROVE  Cited(r) /\ ItemOn(r, i)
  <1> HIDE DEF Parse
  <1> DEFINE l == file[i]
  <1>1. l \in Forms /\ Parse \in Parsers BY DEF FileTyped, Parsers
  <1>2. r \in Listed(l, <<named>>) /\ l.kind \notin Excluded
    <2> HIDE DEF l
    <2>1. CASE Parse \in {"isc_survey", "junkfilter_split", "chastity_split",
                          "granitecanyon_split", "cctld_capture_split"}
      <3>1. r \in Listed(l, <<named>>)
        <4>1. CASE Parse = "isc_survey" BY <4>1 DEF l, Made, isc_survey
        <4>2. CASE Parse = "junkfilter_split" BY <4>2 DEF l, Made, junkfilter_split
        <4>3. CASE Parse = "chastity_split" BY <4>3 DEF l, Made, chastity_split
        <4>4. CASE Parse = "granitecanyon_split" BY <4>4 DEF l, Made, granitecanyon_split
        <4>5. CASE Parse = "cctld_capture_split" BY <4>5 DEF l, Made, cctld_capture_split
        <4> QED BY <2>1, <4>1, <4>2, <4>3, <4>4, <4>5
      <3>2. Parse \notin Screened BY <2>1 DEF Screened
      <3> QED BY <1>1, <3>1, <3>2, FormFacts
    <2>2. CASE Parse = "us_domain_delegated"
      <3>1. r \in us_domain_delegated(l) BY <2>2 DEF l, Made
      <3> QED BY <3>1 DEF us_domain_delegated, When, Excluded
    <2>3. CASE Parse = "coza_queue"
      <3>1. r \in coza_queue(l) BY <2>3 DEF l, Made
      <3> QED BY <3>1 DEF coza_queue, When, Excluded
    <2> QED BY <2>1, <2>2, <2>3 DEF ByEdition
  <1>3. named \in Window /\ r.name = l.name /\ r.year = named /\ r.runs = <<named>>
    BY <1>2 DEF Listed, When, Row
  <1>4. named # 0 BY <1>3 DEF Window
  <1>5. DateOf(i) = {named} BY <1>4 DEF DateOf, ByName, ByEdition
  <1>6. NameOf(i) = l.name BY DEF NameOf, ByEdition
  <1>7. Parse # "jpnic_register" BY DEF ByEdition
  <1> QED BY <1>2, <1>3, <1>5, <1>6, <1>7 DEF ItemOn, Cited

\* A reader whose file's first stamp, serial or footer dates every line.
LEMMA HeaderItem ==
  ASSUME FileTyped, Parse \in {"squidguard_blacklist", "internic_zone", "iedr_register"},
         NEW i \in DOMAIN file, NEW r \in Made(file[i]), r.year \in Window
  PROVE  Cited(r) /\ ItemOn(r, i)
  <1> HIDE DEF Parse
  <1> DEFINE l == file[i]
             dates == {l.year} \cup {FirstYear(k) : k \in {"stamp", "serial", "footer"}}
  <1>1. NameOf(i) = l.name /\ Parse # "jpnic_register" BY DEF NameOf
  <1>2. CASE Parse = "squidguard_blacklist"
    <2> DEFINE year == IF named # 0 THEN named ELSE FirstYear("stamp")
    <2>1. r \in squidguard_blacklist(l) BY <1>2 DEF Made
    <2>2. r.name = l.name /\ r.year = year /\ r.runs = <<year>> /\ l.kind \in {"added", "bare"}
      BY <2>1 DEF squidguard_blacklist, When, Row
    <2>3. year \in DateOf(i)
      <3>1. CASE named # 0
        <4>1. DateOf(i) = {named} BY <1>2, <3>1 DEF DateOf, ByName
        <4> QED BY <3>1, <4>1
      <3>2. CASE named = 0
        <4>1. DateOf(i) = dates BY <1>2, <3>2 DEF DateOf, ByName
        <4> QED BY <3>2, <4>1
      <3> QED BY <3>1, <3>2
    <2> QED BY <1>1, <2>2, <2>3 DEF ItemOn, Cited, Excluded
  <1>3. CASE Parse = "internic_zone"
    <2>1. r \in internic_zone(l) BY <1>3 DEF Made
    <2>2. r.name = l.name /\ r.year = FirstYear("serial") /\ r.runs = <<r.year>>
          /\ l.kind = "owner"
      BY <2>1 DEF internic_zone, When, Row
    <2>3. DateOf(i) = dates BY <1>3 DEF DateOf, ByName
    <2> QED BY <1>1, <2>2, <2>3 DEF ItemOn, Cited, Excluded
  <1>4. CASE Parse = "iedr_register"
    <2>1. r \in iedr_register(l) BY <1>4 DEF Made
    <2>2. r.name = l.name /\ r.year = FirstYear("footer") /\ r.runs = <<r.year>>
          /\ l.kind = "name"
      BY <2>1 DEF iedr_register, When, Row
    <2>3. DateOf(i) = dates BY <1>4 DEF DateOf, ByName
    <2> QED BY <1>1, <2>2, <2>3 DEF ItemOn, Cited, Excluded
  <1> QED BY <1>2, <1>3, <1>4

\* A registration's interval.
LEMMA IntervalItem ==
  ASSUME FileTyped, Parse = "afnic_fr", NEW i \in DOMAIN file, NEW r \in Made(file[i]),
         r.year \in Window
  PROVE  Cited(r) /\ ItemOn(r, i)
  <1> HIDE DEF Parse
  <1> DEFINE l == file[i]
             interval == {y \in Window : y >= l.year /\ (l.other = 0 \/ y <= l.other)}
  <1>1. r \in afnic_fr(l) BY DEF Made
  <1>2. r.name = l.name /\ r.year \in interval BY <1>1 DEF afnic_fr, Row
  <1>3. interval \subseteq DateOf(i) BY DEF DateOf, ByName
  <1>4. NameOf(i) = l.name /\ Parse \notin Screened BY DEF NameOf, Screened
  <1>5. l \in Forms /\ Parse \in Parsers /\ source \in DOMAIN Sources BY DEF FileTyped, Parsers
  <1>6. l.kind \notin Excluded BY <1>4, <1>5, FormFacts
  <1>7. ~GateReads BY <1>5, SourceFacts
  <1> QED BY <1>2, <1>3, <1>4, <1>6, <1>7 DEF ItemOn, Cited

\* A register in the body of a page: a name's own date, or the page's.
LEMMA InbodyItem ==
  ASSUME FileTyped, Parse = "cctld_register_inbody", NEW i \in DOMAIN file,
         NEW r \in Made(file[i]),
         r.year \in Window
  PROVE  Cited(r) /\ ItemOn(r, i)
  <1> HIDE DEF Parse
  <1> DEFINE l     == file[i]
             own   == {j \in DOMAIN file : /\ file[j].name = l.name /\ file[j].kind = "row"
                                             /\ file[j].year \in Window}
             last  == CHOOSE j \in own : \A k \in own : k <= j
             year  == IF own = {} THEN named ELSE file[last].year
             dates == {named} \cup
                        {file[j].year : j \in {j \in DOMAIN file : file[j].name = file[i].name}}
  <1>1. r \in cctld_register_inbody(l) BY DEF Made
  <1>2. r.name = l.name /\ r.year = year /\ r.runs = <<year>>
    BY <1>1 DEF cctld_register_inbody, When, Row
  <1>3. dates \subseteq DateOf(i) BY DEF DateOf, ByName
  <1>4. year \in dates
    <2>1. CASE own = {} BY <2>1
    <2>2. CASE own # {}
      <3>1. own \subseteq 1..Len(file) /\ Len(file) \in Nat BY DEF FileTyped
      <3> HIDE DEF own
      <3>2. \E j \in own : \A k \in own : k <= j BY <2>2, <3>1, LastLine
      <3>3. last \in own BY <3>2
      <3> QED BY <2>2, <3>3 DEF own
    <2> QED BY <2>1, <2>2
  <1>5. NameOf(i) = l.name /\ Parse \notin Screened /\ Parse # "jpnic_register"
    BY DEF NameOf, Screened
  <1>6. l \in Forms /\ Parse \in Parsers BY DEF FileTyped, Parsers
  <1>7. l.kind \notin Excluded BY <1>5, <1>6, FormFacts
  <1> HIDE DEF year, dates, l
  <1> QED BY <1>2, <1>3, <1>4, <1>5, <1>7 DEF ItemOn, Cited, l

\* The first line of a kind, when there is one.
LEMMA FirstFacts ==
  ASSUME NEW at, at \subseteq DOMAIN file, FileTyped, NEW kind, FirstOf(at, kind) # 0
  PROVE  \E j \in at : file[j].kind = kind /\ file[j].year = FirstOf(at, kind)
  <1> DEFINE of    == {j \in at : file[j].kind = kind}
             first == CHOOSE j \in of : \A k \in of : j <= k
  <1>1. of # {} /\ FirstOf(at, kind) = file[first].year BY DEF FirstOf
  <1>2. of \subseteq Nat BY DEF FileTyped
  <1> HIDE DEF of
  <1>3. \E j \in of : \A k \in of : j <= k BY <1>1, <1>2, LeastLine
  <1>4. first \in of BY <1>3
  <1> QED BY <1>1, <1>4 DEF of

\* A line of the block that a subject opens comes before the next subject.
LEMMA BlockFacts ==
  ASSUME FileTyped, NEW i \in DOMAIN file, NEW j \in Block(i)
  PROVE  j \in DOMAIN file /\ j \in i + 1..Next1(i) - 1
  <1> DEFINE at == {k \in DOMAIN file : k > i /\ file[k].kind = "subject"}
             next == CHOOSE k \in at : \A m \in at : k <= m
  <1>1. /\ i \in Nat /\ j \in Nat /\ Len(file) \in Nat /\ j \in DOMAIN file /\ j > i
        /\ j <= Len(file)
        /\ at \subseteq Nat
    BY DEF FileTyped, Block
  <1>2. \A k \in i + 1..j : file[k].kind # "subject" BY DEF Block
  <1>3. Next1(i) = IF at = {} THEN Len(file) + 1 ELSE next BY DEF Next1
  <1>4. CASE at = {} BY <1>1, <1>3, <1>4
  <1>5. CASE at # {}
    <2>1. \A k \in at : k > i /\ file[k].kind = "subject" OBVIOUS
    <2> HIDE DEF at
    <2>2. \E k \in at : \A m \in at : k <= m BY <1>1, <1>5, LeastLine
    <2>3. next \in at BY <2>2
    <2> HIDE DEF next
    <2>4. next \in Nat /\ next > i /\ file[next].kind = "subject" BY <1>1, <2>1, <2>3
    <2>5. ~ (next <= j) BY <1>1, <1>2, <2>4
    <2> QED BY <1>1, <1>3, <1>5, <2>4, <2>5
  <1> QED BY <1>4, <1>5

\* A reader of blocks: the subject takes its own block's date.
LEMMA BlockItem ==
  ASSUME FileTyped, Parse \in {"edelman_whois", "can_domain_registry_notices"},
         NEW i \in DOMAIN file, line = i, NEW r \in Made(file[i]), r.year \in Window
  PROVE  Cited(r) /\ ItemOn(r, i)
  <1> HIDE DEF Parse
  <1> DEFINE l     == file[i]
             dates == {file[j].year : j \in {j \in i + 1..Next1(i) - 1 : file[j].kind # "modified"}}
  <1>1. Block(i) \subseteq DOMAIN file BY DEF Block
  <1>2. \A kind \in {"registered", "triple", "approved"} :
          FirstOf(Block(i), kind) # 0 => FirstOf(Block(i), kind) \in dates
    <2> SUFFICES ASSUME NEW kind \in {"registered", "triple", "approved"},
                        FirstOf(Block(i), kind) # 0
                 PROVE  FirstOf(Block(i), kind) \in dates
        OBVIOUS
    <2>1. PICK j \in Block(i) : file[j].kind = kind /\ file[j].year = FirstOf(Block(i), kind)
      BY <1>1, FirstFacts
    <2>2. j \in i + 1..Next1(i) - 1 BY BlockFacts
    <2>3. kind # "modified" OBVIOUS
    <2> QED BY <2>1, <2>2, <2>3
  <1>3. r.name = l.name /\ l.kind = "subject" /\ r.runs = <<r.year>> /\ r.year \in dates
    <2>1. CASE Parse = "edelman_whois"
      <3> DEFINE registered == FirstOf(Block(i), "registered")
                 year == IF registered # 0 THEN registered ELSE FirstOf(Block(i), "triple")
      <3>1. r \in edelman_whois(l) BY <2>1 DEF Made
      <3>2. r.name = l.name /\ l.kind = "subject" /\ r.runs = <<year>> /\ r.year = year
        BY <3>1 DEF edelman_whois, When, Row
      <3>3. year # 0 BY <3>2 DEF Window
      <3> QED BY <1>2, <3>2, <3>3
    <2>2. CASE Parse = "can_domain_registry_notices"
      <3> DEFINE year == FirstOf(Block(i), "approved")
      <3>1. r \in can_domain_registry_notices(l) BY <2>2 DEF Made
      <3>2. r.name = l.name /\ l.kind = "subject" /\ r.runs = <<year>> /\ r.year = year
        BY <3>1 DEF can_domain_registry_notices, When, Row
      <3>3. year # 0 BY <3>2 DEF Window
      <3> QED BY <1>2, <3>2, <3>3
    <2> QED BY <2>1, <2>2
  <1>4. dates \subseteq DateOf(i) BY DEF DateOf, ByName
  <1>5. NameOf(i) = l.name /\ Parse # "jpnic_register" BY DEF NameOf
  <1> HIDE DEF dates
  <1> QED BY <1>3, <1>4, <1>5 DEF ItemOn, Cited, Excluded

-----------------------------------------------------------------------------
(* What is carried from line to line, of the n lines before. *)

HasStamp(n) == \E j \in 1..n : file[j].kind = "stamp"
ObjectAt(n) == LET o == LastBefore(n, {"object", "reverse"})
               IN IF o = 0 \/ file[o].kind = "reverse" THEN "none" ELSE file[o].name
SectionAt(n) == LET s == LastBefore(n, {"section"}) IN IF s = 0 THEN "none" ELSE file[s].name
HeadingAt(n) == LET h == LastBefore(n, {"heading"}) IN IF h = 0 THEN 0 ELSE file[h].year

Carriers == {"ripe_dbase_changed", "jpnic_register", "ripe_dbase_1999", "mynic_listing", "odp"}
Carries(c, n) ==
  /\ Parse = "ripe_dbase_changed" => c.name = ObjectAt(n)
  /\ Parse = "jpnic_register" => c.name = SectionAt(n)
  /\ Parse = "mynic_listing" => c.year = HeadingAt(n)
  /\ Parse \in {"ripe_dbase_1999", "odp"} => c.year = IF HasStamp(n) THEN FirstYear("stamp") ELSE 0
  /\ c = [year |-> c.year, name |-> c.name]

LEMMA LastBeforeFacts ==
  ASSUME FileTyped, NEW kinds, NEW i \in DOMAIN file
  PROVE  LastBefore(i, kinds) = IF file[i].kind \in kinds THEN i ELSE LastBefore(i - 1, kinds)
  <1> DEFINE At(n) == {j \in 1..n : file[j].kind \in kinds}
             Greatest(at) == IF at = {} THEN 0 ELSE CHOOSE j \in at : \A k \in at : k <= j
  <1>1. \A n : LastBefore(n, kinds) = Greatest(At(n)) BY DEF LastBefore
  <1>2. i \in Nat /\ i > 0 BY DEF FileTyped
  <1>3. CASE file[i].kind \in kinds
    <2>1. i \in At(i) /\ \A k \in At(i) : k \in Nat /\ k <= i BY <1>2, <1>3
    <2> HIDE DEF At
    <2>2. \A j \in At(i) : (\A k \in At(i) : k <= j) => j = i BY <1>2, <2>1
    <2>3. Greatest(At(i)) = i BY <2>1, <2>2
    <2> QED BY <1>1, <1>3, <2>3
  <1>4. CASE file[i].kind \notin kinds
    <2>1. At(i) = At(i - 1) BY <1>2, <1>4
    <2> HIDE DEF At, Greatest
    <2> QED BY <1>1, <1>4, <2>1
  <1> QED BY <1>3, <1>4

LEMMA NoneBefore ==
  ASSUME NEW kinds
  PROVE  /\ LastBefore(0, kinds) = 0
         /\ \A n \in Nat : LastBefore(n, kinds) = 0 <=> \A j \in 1..n : file[j].kind \notin kinds
  <1>1. \A n \in Nat : LastBefore(n, kinds) = 0 <=> \A j \in 1..n : file[j].kind \notin kinds
    <2> SUFFICES ASSUME NEW n \in Nat
                 PROVE  LastBefore(n, kinds) = 0 <=> \A j \in 1..n : file[j].kind \notin kinds
        OBVIOUS
    <2> DEFINE at   == {j \in 1..n : file[j].kind \in kinds}
               last == CHOOSE j \in at : \A k \in at : k <= j
    <2>1. LastBefore(n, kinds) = IF at = {} THEN 0 ELSE last BY DEF LastBefore
    <2>2. at \subseteq 1..n /\ (at = {} <=> \A j \in 1..n : file[j].kind \notin kinds) OBVIOUS
    <2> HIDE DEF at
    <2>3. CASE at = {} BY <2>1, <2>2, <2>3
    <2>4. CASE at # {}
      <3>1. \E j \in at : \A k \in at : k <= j BY <2>2, <2>4, LastLine
      <3>2. last \in at BY <3>1
      <3> HIDE DEF last
      <3>3. last # 0 BY <2>2, <3>2
      <3> QED BY <2>1, <2>2, <2>4, <3>3
    <2> QED BY <2>3, <2>4
  <1>2. LastBefore(0, kinds) = 0 BY <1>1
  <1> QED BY <1>1, <1>2

\* The first stamp.
LEMMA StampFacts ==
  ASSUME FileTyped, NEW i \in DOMAIN file, file[i].kind = "stamp"
  PROVE  /\ ~HasStamp(i - 1) => FirstYear("stamp") = file[i].year
         /\ \E j \in DOMAIN file : file[j].kind = "stamp" /\ FirstYear("stamp") = file[j].year
  <1> DEFINE at    == {j \in DOMAIN file : file[j].kind = "stamp"}
             first == CHOOSE j \in at : \A k \in at : j <= k
  <1>1. FirstYear("stamp") = IF at = {} THEN 0 ELSE file[first].year BY DEF FirstYear
  <1>2. i \in at /\ at \subseteq Nat /\ \A j \in at : j \in DOMAIN file /\ file[j].kind = "stamp"
    BY DEF FileTyped
  <1>3. ~HasStamp(i - 1) => \A j \in at : i <= j BY DEF HasStamp, FileTyped
  <1> HIDE DEF at
  <1>4. \E j \in at : \A k \in at : j <= k BY <1>2, LeastLine
  <1>5. first \in at /\ \A k \in at : first <= k BY <1>4
  <1> HIDE DEF first
  <1>6. ~HasStamp(i - 1) => first = i BY <1>2, <1>3, <1>5
  <1> QED BY <1>1, <1>2, <1>5, <1>6

LEMMA StampYears ==
  ASSUME FileTyped, Parse \in {"ripe_dbase_1999", "odp"}, NEW n \in 0..Len(file), HasStamp(n)
  PROVE  FirstYear("stamp") # 0 /\ (Parse = "ripe_dbase_1999" => FirstYear("stamp") = 1999)
  <1> HIDE DEF Parse
  <1>1. PICK i \in 1..n : file[i].kind = "stamp" BY DEF HasStamp
  <1>2. i \in DOMAIN file BY DEF FileTyped
  <1>3. PICK j \in DOMAIN file : file[j].kind = "stamp" /\ FirstYear("stamp") = file[j].year
    BY <1>1, <1>2, StampFacts
  <1>4. file[j] \in Forms /\ Parse \in Parsers BY DEF FileTyped, Parsers
  <1> QED BY <1>3, <1>4, FormFacts

\* Nothing is carried at first, and each line leaves what it should.
LEMMA CarryStarts == carried = [year |-> 0, name |-> "none"] => Carries(carried, 0)
  <1>1. ~HasStamp(0) BY DEF HasStamp
  <1> HIDE DEF Parse
  <1> QED BY <1>1, NoneBefore DEF Carries, ObjectAt, SectionAt, HeadingAt

LEMMA CarryStays ==
  ASSUME FileTyped, NEW i \in DOMAIN file, Carries(carried, i - 1)
  PROVE  Carries(Carry(file[i]), i)
  <1> HIDE DEF Parse
  <1> DEFINE l == file[i]
             c == Carry(l)
  <1>1. carried = [year |-> carried.year, name |-> carried.name] BY DEF Carries
  <1>2. CASE Parse = "ripe_dbase_changed"
    <2>1. c = IF l.kind \in {"object", "reverse"}
              THEN [carried EXCEPT !.name = IF l.kind = "object" THEN l.name ELSE "none"]
              ELSE carried
      BY <1>2 DEF Carry
    <2>2. c.name = (IF l.kind \in {"object", "reverse"}
                    THEN IF l.kind = "object" THEN l.name ELSE "none"
                    ELSE carried.name) /\ c = [year |-> c.year, name |-> c.name]
      BY <1>1, <2>1
    <2>3. carried.name = ObjectAt(i - 1) BY <1>2 DEF Carries
    <2>4. c.name = ObjectAt(i)
      <3>1. i # 0 BY DEF FileTyped
      <3> HIDE DEF c
      <3> QED BY <2>2, <2>3, <3>1, LastBeforeFacts DEF ObjectAt
    <2> QED BY <1>2, <2>2, <2>4 DEF Carries
  <1>3. CASE Parse = "jpnic_register"
    <2>1. c = IF l.kind = "section" THEN [carried EXCEPT !.name = l.name] ELSE carried
      BY <1>3 DEF Carry
    <2>2. c.name = (IF l.kind = "section" THEN l.name ELSE carried.name)
          /\ c = [year |-> c.year, name |-> c.name]
      BY <1>1, <2>1
    <2>3. carried.name = SectionAt(i - 1) BY <1>3 DEF Carries
    <2>4. c.name = SectionAt(i)
      <3>1. i # 0 BY DEF FileTyped
      <3> HIDE DEF c
      <3> QED BY <2>2, <2>3, <3>1, LastBeforeFacts DEF SectionAt
    <2> QED BY <1>3, <2>2, <2>4 DEF Carries
  <1>4. CASE Parse = "mynic_listing"
    <2>1. c = IF l.kind = "heading" THEN [carried EXCEPT !.year = l.year] ELSE carried
      BY <1>4 DEF Carry
    <2>2. c.year = (IF l.kind = "heading" THEN l.year ELSE carried.year)
          /\ c = [year |-> c.year, name |-> c.name]
      BY <1>1, <2>1
    <2>3. carried.year = HeadingAt(i - 1) BY <1>4 DEF Carries
    <2>4. c.year = HeadingAt(i)
      <3>1. i # 0 BY DEF FileTyped
      <3> HIDE DEF c
      <3> QED BY <2>2, <2>3, <3>1, LastBeforeFacts DEF HeadingAt
    <2> QED BY <1>4, <2>2, <2>4 DEF Carries
  <1>5. CASE Parse \in {"ripe_dbase_1999", "odp"}
    <2>1. c = IF l.kind = "stamp" /\ carried.year = 0 THEN [carried EXCEPT !.year = l.year]
              ELSE carried
      BY <1>5 DEF Carry
    <2>2. c.year = (IF l.kind = "stamp" /\ carried.year = 0 THEN l.year ELSE carried.year)
          /\ c = [year |-> c.year, name |-> c.name]
      BY <1>1, <2>1
    <2>3. carried.year = IF HasStamp(i - 1) THEN FirstYear("stamp") ELSE 0 BY <1>5 DEF Carries
    <2>4. HasStamp(i) <=> HasStamp(i - 1) \/ l.kind = "stamp" BY DEF HasStamp, FileTyped
    <2>5. c.year = IF HasStamp(i) THEN FirstYear("stamp") ELSE 0
      <3>1. HasStamp(i - 1) => FirstYear("stamp") # 0
        <4>1. i - 1 \in 0..Len(file) BY DEF FileTyped
        <4> QED BY <1>5, <4>1, StampYears
      <3>2. l.kind = "stamp" /\ ~HasStamp(i - 1) => FirstYear("stamp") = l.year BY StampFacts
      <3> HIDE DEF c, l
      <3> QED BY <2>2, <2>3, <2>4, <3>1, <3>2
    <2> QED BY <1>5, <2>2, <2>5 DEF Carries
  <1>6. CASE Parse \notin Carriers
    <2>1. c = carried BY <1>6 DEF Carry, Carriers
    <2> QED BY <1>1, <1>6, <2>1 DEF Carries, Carriers
  <1> QED BY <1>2, <1>3, <1>4, <1>5, <1>6 DEF Carriers

\* A reader that carries what the lines before it said.
LEMMA CarriedItem ==
  ASSUME FileTyped, Parse \in Carriers, NEW i \in DOMAIN file, Carries(carried, i - 1),
         NEW r \in Made(file[i]), r.year \in Window
  PROVE  Cited(r) /\ ItemOn(r, i)
  <1> HIDE DEF Parse
  <1> DEFINE l     == file[i]
             dates == {l.year} \cup {FirstYear(k) : k \in {"stamp", "serial", "footer"}}
  <1>1. i # 0 /\ i - 1 \in 0..Len(file) /\ 0 \notin Window BY DEF FileTyped, Window
  <1>2. CASE Parse = "ripe_dbase_changed"
    <2>1. r \in ripe_dbase_changed(l) BY <1>2 DEF Made
    <2>2. l.kind = "changed" /\ r.name = carried.name /\ r.year = l.year /\ r.runs = <<l.year>>
      BY <2>1 DEF ripe_dbase_changed, When, Row
    <2>3. carried.name = ObjectAt(i - 1) BY <1>2 DEF Carries
    <2>4. NameOf(i) = ObjectAt(i) BY <1>2 DEF NameOf, ObjectAt
    <2>5. LastBefore(i, {"object", "reverse"}) = LastBefore(i - 1, {"object", "reverse"})
      BY <2>2, LastBeforeFacts
    <2>6. ObjectAt(i) = ObjectAt(i - 1) BY <2>5 DEF ObjectAt
    <2>7. DateOf(i) = {l.year} BY <1>2 DEF DateOf, ByName
    <2> QED BY <1>2, <2>2, <2>3, <2>4, <2>6, <2>7 DEF ItemOn, Cited, Excluded
  <1>3. CASE Parse = "jpnic_register"
    <2> DEFINE s == LastBefore(i - 1, {"section"})
    <2>1. r \in jpnic_register(l) BY <1>3 DEF Made
    <2>2. /\ l.kind = "entry" /\ carried.name # "none" /\ r.name = l.name
          /\ r.under = carried.name
          /\ r.year = FirstYear("stamp") /\ r.runs = <<r.year>>
      BY <2>1 DEF jpnic_register, When
    <2>3. carried.name = SectionAt(i - 1) BY <1>3 DEF Carries
    <2>4. LastBefore(i, {"section"}) = s BY <2>2, LastBeforeFacts
    <2>5. s # 0 /\ file[s].name = r.under BY <2>2, <2>3 DEF SectionAt
    <2>6. NameOf(i) = l.name BY <1>3 DEF NameOf
    <2>7. DateOf(i) = dates BY <1>3 DEF DateOf, ByName
    <2> HIDE DEF s
    <2> QED BY <2>2, <2>4, <2>5, <2>6, <2>7 DEF ItemOn, Cited, Excluded
  <1>4. CASE Parse = "ripe_dbase_1999"
    <2>1. r \in ripe_dbase_1999(l) BY <1>4 DEF Made
    <2>2. l.kind = "object" /\ r.name = l.name /\ r.year = carried.year /\ r.runs = <<1999>>
      BY <2>1 DEF ripe_dbase_1999, When, Row
    <2>3. HasStamp(i - 1) /\ carried.year = FirstYear("stamp") BY <1>1, <1>4, <2>2 DEF Carries
    <2>4. FirstYear("stamp") = 1999 BY <1>1, <1>4, <2>3, StampYears
    <2>5. NameOf(i) = l.name BY <1>4 DEF NameOf
    <2>6. DateOf(i) = dates BY <1>4 DEF DateOf, ByName
    <2> QED BY <1>4, <2>2, <2>3, <2>4, <2>5, <2>6 DEF ItemOn, Cited, Excluded
  <1>5. CASE Parse = "mynic_listing"
    <2> DEFINE h == LastBefore(i - 1, {"heading"})
    <2>1. r \in mynic_listing(l) BY <1>5 DEF Made
    <2>2. l.kind \in {"new", "delete"} /\ r.name = l.name /\ r.year = carried.year
      BY <2>1 DEF mynic_listing, When, Row
    <2>3. carried.year = HeadingAt(i - 1) BY <1>5 DEF Carries
    <2>4. h # 0 /\ r.year = file[h].year BY <1>1, <2>2, <2>3 DEF HeadingAt
    <2>5. LastBefore(i, {"heading"}) = h BY <2>2, LastBeforeFacts
    <2>6. NameOf(i) = l.name BY <1>5 DEF NameOf
    <2> HIDE DEF h
    <2>7. DateOf(i) = {file[h].year} BY <1>5, <2>4, <2>5 DEF DateOf, ByName
    <2> QED BY <1>5, <2>2, <2>4, <2>6, <2>7 DEF ItemOn, Cited, Excluded
  <1>6. CASE Parse = "odp"
    <2> DEFINE year == IF carried.year # 0 THEN carried.year ELSE named
    <2>1. r \in odp(l) BY <1>6 DEF Made
    <2>2. l.kind = "site" /\ r.name = l.name /\ r.year = year /\ r.runs = <<year>>
      BY <2>1 DEF odp, When, Row
    <2>3. carried.year = IF HasStamp(i - 1) THEN FirstYear("stamp") ELSE 0 BY <1>6 DEF Carries
    <2>4. HasStamp(i - 1) => FirstYear("stamp") # 0 BY <1>1, <1>6, StampYears
    <2>5. LastBefore(i, {"stamp"}) = 0 <=> ~HasStamp(i - 1)
      <3>1. LastBefore(i, {"stamp"}) = LastBefore(i - 1, {"stamp"}) BY <2>2, LastBeforeFacts
      <3>2. i - 1 \in Nat BY DEF FileTyped
      <3> QED BY <3>1, <3>2, NoneBefore DEF HasStamp
    <2>6. NameOf(i) = l.name BY <1>6 DEF NameOf
    <2>7. DateOf(i) = {IF LastBefore(i, {"stamp"}) = 0 THEN named ELSE FirstYear("stamp")}
      BY <1>6 DEF DateOf, ByName
    <2>8. r.year \in DateOf(i) BY <2>2, <2>3, <2>4, <2>5, <2>7
    <2> QED BY <1>6, <2>2, <2>6, <2>8 DEF ItemOn, Cited, Excluded
  <1> QED BY <1>2, <1>3, <1>4, <1>5, <1>6 DEF Carriers

\* Whichever the reader, what it makes of the line it is at is right.
LEMMA MadeIsRight ==
  ASSUME FileTyped, line \in DOMAIN file, Carries(carried, line - 1),
         NEW r \in Made(file[line]), r.year \in Window
  PROVE  Cited(r) /\ ItemOn(r, line)
  <1> HIDE DEF Parse
  <1>1. Parse \in Parsers BY SourceFacts DEF FileTyped
  <1>2. CASE Parse \in OwnYear BY <1>2, OwnItem
  <1>3. CASE Parse \in ByEdition BY <1>3, EditionItem
  <1>4. CASE Parse \in {"squidguard_blacklist", "internic_zone", "iedr_register"}
    BY <1>4, HeaderItem
  <1>5. CASE Parse = "afnic_fr" BY <1>5, IntervalItem
  <1>6. CASE Parse = "cctld_register_inbody" BY <1>6, InbodyItem
  <1>7. CASE Parse \in {"edelman_whois", "can_domain_registry_notices"} BY <1>7, BlockItem
  <1>8. CASE Parse \in Carriers
    BY <1>8, CarriedItem
  <1> QED BY <1>1, <1>2, <1>3, <1>4, <1>5, <1>6, <1>7, <1>8 DEF Parsers, Carriers

ReadersInv ==
  /\ FileTyped
  /\ line \in 1..Len(file) + 1
  /\ Carries(carried, line - 1)
  /\ \A r \in rows : Cited(r) /\ \E i \in DOMAIN file : ItemOn(r, i)

LEMMA ReadersBegin == ReadersInit => ReadersInv
  <1> SUFFICES ASSUME ReadersInit PROVE ReadersInv
      OBVIOUS
  <1> HIDE DEF Parse
  <1>1. PICK n \in 1..(IF Parse \in ByContext THEN MaxLines ELSE 1) : file \in [1..n -> Forms]
    BY DEF ReadersInit
  <1>2. n \in Nat /\ n > 0 BY <1>1, ReadersAssumption
  <1>3. Len(file) = n /\ DOMAIN file = 1..n BY <1>1, <1>2
  <1>4. FileTyped BY <1>1, <1>2, <1>3 DEF FileTyped, ReadersInit
  <1>5. line = 1 /\ rows = {} /\ carried = [year |-> 0, name |-> "none"] BY DEF ReadersInit
  <1>6. Carries(carried, line - 1)
    <2>1. line - 1 = 0 BY <1>5
    <2> QED BY <1>5, <2>1, CarryStarts
  <1> QED BY <1>2, <1>3, <1>4, <1>5, <1>6 DEF ReadersInv

\* What is said of a file and a row stays so while the file does.
LEMMA SameFile ==
  ASSUME UNCHANGED <<source, named, file>>
  PROVE  /\ FileTyped' <=> FileTyped
         /\ \A c, n : Carries(c, n)' <=> Carries(c, n)
         /\ \A r : Cited(r)' <=> Cited(r)
         /\ \A r, i : ItemOn(r, i)' <=> ItemOn(r, i)
  <1> USE DEF Parse, Type
  <1>1. \A i, kinds : LastBefore(i, kinds)' = LastBefore(i, kinds) BY DEF LastBefore
  <1>2. \A i : Next1(i)' = Next1(i) BY DEF Next1
  <1>3. \A kind : FirstYear(kind)' = FirstYear(kind) BY DEF FirstYear
  <1>4. \A i : NameOf(i)' = NameOf(i) BY <1>1 DEF NameOf
  <1>5. \A i : DateOf(i)' = DateOf(i) BY <1>1, <1>2, <1>3 DEF DateOf
  <1>6. FileTyped' <=> FileTyped BY DEF FileTyped, Forms, PostDigits
  <1>7. \A c, n : Carries(c, n)' <=> Carries(c, n)
    BY <1>1, <1>3 DEF Carries, ObjectAt, SectionAt, HeadingAt, HasStamp
  <1>8. \A r : Cited(r)' <=> Cited(r) BY DEF Cited, GateReads
  <1>9. \A r, i : ItemOn(r, i)' <=> ItemOn(r, i) BY <1>1, <1>4, <1>5 DEF ItemOn
  <1> QED BY <1>6, <1>7, <1>8, <1>9

LEMMA ReadersStay == ReadersInv /\ [Read]_readersVars => ReadersInv'
  <1> SUFFICES ASSUME ReadersInv, [Read]_readersVars PROVE ReadersInv'
      OBVIOUS
  <1>1. /\ FileTyped /\ line \in 1..Len(file) + 1 /\ Carries(carried, line - 1)
        /\ \A r \in rows : Cited(r) /\ \E i \in DOMAIN file : ItemOn(r, i)
    BY DEF ReadersInv
  <1>2. UNCHANGED <<source, named, file>> BY DEF Read, readersVars
  <1>3. FileTyped' BY <1>1, <1>2, SameFile
  <1>4. CASE Read
    <2>1. line \in DOMAIN file /\ line' = line + 1 /\ line' - 1 = line
          /\ line' \in 1..Len(file) + 1
      BY <1>1, <1>4 DEF Read, FileTyped
    <2>2. Carries(carried, line - 1)'
      <3>1. carried' = Carry(file[line]) BY <1>4 DEF Read
      <3>2. Carries(Carry(file[line]), line) BY <1>1, <2>1, CarryStays
      <3>3. Carries(carried', line' - 1)
        BY <2>1, <3>1, <3>2
      <3>4. PICK c, n : c = carried' /\ n = line' - 1 /\ Carries(c, n) BY <3>3
      <3>5. Carries(c, n)' BY <1>2, <3>4, SameFile
      <3> QED BY <3>4, <3>5
    <2>3. ASSUME NEW r \in rows' PROVE Cited(r) /\ \E i \in DOMAIN file : ItemOn(r, i)
      <3>1. r \in rows \/ (r \in Made(file[line]) /\ r.year \in Window) BY <1>4, <2>3 DEF Read
      <3> QED BY <1>1, <2>1, <3>1, MadeIsRight
    <2>4. \A r \in rows' : Cited(r)' /\ \E i \in DOMAIN file' : ItemOn(r, i)'
      BY <1>2, <2>3, SameFile
    <2> QED BY <1>2, <1>3, <2>1, <2>2, <2>4 DEF ReadersInv
  <1>5. CASE UNCHANGED readersVars
    <2>1. UNCHANGED <<line, carried, rows>> BY <1>5 DEF readersVars
    <2>2. Carries(carried, line - 1)'
      <3>1. PICK c, n : c = carried /\ n = line - 1 /\ Carries(c, n) BY <1>1
      <3>2. Carries(c, n)' BY <1>2, <3>1, SameFile
      <3> QED BY <2>1, <3>1, <3>2
    <2>3. \A r \in rows' : Cited(r)' /\ \E i \in DOMAIN file' : ItemOn(r, i)'
      BY <1>1, <1>2, <2>1, SameFile
    <2> QED BY <1>1, <1>2, <1>3, <2>1, <2>2, <2>3 DEF ReadersInv
  <1> QED BY <1>4, <1>5

LEMMA ReadersGive == ReadersInv => YearsAreRead
  <1> SUFFICES ASSUME ReadersInv PROVE YearsAreRead
      OBVIOUS
  <1>1. \A r \in rows : Cited(r) /\ \E i \in DOMAIN file : ItemOn(r, i) BY DEF ReadersInv
  <1>2. NamedYearIsFiled BY <1>1 DEF NamedYearIsFiled, Cited
  <1>3. EachYearIsItsItems BY <1>1 DEF EachYearIsItsItems, ItemOn, Excluded
  <1> QED BY <1>2, <1>3 DEF YearsAreRead

(***************************************************************************)
(* YearsAreRead, for any years, names and files of any length: whichever   *)
(* of the sources is read, a row cites the year it is filed under, and the *)
(* year is one the artifact gives the very name (sources.py,               *)
(* checks.py:162-176).                                                     *)
(***************************************************************************)
THEOREM YearsStayRead == ReadersSpec => []YearsAreRead
  <1>1. ReadersInit => ReadersInv BY ReadersBegin
  <1>2. ReadersInv /\ [Read]_readersVars => ReadersInv' BY ReadersStay
  <1>3. ReadersInv => YearsAreRead BY ReadersGive
  <1> QED BY <1>1, <1>2, <1>3, PTL DEF ReadersSpec
=============================================================================
