------------------------------- MODULE MCStore -------------------------------
(***************************************************************************)
(* The store under one family of lanes or the other: a bulk source that    *)
(* captures, one that lists and one of targets only; or two journals of    *)
(* one hostname lane and a lane of dated messages.  One registrable-year.  *)
(* Or the provenance graph and the store rebuilt from it, which rests      *)
(* while the others run and runs while they rest.                          *)
(***************************************************************************)
EXTENDS Store, Graph

CONSTANTS p1, h1, cdx, listing, targets, sweep, items, b1, b2, b3, c1, c2, i1

Bulk  == {b1, b2, b3}
Hosts == {c1, c2, i1}

Sources == [f \in Bulk \cup Hosts |->
              CASE f = b1 -> cdx [] f = b2 -> listing [] f = b3 -> targets
                [] f = i1 -> items [] OTHER -> sweep]
LanesOf == [f \in Bulk \cup Hosts |-> IF f \in Bulk THEN "bulk" ELSE IF f = i1 THEN "items" ELSE "captures"]
ClassesOf == [s \in Source |->
                CASE s \in {cdx, sweep} -> "cdx_timestamp" [] s = listing -> "artifact_listing"
                  [] s = targets -> "link_target" [] OTHER -> "link_source"]

\* Two sources, three files and a hostname beneath a registrable.
Sent    == 1..3
Parents == [h \in {"h"} |-> "d"]
Naming  == <<{"d"}, {"d", "h"}, {"h"}>>
Senders == <<"a", "b", "a">>

VARIABLE family   \* the files of this behaviour, none of them in one of the graph

MCInit ==
  /\ family \in {Bulk, Hosts, {}}
  /\ IF family = {} THEN TRUE
     ELSE /\ db = NoTables
          /\ issued = 0
  /\ Init
  /\ GraphInit

\* The step of `Next`, of this family's files and sources; a journal grows to MaxRecords, as
\* a bulk file lands, and a kill between two statements of an unbank is of the bulk lanes.
StoreStep ==
  /\ \/ \E f \in family : Land(f) \/ IngestFile(f) \/ IngestItems(f) \/ Approve(SourceOf[f])
     \/ \E s \in {SourceOf[f] : f \in family} : Unbank(s) \/ \E names \in SUBSET family : FoldJournals(s, names)
     \/ BeginBank \/ DeleteHostYears \/ DeleteYears \/ DeleteEvidence \/ DeleteReceipts
     \/ family = Bulk /\ Kill
  /\ \A f \in family : Cardinality(content'[f]) <= MaxRecords

\* Of unbanks, rebuilds and kills the graph meets so many at most.
MCNext ==
  /\ \/ family # {} /\ StoreStep /\ UNCHANGED graphVars
     \/ family = {} /\ GraphNext /\ 2 * takes' + rebuilds' + gkills' <= 3 /\ UNCHANGED vars
  /\ UNCHANGED family

MCSpec == MCInit /\ [][MCNext]_<<vars, graphVars, family>>
=============================================================================
