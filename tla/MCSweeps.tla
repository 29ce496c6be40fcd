------------------------------ MODULE MCSweeps ------------------------------
(***************************************************************************)
(* The bank of a fleet's runs and of the sweeps' journals, and the         *)
(* extended CDX walk over one page with two workers. They share no state:  *)
(* a behaviour is of one component, and the others rest.                   *)
(***************************************************************************)
EXTENDS Journals, Walk

CONSTANTS r1, r2, d1, j1, p1, w1, w2

VARIABLE component   \* two runs of a collector and the bank, a run beside a sweep that grows, or the walk

\* Two rows, and one in a subpage.
MCSpan == [l \in 0..1 |-> 2 - l]

\* Runs silent for 90 minutes, and kills of runs and of banks.
Mishaps == Cardinality(stalled) + Cardinality({r \in Run : proc[r] = "killed"}) + kills

MCInit ==
  /\ component \in {"runs", "grows", "walk"}
  /\ index \in [Page -> IF component = "walk" THEN SUBSET Position ELSE {{}}]
  /\ JournalsInit
  /\ WalkInit

MCNext ==
  \/ /\ component = "runs" /\ JournalsNext /\ sweep' = sweep /\ Mishaps' <= 2
     /\ UNCHANGED <<component, walkVars>>
  \/ /\ component = "grows" /\ JournalsNext /\ proc'[r2] = "none"
     /\ UNCHANGED <<component, walkVars>>
  \/ /\ component = "walk" /\ WalkNext
     /\ UNCHANGED <<component, journalVars>>

allVars == <<component, journalVars, walkVars>>

\* The fairness of the component whose behaviour it is.
MCFair ==
  \/ component \in {"runs", "grows"} /\ JournalsFair
  \/ component = "walk" /\ WalkFair

MCSpec == MCInit /\ [][MCNext]_allVars /\ MCFair
-----------------------------------------------------------------------------
\* Every page and every subpage it came to owe is booked in the end (cdx_extended_walk.py),
\* in the behaviours of the walk.
WalkBooks == component = "walk" => OwedIsBooked

\* What a collector was answered is banked, and what the walk owes is booked, in the end.
SweepsSettle == JournalsBank /\ WalkBooks
=============================================================================
