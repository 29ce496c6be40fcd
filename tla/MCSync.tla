------------------------------- MODULE MCSync -------------------------------
(***************************************************************************)
(* The hourly sync: its lock, its push to fleet main and its drain of      *)
(* findings. They share no state: a behaviour is of one component, and the *)
(* others rest.                                                            *)
(***************************************************************************)
EXTENDS SyncLock, FleetPush, Drain

\* Two runs of the fleet: a price of a lead that the schema refuses, and the read that confirms it.
C(s, v, c) == [slug |-> s, verdict |-> v, confirmed |-> c, sidecar |-> TRUE]
MCCopy     == <<C("a", "FIND", FALSE), C("a", "FIND", TRUE)>>
MCRuns     == DOMAIN MCCopy
MCWorkflow == <<"leg", "read">>
MCArtifact == [s \in {"a"} |-> "x"]

VARIABLE component   \* whose behaviour this is

MCInit ==
  /\ component \in {"lock", "push", "drain"}
  /\ Init
  /\ FleetInit
  /\ DrainInit

MCNext ==
  \/ /\ component = "lock" /\ Next
     /\ UNCHANGED <<component, fleetVars, drainVars>>
  \/ /\ component = "push" /\ FleetNext
     /\ UNCHANGED <<component, vars, drainVars>>
  \/ /\ component = "drain" /\ DrainNext
     /\ UNCHANGED <<component, vars, fleetVars>>

allVars == <<component, vars, fleetVars, drainVars>>

\* The fairness of the component whose behaviour it is.
MCFair ==
  \/ component = "lock" /\ Fairness
  \/ component = "push" /\ FleetFair
  \/ component = "drain" /\ DrainFair

MCSpec == MCInit /\ [][MCNext]_allVars /\ MCFair
-----------------------------------------------------------------------------
\* A lock a killed run left never closes the lane (sync_lock.sh:9-11), in the behaviours of the lock.
LaneStaysOpen == component = "lock" => LaneNeverCloses

\* Every run's finding is booked in the end, but for one whose download failed
\* (justfile:126-128), in the behaviours of the drain.
DrainBooks == component = "drain" => CompletedIsBooked

\* Whatever a kill left, the lane opens again and what was drained is booked.
SyncSettles == LaneStaysOpen /\ DrainBooks
=============================================================================
