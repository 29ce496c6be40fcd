------------------------------- MODULE MCOps --------------------------------
(***************************************************************************)
(* What runs unattended: the hourly tick under holds, the agent's queue    *)
(* and the approval asks. They share no state: a behaviour is of one       *)
(* component, and the others rest.                                         *)
(***************************************************************************)
EXTENDS Tick, Agent, Approvals

\* A day of three hours, one of them the scouts', an alert and an umbrella issue.
Days  == [h \in 0..2 |-> IF h = 1 THEN "scout" ELSE "none"]
Spans == [m \in {"work", "triage", "scout", "cdx"} |-> IF m = "work" THEN 1 ELSE 0]
Queue == <<"alert", "issue">>

\* Two sources, one of two classes: a class at the gate alone, the others only together.
Heads   == {"reads", "list", "pages"}
Owners  == [k \in Heads |-> IF k = "pages" THEN "reads" ELSE k]
Prices  == [k \in Heads |-> IF k = "reads" THEN 2 ELSE 1]

\* The tick under two holds from any machine, under one and runs by hand, or under one and a
\* label; the agent; the approvals.
VARIABLE component

MCInit ==
  /\ component \in {"holds", "hands", "ships", "agent", "approvals"}
  /\ TickInit
  /\ AgentInit
  /\ ApprovalsInit

MCNext ==
  \/ /\ component = "holds" /\ TickNext /\ hand' = "none" /\ labels' = 0 /\ ~cause'
     /\ UNCHANGED <<component, agentVars, approvalVars>>
  \/ /\ component = "hands" /\ TickNext /\ holds' <= 1 /\ labels' = 0 /\ ~cause'
     /\ UNCHANGED <<component, agentVars, approvalVars>>
  \/ /\ component = "ships" /\ TickNext /\ hand' = "none" /\ holds' <= 1 /\ at' = Here
     /\ UNCHANGED <<component, agentVars, approvalVars>>
  \/ /\ component = "agent" /\ AgentNext
     /\ UNCHANGED <<component, tickVars, approvalVars>>
  \/ /\ component = "approvals" /\ ApprovalsNext
     /\ UNCHANGED <<component, tickVars, agentVars>>

allVars == <<component, tickVars, agentVars, approvalVars>>

\* The fairness of the component whose behaviour it is.
MCFair ==
  \/ component \in {"holds", "hands", "ships"} /\ TickFair
  \/ component = "agent" /\ AgentFair
  \/ component = "approvals"

MCSpec == MCInit /\ [][MCNext]_allVars /\ MCFair
-----------------------------------------------------------------------------
\* A hold brings the banks to rest, a cause that stays is alerted (hold.sh:6-9,
\* heartbeat.py:12-13), and the agent's queue drains (run_agent.sh, work_queue.py).
OpsSettle == HoursSettle /\ QueueDrains
=============================================================================
