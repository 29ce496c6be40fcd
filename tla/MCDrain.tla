------------------------------- MODULE MCDrain -------------------------------
EXTENDS Drain

\* A pending price of a lead, the read that confirms it, and a closed lead on the same artifact.
C(s, v, c) == [slug |-> s, verdict |-> v, confirmed |-> c, sidecar |-> TRUE]
MCCopy == <<C("a", "FIND", FALSE), C("a", "FIND", TRUE), C("b", "CLOSED", FALSE)>>
MCRuns == DOMAIN MCCopy
MCWorkflow == <<"leg", "read", "leg">>
MCArtifact == [s \in {"a", "b"} |-> "x"]
=============================================================================
