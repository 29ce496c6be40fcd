------------------------------ MODULE MCReach -------------------------------
(***************************************************************************)
(* Asking the web: one fetch, the pace of the CDX lookups, one domain's    *)
(* lookup and the platform walk. They share no state: a behaviour is of    *)
(* one component, and the others rest.                                     *)
(***************************************************************************)
EXTENDS Fetch, Governor, Lookup, Platform

MCHostOf == [u \in Url |-> IF u = "far" THEN "b" ELSE IF u = "cdx" THEN "c" ELSE "a"]

Has(apex, www, host, scan) ==
  [l \in Level |-> CASE l = "apex" -> apex [] l = "www" -> www [] l = "host" -> host [] l = "scan" -> scan]

\* An ordinary domain, one captured under its subdomains only, and a heavily archived one.
MCDomains ==
  {[archived |-> Has({}, {1}, {2}, {3}), wide |-> {}],
   [archived |-> Has({}, {}, {}, {1, 3}), wide |-> {"scan"}],
   [archived |-> Has({1}, {2}, {2, 3}, {1, 2}), wide |-> {"host", "scan"}]}

VARIABLE component   \* whose behaviour this is

MCInit ==
  /\ component \in {"fetch", "governor", "lookup", "platform"}
  /\ IF component = "fetch" THEN TRUE
     ELSE /\ to = "pipe"
  /\ IF component = "lookup" THEN TRUE
     ELSE /\ hostFirst = TRUE
          /\ domain = CHOOSE d \in Domains : TRUE
  /\ FetchInit
  /\ GovernorInit
  /\ LookupInit
  /\ PlatformInit

MCNext ==
  \/ /\ component = "fetch" /\ FetchNext
     /\ UNCHANGED <<component, governorVars, lookupVars, platformVars>>
  \/ /\ component = "governor" /\ GovernorNext
     /\ UNCHANGED <<component, fetchVars, lookupVars, platformVars>>
  \/ /\ component = "lookup" /\ LookupNext
     /\ UNCHANGED <<component, fetchVars, governorVars, platformVars>>
  \/ /\ component = "platform" /\ PlatformNext
     /\ UNCHANGED <<component, fetchVars, governorVars, lookupVars>>

allVars == <<component, fetchVars, governorVars, lookupVars, platformVars>>

\* The fairness of the component whose behaviour it is.
MCFair ==
  \/ component = "fetch" /\ FetchFair
  \/ component = "governor" /\ GovernorFair
  \/ component \in {"lookup", "platform"}

MCSpec == MCInit /\ [][MCNext]_allVars /\ MCFair
-----------------------------------------------------------------------------
\* Every run of a fetch and every lookup ends, whatever the servers answer (fetch.py, cdx.py).
EveryAskEnds == FetchEnds /\ LookupEnds
=============================================================================
