----------------------------- MODULE MCSources ------------------------------
(***************************************************************************)
(* What is collected and read into the store: dated items of mailing       *)
(* lists, the registrable readers, the hostname lanes, the pages expanded  *)
(* into candidates, and the retraction of error captures. They share no    *)
(* state: a behaviour is of one component, and the others rest.            *)
(***************************************************************************)
EXTENDS Items, Readers, HostLanes, Retraction, Expand

\* Two pages, one captured in two years, and what each capture links to.
Pages == 1..2
Captured == <<<<1998, 2000>>, <<1999>>>>
LinksIn == [c \in {<<1, 1998>>, <<1, 2000>>, <<2, 1999>>} |->
              CASE c = <<1, 1998>> -> {"a", "b"} [] c = <<1, 2000>> -> {"b"} [] OTHER -> {"a", "his"}]

VARIABLE component   \* whose behaviour this is

MCInit ==
  /\ component \in {"items", "readers", "lanes", "retraction", "expand"}
  /\ IF component = "readers" THEN TRUE
     ELSE /\ source = (CHOOSE s \in DOMAIN Sources : TRUE)
          /\ named = 0
          /\ file = <<CHOOSE form \in Forms : TRUE>>
  /\ IF component = "retraction" THEN TRUE
     ELSE /\ raw = [f \in Families |-> {}]
          /\ web = {}
          /\ hostRows = {}
  /\ ItemsInit
  /\ ReadersInit
  /\ HostLanesInit
  /\ RetractionInit
  /\ IF component = "expand" THEN TRUE ELSE curated = {}
  /\ ExpandInit

\* Of what stops a sweep of an archive, of the retraction's runs and kills, and of what an
\* expansion meets, so many at most.
MCNext ==
  \/ /\ component = "items" /\ ItemsNext /\ count'.faults + count'.kills <= 3
     /\ UNCHANGED <<component, readersVars, hostLanesVars, retractionVars, expandVars>>
  \/ /\ component = "readers" /\ Read
     /\ UNCHANGED <<component, itemsVars, hostLanesVars, retractionVars, expandVars>>
  \/ /\ component = "lanes" /\ HostLanesNext
     /\ UNCHANGED <<component, itemsVars, readersVars, retractionVars, expandVars>>
  \/ /\ component = "retraction" /\ RetractionNext /\ runs'.audit + runs'.write + kills3' <= 4
     /\ UNCHANGED <<component, itemsVars, readersVars, hostLanesVars, expandVars>>
  \/ /\ component = "expand" /\ ExpandNext /\ outages' + stops' + unbanks' <= 2
     /\ UNCHANGED <<component, itemsVars, readersVars, hostLanesVars, retractionVars>>

allVars == <<component, itemsVars, readersVars, hostLanesVars, retractionVars, expandVars>>

MCSpec == MCInit /\ [][MCNext]_allVars
=============================================================================
