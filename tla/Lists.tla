-------------------------------- MODULE Lists --------------------------------
(***************************************************************************)
(* The lists an export writes from the store (export.py, held.py), the     *)
(* part of the provenance graph a delivery ships, cut from the whole by    *)
(* the names of those lists (provenance.py write_shipped), and the lists   *)
(* an export writes from a store rebuilt over that cut.                    *)
(*                                                                         *)
(* A row of evidence quotes one name, beneath one registrable, in a year.  *)
(* It is a web capture that passes the claim's screen, one that answered   *)
(* an error, of another dated class (a header, a listing), or of the DNS   *)
(* survey, which dates nothing.                                            *)
(***************************************************************************)
EXTENDS FiniteSets, Naturals

CONSTANTS Root,        \* registrables
          Leaf,        \* hostnames
          RootOf,      \* hostname -> the registrable above it
          Span,        \* the claim's years
          Holdings,    \* the stores an export may find
          HisFiles,    \* the releases of his it may be net of
          Bars         \* what may not ship: sets of <<name, year>>, year 0 for any list

Anyone == Root \cup Leaf
Over(n) == IF n \in Root THEN n ELSE RootOf[n]

Rows == [name : Anyone, root : Root, year : Span, kind : {"web", "error", "header", "isc"}]

\* A store: who found which registrable, the rows, and those of them the year tables cite.
Holding == [domain : SUBSET [name : Root, by : {"ours", "prior_task"}],
            evidence : SUBSET Rows, cited : SUBSET Rows]

ASSUME ListsAssumption ==
  /\ Root \cap Leaf = {} /\ RootOf \in [Leaf -> Root] /\ 0 \notin Span
  /\ Holdings \subseteq Holding
  /\ \A h \in Holdings :
       /\ \A r \in h.evidence : r.root = Over(r.name) /\ \E d \in h.domain : d.name = r.root
       /\ \A d, e \in h.domain : d.name = e.name => d = e
       /\ h.cited = {r \in h.evidence : r.kind # "isc"}
       /\ \A a, b \in h.cited : a.name = b.name /\ a.year = b.year => a = b
  /\ HisFiles \subseteq [annual : [Span -> SUBSET Anyone], candidates : SUBSET Anyone]
  /\ \A bar \in Bars : bar \subseteq Anyone \X (Span \cup {0})

VARIABLES
  whole,     \* the store the round is exported from
  graphDir,  \* its provenance graph
  hisFiles, bars,
  written,   \* the lists of the export
  shippedDir,  \* the graph the delivery ships
  rebuilt,   \* the store rebuilt over it
  rewritten, \* the lists of its export
  lstep

listsVars == <<whole, graphDir, hisFiles, bars, written, shippedDir, rebuilt, rewritten, lstep>>

NoLists   == [annual |-> {}, isc |-> {}, pool |-> {}, unverified |-> {}, header |-> {},
              quarantined |-> {}]
NoHolding == [domain |-> {}, evidence |-> {}, cited |-> {}]

ListNames == Anyone \X Span
ListType  == [annual : SUBSET Rows, isc : SUBSET ListNames, pool : SUBSET Anyone,
              unverified : SUBSET Root, header : SUBSET Rows, quarantined : SUBSET Rows]

ListsTypeOK ==
  /\ {whole, graphDir, shippedDir, rebuilt} \subseteq Holding
  /\ hisFiles \in HisFiles /\ bars \in Bars
  /\ {written, rewritten} \subseteq ListType
  /\ lstep \in {"export", "cut", "rebuild", "done"}

ListsInit ==
  /\ whole \in Holdings /\ hisFiles \in HisFiles /\ bars \in Bars
  /\ written = NoLists /\ rewritten = NoLists
  /\ graphDir = NoHolding /\ shippedDir = NoHolding /\ rebuilt = NoHolding
  /\ lstep = "export"
-----------------------------------------------------------------------------
(* export_all: each list, net of his release. *)

MayShip(n, y) == <<n, y>> \notin bars
HisAll      == UNION {hisFiles.annual[y] : y \in Span}
Net(names)  == (names \ hisFiles.candidates) \ HisAll
Claimed(s, n) == \E r \in s.cited : r.name = n /\ r.kind = "web"

\* held.netnew and its hostname half; each line with the row its manifest cites.
Annual(s) == {r \in s.cited : r.kind = "web" /\ MayShip(r.name, r.year) /\ r.name \notin hisFiles.annual[r.year]}

\* reduce_isc: survey hostnames no file of his and no table of ours names.
Survey(s) ==
  LET rows == {r \in s.evidence : r.kind = "isc" /\ MayShip(r.name, r.year)}
      free == Net({r.name : r \in rows}) \ {r.name : r \in s.cited}
  IN  {<<r.name, r.year>> : r \in {q \in rows : q.name \in free}}

\* A registrable of ours, and a hostname dated by any class, without a year that is a web capture.
PoolRoots(s)  == Net({d.name : d \in {x \in s.domain : ~Claimed(s, x.name) /\ MayShip(x.name, 0)}})
PoolLeaves(s) == Net({r.name : r \in {x \in s.cited : /\ x.name \in Leaf /\ ~Claimed(s, x.name)
                                                      /\ MayShip(x.name, x.year)}})
SurveyNames(s) == {i[1] : i \in Survey(s)}
Pool(s) == PoolRoots(s) \cup SurveyNames(s) \cup PoolLeaves(s)

\* export_header_candidates: the pool's hostnames with a row of no web class, and the rows
\* the hostname gate holds back.
Header(s)      == {r \in s.cited : r.name \in Pool(s) \cap Leaf /\ r.kind = "header"}
Quarantined(s) == {r \in s.cited : r.name \in Leaf /\ r.kind = "header" /\ ~MayShip(r.name, r.year)}

\* Registrables without any year.
Unverified(s) == Net({d.name : d \in {x \in s.domain : /\ \A r \in s.cited : r.name # x.name
                                                       /\ MayShip(x.name, 0)}})

ListsOf(s) == [annual |-> Annual(s), isc |-> Survey(s), pool |-> Pool(s),
               unverified |-> Unverified(s), header |-> Header(s), quarantined |-> Quarantined(s)]

\* write_provenance: every row, and the registrables we found or hold a row of.
Known(s) == {d \in s.domain : d.by # "prior_task" \/ \E r \in s.evidence : r.root = d.name}

\* `ark export --provenance`.
WriteLists ==
  /\ lstep = "export"
  /\ written' = ListsOf(whole)
  /\ graphDir' = [whole EXCEPT !.domain = Known(whole)]
  /\ lstep' = "cut"
  /\ UNCHANGED <<whole, hisFiles, bars, shippedDir, rebuilt, rewritten>>
-----------------------------------------------------------------------------
(* write_shipped: the graph cut to the names of the lists. *)

OnLists(l) == {r.name : r \in l.annual \cup l.quarantined \cup l.header}
               \cup {i[1] : i \in l.isc} \cup l.pool \cup l.unverified

\* Mutant: a listed hostname's registrable is left out.
MutShippedNames == OnLists(written)

\* A listed hostname with a year brings the registrable it is recorded beneath.
ShippedNames == OnLists(written)
                  \cup {r.root : r \in {x \in graphDir.cited : x.name \in OnLists(written) \cap Leaf}}

WriteShipped ==
  /\ lstep = "cut"
  /\ LET years == {r \in graphDir.cited : r.name \in ShippedNames}
         rows  == years \cup {r \in graphDir.evidence : IF r.kind = "isc" THEN r.name \in ShippedNames
                                                        ELSE r.root \in ShippedNames}
         named == {r.root : r \in rows}
     IN  shippedDir' = [domain |-> {d \in graphDir.domain : d.name \in ShippedNames \cup named},
                        evidence |-> rows, cited |-> years]
  /\ lstep' = "rebuild"
  /\ UNCHANGED <<whole, graphDir, hisFiles, bars, written, rebuilt, rewritten>>

\* `ark rebuild` over the delivery: the tables as they were shipped, then the exporter.
RebuildShipped ==
  /\ lstep = "rebuild"
  /\ rebuilt' = shippedDir
  /\ rewritten' = ListsOf(shippedDir)
  /\ lstep' = "done"
  /\ UNCHANGED <<whole, graphDir, hisFiles, bars, written, shippedDir>>

ListsNext == WriteLists \/ WriteShipped \/ RebuildShipped

ListsSpec == ListsInit /\ [][ListsNext]_listsVars
-----------------------------------------------------------------------------
\* A registrable whose only web captures are of years its suffix did not exist, without a
\* listed hostname: no list names it, and without its years it reads as a candidate.
Untimely ==
  {n \in Root : /\ Claimed(whole, n)
                /\ \A r \in whole.cited : r.name = n /\ r.kind = "web" => ~MayShip(n, r.year)
                /\ \A r \in whole.cited : r.root = n => r.name \notin OnLists(written)}

\* A registrable only a release of his gave us that his present files no longer hold.
Orphans == Net({d.name : d \in whole.domain \ Known(whole)})

(***************************************************************************)
(* `ark rebuild` over what a delivery ships writes every list and manifest *)
(* again (provenance.py:133-137), and the rows, years and domains of the   *)
(* cut rest on one another, as `ark check` asks. Two kinds of registrables *)
(* are excepted: one whose captures are all of barred years comes back as  *)
(* a candidate where the cut keeps it for a survey row and drops its years *)
(* (Untimely); one his release gave and dropped is in the pool, not in the *)
(* graph (Orphans).                                                        *)
(***************************************************************************)
ShippedRebuilds ==
  lstep = "done" =>
    /\ rewritten.annual = written.annual /\ rewritten.isc = written.isc
    /\ rewritten.header = written.header /\ rewritten.quarantined = written.quarantined
    /\ rewritten.pool \ Untimely = written.pool \ Orphans
    /\ rewritten.unverified \ Untimely = written.unverified \ Orphans
    /\ rebuilt.cited \subseteq rebuilt.evidence
    /\ \A r \in rebuilt.evidence : \E d \in rebuilt.domain : d.name = r.root

\* Refuted: every list, whatever the store holds.
ShippedRebuildsAll == lstep = "done" => rewritten = written
=============================================================================
