------------------------------- MODULE Expand --------------------------------
(***************************************************************************)
(* Source expansion and the candidates it leaves: `ark download` fetches   *)
(* the captures of seeded pages into a journal per run (cli.py, expand.py),*)
(* `ark ingest` banks the half of a journal its source is entitled to      *)
(* (sources.py, bulk.py), `ark seed` registers the names of a file         *)
(* (seed.py), and what no year dates is queued for verification in a       *)
(* database of its own (work_queue.py).  Nothing in the repository claims  *)
(* what is queued.                                                         *)
(*                                                                         *)
(* A download never opens the store, so it runs beside the passes over it; *)
(* those exclude one another.  The store commits before the queue does, and*)
(* a kill may fall between the two.                                        *)
(***************************************************************************)
EXTENDS Naturals, FiniteSets, Sequences, SequencesExt

CONSTANTS
  Page,         \* the seeded pages, in the order of the seed file
  StampsOf,      \* page -> the years of its captures in the window, as the index lists them
  Anchors,      \* <<page, year>> -> the registrables that capture links to
  PerPage,     \* --captures: how many of a page are fetched
  AtOnce,       \* --limit: how many pages a run fetches
  HisNames,     \* what his files name
  SeedFile,     \* the names of the seed file
  MaxDownloads, MaxOutages, MaxStops, MaxMarked, MaxUnbanked   \* bounds: runs, failed fetches,
                \* kills, pages asserted late, unbanks

ASSUME ExpandAssumption ==
  /\ Page \subseteq Nat \ {0} /\ IsFiniteSet(Page)
  /\ StampsOf \in [Page -> Seq(Nat \ {0})] /\ \A p \in Page : IsInjective(StampsOf[p])
  /\ \A p \in Page : \A i \in DOMAIN StampsOf[p] : <<p, StampsOf[p][i]>> \in DOMAIN Anchors
  /\ PerPage \in Nat \ {0} /\ AtOnce \in Nat \ {0}
  /\ {MaxDownloads, MaxOutages, MaxStops, MaxMarked, MaxUnbanked} \subseteq Nat

FirstStamps(p) == SubSeq(StampsOf[p], 1, IF Len(StampsOf[p]) < PerPage THEN Len(StampsOf[p]) ELSE PerPage)
Asked(p)  == ToSet(FirstStamps(p))
Outbound    == UNION {Anchors[c] : c \in DOMAIN Anchors}
Candidate == Outbound \cup SeedFile
Half      == {"links", "directory"}

\* A line of a journal: one capture of a page, year 0 where none was fetched.
Fetched == [page : Page, year : Nat, ok : BOOLEAN, curated : BOOLEAN]

VARIABLES
  curated,     \* the pages the seed file asserts to be directories
  journal,     \* run -> the lines on disk
  waiting,     \* the pages the run under way has still to fetch
  unflushed,   \* its lines, not all of them on disk yet
  fetching,    \* whether a run is under way
  receipt,     \* the files read: <<half, run>>
  row,         \* the evidence rows: half, name, year
  domain,      \* the registrables on file
  queue,       \* the names queued for verification
  pass, toRead, \* the pass over the store, and the journals it has still to read
  toQueue,     \* what a seed classified as unproven
  owing,       \* history: the sources with a pass begun and not ended, or years taken since
  passed,      \* history: the pages settled by one capture where another failed or was lost
  late,        \* history: the pages asserted once a run had settled them
  outages, stops, unbanks

expandVars == <<curated, journal, waiting, unflushed, fetching, receipt, row, domain, queue, pass,
                toRead, toQueue, owing, passed, late, outages, stops, unbanks>>
run    == <<curated, journal, waiting, unflushed, fetching, passed, late>>
banked == <<receipt, row, domain, queue, pass, toRead, toQueue, owing>>

Lines    == UNION {ToSet(journal[r]) : r \in DOMAIN journal}
DatedNames    == {e.name : e \in {f \in row : f.half = "directory"}}
Proven   == DatedNames \cup HisNames    \* held.attested
Named(s) == IF s = "seed" THEN SeedFile ELSE {e.name : e \in {f \in row : f.half = s}}

ExpandTypeOK ==
  /\ curated \subseteq Page /\ waiting \subseteq Page /\ passed \subseteq Page /\ late \subseteq Page
  /\ \A r \in DOMAIN journal : ToSet(journal[r]) \subseteq Fetched
  /\ ToSet(unflushed) \subseteq Fetched /\ fetching \in BOOLEAN
  /\ receipt \subseteq Half \X (1..MaxDownloads) /\ toRead \subseteq 1..MaxDownloads
  /\ row \subseteq [half : Half, name : Outbound, year : Nat]
  /\ domain \subseteq Candidate /\ queue \subseteq Candidate /\ toQueue \subseteq SeedFile
  /\ pass \in {"idle", "links", "directory", "seed"} /\ owing \subseteq {"links", "seed"}
  /\ outages \in 0..MaxOutages /\ stops \in 0..MaxStops /\ unbanks \in 0..MaxUnbanked

ExpandInit ==
  /\ curated \in SUBSET Page
  /\ journal = <<>> /\ waiting = {} /\ unflushed = <<>> /\ fetching = FALSE
  /\ receipt = {} /\ row = {} /\ domain = {} /\ queue = {}
  /\ pass = "idle" /\ toRead = {} /\ toQueue = {} /\ owing = {"seed"}
  /\ passed = {} /\ late = {}
  /\ outages = 0 /\ stops = 0 /\ unbanks = 0
-----------------------------------------------------------------------------
(* `ark download`. *)

\* Mutant: whatever a journal says of a page settles it.
MutAnswered(l) == l.page \in Page

\* A 200 settles a page, even with no links; a failure does not.
Answered(l) == l.ok

Settled(p)     == \E l \in Lines : l.page = p /\ Answered(l)
NextPages(pages) == {p \in pages : Cardinality({q \in pages : q < p}) < AtOnce}

StartDownload ==
  /\ ~fetching /\ Len(journal) < MaxDownloads
  /\ waiting' = NextPages({p \in Page : ~Settled(p)})
  /\ waiting' # {}
  /\ fetching' = TRUE
  /\ UNCHANGED <<banked, curated, journal, unflushed, passed, late, outages, stops, unbanks>>

\* The index fails, or every capture it lists within --captures answers or fails; a page
\* without one is answered. Pages end in any order, a page's lines stand together.
ReadPage(p) ==
  /\ fetching /\ p \in waiting
  /\ waiting' = waiting \ {p}
  /\ LET is(y, ok) == [page |-> p, year |-> y, ok |-> ok, curated |-> p \in curated]
     IN  \/ /\ outages < MaxOutages /\ outages' = outages + 1
            /\ unflushed' = Append(unflushed, is(0, FALSE))
            /\ passed' = passed
         \/ \E failed \in SUBSET Asked(p) :
              /\ outages' = outages + Cardinality(failed) /\ outages' <= MaxOutages
              /\ unflushed' = unflushed \o
                   (IF Asked(p) = {} THEN <<is(0, TRUE)>>
                    ELSE [i \in DOMAIN FirstStamps(p) |->
                            is(FirstStamps(p)[i], FirstStamps(p)[i] \notin failed)])
              /\ passed' = IF failed # {} /\ failed # Asked(p) THEN passed \cup {p} ELSE passed
  /\ UNCHANGED <<banked, curated, journal, fetching, late, stops, unbanks>>

EndDownload ==
  /\ fetching /\ waiting = {}
  /\ journal' = Append(journal, unflushed)
  /\ fetching' = FALSE /\ unflushed' = <<>>
  /\ UNCHANGED <<banked, curated, waiting, passed, late, outages, stops, unbanks>>

\* A kill leaves the lines that were flushed, in their order.
KillDownload ==
  /\ fetching /\ stops < MaxStops
  /\ stops' = stops + 1
  /\ \E n \in 0..Len(unflushed) :
       LET kept == SubSeq(unflushed, 1, n) lost == SubSeq(unflushed, n + 1, Len(unflushed))
       IN  /\ journal' = Append(journal, kept)
           /\ passed' = passed \cup {l.page : l \in {k \in ToSet(kept) :
                                         k.ok /\ \E m \in ToSet(lost) : m.page = k.page}}
  /\ fetching' = FALSE /\ waiting' = {} /\ unflushed' = <<>>
  /\ UNCHANGED <<banked, curated, late, outages, unbanks>>

\* An operator adds `directory` to a page's line; a run under way has read the seed file.
MarkDirectory(p) ==
  /\ p \notin curated /\ ~fetching /\ Cardinality(late) < MaxMarked
  /\ curated' = curated \cup {p}
  /\ late' = IF Settled(p) THEN late \cup {p} ELSE late
  /\ UNCHANGED <<banked, journal, waiting, unflushed, fetching, passed, outages, stops, unbanks>>
-----------------------------------------------------------------------------
(* `ark ingest expansion_links` and `ark ingest expansion_directory`, and an unbank. *)

\* Of the answered lines of its half, each link a row of the capture's year.
LinksOf(half, r) ==
  UNION {[half : {half}, name : Anchors[<<l.page, l.year>>], year : {l.year}] :
           l \in {k \in ToSet(journal[r]) : k.ok /\ k.year # 0 /\ k.curated = (half = "directory")}}

BeginPass(half, given) ==
  /\ pass = "idle" /\ given # {}
  /\ pass' = half /\ toRead' = given
  /\ owing' = IF half = "links" THEN owing \cup {"links"} ELSE owing
  /\ UNCHANGED <<run, receipt, row, domain, queue, toQueue, outages, stops, unbanks>>

\* A file in the ledger is skipped; one that fails is left out of it, and the pass goes on.
ReadJournal(r) ==
  /\ pass \in Half /\ r \in toRead
  /\ toRead' = toRead \ {r}
  /\ \/ /\ <<pass, r>> \notin receipt
        /\ receipt' = receipt \cup {<<pass, r>>}
        /\ row' = row \cup LinksOf(pass, r)
        /\ domain' = domain \cup {e.name : e \in LinksOf(pass, r)}
        /\ outages' = outages
     \/ <<pass, r>> \in receipt /\ UNCHANGED <<receipt, row, domain, outages>>
     \/ /\ <<pass, r>> \notin receipt /\ outages < MaxOutages
        /\ outages' = outages + 1
        /\ UNCHANGED <<receipt, row, domain>>
  /\ UNCHANGED <<run, queue, pass, toQueue, owing, stops, unbanks>>

\* What no year dates and no line of his names, of every row the source ever gave.
Unverified == Named("links") \ Proven

EndPass ==
  /\ pass \in Half /\ toRead = {}
  /\ IF pass = "links" THEN queue' = queue \cup Unverified /\ owing' = owing \ {"links"}
                       ELSE UNCHANGED <<queue, owing>>
  /\ pass' = "idle"
  /\ UNCHANGED <<run, receipt, row, domain, toRead, toQueue, outages, stops, unbanks>>

\* A red bank takes a half back: its rows, the years they gave and its receipts.
Unbank(half) ==
  /\ pass = "idle" /\ unbanks < MaxUnbanked
  /\ unbanks' = unbanks + 1
  /\ row' = {e \in row : e.half # half}
  /\ receipt' = {f \in receipt : f[1] # half}
  /\ owing' = IF half = "directory" THEN {"links", "seed"} ELSE owing
  /\ UNCHANGED <<run, domain, queue, pass, toRead, toQueue, outages, stops>>
-----------------------------------------------------------------------------
(* `ark seed`. *)

\* Mutant: a name on file was queued when it was filed.
MutUnproven == (SeedFile \ Proven) \ domain

\* What neither his files nor a year of ours settles, on file already or not.
Unproven == SeedFile \ Proven

\* Candidates are registered in the store, then queued. The store is locked meanwhile, and
\* the names are those it classified before it registered any.
BeginSeed ==
  /\ pass = "idle"
  /\ pass' = "seed"
  /\ toQueue' = Unproven
  /\ domain' = domain \cup Unproven
  /\ owing' = owing \cup {"seed"}
  /\ UNCHANGED <<run, receipt, row, queue, toRead, outages, stops, unbanks>>

EndSeed ==
  /\ pass = "seed"
  /\ pass' = "idle"
  /\ queue' = queue \cup toQueue /\ toQueue' = {}
  /\ owing' = owing \ {"seed"}
  /\ UNCHANGED <<run, receipt, row, domain, toRead, outages, stops, unbanks>>

\* A file's rows and receipt are one transaction, so a kill falls between two of them, or
\* before what the pass queues.
KillPass ==
  /\ pass # "idle" /\ stops < MaxStops
  /\ stops' = stops + 1
  /\ pass' = "idle" /\ toRead' = {} /\ toQueue' = {}
  /\ UNCHANGED <<run, receipt, row, domain, queue, owing, outages, unbanks>>

ExpandNext ==
  \/ StartDownload \/ EndDownload \/ KillDownload
  \/ \E p \in Page : ReadPage(p) \/ MarkDirectory(p)
  \/ \E half \in Half : Unbank(half) \/ \E given \in SUBSET (DOMAIN journal) : BeginPass(half, given)
  \/ \E r \in toRead : ReadJournal(r)
  \/ EndPass \/ BeginSeed \/ EndSeed \/ KillPass

ExpandSpec == ExpandInit /\ [][ExpandNext]_expandVars
-----------------------------------------------------------------------------
\* A page no later run asks for has given its rows for each capture asked for, in the half its
\* seed line asserts: `each of those years separately` (expand.py:130-135).
SettledIsFiled ==
  \A p \in Page \ (passed \cup late) :
    LET half == IF p \in curated THEN "directory" ELSE "links"
    IN  Settled(p) /\ (\A r \in DOMAIN journal : <<half, r>> \in receipt) =>
          \A y \in Asked(p) : \A n \in Anchors[<<p, y>>] : [half |-> half, name |-> n, year |-> y] \in row

\* A source whose last pass ended leaves no name undated and unqueued; what is queued is on file.
UndatedIsQueued ==
  /\ \A s \in {"links", "seed"} \ owing : Named(s) \ Proven \subseteq queue
  /\ queue \subseteq domain

(***************************************************************************)
(* A page is skipped once settled, and a name is verified once queued, so  *)
(* neither may be so too early: a settled page has filed every capture it  *)
(* was asked for, and every name is dated, his or queued, whatever failed, *)
(* was killed or re-run.  It is not so of a page one of whose captures     *)
(* failed or was lost where another answered (`passed`), of a page asserted*)
(* to be a directory once it was settled (`late`), and of a source whose   *)
(* pass was cut off, or whose names lost a year to an unbank, until its    *)
(* next pass (`owing`).                                                    *)
(***************************************************************************)
ExpansionIsFollowed == SettledIsFiled /\ UndatedIsQueued
=============================================================================
