--------------------------------- MODULE Price ---------------------------------
(***************************************************************************)
(* The funnel of price_snapshot.py: from a leg's items file to the names a *)
(* price counts.  A name is a number in C order; an item is what of a line *)
(* the funnel looks at.  The files are read in step with the sorted names, *)
(* and the rows pass the same filters in the same order as in the code.    *)
(***************************************************************************)
EXTENDS Naturals, Sequences, FiniteSets

CONSTANTS Name, ParentOf,    \* names, and the registrable of each (its own, or Rejected)
          CoreNames, Extended,    \* 1996 to 2001 and 2002 to 2013; any other year is out of window
          Items,             \* the lines a leg may find
          MaxItems,
          Releases           \* [his, ours, attested : year -> names, pool, unshippable, late]

Rejected == 0
NoName     == 0                \* no year, no status
PriceYears    == CoreNames \cup Extended
Track    == {"annual", "candidate"}
Split    == {"auto", "exempt"}
PriceFiles == {"held", "pool"}

ASSUME PriceAssumption ==
  /\ Name \subseteq Nat \ {0} /\ PriceYears \subseteq Nat \ {0} /\ MaxItems \in Nat
  /\ \A n \in Name : ParentOf[n] \in Name \cup {Rejected}
  /\ \A c \in CoreNames, e \in Extended : c < e
  /\ \A i \in Items : i.field \cup i.text \subseteq Name /\ IsFiniteSet(i.field) /\ IsFiniteSet(i.text)
  /\ \A h \in Releases :
       /\ \A y \in PriceYears : h.his[y] \cup h.ours[y] \subseteq Name
       /\ h.pool \subseteq Name /\ h.late \subseteq Extended

VARIABLES
  track, split, hisRelease,
  unread,    \* items still to read
  found,     \* year, name and freedom of the names the items gave
  asked,     \* the distinct records of the year in hand still to look up
  year, yearsLeft,
  ahead,     \* the lines of each of the two held files not read past
  left,      \* records held nowhere
  tally,     \* counters
  fstep,
  priced     \* the records counted

priceVars == <<track, split, hisRelease, unread, found, asked, year, yearsLeft, ahead, left, tally, fstep, priced>>

Counter == {"items", "unparseable", "bad_status", "bad_timestamp", "bad_year", "out_of_window",
            "unpriced_extended", "undated", "error_status", "no_host", "rejected_host",
            "records_priced", "already_held", "already_in_candidate_pool", "not_shippable",
            "split_dropped"}
Row == [year : PriceYears \cup {NoName}, name : Name, free : {0, 1}]

PriceTypeOK ==
  /\ track \in Track /\ split \in Split /\ hisRelease \in Releases
  /\ unread \in Seq(Items) /\ Len(unread) <= MaxItems /\ found \subseteq Row /\ left \subseteq Row
  /\ asked \subseteq Row /\ year \in PriceYears \cup {NoName} /\ yearsLeft \subseteq PriceYears \cup {NoName}
  /\ ahead \in [PriceFiles -> SUBSET Name] /\ tally \in [Counter -> Nat]
  /\ fstep \in {"items", "years", "lookup", "split", "done"} /\ priced \subseteq Row

PriceInit ==
  /\ track \in Track /\ split \in Split /\ hisRelease \in Releases
  /\ unread \in UNION {[1..n -> Items] : n \in 0..MaxItems}
  /\ found = {} /\ asked = {} /\ year = NoName /\ yearsLeft = {} /\ left = {} /\ priced = {}
  /\ ahead = [f \in PriceFiles |-> {}] /\ tally = [c \in Counter |-> 0] /\ fstep = "items"
-----------------------------------------------------------------------------
Window == CoreNames \cup IF track = "annual" THEN hisRelease.late ELSE {}
CountRows(t, cs) == [c \in Counter |-> t[c] + IF c \in cs THEN 1 ELSE 0]

\* `_records`, the rules that drop a line, in their order; "kept" when none does.
Verdict(i) ==
  LET capture == i.shape = "capture" IN
  CASE i.shape = "junk" -> "unparseable"
    [] capture /\ i.status = "odd" -> "bad_status"
    [] capture /\ i.year = "bad" -> "bad_timestamp"
    [] ~capture /\ i.year = "bad" -> "bad_year"
    [] i.year # "none" /\ i.at \notin Window ->
         IF track = "annual" /\ i.at \in Extended THEN "unpriced_extended" ELSE "out_of_window"
    [] track = "annual" /\ i.year = "none" -> "undated"
    [] track = "annual" /\ i.at \in Extended /\ (~capture \/ i.status \in {"none", "odd"}) ->
         "unpriced_extended"
    [] track = "annual" /\ i.status = "error" -> "error_status"
    [] OTHER -> "kept"

\* What a kept line names: its field, and the words of its text, which are free.  The text of a
\* late capture is not priced.
Late(i)  == track = "annual" /\ i.at \in Extended
Named(i) == i.field \X {0} \cup (IF Late(i) THEN {} ELSE i.text \X {1})

TakeItem ==
  /\ fstep = "items" /\ unread # <<>>
  /\ LET i == Head(unread)
         v == Verdict(i) IN
     /\ tally' = CountRows(tally, {"items"} \cup (IF v = "kept" THEN {} ELSE {v}))
     /\ found' = IF v # "kept" THEN found
                ELSE found \cup {[year |-> IF track = "annual" THEN i.at ELSE NoName,
                                 name |-> nf[1], free |-> nf[2]] :
                                nf \in {x \in Named(i) : ParentOf[x[1]] # Rejected}}
  /\ unread' = Tail(unread)
  /\ UNCHANGED <<track, split, hisRelease, asked, year, yearsLeft, ahead, left, fstep, priced>>

Group ==
  /\ fstep = "items" /\ unread = <<>>
  /\ yearsLeft' = {r.year : r \in found} /\ fstep' = "years"
  /\ UNCHANGED <<track, split, hisRelease, unread, found, asked, year, ahead, left, tally, priced>>

\* `_distinct`: the rows are sorted, so of a name's copies the one from a field comes first and
\* stands for all.
Distinct(y) == {r \in found : r.year = y /\ (r.free = 1 => [r EXCEPT !.free = 0] \notin found)}

\* What is asked against: the year's own files, his and ours, or for a candidate every core year's.
Held(y) == LET of(z) == hisRelease.his[z] \cup hisRelease.ours[z] IN
           IF track = "annual" THEN of(y) ELSE UNION {of(z) : z \in CoreNames}
PriceFile(f, y) == IF f = "held" THEN Held(y) ELSE hisRelease.pool

TakeYear ==
  /\ fstep = "years" /\ yearsLeft # {}
  /\ \E y \in yearsLeft :
       /\ year' = y /\ yearsLeft' = yearsLeft \ {y}
       /\ asked' = Distinct(y) /\ ahead' = [f \in PriceFiles |-> PriceFile(f, y)]
       /\ tally' = [tally EXCEPT !["records_priced"] = @ + Cardinality(Distinct(y))]
  /\ fstep' = "lookup"
  /\ UNCHANGED <<track, split, hisRelease, unread, found, left, priced>>

\* `_Sorted.has`: the file is read on to the first line that is not below the name, and what was
\* read past does not come again.
Advance(f, n) == {k \in ahead[f] : k >= n}
Has(f, n)     == n \in Advance(f, n)

Ships(r) == <<r.name, r.year>> \notin hisRelease.unshippable

\* `_leftovers`, one record: the next of the sorted ones.
LookUp ==
  /\ fstep = "lookup"
  /\ \E r \in asked :
       LET pooled == track = "candidate" /\ Has("pool", r.name)
           held   == Has("held", r.name)
           gone   == ~held /\ r.year \in Extended /\ ~Ships(r) IN
       /\ \A q \in asked : r.name <= q.name
       /\ ahead' = [f \in PriceFiles |-> IF f = "held" \/ track = "candidate" THEN Advance(f, r.name)
                                         ELSE ahead[f]]
       /\ tally' = CountRows(tally, (IF pooled THEN {"already_in_candidate_pool"} ELSE {})
                     \cup (IF held THEN {"already_held"} ELSE IF gone THEN {"not_shippable"} ELSE {}))
       /\ left' = IF held \/ gone \/ pooled THEN left ELSE left \cup {r}
       /\ asked' = asked \ {r}
  /\ UNCHANGED <<track, split, hisRelease, unread, found, year, yearsLeft, fstep, priced>>

YearDone ==
  /\ fstep = "lookup" /\ asked = {}
  /\ fstep' = "years" /\ year' = NoName /\ ahead' = [f \in PriceFiles |-> {}]
  /\ UNCHANGED <<track, split, hisRelease, unread, found, asked, yearsLeft, left, tally, priced>>

LeftDone ==
  /\ fstep = "years" /\ yearsLeft = {}
  /\ fstep' = "split"
  /\ UNCHANGED <<track, split, hisRelease, unread, found, asked, year, yearsLeft, ahead, left, tally, priced>>

\* A free name is dated in a year when he dates its parent there, or when we attest its registrable.
Dated(r) ==
  LET p == ParentOf[r.name] IN
  \/ p # r.name /\ p \in hisRelease.his[r.year]
  \/ p \in hisRelease.attested[r.year]
Shipped(r) == r.year \in Extended \/ Ships(r)

MutSplitDrop ==
  /\ fstep = "split"
  /\ LET applies == track = "annual" /\ split = "auto"
         drops   == {r \in left : applies /\ r.free = 1 /\ ~Dated(r)} IN
     /\ priced' = {r \in left : Shipped(r)} \ drops
     /\ tally' = [tally EXCEPT !["split_dropped"] = Cardinality(drops),
                               !["not_shippable"] = @ + Cardinality({r \in left : ~Shipped(r)})]
  /\ fstep' = "done"
  /\ UNCHANGED <<track, split, hisRelease, unread, found, asked, year, yearsLeft, ahead, left>>

\* `price`: what ships, less what the corroboration split drops of it.
SplitDrop ==
  /\ fstep = "split"
  /\ LET applies == track = "annual" /\ split = "auto"
         shipped == {r \in left : Shipped(r)}
         drops   == {r \in shipped : applies /\ r.free = 1 /\ ~Dated(r)} IN
     /\ priced' = shipped \ drops
     /\ tally' = [tally EXCEPT !["split_dropped"] = Cardinality(drops),
                               !["not_shippable"] = @ + Cardinality(left \ shipped)]
  /\ fstep' = "done"
  /\ UNCHANGED <<track, split, hisRelease, unread, found, asked, year, yearsLeft, ahead, left>>

PriceNext == TakeItem \/ Group \/ TakeYear \/ LookUp \/ YearDone \/ LeftDone \/ SplitDrop

PriceSpec == PriceInit /\ [][PriceNext]_priceVars
-----------------------------------------------------------------------------
(* Properties. *)

\* What a price counts, said of sets: the names some line gives that nobody holds, that ship, and
\* that are not free in every copy without a date.  The files read in step, in any order of the
\* years, lose and double nothing (price_snapshot.py, price).
PricedIsNetNew ==
  fstep = "done" =>
    LET given == {<<r.year, r.name>> : r \in found}
        free(y, n) == [year |-> y, name |-> n, free |-> 0] \notin found
        heldIn(n, y) == n \in hisRelease.his[y] \cup hisRelease.ours[y]
        new(y, n) == IF track = "annual" THEN ~heldIn(n, y)
                     ELSE n \notin hisRelease.pool /\ \A c \in CoreNames : ~heldIn(n, c)
        kept(y, n) == track = "candidate" \/ split = "exempt" \/ ~free(y, n)
                        \/ Dated([year |-> y, name |-> n, free |-> 1]) IN
    {<<r.year, r.name>> : r \in priced} =
      {yn \in given : /\ new(yn[1], yn[2]) /\ kept(yn[1], yn[2])
                      /\ <<yn[2], yn[1]>> \notin hisRelease.unshippable}

\* The annual funnel adds up: every record asked about is counted once, as held, as unshippable,
\* as dropped by the split or as priced.
AnnualAddsUp ==
  fstep = "done" /\ track = "annual" =>
    tally["records_priced"] = tally["already_held"] + tally["not_shippable"]
                                + tally["split_dropped"] + Cardinality(priced)

(***************************************************************************)
(* A price counts the net-new names of its files, each once, and its       *)
(* funnel adds up (price_snapshot.py, price).                              *)
(***************************************************************************)
PriceIsRight == PriceTypeOK /\ PricedIsNetNew /\ AnnualAddsUp
=============================================================================
