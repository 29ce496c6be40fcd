--------------------------------- MODULE Walk ---------------------------------
(***************************************************************************)
(* One lane of the extended CDX walk (cdx_extended_walk.py): workers take  *)
(* pages and owed subpages, ask the index, write what arrived to a journal *)
(* and book the answer.  A page that is cut or silent is booked and its    *)
(* finer subpages are owed instead, in pending.txt; done.txt says what is  *)
(* never asked again.  The process may stop or be killed at any step.      *)
(*                                                                         *)
(* The rows of a page are positions in index order; the order in which the *)
(* queue's units are ranked and the pauses between requests are left out.  *)
(***************************************************************************)
EXTENDS Naturals, Sequences, FiniteSets, Functions, SequencesExt

CONSTANTS Page,
          Worker,
          Width,       \* subpages of a page: 10
          Depth,       \* times a page can be split: 3
          Span,        \* rows of a task of each level: a page's, a tenth of it, ...
          SilentAfter, \* failures after which a silent subpage is booked: 3
          ParkAfter,   \* failures after which a failing task is parked: 8
          MaxFails,    \* bound on answers that fail
          MaxRestarts, \* bound on restarts
          Answers,     \* the kinds of answer that happen
          None         \* model value: no task, no answer, a free lock

\* Whole, cut after a prefix, a 504, refused by the address, failed otherwise, and the
\* worker's own exception.
Kind == {"complete", "cut", "silent", "refused", "failed", "error"}

ASSUME WalkAssumption ==
  /\ Width \in Nat \ {0} /\ Depth \in Nat \ {0} /\ Span \in [0..Depth -> Nat \ {0}]
  /\ \A l \in 0..(Depth - 1) : Span[l] = Width * Span[l + 1]
  /\ SilentAfter \in Nat /\ ParkAfter \in Nat /\ MaxFails \in Nat /\ MaxRestarts \in Nat
  /\ Answers \subseteq Kind /\ Worker # {} /\ None \notin Worker

VARIABLES
  index,      \* Page -> positions that have rows in the index
  journaled, \* <<page, position>> in a journal on disk
  done,      \* done.txt: tasks booked
  pending,   \* pending.txt: owed subpages and why
  pages,     \* pages queued
  subq,      \* subpages queued
  meta,      \* subpages owed -> why
  inflight,  \* tasks taken
  opened,    \* silent pages whose other subpages are asked
  fails,     \* Task -> failures so far
  walkStep, cur,   \* Worker -> its place and its task
  answer,    \* Worker -> the answer it has
  lock,      \* the worker inside the booking's critical section, or None
  failures, restarts,
  verdict    \* history: tasks let go, and why

files   == <<journaled, done, pending>>
queue  == <<pages, subq, meta, inflight, opened>>
worker == <<walkStep, cur, answer, lock>>
bounds == <<failures, restarts>>
walkVars   == <<index, files, queue, fails, worker, bounds, verdict>>

Position == 0..(Span[0] - 1)
Task == UNION {[page : Page, level : {l}, at : {k \in Position : (k + 1) * Span[l] <= Span[0]}] :
                 l \in 0..Depth}
Role == {"cut", "probe", "rest"}
Meta == [role : Role, parent : Task, stop : Position]
Whole(p) == [page |-> p, level |-> 0, at |-> 0]

\* The rows a task asks for, as <<page, position>>.
Within(r, t) == t.at * Span[t.level] <= r /\ r < (t.at + 1) * Span[t.level]
Asked(t) == {<<t.page, r>> : r \in {r \in index[t.page] : Within(r, t)}}
Child(t, k) == [t EXCEPT !.level = @ + 1, !.at = @ * Width + k]

\* The subpages owed for a failed page: all, last first, after a cut, and the two
\* probes after a silence, which splits only a whole page.
Subpages(t, cut) ==
  IF t.level = Depth \/ (~cut /\ t.level > 0) THEN <<>>
  ELSE IF cut THEN [i \in 1..Width |-> Child(t, Width - i)]
  ELSE <<Child(t, 0), Child(t, Width \div 2)>>

\* What a sequence has at the positions S, in its order.
Nth(S, i)    == CHOOSE k \in S : Cardinality({j \in S : j <= k}) = i
Picked(q, S) == [i \in 1..Cardinality(S) |-> q[Nth(S, i)]]

\* The siblings of a probe that are not probes.
Rest(t) == LET base == (t.at \div Width) * Width
           IN  Picked([i \in 1..Width |-> [t EXCEPT !.at = base + i - 1]],
                      (1..Width) \ {1, Width \div 2 + 1})

Entry(role, parent, stop) == [role |-> role, parent |-> parent, stop |-> stop]
Give(ts, entry)  == [t \in ToSet(ts) |-> entry]
Joined(f, g)      == [x \in DOMAIN f \cup DOMAIN g |-> IF x \in DOMAIN f THEN f[x] ELSE g[x]]
Forget(f, S)     == [x \in DOMAIN f \ S |-> f[x]]
Owing(lines)     == {lines[i].task : i \in DOMAIN lines}

\* The subpages of pending.txt that are not booked, once each.
Reload == Picked(pending, {i \in DOMAIN pending : pending[i].task \notin done /\
                             \A j \in 1..(i - 1) : pending[j].task # pending[i].task})

WalkTypeOK ==
  /\ index \in [Page -> SUBSET Position] /\ journaled \subseteq Page \X Position
  /\ done \subseteq Task /\ pending \in Seq([task : Task, meta : Meta])
  /\ pages \subseteq Task /\ subq \in Seq(Task) /\ inflight \subseteq Task
  /\ DOMAIN meta \subseteq {t \in Task : t.level > 0} /\ Range(meta) \subseteq Meta
  /\ opened \subseteq {Whole(p) : p \in Page}
  /\ fails \in [Task -> Nat]
  /\ walkStep \in [Worker -> {"idle", "ask", "settle", "book", "gone"}]
  /\ cur \in [Worker -> Task \cup {None}] /\ lock \in Worker \cup {None}
  /\ answer \in [Worker -> [kind : Kind, rows : SUBSET journaled] \cup {None}]
  /\ failures \in 0..MaxFails /\ restarts \in 0..MaxRestarts

WalkInit ==
  /\ index \in [Page -> SUBSET Position] /\ journaled = {}
  /\ done = {} /\ pending = <<>>
  /\ pages = {Whole(p) : p \in Page} /\ subq = <<>> /\ meta = <<>>
  /\ inflight = {} /\ opened = {}
  /\ fails = [t \in Task |-> 0] /\ verdict = {}
  /\ walkStep = [w \in Worker |-> "idle"] /\ cur = [w \in Worker |-> None]
  /\ answer = [w \in Worker |-> None] /\ lock = None
  /\ failures = 0 /\ restarts = 0
-----------------------------------------------------------------------------
Move(w, from, to) == walkStep[w] = from /\ walkStep' = [walkStep EXCEPT ![w] = to]

\* Back to the head of the loop, with nothing in hand.
Loop(w) == /\ walkStep' = [walkStep EXCEPT ![w] = "idle"]
           /\ cur' = [cur EXCEPT ![w] = None] /\ answer' = [answer EXCEPT ![w] = None]

\* The next owed subpage that is not booked, the booked ones before it forgotten;
\* else a page; a worker that finds nothing leaves once nothing is in flight.
Take(w) ==
  LET live == SelectInSeq(subq, LAMBDA t : t \notin done)
      skip == ToSet(IF live = 0 THEN subq ELSE SubSeq(subq, 1, live - 1))
  IN  /\ walkStep[w] = "idle" /\ lock = None
      /\ meta' = Forget(meta, skip)
      /\ subq' = IF live = 0 THEN <<>> ELSE SubSeq(subq, live + 1, Len(subq))
      /\ \/ \E t \in IF live # 0 THEN {subq[live]} ELSE pages :
              /\ cur' = [cur EXCEPT ![w] = t]
              /\ inflight' = inflight \cup {t} /\ pages' = pages \ {t}
              /\ Move(w, "idle", "ask")
         \/ /\ live = 0 /\ pages = {}
            /\ Move(w, "idle", IF inflight = {} THEN "gone" ELSE "idle")
            /\ UNCHANGED <<cur, inflight, pages>>
      /\ UNCHANGED <<index, files, opened, fails, answer, lock, bounds, verdict>>

\* Answers that book a task: a whole or a cut one, the silence of a whole page, and a
\* subpage's once it failed often enough.
Booked(t, a) ==
  \/ a.kind \in {"complete", "cut"}
  \/ a.kind = "silent" /\ (t.level = 0 \/ fails[t] >= SilentAfter)

\* The index answers whole, is cut after a prefix, or fails; rows are journalled
\* before anything is booked.
Ask(w) ==
  LET t == cur[w] IN
  /\ Move(w, "ask", "settle")
  /\ \E kind \in Answers :
       \E rows \in {{}, Asked(t)} \cup {{r \in Asked(t) : r[2] <= c[2]} : c \in Asked(t)} :
         /\ kind = "complete" => rows = Asked(t)
         /\ kind = "cut" => rows # {}
         /\ kind \in {"silent", "refused", "failed", "error"} => rows = {}
         /\ IF Booked(t, [kind |-> kind]) THEN UNCHANGED failures
            ELSE failures < MaxFails /\ failures' = failures + 1
         /\ answer' = [answer EXCEPT ![w] = [kind |-> kind, rows |-> rows]]
         /\ journaled' = journaled \cup rows
  /\ UNCHANGED <<index, done, pending, queue, fails, cur, lock, restarts, verdict>>

\* pending.txt holds what is queued and what is in flight.  An entry of the queue
\* without a reason is a KeyError: the file stays and the booking ends there.
Saves(q, m) == ToSet(q) \subseteq DOMAIN m

\* Mutant: what is in flight is not written.
MutSavePending(q, taken, m) ==
  pending' = IF Saves(q, m) THEN [i \in DOMAIN q |-> [task |-> q[i], meta |-> m[q[i]]]]
             ELSE pending

SavePending(q, taken, m) ==
  LET owed == q \o SetToSeq(taken \cap DOMAIN m)
  IN  pending' = IF Saves(q, m) THEN [i \in DOMAIN owed |-> [task |-> owed[i], meta |-> m[owed[i]]]]
                 ELSE pending

\* Back to the head of the subpages, or to its unit's pages.
Requeue(t) ==
  LET q == IF t \in DOMAIN meta THEN <<t>> \o subq ELSE subq IN
  /\ subq' = q /\ pages' = IF t \in DOMAIN meta THEN pages ELSE pages \cup {t}
  /\ inflight' = inflight \ {t}
  /\ SavePending(q, inflight \ {t}, meta)

\* A failure: the task is queued again or, after many that do not blame the address,
\* parked.  The worker's own exception is no failure of the task.
Retry(w) ==
  LET t == cur[w]
      a == answer[w]
      park == a.kind = "failed" /\ fails[t] >= ParkAfter
  IN  /\ walkStep[w] = "settle" /\ lock = None /\ Loop(w)
      /\ ~Booked(t, a)
      /\ fails' = IF a.kind = "error" THEN fails ELSE [fails EXCEPT ![t] = @ + 1]
      /\ IF park THEN /\ inflight' = inflight \ {t} /\ SavePending(subq, inflight \ {t}, meta)
                      /\ verdict' = verdict \cup {<<t, "parked">>}
                      /\ UNCHANGED <<subq, pages>>
         ELSE Requeue(t) /\ UNCHANGED verdict
      /\ UNCHANGED <<index, journaled, done, meta, opened, lock, bounds>>

\* Book an answer.  A cut subpage with rows before the row its parent was cut at makes
\* its lower siblings needless; a probe with rows opens the others; what was not whole
\* owes its subpages.
Settle(w) ==
  LET t    == cur[w]
      rows == {r[2] : r \in answer[w].rows}
      why  == IF t \in DOMAIN meta THEN meta[t] ELSE Entry("rest", t, 0)
      m    == Forget(meta, {t})
      drop == why.role = "cut" /\ \E r \in rows : r < why.stop
      open == why.role = "probe" /\ rows # {} /\ why.parent \notin opened
      rest == IF open THEN Rest(t) ELSE <<>>
      q    == IF drop THEN Picked(subq, {i \in DOMAIN subq : m[subq[i]].parent # why.parent \/ subq[i].at >= t.at})
              ELSE subq
      subs == IF answer[w].kind = "complete" THEN <<>> ELSE Subpages(t, rows # {})
      last == IF rows = {} THEN 0 ELSE CHOOSE r \in rows : \A r2 \in rows : r2 <= r
      new  == subs \o rest \o q
      m2   == Joined(Give(subs, IF rows # {} THEN Entry("cut", t, last) ELSE Entry("probe", t, 0)),
                    Joined(Give(rest, Entry("rest", why.parent, 0)), m))
  IN  /\ walkStep[w] = "settle" /\ lock = None
      /\ Booked(t, answer[w])
      /\ inflight' = inflight \ {t}
      /\ IF drop /\ ~Saves(subq, m)
         THEN /\ Loop(w) /\ meta' = m
              /\ verdict' = verdict \cup {<<t, "dropped">>}
              /\ UNCHANGED <<pending, subq, opened, lock>>
         ELSE /\ subq' = new /\ meta' = m2
              /\ opened' = IF open THEN opened \cup {why.parent} ELSE opened
              /\ SavePending(new, inflight', m2)
              /\ IF Saves(new, m2)
                 THEN Move(w, "settle", "book") /\ lock' = w /\ UNCHANGED <<cur, answer>>
                 ELSE Loop(w) /\ UNCHANGED lock
              /\ verdict' = verdict \cup
                   (IF Saves(new, m2) THEN {} ELSE {<<t, "unbooked">>}) \cup
                   CASE answer[w].kind = "silent" -> {<<t, "silent">>}
                     [] answer[w].kind = "cut" /\ subs = <<>> -> {<<t, "skipped">>}
                     [] OTHER -> {}
      /\ UNCHANGED <<index, journaled, done, pages, fails, bounds>>

\* Mutant: the lock is not released.
MutBook(w) ==
  /\ walkStep[w] = "book" /\ Loop(w)
  /\ done' = done \cup {cur[w]} /\ UNCHANGED lock
  /\ UNCHANGED <<index, journaled, pending, queue, fails, bounds, verdict>>

\* The booking ends with the line in done.txt, after pending.txt was replaced.
Book(w) ==
  /\ walkStep[w] = "book" /\ Loop(w)
  /\ done' = done \cup {cur[w]} /\ lock' = None
  /\ UNCHANGED <<index, journaled, pending, queue, fails, bounds, verdict>>

\* The process ends, killed at any step or at its end, and cron starts it again.
Restart ==
  LET lines == Reload IN
  /\ restarts < MaxRestarts /\ restarts' = restarts + 1
  /\ subq' = [i \in DOMAIN lines |-> lines[i].task]
  /\ meta' = [t \in Owing(lines) |-> (CHOOSE l \in ToSet(lines) : l.task = t).meta]
  /\ opened' = {l.meta.parent : l \in {l \in ToSet(lines) : l.meta.role = "rest"}}
  /\ pages' = {Whole(p) : p \in Page} \ done /\ inflight' = {}
  /\ fails' = [t \in Task |-> 0]
  /\ walkStep' = [w \in Worker |-> "idle"] /\ cur' = [w \in Worker |-> None]
  /\ answer' = [w \in Worker |-> None] /\ lock' = None
  /\ UNCHANGED <<index, files, failures, verdict>>

Work(w) == Take(w) \/ Ask(w) \/ Retry(w) \/ Settle(w) \/ Book(w)
WalkNext    == Restart \/ \E w \in Worker : Work(w)
WalkSpec    == WalkInit /\ [][WalkNext]_walkVars

\* A live process's workers go on; only finitely many answers fail.
WalkFair     == \A w \in Worker : WF_walkVars(Work(w))
WalkLiveSpec == WalkSpec /\ WalkFair
-----------------------------------------------------------------------------
(* Properties. *)

Let(why) == {v[1] : v \in {v \in verdict : v[2] = why}}
Probes(p) == ToSet(Subpages(Whole(p), FALSE))

\* What the files say is still to be asked.
Owed == ({Whole(p) : p \in Page} \cup Owing(pending)) \ done

\* A silent page's subpages beside the probes are not asked while no booked probe
\* had rows.
Unprobed == UNION {{Child(Whole(p), k) : k \in 0..(Width - 1)} \ Probes(p) :
              p \in {p \in Page : Whole(p) \in Let("silent") /\ Depth > 0 /\
                       \A t \in (Probes(p) \cap done) \ Let("silent") : Asked(t) = {}}}

\* Every row the index holds is in a journal, or the files still owe a task that asks
\* for it, or it was let go: after the silence of its subpage or of its page's probes,
\* with a task parked or a finest page cut, or with a subpage whose booking ended, at a
\* KeyError, between its being let go and its being owed as finer ones.  Kills, retries
\* and workers that book siblings of one page in any order lose nothing else.
RowsAreOwed ==
  \A p \in Page : \A r \in index[p] :
    \/ <<p, r>> \in journaled
    \/ \E t \in Owed \cup Unprobed \cup
                 {v[1] : v \in {v \in verdict : v[1].level > 0 /\ v[2] # "unbooked"}} :
         <<p, r>> \in Asked(t)

\* The lane ends only when nothing but parked tasks is owed, if no booking ended early.
ExitOwesNothing ==
  (\A w \in Worker : walkStep[w] = "gone") /\ Let("dropped") \cup Let("unbooked") = {} =>
    Owed \subseteq Let("parked")

\* Every page and every subpage it came to owe is booked in the end.
OwedIsBooked == <>[](Owed = {})

\* "# parked ...: asked again next start": the files owe what was parked, until it is
\* booked.
ParkedIsOwed == Let("parked") \subseteq Owed \cup done

(***************************************************************************)
(* Rows are written or still owed at every step of every worker, and the   *)
(* workers are gone only with nothing but parked tasks owed                *)
(* (cdx_extended_walk.py, booking and reload).                             *)
(***************************************************************************)
NothingIsLost == WalkTypeOK /\ RowsAreOwed /\ ExitOwesNothing
=============================================================================
