------------------------------- MODULE Journals -------------------------------
(***************************************************************************)
(* From a collector's run to the store: the run journal (journal.py,       *)
(* `ark cdx` in cli.py), the bank's promotion of abandoned partials, the   *)
(* converter of sweep journals (cdx_suffix_convert.py) and the ingest of   *)
(* data/raw/cdx, as `just bank` runs them in that order.                   *)
(*                                                                         *)
(* A run writes <name>.part and takes its final name when it stops; the    *)
(* bank folds final names only, once each, keyed on the bytes.  A bank     *)
(* starts when a file moved since the last stamp (bank_trigger.py), which  *)
(* takes the bank's own directory as it then stands and the sweeps as they *)
(* were at its start.  A red bank, which stamps nothing, is in module Bank.*)
(***************************************************************************)
EXTENDS Naturals, Sequences, FiniteSets, SequencesExt

CONSTANTS Run,         \* runs of a collector, one journal each
          Domain,
          Sweep,       \* sweep journals, which grow under their names
          MaxRows,     \* bound on the rows of a sweep journal
          MaxBankKills \* bound on banks killed

ASSUME JournalsAssumption ==
  MaxRows \in Nat /\ MaxBankKills \in Nat

VARIABLES
  proc,      \* Run -> its process
  todo,      \* Run -> domains it has yet to ask
  part,      \* the runs with a .part file -> its lines
  idle,      \* runs whose .part nothing has written to for 90 minutes
  final,     \* the runs with a final name -> its lines
  ledger,    \* the runs ingested -> the lines then
  sweep,     \* Sweep -> rows in it
  state,     \* Sweep -> rows the converter's state file says were read
  outputs,   \* rows in converted journals
  banked,    \* rows of converted journals that were ingested
  fresh,     \* runs with a file under data/raw/cdx that is not as the last stamp saw it
  seen, stamped,   \* Sweep -> rows at the last bank's start, and at the start of the one that stamped
  bankStep, copy,  \* the bank's place, and the run it copies while it does
  mem, rows, \* the converter's new state and the rows it read, while it runs
  stalled,   \* history: runs whose partial aged while they lived
  torn,      \* history: runs a bank was killed copying
  kills

run   == <<proc, todo, part, idle, stalled, final>>
bank  == <<bankStep, copy, mem, rows, torn, kills>>
store == <<ledger, banked>>
convert == <<state, outputs>>
marks == <<seen, stamped>>
journalVars  == <<run, fresh, marks, ledger, sweep, convert, banked, bank>>

Line == [domain : Domain, answered : BOOLEAN]
Rows == Sweep \X (1..MaxRows)

JournalsTypeOK ==
  /\ proc \in [Run -> {"none", "live", "ended", "killed"}]
  /\ todo \in [Run -> SUBSET Domain]
  /\ \A files \in {part, final, ledger} :
       DOMAIN files \subseteq Run /\ \A r \in DOMAIN files : files[r] \in Seq(Line)
  /\ idle \subseteq DOMAIN part
  /\ sweep \in [Sweep -> 0..MaxRows] /\ state \in [Sweep -> 0..MaxRows]
  /\ outputs \subseteq Rows /\ banked \subseteq outputs
  /\ bankStep \in {"idle", "promote", "copying", "stat", "read", "write", "save", "ingest", "stamp"}
  /\ copy \subseteq Run /\ torn \subseteq Run /\ stalled \subseteq Run /\ mem \in [Sweep -> 0..MaxRows] /\ rows \subseteq Rows
  /\ fresh \subseteq Run /\ seen \in [Sweep -> 0..MaxRows] /\ stamped \in [Sweep -> 0..MaxRows]
  /\ kills \in 0..MaxBankKills

JournalsInit ==
  /\ proc = [r \in Run |-> "none"] /\ todo = [r \in Run |-> {}]
  /\ part = <<>> /\ idle = {} /\ final = <<>> /\ ledger = <<>>
  /\ sweep = [j \in Sweep |-> 0] /\ state = [j \in Sweep |-> 0] /\ outputs = {} /\ banked = {}
  /\ bankStep = "idle" /\ copy = {} /\ torn = {} /\ mem = state /\ rows = {}
  /\ fresh = {} /\ seen = state /\ stamped = state
  /\ stalled = {} /\ kills = 0

With(files, r, lines) == [q \in DOMAIN files \cup {r} |-> IF q = r THEN lines ELSE files[q]]
Without(files, r)     == [q \in DOMAIN files \ {r} |-> files[q]]
Answered(lines)       == {line.domain : line \in {l \in ToSet(lines) : l.answered}}
-----------------------------------------------------------------------------
(* The collector. *)

\* What journals of any name already answered.
QueriedDomains == (UNION {Answered(part[r]) : r \in DOMAIN part})
                  \cup (UNION {Answered(final[r]) : r \in DOMAIN final})

\* A list whose every domain is answered starts no journal.
StartRun(r) ==
  /\ proc[r] = "none"
  /\ Domain \ QueriedDomains # {}
  /\ proc' = [proc EXCEPT ![r] = "live"]
  /\ todo' = [todo EXCEPT ![r] = Domain \ QueriedDomains]
  /\ part' = With(part, r, <<>>) /\ fresh' = fresh \cup {r}
  /\ UNCHANGED <<idle, stalled, final, ledger, sweep, convert, banked, marks, bank>>

\* One lookup ends: the answer or the failure is journalled and flushed.
WriteLine(r) ==
  /\ proc[r] = "live"
  /\ \E d \in todo[r], ok \in BOOLEAN :
       /\ part' = [part EXCEPT ![r] = Append(@, [domain |-> d, answered |-> ok])]
       /\ todo' = [todo EXCEPT ![r] = @ \ {d}]
  /\ idle' = idle \ {r} /\ fresh' = fresh \cup {r}
  /\ UNCHANGED <<proc, stalled, final, ledger, sweep, convert, banked, marks, bank>>

\* However the run ends, Ctrl-C, an exception and SIGTERM among them, the rename
\* replaces what has the final name; one that asked all and wrote nothing leaves no file.
EndRun(r) ==
  /\ proc[r] = "live"
  /\ proc' = [proc EXCEPT ![r] = "ended"]
  /\ part' = Without(part, r) /\ idle' = idle \ {r}
  /\ IF todo[r] = {} /\ part[r] = <<>>
       THEN /\ final' = Without(final, r)
            /\ fresh' = IF r \in fresh THEN fresh \ {r} ELSE fresh \cup {r}
       ELSE final' = With(final, r, part[r]) /\ fresh' = fresh \cup {r}
  /\ UNCHANGED <<todo, stalled, ledger, sweep, convert, banked, marks, bank>>

\* kill -9 or a power cut: the last block may be damaged.
KillRun(r) ==
  /\ proc[r] = "live"
  /\ proc' = [proc EXCEPT ![r] = "killed"]
  /\ \E n \in {Len(part[r]), IF part[r] = <<>> THEN 0 ELSE Len(part[r]) - 1} :
       part' = [part EXCEPT ![r] = SubSeq(@, 1, n)]
  /\ UNCHANGED <<todo, idle, stalled, final, fresh, ledger, sweep, convert, banked, marks, bank>>

\* Ninety minutes pass over a partial; a live run lets them pass by a long
\* Retry-After, which the governor honours whatever its length, or a suspend.
Age(r) ==
  /\ r \in DOMAIN part \ idle
  /\ idle' = idle \cup {r}
  /\ stalled' = IF proc[r] = "live" THEN stalled \cup {r} ELSE stalled
  /\ UNCHANGED <<proc, todo, part, final, fresh, ledger, sweep, convert, banked, marks, bank>>

Grow(j) ==
  /\ sweep[j] < MaxRows
  /\ sweep' = [sweep EXCEPT ![j] = @ + 1]
  /\ UNCHANGED <<run, fresh, marks, ledger, convert, banked, bank>>
-----------------------------------------------------------------------------
(* The bank: promote, convert, ingest. *)

\* Mutant: no look at the partial's age.
MutAbandoned == {r \in DOMAIN part : r \notin DOMAIN final}

Abandoned == {r \in DOMAIN part : r \notin DOMAIN final /\ r \in idle}

Begins ==
  /\ bankStep = "idle"
  /\ bankStep' = "promote" /\ seen' = sweep
  /\ UNCHANGED <<run, fresh, stamped, ledger, sweep, convert, banked, copy, mem, rows, torn, kills>>

\* The trigger: a file moved since the last stamp, and the pacing came due.
StartBank == (fresh # {} \/ sweep # stamped) /\ Begins

\* A journal of another directory moved, or a bank is forced by hand.
OtherBank == Begins

\* The copy opens its target, then fills it; the partial stays.
CopyBegin(r) ==
  /\ bankStep = "promote" /\ r \in Abandoned
  /\ bankStep' = "copying" /\ copy' = {r}
  /\ final' = With(final, r, <<>>) /\ fresh' = fresh \cup {r}
  /\ UNCHANGED <<proc, todo, part, idle, stalled, marks, ledger, sweep, convert, banked, mem, rows, torn, kills>>

CopyEnd ==
  /\ bankStep = "copying"
  /\ bankStep' = "promote" /\ copy' = {}
  /\ \E r \in copy : final' = IF r \in DOMAIN part THEN With(final, r, part[r]) ELSE final
  /\ fresh' = fresh \cup copy
  /\ UNCHANGED <<proc, todo, part, idle, stalled, marks, ledger, sweep, convert, banked, mem, rows, torn, kills>>

Promoted ==
  /\ bankStep = "promote" /\ Abandoned = {}
  /\ bankStep' = "stat" /\ rows' = {}
  /\ UNCHANGED <<run, fresh, marks, ledger, sweep, convert, banked, copy, mem, torn, kills>>

\* The size that goes to the state file is taken before the read.
Stat ==
  /\ bankStep = "stat"
  /\ mem' = sweep /\ bankStep' = "read"
  /\ UNCHANGED <<run, fresh, marks, ledger, sweep, convert, banked, copy, rows, torn, kills>>

\* Mutant: the size is taken after the read.
MutRead ==
  /\ bankStep = "read"
  /\ rows' = {row \in Rows : mem[row[1]] # state[row[1]] /\ row[2] <= mem[row[1]]}
  /\ mem' = sweep
  /\ bankStep' = "write"
  /\ UNCHANGED <<run, fresh, marks, ledger, sweep, convert, banked, copy, torn, kills>>

\* A new or grown journal is read whole, the rows appended meanwhile too.
Read ==
  /\ bankStep = "read"
  /\ rows' = {row \in Rows : mem[row[1]] # state[row[1]] /\ row[2] <= sweep[row[1]]}
  /\ bankStep' = "write"
  /\ UNCHANGED <<run, fresh, marks, ledger, sweep, convert, banked, copy, mem, torn, kills>>

WriteOutput ==
  /\ bankStep = "write"
  /\ outputs' = outputs \cup rows
  /\ bankStep' = "save"
  /\ UNCHANGED <<run, fresh, marks, ledger, sweep, state, banked, copy, mem, rows, torn, kills>>

SaveState ==
  /\ bankStep = "save"
  /\ state' = mem
  /\ bankStep' = "ingest"
  /\ UNCHANGED <<run, fresh, marks, ledger, sweep, outputs, banked, copy, mem, rows, torn, kills>>

\* Every final name in one pass: a new one is read and ledgered, a ledgered one with
\* other bytes is logged and left, and the command still exits 0.
Ingest ==
  /\ bankStep = "ingest"
  /\ ledger' = [r \in DOMAIN ledger \cup DOMAIN final |->
                  IF r \in DOMAIN ledger THEN ledger[r] ELSE final[r]]
  /\ banked' = outputs
  /\ bankStep' = "stamp" /\ mem' = state /\ rows' = {}
  /\ UNCHANGED <<run, fresh, marks, sweep, convert, copy, torn, kills>>

\* Mutant: the stamp takes the sweeps as they stand, too.
MutStamp ==
  /\ bankStep = "stamp"
  /\ fresh' = {} /\ stamped' = sweep
  /\ bankStep' = "idle"
  /\ UNCHANGED <<run, seen, ledger, sweep, convert, banked, copy, mem, rows, torn, kills>>

\* The stamp takes data/raw/cdx, where the bank itself writes, as it stands, so a partial too
\* young to promote and a journal that landed since the ingest count as seen; a sweep, as it
\* was at the bank's start.
Stamp ==
  /\ bankStep = "stamp"
  /\ fresh' = {} /\ stamped' = seen
  /\ bankStep' = "idle"
  /\ UNCHANGED <<run, seen, ledger, sweep, convert, banked, copy, mem, rows, torn, kills>>

\* Killed in a copy, the target holds what was copied so far.
KillBank ==
  /\ bankStep # "idle" /\ kills < MaxBankKills
  /\ kills' = kills + 1
  /\ bankStep' = "idle" /\ copy' = {} /\ mem' = state /\ rows' = {}
  /\ torn' = torn \cup (copy \cap DOMAIN part)
  /\ IF copy \cap DOMAIN part = {} THEN final' = final
     ELSE \E r \in copy : \E n \in 0..Len(part[r]) :
            final' = With(final, r, SubSeq(part[r], 1, n))
  /\ UNCHANGED <<proc, todo, part, idle, stalled, fresh, marks, ledger, sweep, convert, banked>>

Collect == \E r \in Run : StartRun(r) \/ WriteLine(r) \/ EndRun(r) \/ KillRun(r) \/ Age(r)

Bank == \/ StartBank \/ (\E r \in Run : CopyBegin(r)) \/ CopyEnd \/ Promoted
        \/ Stat \/ Read \/ WriteOutput \/ SaveState \/ Ingest \/ Stamp

JournalsNext == Collect \/ (\E j \in Sweep : Grow(j)) \/ Bank \/ OtherBank \/ KillBank

JournalsSpec == JournalsInit /\ [][JournalsNext]_journalVars

\* The trigger starts a bank for a file that moved and a bank goes on; a run does not stay live for
\* ever, and a dead run's partial ages.  Nothing starts a bank for an old partial alone.
JournalsFair ==
  /\ WF_journalVars(Bank)
  /\ \A r \in Run : WF_journalVars(EndRun(r)) /\ WF_journalVars(Age(r))

JournalsFairSpec == JournalsSpec /\ JournalsFair
-----------------------------------------------------------------------------
\* In the store, in a file a bank will read, or in one a killed copy or a stalled
\* run's early copy came before.
Stored(d)  == \E r \in DOMAIN ledger : d \in Answered(ledger[r])
Waiting(d) == \/ \E r \in DOMAIN final \ DOMAIN ledger : d \in Answered(final[r])
              \/ \E r \in DOMAIN part : d \in Answered(part[r]) /\ (r \notin DOMAIN final \/ r \in copy)
Exposed(d) == \/ \E r \in DOMAIN part \cap (torn \cup stalled) : d \in Answered(part[r])
              \/ \E r \in DOMAIN final \cap (torn \cup stalled) : d \in Answered(final[r])

(***************************************************************************)
(* A domain that later runs skip as answered is in the store or in a file  *)
(* that a bank will still read, whatever ends its run (journal.py:136-141, *)
(* sources.py:1959): only a bank killed in its copy and a run silent for   *)
(* 90 minutes strand an answer.                                            *)
(***************************************************************************)
AnsweredIsReachable == \A d \in QueriedDomains : Stored(d) \/ Waiting(d) \/ Exposed(d)

(***************************************************************************)
(* What the store took under a name is what the name holds: a journal's    *)
(* bytes never change once they are in the ledger (journal.py:12-13),      *)
(* unless a live run was silent long enough to be taken for dead.          *)
(***************************************************************************)
LedgeredIsWhole ==
  \A r \in (DOMAIN ledger \cap DOMAIN final) \ stalled : ledger[r] = final[r]

(***************************************************************************)
(* Rows the state file says were read are in an output: a crash or a sweep *)
(* growing during the read re-reads, never loses                           *)
(* (cdx_suffix_convert.py:147-170).                                        *)
(***************************************************************************)
StateIsWritten == \A j \in Sweep : \A i \in 1..state[j] : <<j, i>> \in outputs

\* In a journal no ingest read, though the last stamp saw it as it is: a partial that was too young
\* to promote, or a journal that landed between the ingest and the stamp.
Overlooked(d) ==
  \E r \in Run \ (fresh \cup DOMAIN ledger) :
    (r \in DOMAIN part /\ d \in Answered(part[r])) \/ (r \in DOMAIN final /\ d \in Answered(final[r]))

(***************************************************************************)
(* Every answer a run journalled reaches the store, whatever ends the run, *)
(* with the same two exceptions, as long as banks come; and without one    *)
(* that comes for another reason, too, but for what a stamp overlooked     *)
(* (bank_trigger.py:39-44).                                                *)
(***************************************************************************)
AnsweredIsBanked ==
  \A d \in Domain :
    /\ d \in QueriedDomains ~> (d \notin QueriedDomains \/ Stored(d) \/ Exposed(d) \/ Overlooked(d))
    /\ []<>(bankStep = "ingest") =>
         (d \in QueriedDomains ~> (d \notin QueriedDomains \/ Stored(d) \/ Exposed(d)))

(***************************************************************************)
(* Every row of a sweep journal is ingested as a registrable's capture: a  *)
(* row that lands after its read is new to the next bank                   *)
(* (bank_trigger.py:39-41), and brings it.                                 *)
(***************************************************************************)
RowsAreBanked == \A row \in Rows : row[2] <= sweep[row[1]] ~> row \in banked

(***************************************************************************)
(* What a journal, a sweep and the store say of one another agrees, bank   *)
(* and runs killed anywhere: an answer later runs skip can be reached, a   *)
(* name in the ledger holds what was read, and rows the state file counts  *)
(* are in an output (journal.py:12-13, 136-141, sources.py:1959,           *)
(* cdx_suffix_convert.py:147-170).                                         *)
(***************************************************************************)
JournalsAreKept == JournalsTypeOK /\ AnsweredIsReachable /\ LedgeredIsWhole /\ StateIsWritten

(***************************************************************************)
(* What was answered and what was swept ends in the store (journal.py,     *)
(* cdx_suffix_convert.py), however banks and runs are killed, but for what *)
(* a stamp overlooked, which waits for the next bank.                      *)
(***************************************************************************)
JournalsBank == AnsweredIsBanked /\ RowsAreBanked
=============================================================================
