---------------------------- MODULE IntakeProofs ----------------------------
(***************************************************************************)
(* Proofs about what comes in, for any inputs and any bounds: the run      *)
(* journals and their bank, the names a price counts, the release taken in *)
(* with the figures quoted of it and those who read it, and the walk over  *)
(* a page of the index and its subpages.                                   *)
(***************************************************************************)
EXTENDS Journals, Price, Intake, Walk, FiniteSetTheorems, SequenceTheorems, WellFoundedInduction, TLAPS

-----------------------------------------------------------------------------
(* The run journals and their bank.  What an answer needs is kept run by   *)
(* run: which of the partial, the final name and the ledger a run can have *)
(* at all, and when two of them are equal.  The converter's half says what *)
(* the state it will save stands for at each of its steps.                 *)

LineSeqs == Seq(Line)
LinesOfRuns(f) == DOMAIN f \subseteq Run /\ \A r \in DOMAIN f : f[r] \in LineSeqs

RunsTyped ==
  /\ proc \in [Run -> {"none", "live", "ended", "killed"}] /\ todo \in [Run -> SUBSET Domain]
  /\ LinesOfRuns(part) /\ LinesOfRuns(final) /\ LinesOfRuns(ledger)
  /\ idle \subseteq DOMAIN part /\ torn \subseteq Run /\ stalled \subseteq Run
  /\ fresh \subseteq Run /\ kills \in 0..MaxBankKills

SweepsTyped ==
  /\ sweep \in [Sweep -> 0..MaxRows] /\ state \in [Sweep -> 0..MaxRows] /\ mem \in [Sweep -> 0..MaxRows]
  /\ rows \subseteq Rows /\ outputs \subseteq Rows /\ banked \subseteq outputs
  /\ bankStep \in {"idle", "promote", "copying", "stat", "read", "write", "save", "ingest", "stamp"}
  /\ seen \in [Sweep -> 0..MaxRows] /\ stamped \in [Sweep -> 0..MaxRows]

\* Only a run that was silent for 90 minutes while it lived has a final name before it ended.
RunInv ==
  /\ copy = {} \/ (bankStep = "copying" /\ \E r \in Run : copy = {r})
  /\ \A r \in Run :
       /\ proc[r] = "none" => r \notin DOMAIN part \cup DOMAIN final \cup DOMAIN ledger
       /\ proc[r] = "live" => r \in DOMAIN part
       /\ proc[r] = "live" /\ r \in idle \cup DOMAIN final \cup DOMAIN ledger \cup copy => r \in stalled
       /\ r \in DOMAIN ledger \ stalled => r \in DOMAIN final /\ ledger[r] = final[r]
       /\ r \in (DOMAIN part \cap DOMAIN final) \ (copy \cup torn \cup stalled) => final[r] = part[r]
       /\ r \in copy => r \in stalled \/ (r \notin DOMAIN ledger /\ r \in DOMAIN part)

\* Rows are in an output before the state counts them, and the state counts no row the read did
\* not see.
SweepInv ==
  \A j \in Sweep :
    /\ state[j] <= sweep[j] /\ mem[j] <= sweep[j]
    /\ \A i \in 1..state[j] : <<j, i>> \in outputs
    /\ bankStep = "write" => \A i \in 1..mem[j] : <<j, i>> \in outputs \cup rows
    /\ bankStep = "save"  => \A i \in 1..mem[j] : <<j, i>> \in outputs

JournalsInv == RunsTyped /\ SweepsTyped /\ RunInv /\ SweepInv
-----------------------------------------------------------------------------
LEMMA WithoutFile ==
  ASSUME NEW f, LinesOfRuns(f), NEW r
  PROVE  /\ LinesOfRuns(Without(f, r)) /\ DOMAIN Without(f, r) = DOMAIN f \ {r}
         /\ \A q \in DOMAIN f \ {r} : Without(f, r)[q] = f[q]
  BY DEF Without, LinesOfRuns

LEMMA ChangedFile ==
  ASSUME NEW f, LinesOfRuns(f), NEW r \in DOMAIN f, NEW lines \in LineSeqs
  PROVE  /\ LinesOfRuns([f EXCEPT ![r] = lines]) /\ DOMAIN [f EXCEPT ![r] = lines] = DOMAIN f
         /\ \A q \in DOMAIN f \ {r} : [f EXCEPT ![r] = lines][q] = f[q]
  BY DEF LinesOfRuns

LEMMA SweepKept ==
  ASSUME SweepsTyped, SweepInv, UNCHANGED <<sweep, marks, convert, banked, bankStep, mem, rows>>
  PROVE  SweepsTyped' /\ SweepInv'
  BY DEF SweepsTyped, SweepInv, convert, marks, Rows

LEMMA CollectKeeps == ASSUME JournalsInv, Collect PROVE JournalsInv'
  <1> USE DEF JournalsInv, run, bank, convert, marks
  <1>1. ASSUME NEW r \in Run, StartRun(r) PROVE JournalsInv'
    <2>1. SweepsTyped' /\ SweepInv' BY <1>1, SweepKept DEF StartRun
    <2>2. <<>> \in LineSeqs /\ LinesOfRuns(part) BY DEF LineSeqs, RunsTyped
    <2>3. /\ LinesOfRuns(part') /\ DOMAIN part' = DOMAIN part \cup {r}
          /\ \A q \in DOMAIN part \ {r} : part'[q] = part[q]
      <3>1. part' = With(part, r, <<>>)
        BY <1>1 DEF StartRun
      <3> HIDE DEF JournalsInv
      <3> QED BY <2>2, <3>1 DEF With, LinesOfRuns
    <2>4. proc' = [proc EXCEPT ![r] = "live"] /\ todo' \in [Run -> SUBSET Domain] /\ proc[r] = "none"
          /\ fresh' \subseteq Run
          /\ UNCHANGED <<idle, stalled, final, ledger, torn, kills, copy, bankStep>>
      BY <1>1 DEF StartRun, RunsTyped
    <2>5. RunsTyped'
      BY <2>3, <2>4 DEF RunsTyped, LinesOfRuns
    <2>6. RunInv'
      BY <2>3, <2>4 DEF RunsTyped, RunInv
    <2> QED BY <2>1, <2>5, <2>6
  <1>2. ASSUME NEW r \in Run, WriteLine(r) PROVE JournalsInv'
    <2>1. SweepsTyped' /\ SweepInv' BY <1>2, SweepKept DEF WriteLine
    <2>2. r \in DOMAIN part /\ part[r] \in LineSeqs /\ LinesOfRuns(part)
      BY <1>2 DEF WriteLine, RunInv, RunsTyped, LinesOfRuns
    <2>3. PICK d \in todo[r], ok \in BOOLEAN :
            /\ part' = [part EXCEPT ![r] = Append(part[r], [domain |-> d, answered |-> ok])]
            /\ todo' = [todo EXCEPT ![r] = @ \ {d}]
      BY <1>2 DEF WriteLine
    <2> DEFINE lines == Append(part[r], [domain |-> d, answered |-> ok])
    <2>4. lines \in LineSeqs
      BY <2>2, <1>2 DEF LineSeqs, Line, RunsTyped
    <2>5. part' = [part EXCEPT ![r] = lines]
      BY <2>3
    <2> HIDE DEF lines
    <2>6. /\ LinesOfRuns(part') /\ DOMAIN part' = DOMAIN part
          /\ \A q \in DOMAIN part \ {r} : part'[q] = part[q]
      BY <2>2, <2>4, <2>5, ChangedFile
    <2>7. /\ todo' \in [Run -> SUBSET Domain] /\ proc[r] = "live" /\ idle' = idle \ {r}
          /\ fresh' \subseteq Run
          /\ UNCHANGED <<proc, stalled, final, ledger, torn, kills, copy, bankStep>>
      BY <1>2, <2>3 DEF WriteLine, RunsTyped
    <2>8. RunsTyped'
      BY <2>6, <2>7 DEF RunsTyped, LinesOfRuns
    <2>9. RunInv'
      BY <2>6, <2>7 DEF RunsTyped, RunInv
    <2> QED BY <2>1, <2>8, <2>9
  <1>3. ASSUME NEW r \in Run, EndRun(r) PROVE JournalsInv'
    <2>1. SweepsTyped' /\ SweepInv' BY <1>3, SweepKept DEF EndRun
    <2>2. r \in DOMAIN part /\ part[r] \in LineSeqs /\ LinesOfRuns(part) /\ LinesOfRuns(final)
      BY <1>3 DEF EndRun, RunInv, RunsTyped, LinesOfRuns
    <2>3. /\ LinesOfRuns(part') /\ DOMAIN part' = DOMAIN part \ {r}
          /\ \A q \in DOMAIN part \ {r} : part'[q] = part[q]
      BY <1>3, <2>2, WithoutFile DEF EndRun
    <2>4. /\ LinesOfRuns(final') /\ DOMAIN final' \in {DOMAIN final \cup {r}, DOMAIN final \ {r}}
          /\ \A q \in DOMAIN final \ {r} : final'[q] = final[q]
      <3>1. final' = Without(final, r) \/ final' = With(final, r, part[r])
        BY <1>3 DEF EndRun
      <3> HIDE DEF JournalsInv
      <3>2. CASE final' = Without(final, r) BY <2>2, <3>2, WithoutFile
      <3>3. CASE final' = With(final, r, part[r]) BY <2>2, <3>3 DEF With, LinesOfRuns
      <3> QED BY <3>1, <3>2, <3>3
    <2>5. /\ proc' = [proc EXCEPT ![r] = "ended"] /\ proc[r] = "live" /\ idle' = idle \ {r}
          /\ fresh' \subseteq Run
          /\ UNCHANGED <<todo, stalled, ledger, torn, kills, copy, bankStep>>
      BY <1>3 DEF EndRun, RunsTyped
    <2>6. RunsTyped'
      BY <2>3, <2>4, <2>5 DEF RunsTyped, LinesOfRuns
    <2>7. RunInv'
      BY <2>3, <2>4, <2>5 DEF RunsTyped, RunInv
    <2> QED BY <2>1, <2>6, <2>7
  <1>4. ASSUME NEW r \in Run, KillRun(r) PROVE JournalsInv'
    <2>1. SweepsTyped' /\ SweepInv' BY <1>4, SweepKept DEF KillRun
    <2>2. r \in DOMAIN part /\ part[r] \in LineSeqs /\ LinesOfRuns(part)
      BY <1>4 DEF KillRun, RunInv, RunsTyped, LinesOfRuns
    <2>3. PICK n \in {Len(part[r]), IF part[r] = <<>> THEN 0 ELSE Len(part[r]) - 1} :
            part' = [part EXCEPT ![r] = SubSeq(part[r], 1, n)]
      BY <1>4 DEF KillRun
    <2>4. SubSeq(part[r], 1, n) \in LineSeqs
      <3>1. n \in 0..Len(part[r])
        BY <2>2, EmptySeq DEF LineSeqs
      <3> QED BY <2>2, <3>1 DEF LineSeqs
    <2>5. RunsTyped'
      BY <1>4, <2>2, <2>3, <2>4, ChangedFile DEF KillRun, RunsTyped
    <2>6. RunInv'
      BY <1>4, <2>2, <2>3, <2>4, ChangedFile DEF KillRun, RunsTyped, RunInv
    <2> QED BY <2>1, <2>5, <2>6
  <1>5. ASSUME NEW r \in Run, Age(r) PROVE JournalsInv'
    <2>1. SweepsTyped' /\ SweepInv' BY <1>5, SweepKept DEF Age
    <2>2. RunsTyped'
      BY <1>5 DEF Age, RunsTyped
    <2>3. RunInv'
      BY <1>5 DEF Age, RunsTyped, RunInv
    <2> QED BY <2>1, <2>2, <2>3
  <1> QED BY <1>1, <1>2, <1>3, <1>4, <1>5 DEF Collect

LEMMA GrowKeeps == ASSUME JournalsInv, NEW j \in Sweep, Grow(j) PROVE JournalsInv'
  <1> USE DEF JournalsInv, Grow, run, bank, convert, marks
  <1>1. RunsTyped' /\ RunInv' BY DEF RunsTyped, RunInv, LinesOfRuns
  <1>2. /\ sweep' \in [Sweep -> 0..MaxRows] /\ \A k \in Sweep : sweep'[k] >= sweep[k]
    BY JournalsAssumption DEF SweepsTyped
  <1>3. SweepsTyped' BY <1>2 DEF SweepsTyped, Rows
  <1>4. SweepInv' BY <1>2 DEF SweepInv, SweepsTyped
  <1> QED BY <1>1, <1>3, <1>4

\* The bank's steps over the runs' files.
LEMMA PromoteKeeps ==
  ASSUME JournalsInv, Begins \/ (\E r \in Run : CopyBegin(r)) \/ CopyEnd \/ Promoted
  PROVE  JournalsInv'
  <1> USE DEF JournalsInv, run, bank, convert, marks
  <1>1. CASE Begins
    BY <1>1 DEF Begins, RunsTyped, RunInv, SweepsTyped, SweepInv, LinesOfRuns, Rows
  <1>2. ASSUME NEW r \in Run, CopyBegin(r) PROVE JournalsInv'
    <2>1. <<>> \in LineSeqs /\ LinesOfRuns(final) BY DEF LineSeqs, RunsTyped
    <2>2. /\ LinesOfRuns(final') /\ DOMAIN final' = DOMAIN final \cup {r}
          /\ \A q \in DOMAIN final \ {r} : final'[q] = final[q]
      <3>1. final' = With(final, r, <<>>)
        BY <1>2 DEF CopyBegin
      <3> HIDE DEF JournalsInv
      <3> QED BY <2>1, <3>1 DEF With, LinesOfRuns
    <2>3. /\ copy' = {r} /\ r \in DOMAIN part /\ r \notin DOMAIN final /\ r \in idle /\ bankStep' = "copying"
          /\ fresh' = fresh \cup {r}
          /\ UNCHANGED <<proc, todo, part, idle, stalled, marks, ledger, sweep, convert, banked, mem, rows, torn, kills>>
      BY <1>2 DEF CopyBegin, Abandoned
    <2>4. RunsTyped' BY <2>2, <2>3 DEF RunsTyped, LinesOfRuns
    <2>5. RunInv'
      <3>1. r \in stalled \/ r \notin DOMAIN ledger
        BY <2>3 DEF RunInv
      <3>2. copy = {}
        BY <1>2 DEF CopyBegin, RunInv
      <3>3. proc[r] # "none" /\ (proc[r] = "live" => r \in stalled)
        BY <2>3 DEF RunInv
      <3> QED BY <2>2, <2>3, <3>1, <3>2, <3>3 DEF RunInv
    <2>6. SweepsTyped' /\ SweepInv' BY <2>3 DEF SweepsTyped, SweepInv, Rows
    <2> QED BY <2>4, <2>5, <2>6
  <1>3. CASE CopyEnd
    <2>1. PICK r \in Run : copy = {r} /\ final' = IF r \in DOMAIN part THEN With(final, r, part[r]) ELSE final
      BY <1>3 DEF CopyEnd, RunInv
    <2>2. copy' = {} /\ bankStep' = "promote" /\ fresh' = fresh \cup copy
          /\ UNCHANGED <<proc, todo, part, idle, stalled, marks, ledger, sweep, convert, banked, mem, rows, torn, kills>>
      BY <1>3 DEF CopyEnd
    <2>3. SweepsTyped' /\ SweepInv' BY <2>2 DEF SweepsTyped, SweepInv, Rows
    <2>4. CASE r \in DOMAIN part
      <3>1. /\ LinesOfRuns(final') /\ DOMAIN final' = DOMAIN final \cup {r} /\ final'[r] = part[r]
            /\ \A q \in DOMAIN final \ {r} : final'[q] = final[q]
        <4>1. final' = With(final, r, part[r]) /\ part[r] \in LineSeqs /\ LinesOfRuns(final)
          BY <2>1, <2>4 DEF RunsTyped, LinesOfRuns
        <4> HIDE DEF JournalsInv
        <4> QED BY <4>1 DEF With, LinesOfRuns
      <3>2. RunsTyped' BY <2>1, <2>2, <3>1 DEF RunsTyped, LinesOfRuns
      <3>3. RunInv' BY <2>1, <2>2, <2>4, <3>1 DEF RunsTyped, RunInv
      <3> QED BY <2>3, <3>2, <3>3
    <2>5. CASE r \notin DOMAIN part
      BY <2>1, <2>2, <2>3, <2>5 DEF RunsTyped, RunInv, LinesOfRuns
    <2> QED BY <2>4, <2>5
  <1>4. CASE Promoted
    BY <1>4 DEF Promoted, RunsTyped, RunInv, SweepsTyped, SweepInv, LinesOfRuns, Rows
  <1> QED BY <1>1, <1>2, <1>3, <1>4

\* The bank's steps over the sweeps' rows, and its ingest.
LEMMA ConvertKeeps ==
  ASSUME JournalsInv, Stat \/ Read \/ WriteOutput \/ SaveState \/ Ingest \/ Stamp
  PROVE  JournalsInv'
  <1> USE DEF JournalsInv, run, bank, convert, marks
  <1>0. ASSUME bankStep # "copying", fresh' \subseteq Run, UNCHANGED <<run, ledger, copy, torn, kills>>
        PROVE  RunsTyped' /\ RunInv'
    BY <1>0 DEF RunsTyped, RunInv, LinesOfRuns
  <1>1. CASE Stat
    BY <1>0, <1>1 DEF Stat, RunsTyped, SweepsTyped, SweepInv, Rows
  <1>2. CASE Read
    <2>1. rows' \subseteq Rows /\ SweepsTyped'
      BY <1>2 DEF Read, SweepsTyped
    <2>2. ASSUME NEW j \in Sweep, NEW i \in 1..mem[j] PROVE <<j, i>> \in outputs \cup rows'
      <3>1. mem[j] \in 0..MaxRows /\ sweep[j] \in 0..MaxRows /\ mem[j] <= sweep[j]
        BY DEF SweepsTyped, SweepInv
      <3>2. <<j, i>> \in Rows /\ i <= sweep[j]
        BY <2>2, <3>1, JournalsAssumption DEF Rows
      <3>3. CASE mem[j] # state[j]
        BY <1>2, <3>2, <3>3 DEF Read
      <3>4. CASE mem[j] = state[j]
        BY <3>4 DEF SweepInv
      <3> QED BY <3>3, <3>4
    <2>3. SweepInv'
      BY <1>2, <2>2 DEF Read, SweepInv
    <2> QED BY <1>0, <1>2, <2>1, <2>3 DEF Read, RunsTyped
  <1>3. CASE WriteOutput
    <2>1. SweepsTyped' BY <1>3 DEF WriteOutput, SweepsTyped, Rows
    <2>2. SweepInv' BY <1>3 DEF WriteOutput, SweepInv
    <2> QED BY <1>0, <1>3, <2>1, <2>2 DEF WriteOutput, RunsTyped
  <1>4. CASE SaveState
    BY <1>0, <1>4 DEF SaveState, RunsTyped, SweepsTyped, SweepInv, Rows
  <1>5. CASE Ingest
    <2>1. SweepsTyped' /\ SweepInv'
      BY <1>5 DEF Ingest, SweepsTyped, SweepInv, Rows
    <2>2. /\ LinesOfRuns(ledger') /\ DOMAIN ledger' = DOMAIN ledger \cup DOMAIN final
          /\ \A r \in DOMAIN ledger : ledger'[r] = ledger[r]
          /\ \A r \in DOMAIN final \ DOMAIN ledger : ledger'[r] = final[r]
      BY <1>5 DEF Ingest, RunsTyped, LinesOfRuns
    <2>3. UNCHANGED <<proc, todo, part, idle, stalled, final, fresh, copy, torn, kills>> /\ bankStep = "ingest"
      BY <1>5 DEF Ingest
    <2>4. RunsTyped' BY <2>2, <2>3 DEF RunsTyped, LinesOfRuns
    <2>5. RunInv' BY <2>2, <2>3 DEF RunsTyped, RunInv
    <2> QED BY <2>1, <2>4, <2>5
  <1>6. CASE Stamp
    BY <1>0, <1>6 DEF Stamp, RunsTyped, SweepsTyped, SweepInv, Rows
  <1> QED BY <1>1, <1>2, <1>3, <1>4, <1>5, <1>6

LEMMA BankKillKeeps == ASSUME JournalsInv, KillBank PROVE JournalsInv'
  <1> USE DEF JournalsInv, run, bank, convert, marks
  <1>1. /\ bankStep' = "idle" /\ copy' = {} /\ mem' = state /\ rows' = {} /\ torn' = torn \cup (copy \cap DOMAIN part)
        /\ UNCHANGED <<proc, todo, part, idle, stalled, fresh, marks, ledger, sweep, convert, banked>>
        /\ kills < MaxBankKills /\ kills' = kills + 1
    BY DEF KillBank
  <1>2. SweepsTyped' /\ SweepInv'
    BY <1>1 DEF SweepsTyped, SweepInv, Rows
  <1>3. kills' \in 0..MaxBankKills
    BY <1>1, JournalsAssumption DEF RunsTyped
  <1>4. CASE copy \cap DOMAIN part = {}
    <2>1. final' = final /\ torn' = torn BY <1>1, <1>4 DEF KillBank
    <2>2. RunsTyped' BY <1>1, <1>3, <2>1 DEF RunsTyped, LinesOfRuns
    <2>3. RunInv' BY <1>1, <1>4, <2>1 DEF RunInv, RunsTyped
    <2> QED BY <1>2, <2>2, <2>3
  <1>5. CASE copy \cap DOMAIN part # {}
    <2>1. PICK r \in copy : \E n \in 0..Len(part[r]) : final' = With(final, r, SubSeq(part[r], 1, n))
      BY <1>5 DEF KillBank
    <2>2. copy = {r} /\ r \in DOMAIN part /\ r \in Run /\ part[r] \in LineSeqs
      BY <1>5, <2>1 DEF RunInv, RunsTyped, LinesOfRuns
    <2>3. PICK n \in 0..Len(part[r]) : final' = With(final, r, SubSeq(part[r], 1, n))
      BY <2>1
    <2>4. SubSeq(part[r], 1, n) \in LineSeqs
      BY <2>2, <2>3 DEF LineSeqs
    <2>5. /\ LinesOfRuns(final') /\ DOMAIN final' = DOMAIN final \cup {r}
          /\ \A q \in DOMAIN final \ {r} : final'[q] = final[q]
      <3>1. LinesOfRuns(final) BY DEF RunsTyped
      <3> QED BY <2>2, <2>3, <2>4, <3>1 DEF With, LinesOfRuns
    <2>6. torn' = torn \cup {r} BY <1>1, <2>2
    <2>7. RunsTyped' BY <1>1, <1>3, <2>2, <2>5, <2>6 DEF RunsTyped, LinesOfRuns
    <2>8. RunInv' BY <1>1, <2>2, <2>5, <2>6 DEF RunInv, RunsTyped
    <2> QED BY <1>2, <2>7, <2>8
  <1> QED BY <1>4, <1>5

\* For any runs, domains and sweeps, and any kills: an answer that later runs skip can be reached,
\* a name in the ledger holds what was read, and the rows the converter's state counts are in an
\* output (journal.py, cdx_suffix_convert.py, sources.py).
THEOREM JournalsStayKept == JournalsSpec => []JournalsAreKept
  <1>1. ASSUME JournalsInit PROVE JournalsInv
    <2> USE <1>1 DEF JournalsInit
    <2>1. RunsTyped BY JournalsAssumption DEF RunsTyped, LinesOfRuns
    <2>2. SweepsTyped BY JournalsAssumption DEF SweepsTyped
    <2>3. RunInv BY DEF RunInv
    <2>4. SweepInv BY DEF SweepInv
    <2> QED BY <2>1, <2>2, <2>3, <2>4 DEF JournalsInv
  <1>2. JournalsInv /\ [JournalsNext]_journalVars => JournalsInv'
    <2> SUFFICES ASSUME JournalsInv, [JournalsNext]_journalVars PROVE JournalsInv'
      OBVIOUS
    <2>1. CASE UNCHANGED journalVars
      BY <2>1 DEF journalVars, run, bank, convert, marks, JournalsInv, RunsTyped, SweepsTyped, RunInv, SweepInv, LinesOfRuns, Rows
    <2> QED BY <2>1, CollectKeeps, GrowKeeps, PromoteKeeps, ConvertKeeps, BankKillKeeps DEF JournalsNext, Bank, StartBank, OtherBank
  <1>3. JournalsInv => JournalsAreKept
    <2> SUFFICES ASSUME JournalsInv PROVE JournalsAreKept
      OBVIOUS
    <2> USE DEF JournalsInv
    <2>1. JournalsTypeOK
      <3>1. copy \subseteq Run BY DEF RunInv
      <3> QED BY <3>1 DEF JournalsTypeOK, RunsTyped, SweepsTyped, LinesOfRuns, LineSeqs
    <2>2. AnsweredIsReachable
      <3> SUFFICES ASSUME NEW d \in QueriedDomains PROVE Stored(d) \/ Waiting(d) \/ Exposed(d)
        BY DEF AnsweredIsReachable
      <3>1. ASSUME NEW r \in DOMAIN final, d \in Answered(final[r]) PROVE Stored(d) \/ Waiting(d) \/ Exposed(d)
        <4>1. CASE r \notin DOMAIN ledger BY <3>1, <4>1 DEF Waiting
        <4>2. CASE r \in stalled BY <3>1, <4>2 DEF Exposed
        <4>3. CASE r \in DOMAIN ledger \ stalled
          <5>1. ledger[r] = final[r] BY <4>3 DEF RunInv, RunsTyped, LinesOfRuns
          <5> QED BY <3>1, <4>3, <5>1 DEF Stored
        <4> QED BY <4>1, <4>2, <4>3
      <3>2. ASSUME NEW r \in DOMAIN part, d \in Answered(part[r]) PROVE Stored(d) \/ Waiting(d) \/ Exposed(d)
        <4>1. CASE r \notin DOMAIN final \/ r \in copy BY <3>2, <4>1 DEF Waiting
        <4>2. CASE r \in torn \cup stalled BY <3>2, <4>2 DEF Exposed
        <4>3. CASE r \in DOMAIN final \ (copy \cup torn \cup stalled)
          <5>1. final[r] = part[r] BY <4>3 DEF RunInv, RunsTyped, LinesOfRuns
          <5> QED BY <3>1, <3>2, <4>3, <5>1
        <4> QED BY <4>1, <4>2, <4>3
      <3> QED BY <3>1, <3>2 DEF QueriedDomains
    <2>3. LedgeredIsWhole BY DEF LedgeredIsWhole, RunInv, RunsTyped, LinesOfRuns
    <2>4. StateIsWritten BY DEF StateIsWritten, SweepInv
    <2> QED BY <2>1, <2>2, <2>3, <2>4 DEF JournalsAreKept
  <1> QED BY <1>1, <1>2, <1>3, PTL DEF JournalsSpec

-----------------------------------------------------------------------------
(* The price.  It needs where each record of the years taken is, and that  *)
(* no line an asked name still needs was read past.                        *)

\* The record that stands for its name and year: of two copies the one from a field.
First(r) == r.free = 1 => [r EXCEPT !.free = 0] \notin found

\* Held nowhere, and not a late name of no existing kind.
IsNew(r) ==
  /\ r.name \notin Held(r.year)
  /\ ~(track = "candidate" /\ r.name \in hisRelease.pool)
  /\ ~(r.year \in Extended /\ ~Ships(r))

RowsKept ==
  /\ IsFiniteSet(found)
  /\ \A r \in found : IF track = "annual" THEN r.year \in PriceYears ELSE r.year = NoName

\* Where the records of the years taken are: still to look up, or left when they are new.
Sorted ==
  /\ asked \subseteq {r \in found : First(r) /\ r.year = year}
  /\ fstep # "lookup" => asked = {}
  /\ fstep = "lookup" => year \notin yearsLeft
  /\ yearsLeft \subseteq {r.year : r \in found}
  /\ left = {r \in found : First(r) /\ r.year \notin yearsLeft /\ r \notin asked /\ IsNew(r)}

\* No line that an asked name still needs was read past.
StillAhead ==
  \A r \in asked, f \in PriceFiles : f = "held" \/ track = "candidate" =>
    (r.name \in ahead[f] <=> r.name \in PriceFile(f, r.year))

AskedAddsUp ==
  track = "annual" => tally["records_priced"] = tally["already_held"] + tally["not_shippable"]
                                                 + Cardinality(left) + Cardinality(asked)

PriceInv ==
  /\ PriceTypeOK /\ RowsKept
  /\ fstep = "items" => /\ asked = {} /\ left = {} /\ yearsLeft = {}
                        /\ \A c \in {"records_priced", "already_held", "not_shippable"} : tally[c] = 0
  /\ fstep \in {"years", "lookup", "split"} => Sorted /\ StillAhead /\ AskedAddsUp
  /\ fstep = "split" => yearsLeft = {}
  /\ fstep = "done" => PricedIsNetNew /\ AnnualAddsUp

LEMMA SameRecords ==
  ASSUME UNCHANGED <<track, hisRelease, found>>
  PROVE  \A r : (First(r)' <=> First(r)) /\ (IsNew(r)' <=> IsNew(r))
BY DEF First, IsNew, Held, Ships

LEMMA VerdictFacts ==
  ASSUME NEW i
  PROVE  /\ Verdict(i) \in {"kept", "unparseable", "bad_status", "bad_timestamp", "bad_year", "out_of_window",
                            "unpriced_extended", "undated", "error_status"}
         /\ Verdict(i) = "kept" /\ track = "annual" => i.at \in Window
BY DEF Verdict

LEMMA CountFacts ==
  ASSUME NEW t \in [Counter -> Nat], NEW cs
  PROVE  /\ CountRows(t, cs) \in [Counter -> Nat]
         /\ \A c \in Counter : CountRows(t, cs)[c] = t[c] + IF c \in cs THEN 1 ELSE 0
BY DEF CountRows

\* The found one item gives are finitely many.
LEMMA GivenRows ==
  ASSUME NEW i \in Items, NEW y, IsFiniteSet(i.field), IsFiniteSet(i.text)
  PROVE  IsFiniteSet({[year |-> y, name |-> nf[1], free |-> nf[2]] :
                        nf \in {x \in Named(i) : ParentOf[x[1]] # Rejected}})
<1> DEFINE S == {x \in Named(i) : ParentOf[x[1]] # Rejected}
           T == {[year |-> y, name |-> nf[1], free |-> nf[2]] : nf \in S}
           given == [nf \in S |-> [year |-> y, name |-> nf[1], free |-> nf[2]]]
<1>1. \A k : IsFiniteSet({k})  BY FS_Singleton
<1>2. IsFiniteSet(i.field \X {0}) /\ IsFiniteSet(i.text \X {1})  BY <1>1, FS_Product
<1>3. IsFiniteSet({})  BY FS_EmptySet
<1>4. IsFiniteSet(Named(i))
  <2>1. CASE Late(i)
    <3>1. Named(i) = i.field \X {0}  BY <2>1 DEF Named
    <3> QED  BY <3>1, <1>2
  <2>2. CASE ~Late(i)
    <3>1. Named(i) = (i.field \X {0}) \cup (i.text \X {1})  BY <2>2 DEF Named
    <3>2. IsFiniteSet((i.field \X {0}) \cup (i.text \X {1}))  BY <1>2, FS_Union
    <3> QED  BY <3>1, <3>2
  <2> QED  BY <2>1, <2>2
<1>5. IsFiniteSet(S)  BY <1>4, FS_Subset
<1>6. given \in Surjection(S, T)  BY DEF Surjection
<1> HIDE DEF given, S, T
<1>7. IsFiniteSet(T)  BY <1>5, <1>6, FS_Surjection
<1> QED  BY <1>7 DEF T, S

LEMMA PriceItemsStep ==
  ASSUME PriceInv, TakeItem
  PROVE  PriceInv'
<1> DEFINE i == Head(unread)
           v == Verdict(i)
           y == IF track = "annual" THEN i.at ELSE NoName
           new == {[year |-> y, name |-> nf[1], free |-> nf[2]] :
                     nf \in {x \in Named(i) : ParentOf[x[1]] # Rejected}}
<1>1. fstep = "items" /\ unread # <<>> /\ unread \in Seq(Items) /\ i \in Items /\ unread' = Tail(unread)
      /\ UNCHANGED <<track, split, hisRelease, asked, year, yearsLeft, ahead, left, fstep, priced>>
  BY DEF TakeItem, PriceInv, PriceTypeOK
<1>2. Tail(unread) \in Seq(Items) /\ Len(Tail(unread)) <= MaxItems
  BY <1>1, PriceAssumption DEF PriceInv, PriceTypeOK
<1>3. /\ tally' = CountRows(tally, {"items"} \cup (IF v = "kept" THEN {} ELSE {v}))
      /\ found' = IF v # "kept" THEN found ELSE found \cup new
  BY DEF TakeItem
<1>4. tally' \in [Counter -> Nat] /\ \A c \in {"records_priced", "already_held", "not_shippable"} : tally'[c] = 0
  <2>1. tally \in [Counter -> Nat]
    BY DEF PriceInv, PriceTypeOK
  <2>2. \A c \in {"records_priced", "already_held", "not_shippable"} :
           c \in Counter /\ tally[c] = 0 /\ c \notin {"items"} \cup (IF v = "kept" THEN {} ELSE {v})
    <3>1. \A c \in {"records_priced", "already_held", "not_shippable"} : v # c /\ c \in Counter
      BY VerdictFacts DEF Counter
    <3> HIDE DEF v
    <3> QED  BY <3>1, <1>1 DEF PriceInv
  <2> HIDE DEF v
  <2> QED  BY <2>1, <2>2, <1>3, CountFacts
<1>5. i.field \cup i.text \subseteq Name /\ IsFiniteSet(i.field) /\ IsFiniteSet(i.text)
  BY <1>1, PriceAssumption
<1>6. IsFiniteSet(new)
  BY <1>1, <1>5, GivenRows
<1>7. ASSUME v = "kept"  PROVE IF track = "annual" THEN y \in PriceYears ELSE y = NoName
  <2>1. track = "annual" => i.at \in Window  BY <1>7, VerdictFacts
  <2>2. hisRelease \in Releases  BY DEF PriceInv, PriceTypeOK
  <2> QED  BY <2>1, <2>2, PriceAssumption DEF Window, PriceYears
<1>8. ASSUME v = "kept"  PROVE new \subseteq Row
  <2>1. y \in PriceYears \cup {NoName}  BY <1>7, <1>8
  <2>2. \A nf \in Named(i) : nf[1] \in Name /\ nf[2] \in {0, 1}
    BY <1>5 DEF Named
  <2> HIDE DEF y, i
  <2> QED  BY <2>1, <2>2 DEF Row
<1>9. found' \subseteq Row /\ IsFiniteSet(found')
  <2> HIDE DEF new, v
  <2> QED  BY <1>3, <1>6, <1>8, FS_Union DEF PriceInv, PriceTypeOK, RowsKept
<1>10. \A r \in found' : IF track = "annual" THEN r.year \in PriceYears ELSE r.year = NoName
  <2>1. \A r \in new : r.year = y  OBVIOUS
  <2> HIDE DEF new, v, y
  <2> QED  BY <2>1, <1>3, <1>7 DEF PriceInv, RowsKept
<1> HIDE DEF i, v, y, new
<1>11. PriceTypeOK'
  BY <1>1, <1>2, <1>4, <1>9 DEF PriceInv, PriceTypeOK
<1>12. RowsKept'
  BY <1>1, <1>9, <1>10 DEF RowsKept
<1> QED  BY <1>1, <1>4, <1>11, <1>12 DEF PriceInv

LEMMA PriceGroupStep ==
  ASSUME PriceInv, Group
  PROVE  PriceInv'
<1>1. /\ fstep = "items" /\ fstep' = "years" /\ yearsLeft' = {r.year : r \in found}
      /\ UNCHANGED <<track, split, hisRelease, unread, found, asked, year, ahead, left, tally, priced>>
  BY DEF Group
<1>2. asked = {} /\ left = {} /\ \A c \in {"records_priced", "already_held", "not_shippable"} : tally[c] = 0
  BY <1>1 DEF PriceInv
<1>3. PriceTypeOK'
  BY <1>1 DEF PriceInv, PriceTypeOK, Row
<1>4. Sorted'
  BY <1>1, <1>2 DEF Sorted
<1>5. StillAhead'
  BY <1>1, <1>2 DEF StillAhead
<1>6. AskedAddsUp'
  BY <1>1, <1>2, FS_EmptySet DEF AskedAddsUp
<1>7. RowsKept'
  BY <1>1 DEF PriceInv, RowsKept
<1> QED  BY <1>1, <1>3, <1>4, <1>5, <1>6, <1>7 DEF PriceInv

LEMMA HeldNames ==
  ASSUME PriceTypeOK, RowsKept, NEW r \in found
  PROVE  \A f \in PriceFiles : PriceFile(f, r.year) \subseteq Name
<1>1. hisRelease \in Releases  BY DEF PriceTypeOK
<1>2. track = "annual" => r.year \in PriceYears  BY DEF RowsKept
<1>3. \A c \in CoreNames : c \in PriceYears  BY DEF PriceYears
<1>4. \A z \in PriceYears : hisRelease.his[z] \cup hisRelease.ours[z] \subseteq Name
  BY <1>1, PriceAssumption
<1>5. Held(r.year) \subseteq Name
  BY <1>2, <1>3, <1>4 DEF Held
<1>6. hisRelease.pool \subseteq Name
  BY <1>1, PriceAssumption
<1> QED  BY <1>5, <1>6 DEF PriceFile

LEMMA PriceYearStep ==
  ASSUME PriceInv, TakeYear
  PROVE  PriceInv'
<1>0. PriceTypeOK /\ RowsKept /\ fstep = "years" /\ fstep' = "lookup" /\ Sorted /\ AskedAddsUp
  BY DEF TakeYear, PriceInv
<1>1. PICK y \in yearsLeft :
        /\ year' = y /\ yearsLeft' = yearsLeft \ {y}
        /\ asked' = Distinct(y) /\ ahead' = [f \in PriceFiles |-> PriceFile(f, y)]
        /\ tally' = [tally EXCEPT !["records_priced"] = @ + Cardinality(Distinct(y))]
  BY DEF TakeYear
<1>2. UNCHANGED <<track, split, hisRelease, unread, found, left, priced>>
  BY DEF TakeYear
<1>3. Distinct(y) = {r \in found : First(r) /\ r.year = y} /\ Distinct(y) \subseteq found
  BY DEF Distinct, First
<1>4. IsFiniteSet(Distinct(y)) /\ Cardinality(Distinct(y)) \in Nat
  BY <1>0, <1>3, FS_Subset, FS_CardinalityType DEF RowsKept
<1>5. asked = {}  BY <1>0 DEF Sorted
<1>6. \A f \in PriceFiles : PriceFile(f, y) \subseteq Name
  <2>1. PICK r \in found : r.year = y  BY <1>0 DEF Sorted
  <2> QED  BY <1>0, <2>1, HeldNames
<1>7. PriceTypeOK'
  <2>1. tally' \in [Counter -> Nat]
    <3> DEFINE n == Cardinality(Distinct(y))
    <3>1. n \in Nat /\ tally \in [Counter -> Nat] /\ "records_priced" \in Counter
      BY <1>0, <1>4 DEF PriceTypeOK, Counter
    <3>2. tally' = [tally EXCEPT !["records_priced"] = tally["records_priced"] + n]
      BY <1>1
    <3> HIDE DEF n
    <3>3. tally["records_priced"] + n \in Nat  BY <3>1
    <3> QED  BY <3>1, <3>2, <3>3
  <2>2. ahead' \in [PriceFiles -> SUBSET Name]
    BY <1>1, <1>6
  <2> QED  BY <1>0, <1>1, <1>2, <1>3, <2>1, <2>2 DEF PriceTypeOK
<1>8. RowsKept'
  BY <1>0, <1>2 DEF RowsKept
<1>9. Sorted'
  <2>1. asked' \subseteq {r \in found : First(r) /\ r.year = y}
    BY <1>1, <1>3
  <2>2. left = {r \in found : First(r) /\ r.year \notin yearsLeft' /\ r \notin asked' /\ IsNew(r)}
    BY <1>0, <1>1, <1>3, <1>5 DEF Sorted
  <2>3. yearsLeft' \subseteq {r.year : r \in found} /\ y \notin yearsLeft' /\ fstep' = "lookup" /\ year' = y
    BY <1>0, <1>1 DEF Sorted
  <2> QED  BY <1>2, <2>1, <2>2, <2>3, SameRecords DEF Sorted
<1>10. StillAhead'
  BY <1>1, <1>2, <1>3 DEF StillAhead, PriceFile, Held
<1>11. AskedAddsUp'
  <2> DEFINE n == Cardinality(Distinct(y))
  <2>1. Cardinality(asked) = 0 /\ Cardinality(asked') = n
    BY <1>1, <1>5, FS_EmptySet
  <2>2. IsFiniteSet(left) /\ Cardinality(left) \in Nat
    BY <1>0, FS_Subset, FS_CardinalityType DEF RowsKept, Sorted
  <2>3. /\ tally'["records_priced"] = tally["records_priced"] + n
        /\ tally'["already_held"] = tally["already_held"] /\ tally'["not_shippable"] = tally["not_shippable"]
        /\ tally["records_priced"] \in Nat /\ tally["already_held"] \in Nat /\ tally["not_shippable"] \in Nat
    BY <1>0, <1>1 DEF PriceTypeOK, Counter
  <2>4. n \in Nat  BY <1>4
  <2> HIDE DEF n
  <2> QED  BY <1>0, <1>2, <2>1, <2>2, <2>3, <2>4 DEF AskedAddsUp
<1> QED  BY <1>0, <1>7, <1>8, <1>9, <1>10, <1>11 DEF PriceInv

LEMMA PriceLookUpStep ==
  ASSUME PriceInv, LookUp
  PROVE  PriceInv'
<1>0. /\ PriceTypeOK /\ RowsKept /\ Sorted /\ StillAhead /\ AskedAddsUp /\ fstep = "lookup" /\ fstep' = "lookup"
      /\ UNCHANGED <<track, split, hisRelease, unread, found, year, yearsLeft, priced>>
  BY DEF LookUp, PriceInv
<1>1. PICK r \in asked :
        LET pooled == track = "candidate" /\ Has("pool", r.name)
            known   == Has("held", r.name)
            gone   == ~known /\ r.year \in Extended /\ ~Ships(r) IN
        /\ \A q \in asked : r.name <= q.name
        /\ ahead' = [f \in PriceFiles |-> IF f = "held" \/ track = "candidate" THEN Advance(f, r.name)
                                          ELSE ahead[f]]
        /\ tally' = CountRows(tally, (IF pooled THEN {"already_in_candidate_pool"} ELSE {})
                      \cup (IF known THEN {"already_held"} ELSE IF gone THEN {"not_shippable"} ELSE {}))
        /\ left' = IF known \/ gone \/ pooled THEN left ELSE left \cup {r}
        /\ asked' = asked \ {r}
  BY DEF LookUp
<1> DEFINE pooled == track = "candidate" /\ Has("pool", r.name)
           known   == Has("held", r.name)
           gone   == ~known /\ r.year \in Extended /\ ~Ships(r)
           cs     == (IF pooled THEN {"already_in_candidate_pool"} ELSE {})
                      \cup (IF known THEN {"already_held"} ELSE IF gone THEN {"not_shippable"} ELSE {})
<1>2. /\ \A q \in asked : r.name <= q.name
      /\ ahead' = [f \in PriceFiles |-> IF f = "held" \/ track = "candidate" THEN Advance(f, r.name)
                                        ELSE ahead[f]]
      /\ tally' = CountRows(tally, cs)
      /\ left' = IF known \/ gone \/ pooled THEN left ELSE left \cup {r}
      /\ asked' = asked \ {r}
  BY <1>1
<1>3. r \in found /\ r \in Row /\ First(r) /\ r.year = year /\ r.year \notin yearsLeft /\ r.name \in Name /\ Name \subseteq Nat
  BY <1>0, PriceAssumption DEF Sorted, PriceTypeOK, Row
<1>4. \A f \in PriceFiles : f = "held" \/ track = "candidate" => (Has(f, r.name) <=> r.name \in PriceFile(f, r.year))
  <2>0. r.name \in Nat  BY <1>3
  <2>1. \A k \in Nat : k >= k  OBVIOUS
  <2> QED  BY <1>0, <2>0, <2>1 DEF StillAhead, Has, Advance
<1>5. known <=> r.name \in Held(r.year)
  BY <1>4 DEF PriceFile, PriceFiles
<1>6. pooled <=> track = "candidate" /\ r.name \in hisRelease.pool
  BY <1>4 DEF PriceFile, PriceFiles
<1>7. (known \/ gone \/ pooled) <=> ~IsNew(r)
  BY <1>5, <1>6 DEF IsNew
<1>8. tally' \in [Counter -> Nat] /\ \A c \in Counter : tally'[c] = tally[c] + IF c \in cs THEN 1 ELSE 0
  <2> HIDE DEF cs
  <2> QED  BY <1>0, <1>2, CountFacts DEF PriceTypeOK
<1>9. PriceTypeOK'
  <2>1. ahead' \in [PriceFiles -> SUBSET Name]
    BY <1>0, <1>2 DEF PriceTypeOK, Advance
  <2>2. left' \subseteq Row /\ asked' \subseteq Row
    <3> HIDE DEF known, gone, pooled
    <3> QED  BY <1>0, <1>2, <1>3 DEF PriceTypeOK
  <2> HIDE DEF cs, known, gone, pooled
  <2> QED  BY <1>0, <1>8, <2>1, <2>2 DEF PriceTypeOK
<1>10. RowsKept'
  BY <1>0 DEF RowsKept
<1>11. Sorted'
  <2>1. asked' \subseteq {q \in found : First(q) /\ q.year = year}
    BY <1>0, <1>2 DEF Sorted
  <2>2. left' = {q \in found : First(q) /\ q.year \notin yearsLeft /\ q \notin asked' /\ IsNew(q)}
    <3> HIDE DEF known, gone, pooled
    <3>1. r \in asked  OBVIOUS
    <3>2. left' = IF IsNew(r) THEN left \cup {r} ELSE left  BY <1>2, <1>7
    <3>3. left = {q \in found : First(q) /\ q.year \notin yearsLeft /\ q \notin asked /\ IsNew(q)}
      BY <1>0 DEF Sorted
    <3>4. asked' = asked \ {r}  BY <1>2
    <3> QED  BY <1>3, <3>1, <3>2, <3>3, <3>4
  <2> QED  BY <1>0, <2>1, <2>2, SameRecords DEF Sorted
<1>12. StillAhead'
  <2>1. ASSUME NEW q \in asked', NEW f \in PriceFiles, f = "held" \/ track = "candidate"
        PROVE  q.name \in ahead'[f] <=> q.name \in PriceFile(f, q.year)
    <3>1. q \in asked /\ q.name \in Nat /\ r.name <= q.name
      BY <1>0, <1>2, <1>3 DEF PriceTypeOK, Row
    <3>2. q.name \in ahead'[f] <=> q.name \in ahead[f]
      BY <1>2, <1>3, <2>1, <3>1 DEF Advance
    <3> QED  BY <1>0, <2>1, <3>1, <3>2 DEF StillAhead
  <2> QED  BY <1>0, <2>1 DEF StillAhead, PriceFile, Held
<1>13. AskedAddsUp'
  <2>1. SUFFICES ASSUME track = "annual"  PROVE AskedAddsUp'
    BY <1>0 DEF AskedAddsUp
  <2>2. /\ IsFiniteSet(left) /\ IsFiniteSet(asked) /\ Cardinality(left) \in Nat /\ Cardinality(asked) \in Nat
        /\ r \notin left /\ r \in asked
    BY <1>0, FS_Subset, FS_CardinalityType DEF RowsKept, Sorted
  <2>3. Cardinality(asked') = Cardinality(asked) - 1
    BY <1>2, <2>2, FS_RemoveElement
  <2>4. IsFiniteSet(left \cup {r}) /\ Cardinality(left \cup {r}) = Cardinality(left) + 1
    BY <2>2, FS_AddElement
  <2>5. /\ tally["records_priced"] \in Nat /\ tally["already_held"] \in Nat /\ tally["not_shippable"] \in Nat
        /\ tally'["records_priced"] = tally["records_priced"]
        /\ tally'["already_held"] = tally["already_held"] + IF known THEN 1 ELSE 0
        /\ tally'["not_shippable"] = tally["not_shippable"] + IF gone THEN 1 ELSE 0
    <3>1. "records_priced" \notin cs /\ ("already_held" \in cs <=> known) /\ ("not_shippable" \in cs <=> gone)
      <4> HIDE DEF known, pooled
      <4> QED  BY Zenon
    <3> HIDE DEF cs, known, gone, pooled
    <3> QED  BY <1>0, <1>8, <3>1 DEF PriceTypeOK, Counter
  <2>6. ~pooled /\ ~(known /\ gone)
    BY <2>1
  <2>7. Cardinality(left') = Cardinality(left) + IF known \/ gone THEN 0 ELSE 1
    <3> HIDE DEF known, gone, pooled
    <3>1. CASE known \/ gone  BY <1>2, <2>2, <3>1
    <3>2. CASE ~(known \/ gone)
      <4>1. left' = left \cup {r}  BY <1>2, <2>6, <3>2
      <4> QED  BY <2>4, <3>2, <4>1
    <3> QED  BY <3>1, <3>2
  <2>8. tally["records_priced"] = tally["already_held"] + tally["not_shippable"] + Cardinality(left) + Cardinality(asked)
    BY <1>0, <2>1 DEF AskedAddsUp
  <2>9. tally'["records_priced"] = tally'["already_held"] + tally'["not_shippable"] + Cardinality(left') + Cardinality(asked')
    <3> HIDE DEF known, gone, pooled
    <3> QED  BY <2>2, <2>3, <2>5, <2>6, <2>7, <2>8
  <2> QED  BY <2>9 DEF AskedAddsUp
<1> HIDE DEF known, gone, pooled, cs
<1> QED  BY <1>0, <1>9, <1>10, <1>11, <1>12, <1>13 DEF PriceInv

\* These records are the new names some line gives (PricedIsNetNew).
CountsNetNew(got) ==
  LET given        == {<<r.year, r.name>> : r \in found}
      free(y, n)   == [year |-> y, name |-> n, free |-> 0] \notin found
      heldIn(n, y) == n \in hisRelease.his[y] \cup hisRelease.ours[y]
      new(y, n)    == IF track = "annual" THEN ~heldIn(n, y)
                     ELSE n \notin hisRelease.pool /\ \A c \in CoreNames : ~heldIn(n, c)
      kept(y, n)   == track = "candidate" \/ split = "exempt" \/ ~free(y, n)
                        \/ Dated([year |-> y, name |-> n, free |-> 1]) IN
    {<<r.year, r.name>> : r \in got} =
      {yn \in given : /\ new(yn[1], yn[2]) /\ kept(yn[1], yn[2])
                      /\ <<yn[2], yn[1]>> \notin hisRelease.unshippable}

\* What is left and ships, less what the split drops, is what is new.
LEMMA LeftIsNetNew ==
  ASSUME PriceTypeOK, RowsKept, Sorted, asked = {}, yearsLeft = {},
         NEW applies, applies = (track = "annual" /\ split = "auto"),
         NEW got, got = {r \in left : Shipped(r) /\ ~(applies /\ r.free = 1 /\ ~Dated(r))}
  PROVE  CountsNetNew(got)
<1> DEFINE given == {<<r.year, r.name>> : r \in found}
           free(y, n) == [year |-> y, name |-> n, free |-> 0] \notin found
           heldIn(n, y) == n \in hisRelease.his[y] \cup hisRelease.ours[y]
           new(y, n) == IF track = "annual" THEN ~heldIn(n, y)
                        ELSE n \notin hisRelease.pool /\ \A c \in CoreNames : ~heldIn(n, c)
           kept(y, n) == track = "candidate" \/ split = "exempt" \/ ~free(y, n)
                           \/ Dated([year |-> y, name |-> n, free |-> 1])
           right == {yn \in given : /\ new(yn[1], yn[2]) /\ kept(yn[1], yn[2])
                                    /\ <<yn[2], yn[1]>> \notin hisRelease.unshippable}
<1>1. track \in {"annual", "candidate"} /\ split \in {"auto", "exempt"}
  BY DEF PriceTypeOK, Track, Split
<1>2. ASSUME NEW r \in found
      PROVE  /\ r = [year |-> r.year, name |-> r.name, free |-> r.free] /\ r.free \in {0, 1}
             /\ [r EXCEPT !.free = 0] = [year |-> r.year, name |-> r.name, free |-> 0]
             /\ Dated(r) <=> Dated([year |-> r.year, name |-> r.name, free |-> 1])
  BY DEF PriceTypeOK, Row, Dated
<1>3. ASSUME NEW r \in found, First(r)
      PROVE  r.free = 1 <=> free(r.year, r.name)
  BY <1>2, <1>3 DEF First
<1>4. ASSUME NEW r \in found
      PROVE  (IsNew(r) /\ Shipped(r)) <=> (new(r.year, r.name) /\ <<r.name, r.year>> \notin hisRelease.unshippable)
  <2>1. CASE track = "annual"
    BY <2>1 DEF IsNew, Shipped, Ships, Held
  <2>2. CASE track = "candidate"
    <3>1. r.year = NoName  BY <2>2 DEF RowsKept
    <3>2. NoName \notin Extended  BY PriceAssumption DEF NoName, PriceYears
    <3> QED  BY <2>2, <3>1, <3>2 DEF IsNew, Shipped, Ships, Held
  <2> QED  BY <1>1, <2>1, <2>2
<1>5. ASSUME NEW r \in found, First(r)
      PROVE  kept(r.year, r.name) <=> ~(applies /\ r.free = 1 /\ ~Dated(r))
  BY <1>1, <1>2, <1>3, <1>5
<1>6. left = {r \in found : First(r) /\ IsNew(r)}
  BY DEF Sorted
<1>7. got = {r \in found : First(r) /\ new(r.year, r.name) /\ kept(r.year, r.name)
                            /\ <<r.name, r.year>> \notin hisRelease.unshippable}
  <2> HIDE DEF new, kept
  <2> QED  BY <1>4, <1>5, <1>6
<1>8. ASSUME NEW r \in found  PROVE \E q \in found : First(q) /\ q.year = r.year /\ q.name = r.name
  <2>1. CASE First(r)  BY <2>1
  <2>2. CASE ~First(r)
    <3> DEFINE q == [r EXCEPT !.free = 0]
    <3>1. q \in found  BY <2>2 DEF First
    <3>2. q.free = 0 /\ q.year = r.year /\ q.name = r.name  BY <1>2
    <3>3. First(q)  BY <3>2 DEF First
    <3> QED  BY <3>1, <3>2, <3>3
  <2> QED  BY <2>1, <2>2
<1>9. {<<r.year, r.name>> : r \in got} \subseteq right
  <2> SUFFICES ASSUME NEW r \in got  PROVE <<r.year, r.name>> \in right
    OBVIOUS
  <2>1. r \in found /\ new(r.year, r.name) /\ kept(r.year, r.name) /\ <<r.name, r.year>> \notin hisRelease.unshippable
    BY <1>7
  <2> HIDE DEF new, kept
  <2> QED  BY <2>1
<1>10. right \subseteq {<<r.year, r.name>> : r \in got}
  <2> SUFFICES ASSUME NEW yn \in right  PROVE \E r \in got : yn = <<r.year, r.name>>
    OBVIOUS
  <2>1. PICK p \in found : yn = <<p.year, p.name>>  OBVIOUS
  <2>2. PICK r \in found : First(r) /\ r.year = p.year /\ r.name = p.name  BY <1>8
  <2>3. new(p.year, p.name) /\ kept(p.year, p.name) /\ <<p.name, p.year>> \notin hisRelease.unshippable
    <3> HIDE DEF new, kept
    <3> QED  BY <2>1
  <2>4. r \in got
    <3> HIDE DEF new, kept
    <3> QED  BY <1>7, <2>2, <2>3
  <2> QED  BY <2>1, <2>2, <2>4
<1>11. {<<r.year, r.name>> : r \in got} = right  BY <1>9, <1>10
<1> QED  BY <1>11 DEF CountsNetNew

LEMMA PriceSplitStep ==
  ASSUME PriceInv, SplitDrop
  PROVE  PriceInv'
<1> DEFINE applies == track = "annual" /\ split = "auto"
           shipped == {r \in left : Shipped(r)}
           drops   == {r \in shipped : applies /\ r.free = 1 /\ ~Dated(r)}
<1>0. /\ PriceTypeOK /\ RowsKept /\ Sorted /\ AskedAddsUp /\ yearsLeft = {} /\ fstep' = "done" /\ asked = {}
      /\ UNCHANGED <<track, split, hisRelease, unread, found, asked, year, yearsLeft, ahead, left>>
  BY DEF SplitDrop, PriceInv, Sorted
<1>1. /\ priced' = shipped \ drops
      /\ tally' = [tally EXCEPT !["split_dropped"] = Cardinality(drops),
                                !["not_shippable"] = @ + Cardinality(left \ shipped)]
  BY DEF SplitDrop
<1>2. /\ IsFiniteSet(left) /\ IsFiniteSet(shipped) /\ IsFiniteSet(drops)
      /\ IsFiniteSet(left \ shipped) /\ IsFiniteSet(shipped \ drops)
  <2>1. left \subseteq found  BY <1>0 DEF Sorted
  <2>2. IsFiniteSet(left)  BY <1>0, <2>1, FS_Subset DEF RowsKept
  <2> QED  BY <2>2, FS_Subset
<1>3. \A S \in {left, shipped, drops, left \ shipped, shipped \ drops} : Cardinality(S) \in Nat
  <2> HIDE DEF shipped, drops
  <2> QED  BY <1>2, FS_CardinalityType
<1>4. /\ Cardinality(shipped) = Cardinality(left) - Cardinality(left \ shipped)
      /\ Cardinality(shipped \ drops) = Cardinality(shipped) - Cardinality(drops)
  <2>1. left \cap shipped = shipped /\ shipped \cap drops = drops  OBVIOUS
  <2> HIDE DEF shipped, drops
  <2>2. Cardinality(left \ shipped) = Cardinality(left) - Cardinality(left \cap shipped)
    BY <1>2, FS_Difference
  <2>3. Cardinality(shipped \ drops) = Cardinality(shipped) - Cardinality(shipped \cap drops)
    BY <1>2, FS_Difference
  <2>4. /\ Cardinality(left \ shipped) = Cardinality(left) - Cardinality(shipped)
        /\ Cardinality(shipped \ drops) = Cardinality(shipped) - Cardinality(drops)
    BY <2>1, <2>2, <2>3, Zenon
  <2> QED  BY <1>3, <2>4
<1>5. tally \in [Counter -> Nat] /\ {"records_priced", "already_held", "not_shippable", "split_dropped"} \subseteq Counter
  BY <1>0 DEF PriceTypeOK, Counter
<1>6. /\ tally'["split_dropped"] = Cardinality(drops)
      /\ tally'["not_shippable"] = tally["not_shippable"] + Cardinality(left \ shipped)
      /\ tally'["records_priced"] = tally["records_priced"] /\ tally'["already_held"] = tally["already_held"]
      /\ tally' \in [Counter -> Nat]
  <2> DEFINE d == Cardinality(drops)
             k == Cardinality(left \ shipped)
  <2>1. d \in Nat /\ k \in Nat
    <3> HIDE DEF shipped, drops
    <3> QED  BY <1>3
  <2>2. tally' = [tally EXCEPT !["split_dropped"] = d, !["not_shippable"] = tally["not_shippable"] + k]
    BY <1>1
  <2> HIDE DEF d, k
  <2>3. tally["not_shippable"] + k \in Nat  BY <1>5, <2>1
  <2>4. /\ tally'["split_dropped"] = d /\ tally'["not_shippable"] = tally["not_shippable"] + k
        /\ tally'["records_priced"] = tally["records_priced"] /\ tally'["already_held"] = tally["already_held"]
        /\ tally' \in [Counter -> Nat]
    BY <1>5, <2>1, <2>2, <2>3
  <2> QED  BY <2>4 DEF d, k
<1>7. priced' = {r \in left : Shipped(r) /\ ~(applies /\ r.free = 1 /\ ~Dated(r))}
  <2> HIDE DEF applies
  <2> QED  BY <1>1
<1>8. PriceTypeOK'
  <2>1. priced' \subseteq Row  BY <1>0, <1>7 DEF PriceTypeOK
  <2> HIDE DEF applies, shipped, drops
  <2> QED  BY <1>0, <1>6, <2>1 DEF PriceTypeOK
<1>9. RowsKept'
  BY <1>0 DEF RowsKept
<1>10. PricedIsNetNew'
  <2> HIDE DEF applies, shipped, drops
  <2>1. applies = (track = "annual" /\ split = "auto")  BY DEF applies
  <2>2. CountsNetNew(priced')  BY <1>0, <1>7, <2>1, LeftIsNetNew
  <2>3. UNCHANGED <<track, split, hisRelease, found>>  BY <1>0
  <2> QED  BY <2>2, <2>3 DEF PricedIsNetNew, CountsNetNew, Dated
<1>11. AnnualAddsUp'
  <2>1. SUFFICES ASSUME track = "annual"  PROVE AnnualAddsUp'
    BY <1>0 DEF AnnualAddsUp
  <2>2. Cardinality(asked) = 0  BY <1>0, FS_EmptySet
  <2>3. tally["records_priced"] = tally["already_held"] + tally["not_shippable"] + Cardinality(left)
    BY <1>0, <1>3, <1>5, <2>1, <2>2 DEF AskedAddsUp
  <2>4. Cardinality(priced') = Cardinality(shipped \ drops)  BY <1>1
  <2> HIDE DEF applies, shipped, drops
  <2> QED  BY <1>3, <1>4, <1>5, <1>6, <2>3, <2>4 DEF AnnualAddsUp
<1> HIDE DEF applies, shipped, drops
<1> QED  BY <1>0, <1>8, <1>9, <1>10, <1>11 DEF PriceInv

LEMMA PriceInvInit == PriceInit => PriceInv
<1> SUFFICES ASSUME PriceInit  PROVE PriceInv
  OBVIOUS
<1>1. unread \in Seq(Items) /\ Len(unread) <= MaxItems
  <2>1. PICK m \in 0..MaxItems : unread \in [1..m -> Items]
    BY DEF PriceInit
  <2>2. m \in Nat /\ m <= MaxItems  BY PriceAssumption
  <2> QED  BY <2>1, <2>2
<1>2. PriceTypeOK
  BY <1>1 DEF PriceInit, PriceTypeOK
<1>3. RowsKept
  BY FS_EmptySet DEF PriceInit, RowsKept
<1> QED  BY <1>2, <1>3 DEF PriceInit, PriceInv, Counter

LEMMA PriceInvNext == PriceInv /\ [PriceNext]_priceVars => PriceInv'
<1> SUFFICES ASSUME PriceInv, [PriceNext]_priceVars  PROVE PriceInv'
  OBVIOUS
<1>1. CASE TakeItem  BY <1>1, PriceItemsStep
<1>2. CASE Group  BY <1>2, PriceGroupStep
<1>3. CASE TakeYear  BY <1>3, PriceYearStep
<1>4. CASE LookUp  BY <1>4, PriceLookUpStep
<1>5. CASE YearDone
  <2>1. /\ fstep = "lookup" /\ asked = {} /\ fstep' = "years" /\ year' = NoName /\ ahead' = [f \in PriceFiles |-> {}]
        /\ UNCHANGED <<track, split, hisRelease, unread, found, asked, yearsLeft, left, tally, priced>>
    BY <1>5 DEF YearDone
  <2>2. PriceTypeOK'  BY <2>1 DEF PriceInv, PriceTypeOK
  <2>3. RowsKept'  BY <2>1 DEF PriceInv, RowsKept
  <2>4. Sorted'  BY <2>1, SameRecords DEF PriceInv, Sorted
  <2>5. StillAhead'  BY <2>1 DEF StillAhead
  <2>6. AskedAddsUp'  BY <2>1 DEF PriceInv, AskedAddsUp
  <2> QED  BY <2>1, <2>2, <2>3, <2>4, <2>5, <2>6 DEF PriceInv
<1>6. CASE LeftDone
  <2>1. /\ fstep = "years" /\ yearsLeft = {} /\ fstep' = "split"
        /\ UNCHANGED <<track, split, hisRelease, unread, found, asked, year, yearsLeft, ahead, left, tally, priced>>
    BY <1>6 DEF LeftDone
  <2>2. PriceTypeOK'  BY <2>1 DEF PriceInv, PriceTypeOK
  <2>3. RowsKept'  BY <2>1 DEF PriceInv, RowsKept
  <2>4. Sorted'  BY <2>1, SameRecords DEF PriceInv, Sorted
  <2>5. StillAhead'  BY <2>1 DEF PriceInv, StillAhead, PriceFile, Held
  <2>6. AskedAddsUp'  BY <2>1 DEF PriceInv, AskedAddsUp
  <2> QED  BY <2>1, <2>2, <2>3, <2>4, <2>5, <2>6 DEF PriceInv
<1>7. CASE SplitDrop  BY <1>7, PriceSplitStep
<1>8. CASE UNCHANGED priceVars
  <2>1. UNCHANGED <<track, split, hisRelease, unread, found, asked, year, yearsLeft, ahead, left, tally, fstep, priced>>
    BY <1>8 DEF priceVars
  <2>2. PriceTypeOK'  BY <2>1 DEF PriceInv, PriceTypeOK
  <2>3. RowsKept'  BY <2>1 DEF PriceInv, RowsKept
  <2>4. Sorted' <=> Sorted  BY <2>1, SameRecords DEF Sorted
  <2>5. StillAhead' <=> StillAhead  BY <2>1 DEF StillAhead, PriceFile, Held
  <2>6. AskedAddsUp' <=> AskedAddsUp  BY <2>1 DEF AskedAddsUp
  <2>7. PricedIsNetNew' <=> PricedIsNetNew  BY <2>1 DEF PricedIsNetNew, Dated
  <2>8. AnnualAddsUp' <=> AnnualAddsUp  BY <2>1 DEF AnnualAddsUp
  <2> QED  BY <2>1, <2>2, <2>3, <2>4, <2>5, <2>6, <2>7, <2>8 DEF PriceInv
<1> QED  BY <1>1, <1>2, <1>3, <1>4, <1>5, <1>6, <1>7, <1>8 DEF PriceNext

(***************************************************************************)
(* A price counts the net-new names of its files, each once, and its       *)
(* funnel adds up, for any files, any release and any order of the years   *)
(* (price_snapshot.py, price).                                             *)
(***************************************************************************)
THEOREM PriceStaysRight == PriceSpec => []PriceIsRight
<1>1. PriceInv => PriceIsRight
  BY DEF PriceInv, PriceIsRight, PricedIsNetNew, AnnualAddsUp
<1>2. PriceInv /\ [PriceNext]_priceVars => PriceInv'  BY PriceInvNext
<1> QED  BY <1>1, <1>2, PriceInvInit, PTL DEF PriceSpec

-----------------------------------------------------------------------------
(* The release intake.  Unless a mend evened its lines out, the release    *)
(* named has the files its figures were measured on or not as many lines.  *)
(* And a stamp vouches for sets made of exactly the files it names.        *)

FileSet == [Files -> Contents]
Vouch   == [files : FileSet, copies : FileSet, merged : FileSet]
HeldSet == [copies : FileSet, merged : FileSet, stamp : Seq(Vouch)]
TakeSteps    == {"checksum", "extract", "members", "artifact", "copying", "counts", "json", "page"}
PrepareSteps == {"prepare", "copies", "merge", "stamp", "sweep", "drop"}

IntakeTyped ==
  /\ tree \in [Markers -> FileSet] /\ besides \in [Archives -> {"none", "part", "whole"}]
  /\ current \in [marker : Markers \cup {NoMarker}, figures : FileSet]
  /\ held \in [Markers -> HeldSet]
  /\ istep \in TakeSteps \cup PrepareSteps \cup {"idle"} /\ archive \in Archives \cup {0}
  /\ previous \in Markers \cup {NoMarker} /\ nth \in 0..Len(Members) /\ figures \in FileSet
  /\ edits \in Nat /\ evened \subseteq Markers
  /\ reader \in {NoReader} \cup [at : Markers, files : FileSet, sets : FileSet, seen : FileSet]

RowsTyped == \A m \in Markers : shaOf[m] \subseteq Archives \cup {0} /\ Cardinality(shaOf[m]) <= 1

\* A run has its archive until the page is written and a release named from then on, which is
\* not the one it extracts; and no one reads another release while it extracts.
IntakeControl ==
  /\ istep = "idle" => archive = 0
  /\ istep \in TakeSteps => archive \in Archives
  /\ istep \in PrepareSteps \cup {"page"} => current.marker \in Markers
  /\ istep \notin {"members", "copies", "merge"} => nth = 0
  /\ istep = "members" => marker # current.marker
  /\ istep \in {"checksum", "extract", "members"} /\ reader # NoReader => reader.at = current.marker

Measured ==
  /\ istep = "json" => /\ \A f \in Core : tree[marker][f] # Gone
                       /\ marker \notin evened => figures = Cores(tree[marker])
  /\ FiguresFollowTree
  /\ current.marker # NoMarker => \A f \in Core : tree[current.marker][f] # Gone
  /\ current.marker \notin evened \cup {NoMarker} =>
       \/ current.figures = Cores(tree[current.marker])
       \/ Count(current.figures) # Count(tree[current.marker])

\* What a stamp says of the sets and of his files is one and the same.
Vouches(s) == s.merged = s.files /\ \A f \in Unsorted : s.copies[f] = s.files[f]

SetsMade ==
  LET h == held[current.marker]
      t == tree[current.marker] IN
  /\ istep = "copies" => \A i \in 1..nth : Members[i] \in Unsorted => h.copies[Members[i]] = t[Members[i]]
  /\ istep \in {"merge", "stamp"} => \A f \in Unsorted : h.copies[f] = t[f]
  /\ istep = "merge" => nth \in {0, 1}
  /\ istep = "merge" /\ nth = 1 => \A f \in Core : h.merged[f] = t[f]
  /\ istep = "stamp" => h.merged = t
Stamped == \A m \in Markers : held[m].stamp # <<>> => Vouches(held[m].stamp[1])

\* A reader's files are as it loaded them, or gone.
Reading ==
  reader # NoReader =>
    /\ reader.sets = reader.files
    /\ \A f \in Files : /\ reader.seen[f] \in {Gone, reader.files[f]}
                        /\ tree[reader.at][f] \in {Gone, reader.files[f]}
                        /\ f \in Unsorted => held[reader.at].copies[f] \in {Gone, reader.files[f]}

IntakeInv == IntakeTyped /\ RowsTyped /\ IntakeControl /\ Measured /\ SetsMade /\ Stamped /\ Reading

\* A set of numbers has a least one.
LEMMA LeastNat ==
  ASSUME NEW N, N \subseteq Nat, N # {} PROVE \E n \in N : \A m \in N : n <= m
  <1> DEFINE R == OpToRel(<, Nat)
  <1>1. \A x, y \in Nat : <<x, y>> \in R <=> x < y BY DEF OpToRel
  <1>2. IsWellFoundedOn(R, Nat) BY NatLessThanWellFounded DEF R
  <1> HIDE DEF R
  <1>3. PICK n \in N : \A m \in N : <<m, n>> \notin R BY <1>2, WFMin
  <1>4. \A m \in N : ~ (m < n) BY <1>1, <1>3
  <1> QED BY <1>3, <1>4

LEMMA FileFacts ==
  /\ Files # {} /\ IsFiniteSet(Core) /\ Members[1] \in Files /\ Len(Members) \in Nat
  /\ \A i \in 1..Len(Members) : Members[i] \in Files
  /\ \A f \in Files : \E i \in 1..Len(Members) : f = Members[i]
<1>1. Len(Members) \in Nat /\ Members \in Seq(Files)  BY IntakeAssumption
<1>2. IsFiniteSet(1..Len(Members))  BY <1>1, FS_Interval
<1>3. IsFiniteSet(Files)
  <2> DEFINE all == [i \in 1..Len(Members) |-> Members[i]]
  <2>1. all \in Surjection(1..Len(Members), Files)
    BY DEF Surjection, Files
  <2> HIDE DEF all
  <2> QED  BY <2>1, <1>2, FS_Surjection
<1>4. IsFiniteSet(Core)  BY <1>3, FS_Subset, IntakeAssumption
<1> QED  BY <1>1, <1>4, IntakeAssumption DEF Files

LEMMA ContentFacts ==
  /\ Gone \in Contents /\ Empty \in FileSet /\ NoReader.at = NoMarker
  /\ \A a \in Archives, v \in Nat, n \in Nat : <<a, v, n>> \in Contents
  /\ \A c \in Contents : c # Gone => c[1] \in Archives /\ c[2] \in Nat /\ c[3] \in Nat
BY DEF Contents, Gone, Empty, FileSet, NoReader

LEMMA TreeTyped ==
  ASSUME NEW t \in [Markers -> FileSet], NEW m \in Markers, NEW f \in Files, NEW c \in Contents
  PROVE  [t EXCEPT ![m][f] = c] \in [Markers -> FileSet]
BY DEF FileSet

LEMMA SetsTyped ==
  ASSUME NEW h \in [Markers -> HeldSet], NEW m \in Markers
  PROVE  /\ [h EXCEPT ![m].stamp = <<>>] \in [Markers -> HeldSet]
         /\ \A s \in Seq(Vouch) : [h EXCEPT ![m].stamp = s] \in [Markers -> HeldSet]
         /\ \A f \in Files, c \in Contents : [h EXCEPT ![m].copies[f] = c] \in [Markers -> HeldSet]
         /\ \A g \in FileSet : [h EXCEPT ![m].merged = g] \in [Markers -> HeldSet]
<1>1. h[m] \in HeldSet  OBVIOUS
<1>2. /\ \A s \in Seq(Vouch) : [h[m] EXCEPT !.stamp = s] \in HeldSet
      /\ \A g \in FileSet : [h[m] EXCEPT !.merged = g] \in HeldSet
  BY <1>1 DEF HeldSet
<1>3. \A f \in Files, c \in Contents : [h[m] EXCEPT !.copies[f] = c] \in HeldSet
  BY <1>1 DEF HeldSet, FileSet
<1>4. [h[m] EXCEPT !.stamp = <<>>] \in HeldSet
  <2>1. <<>> \in Seq(Vouch)  OBVIOUS
  <2> QED  BY <1>2, <2>1
<1>5. [h EXCEPT ![m].stamp = <<>>] \in [Markers -> HeldSet]  BY <1>4
<1>6. \A s \in Seq(Vouch) : [h EXCEPT ![m].stamp = s] \in [Markers -> HeldSet]  BY <1>2
<1>7. \A f \in Files, c \in Contents : [h EXCEPT ![m].copies[f] = c] \in [Markers -> HeldSet]  BY <1>3
<1>8. \A g \in FileSet : [h EXCEPT ![m].merged = g] \in [Markers -> HeldSet]  BY <1>2
<1> QED  BY <1>5, <1>6, <1>7, <1>8

LEMMA MadeTyped ==
  /\ Unheld \in HeldSet /\ <<>> \in Seq(Vouch)
  /\ \A m \in Markers, f \in Files : held \in [Markers -> HeldSet] => held[m].copies[f] \in Contents /\ held[m].merged \in FileSet
  /\ \A g \in FileSet : Cores(g) \in FileSet
<1>1. <<>> \in Seq(Vouch)  OBVIOUS
<1>2. Unheld \in HeldSet
  BY <1>1, ContentFacts DEF Unheld, HeldSet
<1>3. \A m \in Markers, f \in Files : held \in [Markers -> HeldSet] => held[m].copies[f] \in Contents /\ held[m].merged \in FileSet
  BY DEF HeldSet, FileSet
<1>4. \A g \in FileSet : Cores(g) \in FileSet
  BY ContentFacts DEF FileSet, Cores
<1> QED  BY <1>1, <1>2, <1>3, <1>4

\* Every step keeps the types.
LEMMA TypedStep ==
  ASSUME IntakeTyped, IntakeControl, [IntakeNext]_intakeVars
  PROVE  IntakeTyped'
<1>1. CASE Checksum
  BY <1>1, ContentFacts, FileFacts, IntakeAssumption DEF IntakeTyped, IntakeControl, TakeSteps, PrepareSteps, Moves, Ends, disk, limits, intakeVars, marker, Checksum
<1>2. CASE Extract
  BY <1>2, ContentFacts, FileFacts, IntakeAssumption DEF IntakeTyped, IntakeControl, TakeSteps, PrepareSteps, Moves, Ends, disk, limits, intakeVars, marker, Extract
<1>3. CASE WriteMember
  <2>1. marker \in Markers /\ archive \in Archives /\ nth \in Nat
    BY <1>3, IntakeAssumption DEF IntakeTyped, IntakeControl, TakeSteps, PrepareSteps, Moves, Ends, disk, limits, intakeVars, marker, WriteMember
  <2>2. CASE nth = Len(Members)
    BY <1>3, <2>1, <2>2, FileFacts DEF IntakeTyped, IntakeControl, TakeSteps, PrepareSteps, Moves, Ends, disk, limits, intakeVars, marker, WriteMember
  <2>3. CASE nth # Len(Members)
    <3>1. nth + 1 \in 1..Len(Members) /\ Members[nth + 1] \in Files
      BY <2>1, <2>3, FileFacts DEF IntakeTyped
    <3>2. tree' \in [Markers -> FileSet]
      <4>1. PICK c \in Contents : tree' = [tree EXCEPT ![marker][Members[nth + 1]] = c]
        BY <1>3, <2>1, <2>3, <3>1, ContentFacts DEF WriteMember, Half, Entire
      <4>2. tree \in [Markers -> FileSet]  BY DEF IntakeTyped
      <4>3. [tree EXCEPT ![marker][Members[nth + 1]] = c] \in [Markers -> FileSet]
        BY <4>2, <2>1, <3>1, TreeTyped
      <4> QED  BY <4>1, <4>3
    <3> QED  BY <1>3, <2>1, <2>3, <3>1, <3>2 DEF IntakeTyped, IntakeControl, TakeSteps, PrepareSteps, Moves, Ends, disk, limits, intakeVars, marker, WriteMember
  <2> QED  BY <2>2, <2>3
<1>4. CASE Artifact
  BY <1>4, ContentFacts, FileFacts, IntakeAssumption DEF IntakeTyped, IntakeControl, TakeSteps, PrepareSteps, Moves, Ends, disk, limits, intakeVars, marker, Artifact
<1>5. CASE Copied
  BY <1>5, ContentFacts, FileFacts, IntakeAssumption DEF IntakeTyped, IntakeControl, TakeSteps, PrepareSteps, Moves, Ends, disk, limits, intakeVars, marker, Copied
<1>6. CASE Measure
  <2>1. marker \in Markers
    BY <1>6, IntakeAssumption DEF IntakeTyped, IntakeControl, TakeSteps, PrepareSteps, Moves, Ends, disk, limits, intakeVars, marker, Measure
  <2>2. figures' \in FileSet
    BY <1>6, <2>1, MadeTyped, ContentFacts DEF IntakeTyped, Measure, Ends
  <2> QED  BY <1>6, <2>2, FileFacts DEF IntakeTyped, IntakeControl, TakeSteps, PrepareSteps, Moves, Ends, disk, limits, intakeVars, marker, Measure
<1>7. CASE UpdateBaseline
  BY <1>7, ContentFacts, FileFacts, IntakeAssumption DEF IntakeTyped, IntakeControl, TakeSteps, PrepareSteps, Moves, Ends, disk, limits, intakeVars, marker, UpdateBaseline
<1>8. CASE FillPage
  BY <1>8, ContentFacts, FileFacts, IntakeAssumption DEF IntakeTyped, IntakeControl, TakeSteps, PrepareSteps, Moves, Ends, disk, limits, intakeVars, marker, FillPage
<1>9. CASE Unstamp
  <2>1. current.marker \in Markers /\ held \in [Markers -> HeldSet]
    BY <1>9 DEF IntakeTyped, IntakeControl, TakeSteps, PrepareSteps, Moves, Ends, disk, limits, intakeVars, marker, Unstamp
  <2>2. held' = held \/ held' = [held EXCEPT ![current.marker].stamp = <<>>]
    BY <1>9 DEF Unstamp
  <2>3. held' \in [Markers -> HeldSet]
    BY <2>1, <2>2, SetsTyped, MadeTyped
  <2> QED  BY <1>9, <2>3, FileFacts, ContentFacts DEF IntakeTyped, IntakeControl, TakeSteps, PrepareSteps, Moves, Ends, disk, limits, intakeVars, marker, Unstamp
<1>10. CASE CopyNext
  <2>1. current.marker \in Markers /\ nth \in Nat
    BY <1>10 DEF IntakeTyped, IntakeControl, TakeSteps, PrepareSteps, Moves, Ends, disk, limits, intakeVars, marker, CopyNext
  <2>2. CASE nth = Len(Members)
    BY <1>10, <2>1, <2>2, FileFacts DEF IntakeTyped, IntakeControl, TakeSteps, PrepareSteps, Moves, Ends, disk, limits, intakeVars, marker, CopyNext
  <2>3. CASE nth # Len(Members)
    <3>1. nth + 1 \in 1..Len(Members) /\ Members[nth + 1] \in Files
      BY <2>1, <2>3, FileFacts DEF IntakeTyped
    <3>2. tree[current.marker][Members[nth + 1]] \in Contents
      BY <2>1, <3>1 DEF IntakeTyped, FileSet
    <3>3. PICK c \in Contents : held' = [held EXCEPT ![current.marker].copies[Members[nth + 1]] = c]
      BY <1>10, <2>3, <3>2, ContentFacts DEF CopyNext
    <3>4. held \in [Markers -> HeldSet]  BY DEF IntakeTyped
    <3>5. [held EXCEPT ![current.marker].copies[Members[nth + 1]] = c] \in [Markers -> HeldSet]
      BY <3>4, <2>1, <3>1, SetsTyped
    <3> QED  BY <1>10, <2>1, <2>3, <3>1, <3>3, <3>5 DEF IntakeTyped, IntakeControl, TakeSteps, PrepareSteps, Moves, Ends, disk, limits, intakeVars, marker, CopyNext
  <2> QED  BY <2>2, <2>3
<1>11. CASE Merge
  <2>1. current.marker \in Markers
    BY <1>11 DEF IntakeTyped, IntakeControl, TakeSteps, PrepareSteps, Moves, Ends, disk, limits, intakeVars, marker, Merge
  <2>2. \A f \in Files : Use(current.marker, f) \in Contents /\ held[current.marker].merged[f] \in Contents
    BY <2>1, MadeTyped DEF IntakeTyped, Use, FileSet
  <2>3. \A fs : [f \in Files |-> IF f \in fs THEN Use(current.marker, f) ELSE held[current.marker].merged[f]] \in FileSet
    BY <2>2 DEF FileSet
  <2>4. held' \in [Markers -> HeldSet]
    <3> DEFINE fs == IF nth = 0 THEN Core ELSE Files \ Core
               new == [f \in Files |-> IF f \in fs THEN Use(current.marker, f) ELSE held[current.marker].merged[f]]
    <3>1. held' = [held EXCEPT ![current.marker].merged = new]
      BY <1>11, <2>1 DEF Merge, IntakeTyped
    <3>2. new \in FileSet
      BY <2>3
    <3> HIDE DEF new
    <3> QED  BY <3>1, <3>2, <2>1, SetsTyped DEF IntakeTyped
  <2>5. 1 \in 0..Len(Members) /\ 0 \in 0..Len(Members)
    BY FileFacts, IntakeAssumption
  <2> QED  BY <1>11, <2>4, <2>5 DEF IntakeTyped, IntakeControl, TakeSteps, PrepareSteps, Moves, Ends, disk, limits, intakeVars, marker, Merge
<1>12. CASE Sha
  <2>1. current.marker \in Markers
    BY <1>12 DEF IntakeTyped, IntakeControl, TakeSteps, PrepareSteps, Moves, Ends, disk, limits, intakeVars, marker, Sha
  <2>3. <<[files |-> tree[current.marker], copies |-> held[current.marker].copies,
           merged |-> held[current.marker].merged]>> \in Seq(Vouch)
    BY <2>1 DEF IntakeTyped, HeldSet, Vouch
  <2>2. held' \in [Markers -> HeldSet]
    BY <1>12, <2>1, SetsTyped, MadeTyped, <2>3 DEF IntakeTyped, Sha
  <2> QED  BY <1>12, <2>2, FileFacts, ContentFacts DEF IntakeTyped, IntakeControl, TakeSteps, PrepareSteps, Moves, Ends, disk, limits, intakeVars, marker, Sha
<1>13. CASE SweepHeld
  <2>1. current.marker \in Markers
    BY <1>13 DEF IntakeTyped, IntakeControl, TakeSteps, PrepareSteps, Moves, Ends, disk, limits, intakeVars, marker, SweepHeld
  <2>2. held' \in [Markers -> HeldSet]
    BY <1>13, <2>1, SetsTyped, MadeTyped DEF IntakeTyped, SweepHeld
  <2> QED  BY <1>13, <2>2, FileFacts, ContentFacts DEF IntakeTyped, IntakeControl, TakeSteps, PrepareSteps, Moves, Ends, disk, limits, intakeVars, marker, SweepHeld
<1>14. CASE Drop
  BY <1>14, ContentFacts, FileFacts, IntakeAssumption DEF IntakeTyped, IntakeControl, TakeSteps, PrepareSteps, Moves, Ends, disk, limits, intakeVars, marker, Drop
<1>15. CASE PrepareAgain
  BY <1>15, ContentFacts, FileFacts, IntakeAssumption DEF IntakeTyped, IntakeControl, TakeSteps, PrepareSteps, Moves, Ends, disk, limits, intakeVars, marker, PrepareAgain
<1>16. CASE Kill
  <2>1. /\ istep' = "idle" /\ archive' = 0 /\ previous' = NoMarker /\ nth' = 0 /\ figures' = Empty
        /\ UNCHANGED <<tree, besides, current, held, reader, edits, evened>>
    BY <1>16 DEF Kill, Ends, disk
  <2>2. 0 \in 0..Len(Members)  BY FileFacts
  <2> QED  BY <2>1, <2>2, ContentFacts DEF IntakeTyped
<1>17. CASE Load
  <2>1. current.marker \in Markers
    BY <1>17 DEF IntakeTyped, Load
  <2>2. tree[current.marker] \in FileSet /\ held[current.marker].merged \in FileSet
    BY <2>1 DEF IntakeTyped, HeldSet
  <2>3. reader' \in [at : Markers, files : FileSet, sets : FileSet, seen : FileSet]
    BY <1>17, <2>1, <2>2, ContentFacts DEF Load
  <2> QED  BY <1>17, <2>3 DEF IntakeTyped, IntakeControl, TakeSteps, PrepareSteps, Moves, Ends, disk, limits, intakeVars, marker, Load
<1>18. CASE ReadEnds
  BY <1>18, ContentFacts, FileFacts, IntakeAssumption DEF IntakeTyped, IntakeControl, TakeSteps, PrepareSteps, Moves, Ends, disk, limits, intakeVars, marker, ReadEnds
<1>19. ASSUME NEW a \in Archives, Offer(a)  PROVE IntakeTyped'
  <2>1. /\ istep' = "checksum" /\ archive' = a /\ previous' = current.marker
        /\ UNCHANGED <<tree, current, held, nth, figures, reader, edits, evened>>
        /\ besides' = besides \/ besides' = [besides EXCEPT ![a] = "whole"]
    BY <1>19 DEF Offer
  <2>2. current.marker \in Markers \cup {NoMarker}  BY DEF IntakeTyped
  <2> QED  BY <2>1, <2>2 DEF IntakeTyped, TakeSteps
<1>20. ASSUME NEW f \in Files, ReadFile(f)  PROVE IntakeTyped'
  <2>1. /\ reader \in [at : Markers, files : FileSet, sets : FileSet, seen : FileSet]
        /\ reader.seen \in FileSet
    BY <1>20 DEF IntakeTyped, ReadFile
  <2>2. Use(reader.at, f) \in Contents
    BY <2>1, MadeTyped DEF IntakeTyped, Use, FileSet
  <2>3. [reader.seen EXCEPT ![f] = Use(reader.at, f)] \in FileSet
    BY <2>1, <2>2 DEF FileSet
  <2>4. [reader EXCEPT !.seen[f] = Use(reader.at, f)] \in [at : Markers, files : FileSet, sets : FileSet, seen : FileSet]
    BY <2>1, <2>3
  <2>5. reader' \in {NoReader} \cup [at : Markers, files : FileSet, sets : FileSet, seen : FileSet]
    BY <1>20, <2>4 DEF ReadFile, ReadAt
  <2> QED  BY <1>20, <2>5 DEF IntakeTyped, IntakeControl, TakeSteps, PrepareSteps, Moves, Ends, disk, limits, intakeVars, marker, ReadFile
<1>21. ASSUME NEW m \in Markers, NEW f \in Files, Edit(m, f)  PROVE IntakeTyped'
  <2>1. tree[m][f] \in Contents /\ tree[m][f] # Gone
    BY <1>21 DEF IntakeTyped, FileSet, Edit, IsWhole, Gone
  <2>2. PICK n \in Nat : tree' = [tree EXCEPT ![m][f] = <<tree[m][f][1], 1 + edits', n>>]
    BY <1>21 DEF Edit, IntakeTyped
  <2>3. tree' \in [Markers -> FileSet]
    <3>1. 1 + edits' \in Nat /\ edits \in Nat
      BY <1>21 DEF Edit, IntakeTyped
    <3>2. <<tree[m][f][1], 1 + edits', n>> \in Contents
      BY <2>1, <3>1, ContentFacts
    <3> QED  BY <2>2, <3>2, TreeTyped DEF IntakeTyped
  <2> QED  BY <1>21, <2>3 DEF IntakeTyped, IntakeControl, TakeSteps, PrepareSteps, Moves, Ends, disk, limits, intakeVars, marker, Edit
<1>22. CASE UNCHANGED intakeVars
  BY <1>22, ContentFacts, FileFacts, IntakeAssumption DEF IntakeTyped, IntakeControl, TakeSteps, PrepareSteps, Moves, Ends, disk, limits, intakeVars, marker
<1> QED  BY <1>1, <1>2, <1>3, <1>4, <1>5, <1>6, <1>7, <1>8, <1>9, <1>10, <1>11, <1>12, <1>13, <1>14, <1>15, <1>16, <1>17, <1>18, <1>19, <1>20, <1>21, <1>22 DEF IntakeNext, Recipe

\* A run keeps its archive and the marker it names.
LEMMA ControlStep ==
  ASSUME IntakeTyped, IntakeControl, Measured, [IntakeNext]_intakeVars
  PROVE  IntakeControl'
<1>1. CASE Checksum
  BY <1>1, ContentFacts, FileFacts, IntakeAssumption DEF IntakeTyped, IntakeControl, TakeSteps, PrepareSteps, Moves, Ends, disk, limits, intakeVars, marker, Found, Measured, Checksum
<1>2. CASE Extract
  BY <1>2, ContentFacts, FileFacts, IntakeAssumption DEF IntakeTyped, IntakeControl, TakeSteps, PrepareSteps, Moves, Ends, disk, limits, intakeVars, marker, Found, Measured, Extract
<1>3. CASE WriteMember
  BY <1>3, ContentFacts, FileFacts, IntakeAssumption DEF IntakeTyped, IntakeControl, TakeSteps, PrepareSteps, Moves, Ends, disk, limits, intakeVars, marker, Found, Measured, WriteMember
<1>4. CASE Artifact
  BY <1>4, ContentFacts, FileFacts, IntakeAssumption DEF IntakeTyped, IntakeControl, TakeSteps, PrepareSteps, Moves, Ends, disk, limits, intakeVars, marker, Found, Measured, Artifact
<1>5. CASE Copied
  BY <1>5, ContentFacts, FileFacts, IntakeAssumption DEF IntakeTyped, IntakeControl, TakeSteps, PrepareSteps, Moves, Ends, disk, limits, intakeVars, marker, Found, Measured, Copied
<1>6. CASE Measure
  BY <1>6, ContentFacts, FileFacts, IntakeAssumption DEF IntakeTyped, IntakeControl, TakeSteps, PrepareSteps, Moves, Ends, disk, limits, intakeVars, marker, Found, Measured, Measure
<1>7. CASE UpdateBaseline
  BY <1>7, ContentFacts, FileFacts, IntakeAssumption DEF IntakeTyped, IntakeControl, TakeSteps, PrepareSteps, Moves, Ends, disk, limits, intakeVars, marker, Found, Measured, UpdateBaseline
<1>8. CASE FillPage
  <2>1. istep = "page" /\ istep' = "prepare" /\ UNCHANGED <<current, archive, nth, tree, reader>>
    BY <1>8 DEF FillPage, Moves
  <2>2. marker' = marker  BY <2>1 DEF marker
  <2> QED  BY <2>1, <2>2 DEF IntakeTyped, IntakeControl, TakeSteps, PrepareSteps
<1>9. CASE Unstamp
  BY <1>9, ContentFacts, FileFacts, IntakeAssumption DEF IntakeTyped, IntakeControl, TakeSteps, PrepareSteps, Moves, Ends, disk, limits, intakeVars, marker, Found, Measured, Unstamp
<1>10. CASE CopyNext
  BY <1>10, ContentFacts, FileFacts, IntakeAssumption DEF IntakeTyped, IntakeControl, TakeSteps, PrepareSteps, Moves, Ends, disk, limits, intakeVars, marker, Found, Measured, CopyNext
<1>11. CASE Merge
  BY <1>11, ContentFacts, FileFacts, IntakeAssumption DEF IntakeTyped, IntakeControl, TakeSteps, PrepareSteps, Moves, Ends, disk, limits, intakeVars, marker, Found, Measured, Merge
<1>12. CASE Sha
  BY <1>12, ContentFacts, FileFacts, IntakeAssumption DEF IntakeTyped, IntakeControl, TakeSteps, PrepareSteps, Moves, Ends, disk, limits, intakeVars, marker, Found, Measured, Sha
<1>13. CASE SweepHeld
  BY <1>13, ContentFacts, FileFacts, IntakeAssumption DEF IntakeTyped, IntakeControl, TakeSteps, PrepareSteps, Moves, Ends, disk, limits, intakeVars, marker, Found, Measured, SweepHeld
<1>14. CASE Drop
  BY <1>14, ContentFacts, FileFacts, IntakeAssumption DEF IntakeTyped, IntakeControl, TakeSteps, PrepareSteps, Moves, Ends, disk, limits, intakeVars, marker, Found, Measured, Drop
<1>15. CASE PrepareAgain
  BY <1>15, ContentFacts, FileFacts, IntakeAssumption DEF IntakeTyped, IntakeControl, TakeSteps, PrepareSteps, Moves, Ends, disk, limits, intakeVars, marker, Found, Measured, PrepareAgain
<1>16. CASE Kill
  BY <1>16, ContentFacts, FileFacts, IntakeAssumption DEF IntakeTyped, IntakeControl, TakeSteps, PrepareSteps, Moves, Ends, disk, limits, intakeVars, marker, Found, Measured, Kill
<1>17. CASE Load
  BY <1>17, ContentFacts, FileFacts, IntakeAssumption DEF IntakeTyped, IntakeControl, TakeSteps, PrepareSteps, Moves, Ends, disk, limits, intakeVars, marker, Found, Measured, Load
<1>18. CASE ReadEnds
  BY <1>18, ContentFacts, FileFacts, IntakeAssumption DEF IntakeTyped, IntakeControl, TakeSteps, PrepareSteps, Moves, Ends, disk, limits, intakeVars, marker, Found, Measured, ReadEnds
<1>19. ASSUME NEW a \in Archives, Offer(a)  PROVE IntakeControl'
  BY <1>19, ContentFacts, FileFacts, IntakeAssumption DEF IntakeTyped, IntakeControl, TakeSteps, PrepareSteps, Moves, Ends, disk, limits, intakeVars, marker, Found, Measured, Offer
<1>20. ASSUME NEW f \in Files, ReadFile(f)  PROVE IntakeControl'
  BY <1>20, ContentFacts, FileFacts, IntakeAssumption DEF IntakeTyped, IntakeControl, TakeSteps, PrepareSteps, Moves, Ends, disk, limits, intakeVars, marker, Found, Measured, ReadFile
<1>21. ASSUME NEW m \in Markers, NEW f \in Files, Edit(m, f)  PROVE IntakeControl'
  BY <1>21, ContentFacts, FileFacts, IntakeAssumption DEF IntakeTyped, IntakeControl, TakeSteps, PrepareSteps, Moves, Ends, disk, limits, intakeVars, marker, Found, Measured, Edit
<1>22. CASE UNCHANGED intakeVars
  BY <1>22, ContentFacts, FileFacts, IntakeAssumption DEF IntakeTyped, IntakeControl, TakeSteps, PrepareSteps, Moves, Ends, disk, limits, intakeVars, marker, Found, Measured
<1> QED  BY <1>1, <1>2, <1>3, <1>4, <1>5, <1>6, <1>7, <1>8, <1>9, <1>10, <1>11, <1>12, <1>13, <1>14, <1>15, <1>16, <1>17, <1>18, <1>19, <1>20, <1>21, <1>22 DEF IntakeNext, Recipe

\* The figures stay of the files there are, until a mend tells.
LEMMA MeasuredStep ==
  ASSUME IntakeTyped, IntakeControl, Measured, [IntakeNext]_intakeVars
  PROVE  Measured'
<1>1. CASE Checksum
  <2>1. CASE Ends /\ UNCHANGED <<tree, current, evened>>
    BY <2>1 DEF Ends, Measured, FiguresFollowTree, FiguresAreOfTree
  <2>2. CASE ~Ends
    <3>1. UNCHANGED <<tree, current, figures, archive, evened>> /\ istep' # "json" /\ (istep' \in {"page", "prepare"} => istep \in {"page", "prepare"})
      BY <1>1, <2>2 DEF Checksum, Moves, disk, limits
    <3> QED  BY <3>1 DEF Measured, FiguresFollowTree, FiguresAreOfTree, marker
  <2>3. UNCHANGED <<tree, current, evened>>  BY <1>1 DEF Checksum, disk, limits
  <2> QED  BY <2>1, <2>2, <2>3
<1>2. CASE Extract
  <2>1. UNCHANGED <<tree, current, figures, archive, evened>> /\ istep' # "json" /\ (istep' \in {"page", "prepare"} => istep \in {"page", "prepare"})
    BY <1>2 DEF Extract, Moves, disk, limits
  <2> QED  BY <2>1 DEF Measured, FiguresFollowTree, FiguresAreOfTree, marker
<1>3. CASE WriteMember
  <2>1. marker \in Markers /\ marker # current.marker /\ current' = current /\ evened' = evened
    BY <1>3, IntakeAssumption DEF IntakeTyped, IntakeControl, TakeSteps, PrepareSteps, Moves, Ends, disk, limits, intakeVars, marker, WriteMember
  <2>2. istep' \in {"members", "artifact"}
    BY <1>3 DEF WriteMember
  <2>3. \A m \in Markers : m # marker => tree'[m] = tree[m]
    BY <1>3 DEF WriteMember, IntakeTyped
  <2>4. current.marker # NoMarker => current.marker \in Markers
    BY DEF IntakeTyped
  <2> QED  BY <2>1, <2>2, <2>3, <2>4 DEF Measured, FiguresFollowTree, FiguresAreOfTree
<1>4. CASE Artifact
  <2>1. UNCHANGED <<tree, current, figures, archive, evened>> /\ istep' # "json" /\ (istep' \in {"page", "prepare"} => istep \in {"page", "prepare"})
    BY <1>4 DEF Artifact, Moves, disk, limits
  <2> QED  BY <2>1 DEF Measured, FiguresFollowTree, FiguresAreOfTree, marker
<1>5. CASE Copied
  <2>1. UNCHANGED <<tree, current, figures, archive, evened>> /\ istep' # "json" /\ (istep' \in {"page", "prepare"} => istep \in {"page", "prepare"})
    BY <1>5 DEF Copied, Moves, disk, limits
  <2> QED  BY <2>1 DEF Measured, FiguresFollowTree, FiguresAreOfTree, marker
<1>6. CASE Measure
  <2>1. UNCHANGED <<tree, current>> /\ marker \in Markers
    BY <1>6, IntakeAssumption DEF Measure, disk, IntakeTyped, IntakeControl, TakeSteps, PrepareSteps, marker
  <2>2. CASE Ends /\ evened' = evened
    BY <2>1, <2>2 DEF Ends, Measured, FiguresFollowTree, FiguresAreOfTree
  <2>3. CASE ~(Ends /\ evened' = evened)
    <3>1. /\ istep' = "json" /\ UNCHANGED <<archive>> /\ \A f \in Core : tree[marker][f] # Gone
          /\ figures' = IF Kept THEN current.figures ELSE Cores(tree[marker])
          /\ evened' = IF Kept THEN evened ELSE evened \ {marker}
      BY <1>6, <2>3 DEF Measure
    <3>2. marker' = marker  BY <3>1 DEF marker
    <3>3. CASE Kept
      <4>1. current.marker = marker /\ Count(current.figures) = Count(tree[marker]) /\ marker # NoMarker
        BY <2>1, <3>3, IntakeAssumption DEF Kept
      <4>2. marker \notin evened => current.figures = Cores(tree[marker])
        BY <4>1 DEF Measured
      <4> QED  BY <2>1, <3>1, <3>2, <3>3, <4>2 DEF Measured, FiguresFollowTree, FiguresAreOfTree
    <3>4. CASE ~Kept
      <4>1. current.marker = marker => Count(current.figures) # Count(tree[current.marker])
        BY <3>4 DEF Kept
      <4> QED  BY <2>1, <3>1, <3>2, <3>4, <4>1 DEF Measured, FiguresFollowTree, FiguresAreOfTree
    <3> QED  BY <3>3, <3>4
  <2> QED  BY <2>2, <2>3
<1>7. CASE UpdateBaseline
  <2>1. /\ current' = [marker |-> marker, figures |-> figures] /\ istep' = "page" /\ UNCHANGED <<tree, evened>>
        /\ marker \in Markers /\ (marker \notin evened => figures = Cores(tree[marker]))
        /\ \A f \in Core : tree[marker][f] # Gone
    BY <1>7, IntakeAssumption DEF IntakeTyped, IntakeControl, TakeSteps, PrepareSteps, Moves, Ends, disk, limits, intakeVars, marker, UpdateBaseline, Measured
  <2>2. current'.marker = marker /\ current'.figures = figures
    BY <2>1
  <2> QED  BY <2>1, <2>2 DEF Measured, FiguresFollowTree, FiguresAreOfTree
<1>8. CASE FillPage
  <2>1. UNCHANGED <<tree, current, figures, archive, evened>> /\ istep' # "json" /\ (istep' \in {"page", "prepare"} => istep \in {"page", "prepare"})
    BY <1>8 DEF FillPage, Moves, disk, limits
  <2> QED  BY <2>1 DEF Measured, FiguresFollowTree, FiguresAreOfTree, marker
<1>9. CASE Unstamp
  <2>1. CASE Ends /\ UNCHANGED <<tree, current, evened>>
    BY <2>1 DEF Ends, Measured, FiguresFollowTree, FiguresAreOfTree
  <2>2. CASE ~Ends
    <3>1. UNCHANGED <<tree, current, figures, archive, evened>> /\ istep' # "json" /\ (istep' \in {"page", "prepare"} => istep \in {"page", "prepare"})
      BY <1>9, <2>2 DEF Unstamp, Moves, disk, limits
    <3> QED  BY <3>1 DEF Measured, FiguresFollowTree, FiguresAreOfTree, marker
  <2>3. UNCHANGED <<tree, current, evened>>  BY <1>9 DEF Unstamp, disk, limits
  <2> QED  BY <2>1, <2>2, <2>3
<1>10. CASE CopyNext
  <2>1. UNCHANGED <<tree, current, figures, archive, evened>> /\ istep' # "json" /\ (istep' \in {"page", "prepare"} => istep \in {"page", "prepare"})
    BY <1>10 DEF CopyNext, Moves, disk, limits
  <2> QED  BY <2>1 DEF Measured, FiguresFollowTree, FiguresAreOfTree, marker
<1>11. CASE Merge
  <2>1. UNCHANGED <<tree, current, figures, archive, evened>> /\ istep' # "json" /\ (istep' \in {"page", "prepare"} => istep \in {"page", "prepare"})
    BY <1>11 DEF Merge, Moves, disk, limits
  <2> QED  BY <2>1 DEF Measured, FiguresFollowTree, FiguresAreOfTree, marker
<1>12. CASE Sha
  <2>1. UNCHANGED <<tree, current, figures, archive, evened>> /\ istep' # "json" /\ (istep' \in {"page", "prepare"} => istep \in {"page", "prepare"})
    BY <1>12 DEF Sha, Moves, disk, limits
  <2> QED  BY <2>1 DEF Measured, FiguresFollowTree, FiguresAreOfTree, marker
<1>13. CASE SweepHeld
  <2>1. UNCHANGED <<tree, current, figures, archive, evened>> /\ istep' # "json" /\ (istep' \in {"page", "prepare"} => istep \in {"page", "prepare"})
    BY <1>13 DEF SweepHeld, Moves, disk, limits
  <2> QED  BY <2>1 DEF Measured, FiguresFollowTree, FiguresAreOfTree, marker
<1>14. CASE Drop
  <2>1. UNCHANGED <<current, evened>> /\ istep' = "idle"
    BY <1>14 DEF Drop, Ends, limits
  <2>2. current.marker \in Markers
    BY <1>14 DEF IntakeTyped, IntakeControl, TakeSteps, PrepareSteps, Moves, Ends, disk, limits, intakeVars, marker, Drop
  <2>3. tree'[current.marker] = tree[current.marker]
    BY <1>14, <2>2 DEF Drop, Dropped
  <2> QED  BY <2>1, <2>2, <2>3 DEF Measured, FiguresFollowTree, FiguresAreOfTree
<1>15. CASE PrepareAgain
  <2>1. UNCHANGED <<tree, current, evened>> /\ istep' = "prepare" /\ archive' = 0
    BY <1>15 DEF PrepareAgain, disk, IntakeControl
  <2> QED  BY <2>1 DEF Measured, FiguresFollowTree, FiguresAreOfTree
<1>16. CASE Kill
  <2>1. UNCHANGED <<tree, current, evened>> /\ istep' = "idle"
    BY <1>16 DEF Kill, Ends, disk
  <2> QED  BY <2>1 DEF Measured, FiguresFollowTree, FiguresAreOfTree
<1>17. CASE Load
  <2>1. UNCHANGED <<tree, current, figures, archive, istep, evened>>
    BY <1>17 DEF Load, disk, limits, intakeVars
  <2> QED  BY <2>1 DEF Measured, FiguresFollowTree, FiguresAreOfTree, marker
<1>18. CASE ReadEnds
  <2>1. UNCHANGED <<tree, current, figures, archive, istep, evened>>
    BY <1>18 DEF ReadEnds, disk, limits, intakeVars
  <2> QED  BY <2>1 DEF Measured, FiguresFollowTree, FiguresAreOfTree, marker
<1>19. ASSUME NEW a \in Archives, Offer(a)  PROVE Measured'
  <2>1. UNCHANGED <<tree, current, evened>> /\ istep' = "checksum"
    BY <1>19 DEF Offer
  <2> QED  BY <2>1 DEF Measured, FiguresFollowTree, FiguresAreOfTree
<1>20. ASSUME NEW f \in Files, ReadFile(f)  PROVE Measured'
  <2>1. UNCHANGED <<tree, current, figures, archive, istep, evened>>
    BY <1>20 DEF ReadFile, disk, limits, intakeVars
  <2> QED  BY <2>1 DEF Measured, FiguresFollowTree, FiguresAreOfTree, marker
<1>21. ASSUME NEW m \in Markers, NEW f \in Files, Edit(m, f)  PROVE Measured'
  <2>1. /\ current' = current /\ istep = "idle" /\ istep' = istep
        /\ evened' = IF m = current.marker /\ current.figures # Cores(tree'[m])
                         /\ Count(current.figures) = Count(tree'[m])
                      THEN evened \cup {m} ELSE evened
    BY <1>21 DEF Edit
  <2>2. PICK c \in Nat : tree' = [tree EXCEPT ![m][f] = <<tree[m][f][1], 1 + edits', c>>]
    BY <1>21 DEF Edit
  <2>3. \A k \in Markers : k # m => tree'[k] = tree[k]
    BY <2>2 DEF IntakeTyped
  <2>4. \A k \in Markers, g \in Files : tree[k][g] # Gone => tree'[k][g] # Gone
    BY <2>2 DEF IntakeTyped, FileSet, Gone
  <2>5. current.marker # NoMarker => current.marker \in Markers /\ \A g \in Core : tree'[current.marker][g] # Gone
    BY <2>4, IntakeAssumption DEF Measured, IntakeTyped
  <2>6. current.marker \notin evened' \cup {NoMarker} =>
          \/ current.figures = Cores(tree'[current.marker])
          \/ Count(current.figures) # Count(tree'[current.marker])
    <3>1. CASE current.marker = m
      BY <2>1, <3>1
    <3>2. CASE current.marker # m
      BY <2>1, <2>3, <2>5, <3>2 DEF Measured
    <3> QED  BY <3>1, <3>2
  <2> QED  BY <2>1, <2>5, <2>6 DEF Measured, FiguresFollowTree, FiguresAreOfTree
<1>22. CASE UNCHANGED intakeVars
  <2>1. UNCHANGED <<tree, current, figures, archive, istep, evened>>
    BY <1>22 DEF intakeVars, disk, limits, intakeVars
  <2> QED  BY <2>1 DEF Measured, FiguresFollowTree, FiguresAreOfTree, marker
<1> QED  BY <1>1, <1>2, <1>3, <1>4, <1>5, <1>6, <1>7, <1>8, <1>9, <1>10, <1>11, <1>12, <1>13, <1>14, <1>15, <1>16, <1>17, <1>18, <1>19, <1>20, <1>21, <1>22 DEF IntakeNext, Recipe

\* Copies and merged sets are made of one and the same release.
LEMMA MadeStep ==
  ASSUME IntakeTyped, IntakeControl, SetsMade, [IntakeNext]_intakeVars
  PROVE  SetsMade'
<1>1. CASE Checksum
  <2>1. istep' \notin {"copies", "merge", "stamp"}
    BY <1>1 DEF Checksum, Moves, Ends, IntakeControl
  <2> QED  BY <2>1 DEF SetsMade
<1>2. CASE Extract
  <2>1. istep' \notin {"copies", "merge", "stamp"}
    BY <1>2 DEF Extract, Moves, Ends, IntakeControl
  <2> QED  BY <2>1 DEF SetsMade
<1>3. CASE WriteMember
  <2>1. istep' \notin {"copies", "merge", "stamp"}
    BY <1>3 DEF WriteMember, Moves, Ends, IntakeControl
  <2> QED  BY <2>1 DEF SetsMade
<1>4. CASE Artifact
  <2>1. istep' \notin {"copies", "merge", "stamp"}
    BY <1>4 DEF Artifact, Moves, Ends, IntakeControl
  <2> QED  BY <2>1 DEF SetsMade
<1>5. CASE Copied
  <2>1. istep' \notin {"copies", "merge", "stamp"}
    BY <1>5 DEF Copied, Moves, Ends, IntakeControl
  <2> QED  BY <2>1 DEF SetsMade
<1>6. CASE Measure
  <2>1. istep' \notin {"copies", "merge", "stamp"}
    BY <1>6 DEF Measure, Moves, Ends, IntakeControl
  <2> QED  BY <2>1 DEF SetsMade
<1>7. CASE UpdateBaseline
  <2>1. istep' \notin {"copies", "merge", "stamp"}
    BY <1>7 DEF UpdateBaseline, Moves, Ends, IntakeControl
  <2> QED  BY <2>1 DEF SetsMade
<1>8. CASE FillPage
  <2>1. istep' \notin {"copies", "merge", "stamp"}
    BY <1>8 DEF FillPage, Moves, Ends, IntakeControl
  <2> QED  BY <2>1 DEF SetsMade
<1>9. CASE Unstamp
  <2>1. istep' \notin {"merge", "stamp"} /\ nth' = 0
    BY <1>9 DEF Unstamp, Moves, Ends, IntakeControl
  <2> QED  BY <2>1 DEF SetsMade
<1>10. CASE CopyNext
  <2>1. /\ UNCHANGED <<tree, current>> /\ istep = "copies" /\ current.marker \in Markers
        /\ nth \in Nat /\ nth <= Len(Members) /\ Len(Members) \in Nat
    BY <1>10, FileFacts DEF IntakeTyped, IntakeControl, TakeSteps, PrepareSteps, Moves, Ends, disk, limits, intakeVars, marker, CopyNext
  <2>0. \A i \in 1..nth : Members[i] \in Unsorted =>
           held[current.marker].copies[Members[i]] = tree[current.marker][Members[i]]
    BY <2>1 DEF SetsMade
  <2>2. CASE nth = Len(Members)
    <3>1. istep' = "merge" /\ nth' = 0 /\ held' = held
      BY <1>10, <2>2 DEF CopyNext
    <3>2. \A f \in Unsorted : held[current.marker].copies[f] = tree[current.marker][f]
      BY <2>0, <2>2, FileFacts, IntakeAssumption
    <3> QED  BY <2>1, <3>1, <3>2 DEF SetsMade
  <2>3. CASE nth # Len(Members)
    <3>1. /\ istep' = "copies" /\ nth' = nth + 1 /\ nth + 1 \in 1..Len(Members)
          /\ held' = [held EXCEPT ![current.marker].copies[Members[nth + 1]] =
                        IF Members[nth + 1] \in Unsorted THEN tree[current.marker][Members[nth + 1]] ELSE Gone]
      BY <1>10, <2>1, <2>3 DEF CopyNext
    <3>2. held[current.marker] \in HeldSet /\ held[current.marker].copies \in FileSet
      BY <2>1 DEF IntakeTyped, HeldSet
    <3>3. ASSUME NEW f \in Files, f \in Unsorted
          PROVE  held'[current.marker].copies[f] =
                   IF f = Members[nth + 1] THEN tree[current.marker][f] ELSE held[current.marker].copies[f]
      BY <2>1, <3>1, <3>2, <3>3 DEF IntakeTyped, HeldSet, FileSet
    <3>4. ASSUME NEW i \in 1..(nth + 1), Members[i] \in Unsorted
          PROVE  held'[current.marker].copies[Members[i]] = tree[current.marker][Members[i]]
      <4>1. Members[i] \in Files  BY FileFacts, <2>1, <3>1
      <4> QED  BY <2>0, <2>1, <3>3, <3>4, <4>1
    <3> QED  BY <2>1, <3>1, <3>4 DEF SetsMade
  <2> QED  BY <2>2, <2>3
<1>11. CASE Merge
  <2>1. /\ UNCHANGED <<tree, current>> /\ istep = "merge" /\ current.marker \in Markers /\ nth \in {0, 1}
    BY <1>11 DEF IntakeTyped, IntakeControl, TakeSteps, PrepareSteps, Moves, Ends, disk, limits, intakeVars, marker, SetsMade, Merge
  <2> DEFINE fs == IF nth = 0 THEN Core ELSE Files \ Core
             new == [f \in Files |-> IF f \in fs THEN Use(current.marker, f) ELSE held[current.marker].merged[f]]
  <2>2. held' = [held EXCEPT ![current.marker].merged = new]
    BY <1>11 DEF Merge
  <2>3. held[current.marker] \in HeldSet /\ held \in [Markers -> HeldSet] /\ tree[current.marker] \in FileSet
    BY <2>1 DEF IntakeTyped
  <2>4. \A f \in Unsorted : held[current.marker].copies[f] = tree[current.marker][f]
    BY <2>1 DEF SetsMade
  <2>5. \A f \in Files : Use(current.marker, f) = tree[current.marker][f]
    BY <2>4 DEF Use
  <2>6. /\ \A f \in Core : nth = 0 => new[f] = tree[current.marker][f]
        /\ nth = 1 => new = tree[current.marker]
    <3>1. \A f \in Core : nth = 0 => new[f] = tree[current.marker][f]
      BY <2>5, IntakeAssumption
    <3>2. ASSUME nth = 1  PROVE \A f \in Files : new[f] = tree[current.marker][f]
      BY <2>1, <2>5, <3>2 DEF SetsMade
    <3>3. ASSUME nth = 1  PROVE new = tree[current.marker]
      <4> HIDE DEF fs
      <4>1. DOMAIN tree[current.marker] = Files /\ tree[current.marker] = [f \in Files |-> tree[current.marker][f]]
        BY <2>3 DEF FileSet
      <4> QED  BY <3>2, <3>3, <4>1
    <3> QED  BY <3>1, <3>3
  <2> HIDE DEF new
  <2>7. held'[current.marker].merged = new /\ held'[current.marker].copies = held[current.marker].copies
    BY <2>1, <2>2, <2>3 DEF HeldSet
  <2>8. IF nth = 0 THEN nth' = 1 /\ istep' = "merge" ELSE nth' = 0 /\ istep' = "stamp"
    BY <1>11 DEF Merge
  <2> QED  BY <2>1, <2>4, <2>6, <2>7, <2>8 DEF SetsMade
<1>12. CASE Sha
  <2>1. istep' \notin {"copies", "merge", "stamp"}
    BY <1>12 DEF Sha, Moves, Ends, IntakeControl
  <2> QED  BY <2>1 DEF SetsMade
<1>13. CASE SweepHeld
  <2>1. istep' \notin {"copies", "merge", "stamp"}
    BY <1>13 DEF SweepHeld, Moves, Ends, IntakeControl
  <2> QED  BY <2>1 DEF SetsMade
<1>14. CASE Drop
  <2>1. istep' \notin {"copies", "merge", "stamp"}
    BY <1>14 DEF Drop, Moves, Ends, IntakeControl
  <2> QED  BY <2>1 DEF SetsMade
<1>15. CASE PrepareAgain
  <2>1. istep' \notin {"copies", "merge", "stamp"}
    BY <1>15 DEF PrepareAgain, Moves, Ends, IntakeControl
  <2> QED  BY <2>1 DEF SetsMade
<1>16. CASE Kill
  <2>1. istep' \notin {"copies", "merge", "stamp"}
    BY <1>16 DEF Kill, Moves, Ends, IntakeControl
  <2> QED  BY <2>1 DEF SetsMade
<1>17. CASE Load
  <2>1. UNCHANGED <<tree, current, held, istep, nth>>
    BY <1>17 DEF Load, disk, intakeVars
  <2> QED  BY <2>1 DEF SetsMade
<1>18. CASE ReadEnds
  <2>1. UNCHANGED <<tree, current, held, istep, nth>>
    BY <1>18 DEF ReadEnds, disk, intakeVars
  <2> QED  BY <2>1 DEF SetsMade
<1>19. ASSUME NEW a \in Archives, Offer(a)  PROVE SetsMade'
  <2>1. istep' \notin {"copies", "merge", "stamp"}
    BY <1>19 DEF Offer
  <2> QED  BY <2>1 DEF SetsMade
<1>20. ASSUME NEW f \in Files, ReadFile(f)  PROVE SetsMade'
  <2>1. UNCHANGED <<tree, current, held, istep, nth>>
    BY <1>20 DEF ReadFile, disk, intakeVars
  <2> QED  BY <2>1 DEF SetsMade
<1>21. ASSUME NEW m \in Markers, NEW f \in Files, Edit(m, f)  PROVE SetsMade'
  <2>1. istep' \notin {"copies", "merge", "stamp"}
    BY <1>21 DEF Edit
  <2> QED  BY <2>1 DEF SetsMade
<1>22. CASE UNCHANGED intakeVars
  <2>1. UNCHANGED <<tree, current, held, istep, nth>>
    BY <1>22 DEF intakeVars, disk, intakeVars
  <2> QED  BY <2>1 DEF SetsMade
<1> QED  BY <1>1, <1>2, <1>3, <1>4, <1>5, <1>6, <1>7, <1>8, <1>9, <1>10, <1>11, <1>12, <1>13, <1>14, <1>15, <1>16, <1>17, <1>18, <1>19, <1>20, <1>21, <1>22 DEF IntakeNext, Recipe

\* A stamp vouches for sets that are of the files it names.
LEMMA StampedStep ==
  ASSUME IntakeTyped, IntakeControl, SetsMade, Stamped, [IntakeNext]_intakeVars
  PROVE  Stamped'
<1>1. CASE Checksum
  <2>1. held' = held
    BY <1>1 DEF Checksum, disk, intakeVars
  <2> QED  BY <2>1 DEF Stamped
<1>2. CASE Extract
  <2>1. held' = held
    BY <1>2 DEF Extract, disk, intakeVars
  <2> QED  BY <2>1 DEF Stamped
<1>3. CASE WriteMember
  <2>1. held' = held
    BY <1>3 DEF WriteMember, disk, intakeVars
  <2> QED  BY <2>1 DEF Stamped
<1>4. CASE Artifact
  <2>1. held' = held
    BY <1>4 DEF Artifact, disk, intakeVars
  <2> QED  BY <2>1 DEF Stamped
<1>5. CASE Copied
  <2>1. held' = held
    BY <1>5 DEF Copied, disk, intakeVars
  <2> QED  BY <2>1 DEF Stamped
<1>6. CASE Measure
  <2>1. held' = held
    BY <1>6 DEF Measure, disk, intakeVars
  <2> QED  BY <2>1 DEF Stamped
<1>7. CASE UpdateBaseline
  <2>1. held' = held
    BY <1>7 DEF UpdateBaseline, disk, intakeVars
  <2> QED  BY <2>1 DEF Stamped
<1>8. CASE FillPage
  <2>1. held' = held
    BY <1>8 DEF FillPage, disk, intakeVars
  <2> QED  BY <2>1 DEF Stamped
<1>9. CASE Unstamp
  <2>0. held' = held \/ held' = [held EXCEPT ![current.marker].stamp = <<>>]
    BY <1>9 DEF Unstamp
  <2>1. ASSUME NEW m \in Markers  PROVE held'[m].stamp = <<>> \/ held'[m].stamp = held[m].stamp
    <3>1. held \in [Markers -> HeldSet] /\ current.marker \in Markers
      BY <1>9 DEF IntakeTyped, IntakeControl, TakeSteps, PrepareSteps, Moves, Ends, disk, limits, intakeVars, marker, Unstamp
    <3>2. held[current.marker] \in HeldSet  BY <3>1
    <3>3. held' \in {held, [held EXCEPT ![current.marker].stamp = <<>>]}
      BY <2>0
    <3>4. CASE m = current.marker
      BY <3>1, <3>2, <3>3, <3>4 DEF HeldSet
    <3>5. CASE m # current.marker
      BY <3>1, <3>3, <3>5
    <3> QED  BY <3>4, <3>5
  <2> QED  BY <2>1 DEF Stamped
<1>10. CASE CopyNext
  <2>0. held' = held \/ \E g, c : held' = [held EXCEPT ![current.marker].copies[g] = c]
    BY <1>10 DEF CopyNext
  <2>1. ASSUME NEW m \in Markers  PROVE held'[m].stamp = <<>> \/ held'[m].stamp = held[m].stamp
    <3>1. held \in [Markers -> HeldSet] /\ current.marker \in Markers
      BY <1>10 DEF IntakeTyped, IntakeControl, TakeSteps, PrepareSteps, Moves, Ends, disk, limits, intakeVars, marker, CopyNext
    <3>2. held[current.marker] \in HeldSet  BY <3>1
    <3>3. \E g, c : held' \in {held, [held EXCEPT ![current.marker].copies[g] = c]}
      BY <2>0
    <3>4. CASE m = current.marker
      BY <3>1, <3>2, <3>3, <3>4 DEF HeldSet
    <3>5. CASE m # current.marker
      BY <3>1, <3>3, <3>5
    <3> QED  BY <3>4, <3>5
  <2> QED  BY <2>1 DEF Stamped
<1>11. CASE Merge
  <2>0. held' = held \/ \E g : held' = [held EXCEPT ![current.marker].merged = g]
    BY <1>11 DEF Merge
  <2>1. ASSUME NEW m \in Markers  PROVE held'[m].stamp = <<>> \/ held'[m].stamp = held[m].stamp
    <3>1. held \in [Markers -> HeldSet] /\ current.marker \in Markers
      BY <1>11 DEF IntakeTyped, IntakeControl, TakeSteps, PrepareSteps, Moves, Ends, disk, limits, intakeVars, marker, Merge
    <3>2. held[current.marker] \in HeldSet  BY <3>1
    <3>3. \E g : held' \in {held, [held EXCEPT ![current.marker].merged = g]}
      BY <2>0
    <3>4. CASE m = current.marker
      BY <3>1, <3>2, <3>3, <3>4 DEF HeldSet
    <3>5. CASE m # current.marker
      BY <3>1, <3>3, <3>5
    <3> QED  BY <3>4, <3>5
  <2> QED  BY <2>1 DEF Stamped
<1>12. CASE Sha
  <2>1. istep = "stamp" /\ current.marker \in Markers
    BY <1>12 DEF IntakeTyped, IntakeControl, TakeSteps, PrepareSteps, Moves, Ends, disk, limits, intakeVars, marker, Sha
  <2> DEFINE v == [files |-> tree[current.marker], copies |-> held[current.marker].copies,
                   merged |-> held[current.marker].merged]
  <2>2. Vouches(v)
    BY <2>1 DEF SetsMade, Vouches
  <2>3. held' = [held EXCEPT ![current.marker].stamp = <<v>>]
    BY <1>12 DEF Sha
  <2> HIDE DEF v
  <2>4. ASSUME NEW m \in Markers  PROVE held'[m].stamp = IF m = current.marker THEN <<v>> ELSE held[m].stamp
    BY <2>1, <2>3 DEF IntakeTyped, HeldSet
  <2>5. <<v>>[1] = v  OBVIOUS
  <2> QED  BY <2>2, <2>4, <2>5 DEF Stamped
<1>13. CASE SweepHeld
  <2>1. ASSUME NEW m \in Markers  PROVE held'[m].stamp = <<>> \/ held'[m].stamp = held[m].stamp
    BY <1>13 DEF SweepHeld, Unheld
  <2> QED  BY <2>1 DEF Stamped
<1>14. CASE Drop
  <2>1. held' = held
    BY <1>14 DEF Drop, disk, intakeVars
  <2> QED  BY <2>1 DEF Stamped
<1>15. CASE PrepareAgain
  <2>1. held' = held
    BY <1>15 DEF PrepareAgain, disk, intakeVars
  <2> QED  BY <2>1 DEF Stamped
<1>16. CASE Kill
  <2>1. held' = held
    BY <1>16 DEF Kill, disk, intakeVars
  <2> QED  BY <2>1 DEF Stamped
<1>17. CASE Load
  <2>1. held' = held
    BY <1>17 DEF Load, disk, intakeVars
  <2> QED  BY <2>1 DEF Stamped
<1>18. CASE ReadEnds
  <2>1. held' = held
    BY <1>18 DEF ReadEnds, disk, intakeVars
  <2> QED  BY <2>1 DEF Stamped
<1>19. ASSUME NEW a \in Archives, Offer(a)  PROVE Stamped'
  <2>1. held' = held
    BY <1>19 DEF Offer, disk, intakeVars
  <2> QED  BY <2>1 DEF Stamped
<1>20. ASSUME NEW f \in Files, ReadFile(f)  PROVE Stamped'
  <2>1. held' = held
    BY <1>20 DEF ReadFile, disk, intakeVars
  <2> QED  BY <2>1 DEF Stamped
<1>21. ASSUME NEW m \in Markers, NEW f \in Files, Edit(m, f)  PROVE Stamped'
  <2>1. held' = held
    BY <1>21 DEF Edit, disk, intakeVars
  <2> QED  BY <2>1 DEF Stamped
<1>22. CASE UNCHANGED intakeVars
  <2>1. held' = held
    BY <1>22 DEF intakeVars, disk, intakeVars
  <2> QED  BY <2>1 DEF Stamped
<1> QED  BY <1>1, <1>2, <1>3, <1>4, <1>5, <1>6, <1>7, <1>8, <1>9, <1>10, <1>11, <1>12, <1>13, <1>14, <1>15, <1>16, <1>17, <1>18, <1>19, <1>20, <1>21, <1>22 DEF IntakeNext, Recipe

\* A reader goes on with the files it loaded, whatever is replaced or removed.
LEMMA ReadingStep ==
  ASSUME IntakeTyped, IntakeControl, Stamped, Reading, [IntakeNext]_intakeVars
  PROVE  Reading'
<1>1. CASE Checksum
  <2>1. UNCHANGED <<tree, held, reader>>
    BY <1>1 DEF Checksum, disk, limits, intakeVars
  <2> QED  BY <2>1 DEF Reading
<1>2. CASE Extract
  <2>1. UNCHANGED <<tree, held, reader>>
    BY <1>2 DEF Extract, disk, limits, intakeVars
  <2> QED  BY <2>1 DEF Reading
<1>3. CASE WriteMember
  <2>1. SUFFICES ASSUME reader # NoReader, reader' = reader, reader.at \in Markers  PROVE Reading'
    BY <1>3 DEF Reading, IntakeTyped, limits, WriteMember
  <2>2. reader.at # marker /\ held' = held
    BY <1>3, <2>1 DEF IntakeTyped, IntakeControl, TakeSteps, PrepareSteps, Moves, Ends, disk, limits, intakeVars, marker, WriteMember
  <2>3. tree'[reader.at] = tree[reader.at]
    BY <1>3, <2>1, <2>2 DEF WriteMember, IntakeTyped
  <2> QED  BY <2>1, <2>2, <2>3 DEF Reading
<1>4. CASE Artifact
  <2>1. UNCHANGED <<tree, held, reader>>
    BY <1>4 DEF Artifact, disk, limits, intakeVars
  <2> QED  BY <2>1 DEF Reading
<1>5. CASE Copied
  <2>1. UNCHANGED <<tree, held, reader>>
    BY <1>5 DEF Copied, disk, limits, intakeVars
  <2> QED  BY <2>1 DEF Reading
<1>6. CASE Measure
  <2>1. UNCHANGED <<tree, held, reader>>
    BY <1>6 DEF Measure, disk, limits, intakeVars
  <2> QED  BY <2>1 DEF Reading
<1>7. CASE UpdateBaseline
  <2>1. UNCHANGED <<tree, held, reader>>
    BY <1>7 DEF UpdateBaseline, disk, limits, intakeVars
  <2> QED  BY <2>1 DEF Reading
<1>8. CASE FillPage
  <2>1. UNCHANGED <<tree, held, reader>>
    BY <1>8 DEF FillPage, disk, limits, intakeVars
  <2> QED  BY <2>1 DEF Reading
<1>9. CASE Unstamp
  <2>1. SUFFICES ASSUME reader # NoReader, reader' = reader, reader.at \in Markers  PROVE Reading'
    BY <1>9 DEF Reading, IntakeTyped, limits, Unstamp
  <2>2. tree' = tree /\ held'[reader.at].copies = held[reader.at].copies
    <3>1. tree' = tree /\ (held' = held \/ held' = [held EXCEPT ![current.marker].stamp = <<>>])
      BY <1>9 DEF Unstamp
    <3>2. held \in [Markers -> HeldSet] /\ held[reader.at] \in HeldSet
      BY <2>1 DEF IntakeTyped
    <3>3. CASE reader.at = current.marker
      <4>1. current.marker \in Markers  BY <2>1, <3>3
      <4>2. held[current.marker] \in HeldSet  BY <3>2, <3>3
      <4> QED  BY <3>1, <3>2, <3>3, <4>1, <4>2 DEF HeldSet
    <3>4. CASE reader.at # current.marker
      BY <2>1, <3>1, <3>2, <3>4
    <3> QED  BY <3>3, <3>4
  <2> QED  BY <2>1, <2>2 DEF Reading
<1>10. CASE CopyNext
  <2>1. SUFFICES ASSUME reader # NoReader, reader' = reader, reader.at \in Markers  PROVE Reading'
    BY <1>10 DEF Reading, IntakeTyped, limits, CopyNext
  <2>2. tree' = tree /\ current.marker \in Markers
    BY <1>10 DEF IntakeTyped, IntakeControl, TakeSteps, PrepareSteps, Moves, Ends, disk, limits, intakeVars, marker, CopyNext
  <2>3. CASE held' = held
    BY <2>1, <2>2, <2>3 DEF Reading
  <2>4. CASE held' # held
    <3> DEFINE g == Members[nth + 1]
    <3>1. held' = [held EXCEPT ![current.marker].copies[g] = IF g \in Unsorted THEN tree[current.marker][g] ELSE Gone]
      BY <1>10, <2>4 DEF CopyNext
    <3>2. held[current.marker] \in HeldSet /\ held[current.marker].copies \in FileSet
      BY <2>2 DEF IntakeTyped, HeldSet
    <3>3. ASSUME NEW f \in Files, f \in Unsorted
          PROVE  held'[reader.at].copies[f] \in {Gone, reader.files[f]}
      <4> HIDE DEF g
      <4>1. /\ held[reader.at].copies[f] \in {Gone, reader.files[f]}
            /\ tree[reader.at][f] \in {Gone, reader.files[f]}
        BY <2>1, <3>3 DEF Reading
      <4>2. CASE reader.at = current.marker /\ f = g
        BY <2>1, <2>2, <3>1, <3>2, <3>3, <4>1, <4>2 DEF IntakeTyped, HeldSet, FileSet
      <4>3. CASE ~(reader.at = current.marker /\ f = g)
        <5>1. held'[reader.at].copies[f] = held[reader.at].copies[f]
          BY <2>1, <2>2, <3>1, <4>3 DEF IntakeTyped, HeldSet, FileSet
        <5> QED  BY <4>1, <5>1
      <4> QED  BY <4>2, <4>3
    <3> QED  BY <2>1, <2>2, <3>3 DEF Reading
  <2> QED  BY <2>3, <2>4
<1>11. CASE Merge
  <2>1. SUFFICES ASSUME reader # NoReader, reader' = reader, reader.at \in Markers  PROVE Reading'
    BY <1>11 DEF Reading, IntakeTyped, limits, Merge
  <2>2. tree' = tree /\ held'[reader.at].copies = held[reader.at].copies
    BY <1>11, <2>1 DEF Merge, IntakeTyped, HeldSet
  <2> QED  BY <2>1, <2>2 DEF Reading
<1>12. CASE Sha
  <2>1. SUFFICES ASSUME reader # NoReader, reader' = reader, reader.at \in Markers  PROVE Reading'
    BY <1>12 DEF Reading, IntakeTyped, limits, Sha
  <2>2. tree' = tree /\ held'[reader.at].copies = held[reader.at].copies
    BY <1>12, <2>1 DEF Sha, IntakeTyped, HeldSet
  <2> QED  BY <2>1, <2>2 DEF Reading
<1>13. CASE SweepHeld
  <2>1. SUFFICES ASSUME reader # NoReader, reader' = reader, reader.at \in Markers  PROVE Reading'
    BY <1>13 DEF Reading, IntakeTyped, limits, SweepHeld
  <2>2. tree' = tree /\ \A f \in Files : held'[reader.at].copies[f] \in {Gone, held[reader.at].copies[f]}
    BY <1>13, <2>1 DEF SweepHeld, Unheld, Empty
  <2> QED  BY <2>1, <2>2, IntakeAssumption DEF Reading
<1>14. CASE Drop
  <2>1. SUFFICES ASSUME reader # NoReader, reader' = reader, reader.at \in Markers  PROVE Reading'
    BY <1>14 DEF Reading, IntakeTyped, limits, Drop
  <2>2. held' = held /\ \A f \in Files : tree'[reader.at][f] \in {Gone, tree[reader.at][f]}
    BY <1>14, <2>1 DEF Drop, Empty
  <2> QED  BY <2>1, <2>2 DEF Reading
<1>15. CASE PrepareAgain
  <2>1. UNCHANGED <<tree, held, reader>>
    BY <1>15 DEF PrepareAgain, disk, limits, intakeVars
  <2> QED  BY <2>1 DEF Reading
<1>16. CASE Kill
  <2>1. UNCHANGED <<tree, held, reader>>
    BY <1>16 DEF Kill, disk, limits, intakeVars
  <2> QED  BY <2>1 DEF Reading
<1>17. CASE Load
  <2> DEFINE m == current.marker
  <2>1. m \in Markers  BY <1>17 DEF Load, IntakeTyped
  <2>2. UNCHANGED <<tree, held>> /\ held[m].stamp # <<>> /\ Fresh(m, held[m].stamp[1])
        /\ reader' = [at |-> m, files |-> tree[m], sets |-> held[m].merged, seen |-> Empty]
    BY <1>17 DEF Load, disk
  <2>3. Vouches(held[m].stamp[1])
    BY <2>1, <2>2 DEF Stamped
  <2>4. held[m].merged = tree[m] /\ \A f \in Unsorted : held[m].copies[f] = tree[m][f]
    BY <2>2, <2>3 DEF Fresh, Vouches
  <2> HIDE DEF m
  <2>5. \A f \in Files : Empty[f] = Gone  BY DEF Empty
  <2> QED  BY <2>2, <2>4, <2>5 DEF Reading
<1>18. CASE ReadEnds
  <2>1. reader' = NoReader  BY <1>18 DEF ReadEnds
  <2> QED  BY <2>1 DEF Reading
<1>19. ASSUME NEW a \in Archives, Offer(a)  PROVE Reading'
  <2>1. UNCHANGED <<tree, held, reader>>
    BY <1>19 DEF Offer, disk, limits, intakeVars
  <2> QED  BY <2>1 DEF Reading
<1>20. ASSUME NEW f \in Files, ReadFile(f)  PROVE Reading'
  <2>1. reader # NoReader /\ reader \in [at : Markers, files : FileSet, sets : FileSet, seen : FileSet]
        /\ UNCHANGED <<tree, held>>
    BY <1>20 DEF ReadFile, IntakeTyped, disk
  <2>2. CASE reader' = NoReader
    BY <2>2 DEF Reading
  <2>3. CASE reader' # NoReader
    <3>1. /\ reader' = [reader EXCEPT !.seen[f] = Use(reader.at, f)] /\ Use(reader.at, f) # Gone
      BY <1>20, <2>3 DEF ReadFile, ReadAt
    <3>2. Use(reader.at, f) \in {Gone, reader.files[f]}
      BY <2>1 DEF Reading, Use
    <3>3. UNCHANGED <<reader.at, reader.files, reader.sets>>
          /\ \A g \in Files : reader'.seen[g] = IF g = f THEN Use(reader.at, f) ELSE reader.seen[g]
      BY <2>1, <3>1 DEF FileSet
    <3> QED  BY <2>1, <3>2, <3>3 DEF Reading
  <2> QED  BY <2>2, <2>3
<1>21. ASSUME NEW m \in Markers, NEW f \in Files, Edit(m, f)  PROVE Reading'
  <2>1. reader' = NoReader  BY <1>21 DEF Edit
  <2> QED  BY <2>1 DEF Reading
<1>22. CASE UNCHANGED intakeVars
  <2>1. UNCHANGED <<tree, held, reader>>
    BY <1>22 DEF intakeVars, disk, limits, intakeVars
  <2> QED  BY <2>1 DEF Reading
<1> QED  BY <1>1, <1>2, <1>3, <1>4, <1>5, <1>6, <1>7, <1>8, <1>9, <1>10, <1>11, <1>12, <1>13, <1>14, <1>15, <1>16, <1>17, <1>18, <1>19, <1>20, <1>21, <1>22 DEF IntakeNext, Recipe

\* A row holds one sha256 or is pending.
LEMMA RowsStep ==
  ASSUME RowsTyped, [IntakeNext]_intakeVars
  PROVE  RowsTyped'
<1>1. CASE Checksum
  <2>1. shaOf' = shaOf
    BY <1>1 DEF Checksum, disk, limits, intakeVars
  <2> QED  BY <2>1 DEF RowsTyped
<1>2. CASE Extract
  <2>1. shaOf' = shaOf
    BY <1>2 DEF Extract, disk, limits, intakeVars
  <2> QED  BY <2>1 DEF RowsTyped
<1>3. CASE WriteMember
  <2>1. shaOf' = shaOf
    BY <1>3 DEF WriteMember, disk, limits, intakeVars
  <2> QED  BY <2>1 DEF RowsTyped
<1>4. CASE Artifact
  <2>1. shaOf' = shaOf
    BY <1>4 DEF Artifact, disk, limits, intakeVars
  <2> QED  BY <2>1 DEF RowsTyped
<1>5. CASE Copied
  <2>1. shaOf' = shaOf
    BY <1>5 DEF Copied, disk, limits, intakeVars
  <2> QED  BY <2>1 DEF RowsTyped
<1>6. CASE Measure
  <2>1. shaOf' = shaOf
    BY <1>6 DEF Measure, disk, limits, intakeVars
  <2> QED  BY <2>1 DEF RowsTyped
<1>7. CASE UpdateBaseline
  <2>1. shaOf' = shaOf
    BY <1>7 DEF UpdateBaseline, disk, limits, intakeVars
  <2> QED  BY <2>1 DEF RowsTyped
<1>8. CASE FillPage
  <2>1. SUFFICES ASSUME NEW m \in Markers  PROVE shaOf'[m] \subseteq Archives \cup {0} /\ Cardinality(shaOf'[m]) <= 1
    BY DEF RowsTyped
  <2> DEFINE of == {a \in Archives : MarkerOf[a] = m /\ besides[a] = "whole"}
  <2>2. shaOf'[m] \in {shaOf[m], {0}} \/ (of # {} /\ shaOf'[m] = {Min(of)})
    BY <1>8 DEF FillPage
  <2>3. of # {} => Min(of) \in Archives
    <3>1. of \subseteq Nat  BY IntakeAssumption
    <3> HIDE DEF of
    <3>2. of # {} => Min(of) \in of  BY <3>1, LeastNat DEF Min
    <3> QED  BY <3>2 DEF of
  <2>4. Cardinality({0}) = 1 /\ Cardinality({Min(of)}) = 1
    BY FS_Singleton
  <2>5. CASE shaOf'[m] \in {shaOf[m], {0}}
    <3>1. shaOf[m] \subseteq Archives \cup {0} /\ Cardinality(shaOf[m]) <= 1
      BY DEF RowsTyped
    <3>2. CASE shaOf'[m] = shaOf[m]
      BY <3>1, <3>2
    <3>3. CASE shaOf'[m] = {0}
      <4>1. Cardinality(shaOf'[m]) = 1  BY <2>4, <3>3
      <4> QED  BY <3>3, <4>1
    <3> QED  BY <2>5, <3>2, <3>3
  <2>6. CASE of # {} /\ shaOf'[m] = {Min(of)}
    <3> HIDE DEF of
    <3>1. Min(of) \in Archives  BY <2>3, <2>6
    <3>2. Cardinality(shaOf'[m]) = 1  BY <2>4, <2>6
    <3> QED  BY <2>6, <3>1, <3>2
  <2> QED  BY <2>2, <2>5, <2>6
<1>9. CASE Unstamp
  <2>1. shaOf' = shaOf
    BY <1>9 DEF Unstamp, disk, limits, intakeVars
  <2> QED  BY <2>1 DEF RowsTyped
<1>10. CASE CopyNext
  <2>1. shaOf' = shaOf
    BY <1>10 DEF CopyNext, disk, limits, intakeVars
  <2> QED  BY <2>1 DEF RowsTyped
<1>11. CASE Merge
  <2>1. shaOf' = shaOf
    BY <1>11 DEF Merge, disk, limits, intakeVars
  <2> QED  BY <2>1 DEF RowsTyped
<1>12. CASE Sha
  <2>1. shaOf' = shaOf
    BY <1>12 DEF Sha, disk, limits, intakeVars
  <2> QED  BY <2>1 DEF RowsTyped
<1>13. CASE SweepHeld
  <2>1. shaOf' = shaOf
    BY <1>13 DEF SweepHeld, disk, limits, intakeVars
  <2> QED  BY <2>1 DEF RowsTyped
<1>14. CASE Drop
  <2>1. shaOf' = shaOf
    BY <1>14 DEF Drop, disk, limits, intakeVars
  <2> QED  BY <2>1 DEF RowsTyped
<1>15. CASE PrepareAgain
  <2>1. shaOf' = shaOf
    BY <1>15 DEF PrepareAgain, disk, limits, intakeVars
  <2> QED  BY <2>1 DEF RowsTyped
<1>16. CASE Kill
  <2>1. shaOf' = shaOf
    BY <1>16 DEF Kill, disk, limits, intakeVars
  <2> QED  BY <2>1 DEF RowsTyped
<1>17. CASE Load
  <2>1. shaOf' = shaOf
    BY <1>17 DEF Load, disk, limits, intakeVars
  <2> QED  BY <2>1 DEF RowsTyped
<1>18. CASE ReadEnds
  <2>1. shaOf' = shaOf
    BY <1>18 DEF ReadEnds, disk, limits, intakeVars
  <2> QED  BY <2>1 DEF RowsTyped
<1>19. ASSUME NEW a \in Archives, Offer(a)  PROVE RowsTyped'
  <2>1. shaOf' = shaOf
    BY <1>19 DEF Offer, disk, limits, intakeVars
  <2> QED  BY <2>1 DEF RowsTyped
<1>20. ASSUME NEW f \in Files, ReadFile(f)  PROVE RowsTyped'
  <2>1. shaOf' = shaOf
    BY <1>20 DEF ReadFile, disk, limits, intakeVars
  <2> QED  BY <2>1 DEF RowsTyped
<1>21. ASSUME NEW m \in Markers, NEW f \in Files, Edit(m, f)  PROVE RowsTyped'
  <2>1. shaOf' = shaOf
    BY <1>21 DEF Edit, disk, limits, intakeVars
  <2> QED  BY <2>1 DEF RowsTyped
<1>22. CASE UNCHANGED intakeVars
  <2>1. shaOf' = shaOf
    BY <1>22 DEF intakeVars, disk, limits, intakeVars
  <2> QED  BY <2>1 DEF RowsTyped
<1> QED  BY <1>1, <1>2, <1>3, <1>4, <1>5, <1>6, <1>7, <1>8, <1>9, <1>10, <1>11, <1>12, <1>13, <1>14, <1>15, <1>16, <1>17, <1>18, <1>19, <1>20, <1>21, <1>22 DEF IntakeNext, Recipe

LEMMA IntakeInvInit == IntakeInit => IntakeInv
<1> SUFFICES ASSUME IntakeInit  PROVE IntakeInv
  OBVIOUS
<1>1. IntakeTyped
  <2>1. current = [marker |-> NoMarker, figures |-> Empty] /\ held = [m \in Markers |-> Unheld]
        /\ tree = [m \in Markers |-> Empty] /\ besides = [a \in Archives |-> "none"]
        /\ istep = "idle" /\ archive = 0 /\ previous = NoMarker /\ nth = 0 /\ figures = Empty /\ reader = NoReader
        /\ edits = 0 /\ evened = {}
    BY DEF IntakeInit
  <2>2. 0 \in 0..Len(Members)  BY FileFacts
  <2> QED  BY <2>1, <2>2, ContentFacts, MadeTyped DEF IntakeTyped
<1>2. RowsTyped
  BY FS_EmptySet DEF IntakeInit, RowsTyped
<1>3. IntakeControl
  BY DEF IntakeInit, IntakeControl, TakeSteps, PrepareSteps
<1>4. Measured
  BY DEF IntakeInit, Measured, FiguresFollowTree, FiguresAreOfTree
<1>5. SetsMade
  BY DEF IntakeInit, SetsMade
<1>6. Stamped
  BY DEF IntakeInit, Stamped, Unheld
<1>7. Reading
  BY DEF IntakeInit, Reading
<1> QED  BY <1>1, <1>2, <1>3, <1>4, <1>5, <1>6, <1>7 DEF IntakeInv

LEMMA IntakeInvNext == IntakeInv /\ [IntakeNext]_intakeVars => IntakeInv'
BY TypedStep, ControlStep, MeasuredStep, MadeStep, StampedStep, ReadingStep, RowsStep DEF IntakeInv

LEMMA IntakeInvSays == IntakeInv => ReleaseIsHis
<1> SUFFICES ASSUME IntakeInv  PROVE ReleaseIsHis
  OBVIOUS
<1>1. IntakeTypeOK
  BY DEF IntakeInv, IntakeTyped, RowsTyped, IntakeTypeOK, FileSet
<1>2. ReadIsHis
  BY DEF IntakeInv, Reading, ReadIsHis
<1>3. CurrentIsThere
  <2>1. Members[1] \in Core /\ Members[1] \in Files  BY IntakeAssumption
  <2> QED  BY <2>1 DEF IntakeInv, Measured, CurrentIsThere, Found
<1>4. FiguresFollowTree
  BY DEF IntakeInv, Measured
<1> QED  BY <1>1, <1>2, <1>3, <1>4 DEF ReleaseIsHis

(***************************************************************************)
(* What readers compare with is the release on disk, which is there, and   *)
(* the figures quoted are its own unless a mend evened its lines out, for  *)
(* any releases and archives, over any number of intakes, kills and mends  *)
(* (held.py:213-321, intake.py:167-179, justfile:933-935).                 *)
(***************************************************************************)
THEOREM ReleaseStaysHis == IntakeSpec => []ReleaseIsHis
<1>1. IntakeInv /\ [IntakeNext]_intakeVars => IntakeInv'  BY IntakeInvNext
<1> QED  BY IntakeInvInit, <1>1, IntakeInvSays, PTL DEF IntakeSpec
-----------------------------------------------------------------------------
(* The extended walk. *)

LEMMA NthIs ==
  ASSUME NEW n \in Nat, NEW S \in SUBSET (1..n)
  PROVE  /\ IsFiniteSet(S) /\ Cardinality(S) \in Nat
         /\ \A i \in 1..Cardinality(S) : Nth(S, i) \in S
         /\ \A k \in S : \E i \in 1..Cardinality(S) : Nth(S, i) = k
  <1> DEFINE rank == [k \in S |-> Cardinality({j \in S : j <= k})]
             c    == Cardinality(S)
  <1>1. IsFiniteSet(S) /\ c \in Nat
    <2>1. IsFiniteSet(1..n)  BY FS_Interval
    <2> QED BY <2>1, FS_Subset, FS_CardinalityType
  <1>2. \A k \in S : rank[k] \in 1..c
    <2> SUFFICES ASSUME NEW k \in S PROVE rank[k] \in 1..c
      OBVIOUS
    <2> DEFINE below == {j \in S : j <= k}
    <2>1. below \subseteq S /\ k \in below  BY DEF below
    <2>2. IsFiniteSet(below) /\ Cardinality(below) <= c /\ Cardinality(below) \in Nat
      BY <1>1, <2>1, FS_Subset, FS_CardinalityType
    <2>3. Cardinality(below) # 0  BY <2>1, <2>2, FS_EmptySet
    <2>4. rank[k] = Cardinality(below)  BY DEF rank
    <2> HIDE DEF below, rank
    <2> QED BY <1>1, <2>2, <2>3, <2>4
  <1>3. \A j, k \in S : j < k => rank[j] < rank[k]
    <2> SUFFICES ASSUME NEW j \in S, NEW k \in S, j < k PROVE rank[j] < rank[k]
      OBVIOUS
    <2> DEFINE under == {i \in S : i <= j}
               upto  == {i \in S : i <= k}
    <2>0. S \subseteq Nat  OBVIOUS
    <2>1. under \subseteq upto /\ k \in upto /\ k \notin under /\ upto \subseteq S
      <3>1. j \in Nat /\ k \in Nat /\ \A i \in S : i \in Nat  BY <2>0
      <3>2. k <= k /\ ~(k <= j) /\ \A i \in S : i <= j => i <= k  BY <3>1
      <3> QED BY <3>2 DEF under, upto
    <2>2. IsFiniteSet(upto) /\ Cardinality(upto) \in Nat
      BY <1>1, <2>1, FS_Subset, FS_CardinalityType
    <2>3. IsFiniteSet(under) /\ Cardinality(under) \in Nat /\ Cardinality(under) <= Cardinality(upto) /\ Cardinality(under) # Cardinality(upto)
      BY <2>1, <2>2, FS_Subset, FS_CardinalityType
    <2>4. rank[j] = Cardinality(under) /\ rank[k] = Cardinality(upto)  BY DEF rank
    <2> HIDE DEF under, upto, rank
    <2> QED BY <2>2, <2>3, <2>4
  <1> HIDE DEF rank
  <1>4. \A j, k \in S : rank[j] = rank[k] => j = k
    <2> SUFFICES ASSUME NEW j \in S, NEW k \in S, j # k PROVE rank[j] # rank[k]
      OBVIOUS
    <2>1. j \in Nat /\ k \in Nat  OBVIOUS
    <2>2. j < k \/ k < j  BY <2>1
    <2>3. rank[j] \in 1..c /\ rank[k] \in 1..c  BY <1>2
    <2> QED BY <1>1, <1>3, <2>2, <2>3
  <1>5. rank \in Injection(S, 1..c)
    <2>1. rank \in [S -> 1..c]  BY <1>2 DEF rank
    <2> QED BY <1>4, <2>1 DEF Injection, IsInjective
  <1>6. rank \in Surjection(S, 1..c)
    <2>1. IsFiniteSet(1..c) /\ Cardinality(1..c) = c  BY <1>1, FS_Interval
    <2> QED BY <1>5, <2>1, FS_Injection
  <1>7. \A i \in 1..c : \E k \in S : rank[k] = i
    BY <1>6 DEF Surjection
  <1>8. \A i \in 1..c : Nth(S, i) \in S /\ rank[Nth(S, i)] = i
    <2> SUFFICES ASSUME NEW i \in 1..c PROVE Nth(S, i) \in S /\ rank[Nth(S, i)] = i
      OBVIOUS
    <2>1. \E k \in S : Cardinality({j \in S : j <= k}) = i  BY <1>7 DEF rank
    <2> QED BY <2>1 DEF Nth, rank
  <1>9. \A k \in S : rank[k] \in 1..c /\ Nth(S, rank[k]) = k
    BY <1>2, <1>4, <1>8
  <1> QED BY <1>1, <1>8, <1>9

LEMMA PickedIs ==
  ASSUME NEW A, NEW q \in Seq(A), NEW S \in SUBSET (DOMAIN q)
  PROVE  /\ Picked(q, S) \in Seq(A)
         /\ ToSet(Picked(q, S)) = {q[k] : k \in S}
         /\ DOMAIN Picked(q, S) = 1..Cardinality(S)
         /\ \A i \in DOMAIN Picked(q, S) : \E k \in S : Picked(q, S)[i] = q[k]
  <1> DEFINE c == Cardinality(S)
             r == Picked(q, S)
  <1>0. DOMAIN q = 1..Len(q) /\ Len(q) \in Nat  OBVIOUS
  <1>1. /\ c \in Nat
        /\ \A i \in 1..c : Nth(S, i) \in S
        /\ \A k \in S : \E i \in 1..c : Nth(S, i) = k
    BY <1>0, NthIs
  <1>2. r = [i \in 1..c |-> q[Nth(S, i)]]  BY DEF Picked
  <1>3. \A k \in S : q[k] \in A  BY <1>0, ElementOfSeq
  <1>4. r \in [1..c -> A]  BY <1>1, <1>2, <1>3
  <1>5. r \in Seq(A)  BY <1>1, <1>4, IsASeq
  <1>6. \A i \in 1..c : r[i] = q[Nth(S, i)] /\ Nth(S, i) \in S  BY <1>1, <1>2
  <1>7. DOMAIN r = 1..c  BY <1>2
  <1> HIDE DEF c, r
  <1>8. ToSet(r) = {q[k] : k \in S}
    <2>1. ToSet(r) = {r[i] : i \in 1..c}  BY <1>7 DEF ToSet
    <2> QED BY <1>1, <1>6, <2>1
  <1> QED BY <1>5, <1>6, <1>7, <1>8 DEF r, c

LEMMA SeqsOfSet ==
  ASSUME NEW S, IsFiniteSet(S)
  PROVE  SetToSeq(S) \in Seq(S) /\ ToSet(SetToSeq(S)) = S
  <1> DEFINE n == Cardinality(S)
  <1>1. n \in Nat /\ ExistsBijection(1..n, S)
    BY FS_CardinalityType
  <1>2. \E f \in [1..n -> S] : IsInjective(f)
    BY <1>1 DEF ExistsBijection, Bijection, Injection
  <1>3. SetToSeq(S) \in [1..n -> S] /\ IsInjective(SetToSeq(S))
    BY <1>2 DEF SetToSeq
  <1>4. IsFiniteSet(1..n) /\ Cardinality(1..n) = n  BY <1>1, FS_Interval
  <1>5. SetToSeq(S) \in Surjection(1..n, S)
    <2>1. SetToSeq(S) \in Injection(1..n, S)  BY <1>3 DEF Injection
    <2> QED BY <1>4, <2>1, FS_Injection
  <1>6. ToSet(SetToSeq(S)) = S
    BY <1>3, <1>5 DEF ToSet, Surjection
  <1> QED BY <1>1, <1>3, <1>6, IsASeq

LEMMA ConcatSet ==
  ASSUME NEW A, NEW s \in Seq(A), NEW t \in Seq(A)
  PROVE  s \o t \in Seq(A) /\ ToSet(s \o t) = ToSet(s) \cup ToSet(t)
  <1> DEFINE m == Len(s)
             n == Len(t)
             q == s \o t
  <1>1. /\ q \in Seq(A) /\ Len(q) = m + n /\ m \in Nat /\ n \in Nat
        /\ \A i \in 1..(m + n) : q[i] = IF i <= m THEN s[i] ELSE t[i - m]
    BY ConcatProperties
  <1>2. DOMAIN q = 1..(m + n) /\ DOMAIN s = 1..m /\ DOMAIN t = 1..n  BY <1>1
  <1> HIDE DEF m, n, q
  <1>3. \A i \in 1..m : i \in 1..(m + n) /\ q[i] = s[i]  BY <1>1
  <1>4. \A i \in 1..n : m + i \in 1..(m + n) /\ q[m + i] = t[i]  BY <1>1
  <1>5. \A i \in 1..(m + n) : q[i] \in ToSet(s) \cup ToSet(t)
    <2> SUFFICES ASSUME NEW i \in 1..(m + n) PROVE q[i] \in ToSet(s) \cup ToSet(t)
      OBVIOUS
    <2>1. CASE i <= m
      <3>1. i \in 1..m /\ q[i] = s[i]  BY <1>1, <2>1
      <3> QED BY <1>2, <3>1 DEF ToSet
    <2>2. CASE ~(i <= m)
      <3>1. i - m \in 1..n /\ q[i] = t[i - m]  BY <1>1, <2>2
      <3> QED BY <1>2, <3>1 DEF ToSet
    <2> QED BY <2>1, <2>2
  <1>6. ToSet(q) = ToSet(s) \cup ToSet(t)
    BY <1>2, <1>3, <1>4, <1>5 DEF ToSet
  <1> QED BY <1>1, <1>6 DEF q

LEMMA SpanIs ==
  /\ Width \in Nat /\ Width > 0 /\ Depth \in Nat /\ Depth > 0
  /\ \A l \in 0..Depth : Span[l] \in Nat /\ Span[l] > 0
  /\ \A l \in 0..Depth : l < Depth => l + 1 \in 0..Depth /\ Span[l] = Width * Span[l + 1]
  /\ Width \div 2 \in 0..(Width - 1)
  <1>1. /\ Width \in Nat \ {0} /\ Depth \in Nat \ {0} /\ Span \in [0..Depth -> Nat \ {0}]
        /\ \A l \in 0..(Depth - 1) : Span[l] = Width * Span[l + 1]
    BY WalkAssumption
  <1>2. \A l \in 0..Depth : l < Depth => l \in 0..(Depth - 1) /\ l + 1 \in 0..Depth
    BY <1>1
  <1>3. \A l \in 0..Depth : Span[l] \in Nat \ {0}  BY <1>1
  <1>4. \A n \in Nat \ {0} : n > 0  OBVIOUS
  <1>5. Width \div 2 \in 0..(Width - 1)  BY <1>1
  <1> QED BY <1>1, <1>2, <1>3, <1>4, <1>5

LEMMA TaskIs ==
  ASSUME NEW t
  PROVE  t \in Task <=> /\ t \in [page : Page, level : 0..Depth, at : Position]
                        /\ (t.at + 1) * Span[t.level] <= Span[0]
  <1> DEFINE of(l) == [page : Page, level : {l}, at : {k \in Position : (k + 1) * Span[l] <= Span[0]}]
  <1>1. Task = UNION {of(l) : l \in 0..Depth}  BY DEF Task
  <1>2. t \in Task <=> \E l \in 0..Depth : t \in of(l)  BY <1>1
  <1>3. ASSUME NEW l \in 0..Depth, t \in of(l)
        PROVE  /\ t \in [page : Page, level : 0..Depth, at : Position] /\ t.level = l
               /\ (t.at + 1) * Span[t.level] <= Span[0]
    <2>1. t.level = l /\ t.at \in {k \in Position : (k + 1) * Span[l] <= Span[0]}  BY <1>3
    <2>2. t \in [page : Page, level : 0..Depth, at : Position]  BY <1>3
    <2> QED BY <2>1, <2>2
  <1>4. ASSUME t \in [page : Page, level : 0..Depth, at : Position], (t.at + 1) * Span[t.level] <= Span[0]
        PROVE  t.level \in 0..Depth /\ t \in of(t.level)
    <2>1. t.at \in {k \in Position : (k + 1) * Span[t.level] <= Span[0]}  BY <1>4
    <2> QED BY <1>4, <2>1
  <1> QED BY <1>2, <1>3, <1>4

LEMMA TaskFields ==
  ASSUME NEW t \in Task
  PROVE  /\ t.page \in Page /\ t.level \in 0..Depth /\ t.level \in Nat /\ t.at \in Nat
         /\ (t.at + 1) * Span[t.level] <= Span[0] /\ Span[t.level] \in Nat /\ Span[t.level] > 0
  <1>1. Position \subseteq Nat  BY SpanIs DEF Position
  <1>2. t \in [page : Page, level : 0..Depth, at : Position]
    BY TaskIs
  <1>3. t.page \in Page /\ t.level \in 0..Depth /\ t.at \in Position  BY <1>2
  <1>4. t.level \in Nat  BY <1>3
  <1> QED BY <1>1, <1>3, <1>4, TaskIs, SpanIs

LEMMA WholeIs ==
  ASSUME NEW p \in Page
  PROVE  Whole(p) \in Task /\ Whole(p).level = 0 /\ Whole(p).page = p /\ Whole(p).at = 0
  <1>1. 0 \in 0..Depth /\ Span[0] \in Nat /\ Span[0] > 0  BY SpanIs
  <1>2. (0 + 1) * Span[0] <= Span[0] /\ 0 \in Position  BY <1>1 DEF Position
  <1> QED BY <1>1, <1>2, TaskIs DEF Whole

\* A task of level 0 is a whole page.
LEMMA OfLevelZero ==
  ASSUME NEW t \in Task, t.level = 0 PROVE t = Whole(t.page)
  <1>1. t \in [page : Page, level : 0..Depth, at : Position] /\ (t.at + 1) * Span[0] <= Span[0]
    BY TaskIs
  <1>2. t.at \in Nat /\ Span[0] \in Nat /\ Span[0] > 0  BY TaskFields, SpanIs
  <1>3. t.at = 0
    <2> DEFINE a == t.at
               s == Span[0]
    <2>1. a \in Nat /\ s \in Nat /\ s > 0 /\ (a + 1) * s <= s  BY <1>1, <1>2
    <2> HIDE DEF a, s
    <2>2. ASSUME a > 0 PROVE FALSE
      <3>1. (a + 1) * s = a * s + s  BY <2>1
      <3>2. a * s >= s  BY <2>1, <2>2
      <3> QED BY <2>1, <3>1, <3>2
    <2> QED BY <2>1, <2>2 DEF a
  <1> QED BY <1>1, <1>3 DEF Whole

LEMMA ChildIs ==
  ASSUME NEW t \in Task, t.level < Depth, NEW k \in 0..(Width - 1)
  PROVE  /\ Child(t, k) \in Task
         /\ Child(t, k).page = t.page /\ Child(t, k).level = t.level + 1
         /\ Child(t, k).at = t.at * Width + k
  <1> DEFINE a == t.at
             s == Span[t.level + 1]
             e == a * Width + k
  <1>1. /\ t \in [page : Page, level : 0..Depth, at : Position]
        /\ (a + 1) * Span[t.level] <= Span[0] /\ a \in Nat /\ t.level \in 0..Depth
    BY TaskIs, TaskFields
  <1>2. t.level + 1 \in 0..Depth /\ Span[t.level] = Width * s /\ s \in Nat /\ s > 0 /\ Width \in Nat /\ Width > 0
        /\ Span[0] \in Nat /\ Depth \in Nat
    BY <1>1, SpanIs
  <1>3. Child(t, k) = [t EXCEPT !.level = t.level + 1, !.at = e]  BY DEF Child
  <1>4. k \in Nat /\ k + 1 <= Width  BY <1>2
  <1> DEFINE z == Span[0]
  <1>5. e \in Nat /\ (e + 1) * s <= z
    <2> HIDE DEF a, s, z
    <2>1. a * Width \in Nat  BY <1>1, <1>2
    <2>2. e + 1 <= a * Width + Width /\ e \in Nat  BY <1>2, <1>4, <2>1
    <2>3. a * Width + Width = (a + 1) * Width  BY <1>1, <1>2
    <2>4. (e + 1) * s <= ((a + 1) * Width) * s
      <3> DEFINE u == e + 1
                 v == (a + 1) * Width
      <3>1. u \in Nat /\ v \in Nat /\ u <= v  BY <1>1, <1>2, <2>2, <2>3
      <3> HIDE DEF u, v
      <3>2. u * s <= v * s  BY <1>2, <3>1
      <3> QED BY <3>2 DEF u, v
    <2>5. ((a + 1) * Width) * s = (a + 1) * (Width * s)  BY <1>1, <1>2
    <2>6. (a + 1) * (Width * s) <= z  BY <1>1, <1>2 DEF s, z, a
    <2>7. ((a + 1) * Width) * s \in Nat /\ (e + 1) * s \in Nat /\ z \in Nat  BY <1>1, <1>2, <2>2 DEF z
    <2> QED BY <2>2, <2>4, <2>5, <2>6, <2>7
  <1>6. e \in Position
    <2>1. e \in Nat /\ (e + 1) * s <= z /\ s \in Nat /\ s > 0 /\ z \in Nat  BY <1>2, <1>5
    <2> HIDE DEF e, s, z
    <2>2. e + 1 <= (e + 1) * s  BY <2>1
    <2>3. e + 1 <= z /\ (e + 1) * s \in Nat  BY <2>1, <2>2
    <2> QED BY <2>1, <2>3 DEF Position, z
  <1> HIDE DEF e, s, z
  <1>7. Child(t, k) \in [page : Page, level : 0..Depth, at : Position]
    BY <1>1, <1>2, <1>3, <1>6
  <1>8. Child(t, k).page = t.page /\ Child(t, k).level = t.level + 1 /\ Child(t, k).at = e
    BY <1>1, <1>3
  <1> QED BY <1>5, <1>7, <1>8, TaskIs DEF e, s, z

\* The rows a task asks for, of an index.
RowsOf(I, t) == {<<t.page, r>> : r \in {r \in I[t.page] : Within(r, t)}}

LEMMA AskedIs ==
  ASSUME NEW I \in [Page -> SUBSET Position], NEW t \in Task, NEW x
  PROVE  /\ x \in RowsOf(I, t) <=> x = <<t.page, x[2]>> /\ x[2] \in I[t.page] /\ Within(x[2], t)
         /\ x \in RowsOf(I, t) => x[2] \in Nat /\ x \in Page \X Position
  <1>1. t.page \in Page /\ I[t.page] \subseteq Position /\ Position \subseteq Nat
    BY TaskFields, SpanIs DEF Position
  <1>2. x \in RowsOf(I, t) <=> \E r \in I[t.page] : Within(r, t) /\ x = <<t.page, r>>
    BY DEF RowsOf
  <1>3. ASSUME x \in RowsOf(I, t)
        PROVE  x = <<t.page, x[2]>> /\ x[2] \in I[t.page] /\ Within(x[2], t)
    <2>1. PICK r \in I[t.page] : Within(r, t) /\ x = <<t.page, r>>  BY <1>2, <1>3
    <2>2. x[2] = r  BY <2>1
    <2> QED BY <2>1, <2>2
  <1>4. ASSUME x = <<t.page, x[2]>>, x[2] \in I[t.page], Within(x[2], t)
        PROVE  x \in RowsOf(I, t)
    BY <1>2, <1>4
  <1>5. ASSUME x \in RowsOf(I, t) PROVE x[2] \in Nat /\ x \in Page \X Position
    <2>1. x[2] \in Nat /\ x[2] \in Position /\ x = <<t.page, x[2]>>  BY <1>1, <1>3, <1>5
    <2> QED BY <1>1, <2>1
  <1> QED BY <1>3, <1>4, <1>5

LEMMA ChildRows ==
  ASSUME NEW I \in [Page -> SUBSET Position],
         NEW t \in Task, t.level < Depth, NEW k \in 0..(Width - 1)
  PROVE  RowsOf(I, Child(t, k)) \subseteq RowsOf(I, t)
  <1> DEFINE c == Child(t, k)
  <1>1. /\ c \in Task /\ c.page = t.page /\ c.level = t.level + 1 /\ c.at = t.at * Width + k
    BY ChildIs
  <1> DEFINE a == t.at
             s == Span[t.level + 1]
             e == a * Width + k
  <1>2. /\ a \in Nat /\ s \in Nat /\ s > 0 /\ Width \in Nat /\ Span[t.level] = Width * s /\ k \in Nat /\ k + 1 <= Width
    BY TaskFields, SpanIs
  <1>3. \A r \in Nat : Within(r, c) => Within(r, t)
    <2> SUFFICES ASSUME NEW r \in Nat, Within(r, c) PROVE Within(r, t)
      OBVIOUS
    <2>1. e * s <= r /\ r < (e + 1) * s  BY <1>1 DEF Within
    <2> SUFFICES a * (Width * s) <= r /\ r < (a + 1) * (Width * s)
      BY <1>2 DEF Within
    <2> HIDE DEF a, s
    <2>2. a * Width \in Nat /\ e \in Nat /\ e >= a * Width /\ e + 1 <= a * Width + Width  BY <1>2
    <2> HIDE DEF e
    <2> DEFINE u == a * Width
               v == (a + 1) * Width
    <2>3. v = u + Width /\ u \in Nat /\ v \in Nat  BY <1>2
    <2>4. u * s = a * (Width * s) /\ v * s = (a + 1) * (Width * s)  BY <1>2
    <2> HIDE DEF u, v
    <2>5. u <= e /\ e + 1 <= v  BY <2>2, <2>3 DEF u
    <2>6. u * s <= e * s  BY <1>2, <2>2, <2>3, <2>5
    <2>7. (e + 1) * s <= v * s
      <3> DEFINE f == e + 1
      <3>1. f \in Nat /\ f <= v  BY <2>2, <2>5
      <3> HIDE DEF f
      <3>2. f * s <= v * s  BY <1>2, <2>3, <3>1
      <3> QED BY <3>2 DEF f
    <2>8. u * s \in Nat /\ e * s \in Nat /\ (e + 1) * s \in Nat /\ v * s \in Nat  BY <1>2, <2>2, <2>3
    <2> QED BY <2>1, <2>4, <2>6, <2>7, <2>8
  <1> QED BY <1>1, <1>3, AskedIs

LEMMA ChildCover ==
  ASSUME NEW I \in [Page -> SUBSET Position],
         NEW t \in Task, t.level < Depth, NEW x \in RowsOf(I, t)
  PROVE  \E k \in 0..(Width - 1) : x \in RowsOf(I, Child(t, k))
  <1> DEFINE a == t.at
             s == Span[t.level + 1]
             r == x[2]
             above == {k \in 0..(Width - 1) : r < (a * Width + k + 1) * s}
  <1>1. /\ a \in Nat /\ s \in Nat /\ s > 0 /\ Width \in Nat /\ Width > 0 /\ Span[t.level] = Width * s
    BY TaskFields, SpanIs
  <1>2. /\ r \in Nat /\ x = <<t.page, r>> /\ r \in I[t.page]
        /\ a * (Width * s) <= r /\ r < (a + 1) * (Width * s)
    BY <1>1, AskedIs DEF Within
  <1> HIDE DEF a, s, r
  <1>3. Width - 1 \in above
    <2>1. Width - 1 \in 0..(Width - 1)  BY <1>1
    <2>2. (a + 1) * (Width * s) = ((a + 1) * Width) * s  BY <1>1
    <2>3. (a + 1) * Width = a * Width + (Width - 1) + 1  BY <1>1
    <2> QED BY <1>2, <2>1, <2>2, <2>3
  <1>4. above \subseteq Nat  OBVIOUS
  <1>5. PICK k \in above : \A j \in above : k <= j  BY <1>3, <1>4, LeastNat
  <1>6. k \in 0..(Width - 1) /\ r < (a * Width + k + 1) * s  OBVIOUS
  <1>7. (a * Width + k) * s <= r
    <2>1. CASE k = 0
      <3>1. (a * Width + k) * s = a * (Width * s)  BY <1>1, <2>1
      <3> QED BY <1>2, <3>1
    <2>2. CASE k > 0
      <3>1. k - 1 \in 0..(Width - 1) /\ k \in Nat  BY <1>1, <1>6, <2>2
      <3>2. k - 1 \notin above  BY <1>5, <3>1
      <3>3. ~(r < (a * Width + (k - 1) + 1) * s)  BY <3>1, <3>2
      <3>4. a * Width + (k - 1) + 1 = a * Width + k /\ a * Width + k \in Nat  BY <1>1, <3>1
      <3>5. ~(r < (a * Width + k) * s)  BY <3>3, <3>4
      <3>6. (a * Width + k) * s \in Nat  BY <1>1, <3>4
      <3> QED BY <1>2, <3>5, <3>6
    <2> QED BY <1>6, <2>1, <2>2
  <1> HIDE DEF above
  <1> DEFINE c == Child(t, k)
  <1>8. c \in Task /\ c.page = t.page /\ c.level = t.level + 1 /\ c.at = a * Width + k
    BY <1>6, ChildIs DEF a
  <1>9. Within(r, c)  BY <1>6, <1>7, <1>8 DEF Within, s
  <1>10. x \in RowsOf(I, c)  BY <1>2, <1>8, <1>9, AskedIs DEF r
  <1> QED BY <1>6, <1>10

\* Of two tasks of one level, the rows of the lower one come first.
LEMMA LowerRows ==
  ASSUME NEW I \in [Page -> SUBSET Position],
         NEW t \in Task, NEW u \in Task, t.level = u.level, u.at < t.at,
         NEW x \in RowsOf(I, u), NEW y \in RowsOf(I, t)
  PROVE  x[2] < y[2]
  <1> DEFINE s == Span[t.level]
             a == t.at
             b == u.at
  <1>1. s \in Nat /\ s > 0 /\ a \in Nat /\ b \in Nat /\ b < a  BY TaskFields
  <1>2. x[2] \in Nat /\ y[2] \in Nat /\ x[2] < (b + 1) * s /\ a * s <= y[2]
    BY AskedIs DEF Within
  <1> HIDE DEF s, a, b
  <1>3. (b + 1) * s <= a * s
    <2> DEFINE f == b + 1
    <2>1. f \in Nat /\ f <= a  BY <1>1
    <2> HIDE DEF f
    <2>2. f * s <= a * s  BY <1>1, <2>1
    <2> QED BY <2>2 DEF f
  <1>4. (b + 1) * s \in Nat /\ a * s \in Nat  BY <1>1
  <1> QED BY <1>2, <1>3, <1>4

\* A page's subpages beside its probes.
Others(p) == {Child(Whole(p), k) : k \in 0..(Width - 1)} \ Probes(p)

LEMMA SubsAre ==
  ASSUME NEW t \in Task, NEW cut \in BOOLEAN
  PROVE  /\ Subpages(t, cut) \in Seq(Task)
         /\ t.level = Depth \/ (~cut /\ t.level > 0) => Subpages(t, cut) = <<>> /\ ToSet(Subpages(t, cut)) = {}
         /\ t.level < Depth /\ cut => ToSet(Subpages(t, cut)) = {Child(t, k) : k \in 0..(Width - 1)}
         /\ t.level = 0 /\ ~cut => ToSet(Subpages(t, cut)) = {Child(t, 0), Child(t, Width \div 2)}
  <1>1. /\ t.level \in 0..Depth /\ Depth \in Nat /\ Depth > 0 /\ Width \in Nat /\ Width > 0
        /\ Width \div 2 \in 0..(Width - 1) /\ t.level \in Nat
    BY TaskFields, SpanIs
  <1> DEFINE s == Subpages(t, cut)
  <1>2. CASE t.level = Depth \/ (~cut /\ t.level > 0)
    <2>1. s = <<>>  BY <1>2 DEF Subpages
    <2>2. ToSet(s) = {}  BY <2>1 DEF ToSet
    <2>3. ~(t.level < Depth /\ cut) /\ ~(t.level = 0 /\ ~cut)  BY <1>1, <1>2
    <2> QED BY <2>1, <2>2, <2>3
  <1>3. CASE t.level < Depth /\ cut
    <2>1. s = [i \in 1..Width |-> Child(t, Width - i)]  BY <1>1, <1>3 DEF Subpages
    <2>2. \A i \in 1..Width : Width - i \in 0..(Width - 1)  BY <1>1
    <2>3. \A k \in 0..(Width - 1) : Width - k \in 1..Width /\ Width - (Width - k) = k  BY <1>1
    <2>4. \A i \in 1..Width : Child(t, Width - i) \in Task  BY <1>3, <2>2, ChildIs
    <2>5. s \in Seq(Task)  BY <1>1, <2>1, <2>4, IsASeq
    <2>6. ToSet(s) = {Child(t, Width - i) : i \in 1..Width}  BY <2>1 DEF ToSet
    <2>7. ToSet(s) = {Child(t, k) : k \in 0..(Width - 1)}
      <3>1. \A i \in 1..Width : Child(t, Width - i) \in {Child(t, k) : k \in 0..(Width - 1)}  BY <2>2
      <3>2. \A k \in 0..(Width - 1) : \E i \in 1..Width : Child(t, k) = Child(t, Width - i)
        <4> TAKE k \in 0..(Width - 1)
        <4>1. Width - k \in 1..Width /\ Width - (Width - k) = k  BY <2>3
        <4> QED BY <4>1
      <3> QED BY <2>6, <3>1, <3>2
    <2>8. ~(t.level = Depth \/ (~cut /\ t.level > 0)) /\ ~(t.level = 0 /\ ~cut)  BY <1>1, <1>3
    <2> QED BY <2>5, <2>7, <2>8
  <1>4. CASE t.level = 0 /\ ~cut
    <2>1. s = <<Child(t, 0), Child(t, Width \div 2)>>  BY <1>1, <1>4 DEF Subpages
    <2>2. 0 \in 0..(Width - 1) /\ t.level < Depth  BY <1>1, <1>4
    <2>3. Child(t, 0) \in Task /\ Child(t, Width \div 2) \in Task  BY <1>1, <2>2, ChildIs
    <2>4. s \in Seq(Task)  BY <2>1, <2>3
    <2>5. DOMAIN s = 1..2 /\ s[1] = Child(t, 0) /\ s[2] = Child(t, Width \div 2)  BY <2>1
    <2>6. ToSet(s) = {Child(t, 0), Child(t, Width \div 2)}
      <3>1. ToSet(s) = {s[i] : i \in 1..2}  BY <2>5 DEF ToSet
      <3> QED BY <2>5, <3>1
    <2>7. ~(t.level = Depth \/ (~cut /\ t.level > 0)) /\ ~(t.level < Depth /\ cut)  BY <1>1, <1>4
    <2> QED BY <2>4, <2>6, <2>7
  <1> QED BY <1>1, <1>2, <1>3, <1>4

\* The subpages of a page, by their number.
LEMMA OfWhole ==
  ASSUME NEW p \in Page
  PROVE  /\ \A k \in 0..(Width - 1) :
              /\ Child(Whole(p), k) = [page |-> p, level |-> 1, at |-> k]
              /\ Child(Whole(p), k) \in Task
         /\ Probes(p) = {Child(Whole(p), 0), Child(Whole(p), Width \div 2)}
         /\ Probes(p) \subseteq {Child(Whole(p), k) : k \in 0..(Width - 1)}
         /\ \A t \in Probes(p) \cup Others(p) : t \in Task /\ t.level = 1 /\ t.page = p
  <1>1. Whole(p) \in Task /\ Whole(p).level = 0 /\ Whole(p) = [page |-> p, level |-> 0, at |-> 0]
    BY WholeIs DEF Whole
  <1>2. Depth > 0 /\ Width \in Nat /\ Width > 0 /\ Width \div 2 \in 0..(Width - 1) /\ 0 \in 0..(Width - 1)
    BY SpanIs
  <1>3. \A k \in 0..(Width - 1) : /\ Child(Whole(p), k) = [page |-> p, level |-> 1, at |-> k]
                                  /\ Child(Whole(p), k) \in Task
    <2> TAKE k \in 0..(Width - 1)
    <2> DEFINE c == Child(Whole(p), k)
    <2>1. /\ c \in Task /\ c.page = p /\ c.level = 0 + 1 /\ c.at = 0 * Width + k
      BY <1>1, <1>2, ChildIs DEF Whole
    <2>2. 0 + 1 = 1 /\ 0 * Width + k = k  BY <1>2
    <2>3. c \in [page : Page, level : 0..Depth, at : Position]  BY <2>1, TaskIs
    <2> HIDE DEF c
    <2>4. c = [page |-> p, level |-> 1, at |-> k]  BY <2>1, <2>2, <2>3
    <2> QED BY <2>1, <2>4 DEF c
  <1>4. Probes(p) = {Child(Whole(p), 0), Child(Whole(p), Width \div 2)}
    BY <1>1, SubsAre DEF Probes
  <1>5. Probes(p) \subseteq {Child(Whole(p), k) : k \in 0..(Width - 1)}  BY <1>2, <1>4
  <1>6. \A t \in Probes(p) \cup Others(p) : \E k \in 0..(Width - 1) : t = Child(Whole(p), k)
    BY <1>5 DEF Others
  <1>7. \A t \in Probes(p) \cup Others(p) : t \in Task /\ t.level = 1 /\ t.page = p
    BY <1>3, <1>6
  <1> QED BY <1>3, <1>4, <1>5, <1>7

LEMMA RestIs ==
  ASSUME NEW p \in Page, NEW t \in Probes(p)
  PROVE  Rest(t) \in Seq(Task) /\ ToSet(Rest(t)) = Others(p)
  <1>1. /\ Width \in Nat /\ Width > 0 /\ Width \div 2 \in 0..(Width - 1) /\ 0 \in 0..(Width - 1)
    BY SpanIs
  <1>2. PICK j \in 0..(Width - 1) : t = [page |-> p, level |-> 1, at |-> j]
    BY OfWhole
  <1> DEFINE q == [i \in 1..Width |-> [t EXCEPT !.at = (t.at \div Width) * Width + i - 1]]
             S == (1..Width) \ {1, Width \div 2 + 1}
  <1>3. t.at \div Width = 0
    <2>1. t.at = j /\ j \in Nat /\ j < Width  BY <1>1, <1>2
    <2>2. \A n \in Nat, m \in Nat : m < n => m \div n = 0  OBVIOUS
    <2> QED BY <1>1, <2>1, <2>2
  <1>4. \A i \in 1..Width : i - 1 \in 0..(Width - 1) /\ q[i] = Child(Whole(p), i - 1)
    <2> TAKE i \in 1..Width
    <2>1. i - 1 \in 0..(Width - 1) /\ 0 * Width + i - 1 = i - 1  BY <1>1
    <2>2. q[i] = [t EXCEPT !.at = i - 1]  BY <1>3, <2>1
    <2>3. q[i] = [page |-> p, level |-> 1, at |-> i - 1]  BY <1>2, <2>2
    <2> QED BY <2>1, <2>3, OfWhole
  <1>5. q \in Seq(Task) /\ DOMAIN q = 1..Width
    <2>1. \A i \in 1..Width : q[i] \in Task  BY <1>4, OfWhole
    <2> DEFINE e(i) == [t EXCEPT !.at = (t.at \div Width) * Width + i - 1]
    <2>2. \A i \in 1..Width : e(i) \in Task  BY <2>1
    <2>3. q = [i \in 1..Width |-> e(i)]  OBVIOUS
    <2> HIDE DEF e
    <2>4. [i \in 1..Width |-> e(i)] \in Seq(Task)  BY <1>1, <2>2, IsASeq
    <2> QED BY <2>3, <2>4
  <1>6. Rest(t) = Picked(q, S)  BY DEF Rest
  <1> HIDE DEF q
  <1>7. S \in SUBSET (DOMAIN q)  BY <1>5
  <1>8. Rest(t) \in Seq(Task) /\ ToSet(Rest(t)) = {q[i] : i \in S}
    <2> HIDE DEF S
    <2>1. Picked(q, S) \in Seq(Task) /\ ToSet(Picked(q, S)) = {q[k] : k \in S}
      BY <1>5, <1>7, PickedIs
    <2> QED BY <1>6, <2>1
  <1>9. {q[i] : i \in S} \subseteq Others(p)
    <2> SUFFICES ASSUME NEW i \in S PROVE q[i] \in Others(p)
      OBVIOUS
    <2>1. i \in 1..Width /\ i # 1 /\ i # Width \div 2 + 1  OBVIOUS
    <2>2. q[i] = Child(Whole(p), i - 1) /\ i - 1 \in 0..(Width - 1) /\ i - 1 # 0 /\ i - 1 # Width \div 2
      BY <1>1, <1>4, <2>1
    <2>3. q[i].at = i - 1 /\ Child(Whole(p), 0).at = 0 /\ Child(Whole(p), Width \div 2).at = Width \div 2
      BY <1>1, <2>2, OfWhole
    <2>4. q[i] \notin Probes(p)  BY <2>2, <2>3, OfWhole
    <2> QED BY <2>2, <2>4 DEF Others
  <1>10. Others(p) \subseteq {q[i] : i \in S}
    <2> SUFFICES ASSUME NEW k \in 0..(Width - 1), Child(Whole(p), k) \notin Probes(p)
                 PROVE  \E i \in S : q[i] = Child(Whole(p), k)
      BY DEF Others
    <2>1. k # 0 /\ k # Width \div 2  BY <1>1, OfWhole
    <2>2. k + 1 \in S /\ (k + 1) - 1 = k  BY <1>1, <2>1
    <2>3. q[k + 1] = Child(Whole(p), k)  BY <1>4, <2>2
    <2> QED BY <2>2, <2>3
  <1> QED BY <1>8, <1>9, <1>10

-----------------------------------------------------------------------------
(* What is true of the queue, of the files after a restart, and of what a  *)
(* booking has in between, is said once, of a view: the index's rows, the  *)
(* rows that need no task, the tasks booked silent and the tasks owed.     *)

Covered(v, x, l) == x \in v.safe \/ \E t \in v.owed : t.level > l /\ x \in RowsOf(v.rows, t)

\* The subpages beside a page's probes are needless, or split further, or owed.
OthersAre(v, p) == \A t \in Others(p) : \A x \in RowsOf(v.rows, t) : Covered(v, x, 0)

\* A task that is not asked again: its rows are seen to, and its page's after a probe with rows.
Settled(v, t) ==
  /\ \A x \in RowsOf(v.rows, t) : Covered(v, x, t.level)
  /\ \A p \in Page : t \in Probes(p) /\ t \notin v.mute /\ RowsOf(v.rows, t) # {} => OthersAre(v, p)

SplitUp(v, p) ==
  \A x \in RowsOf(v.rows, Whole(p)) :
    \/ Covered(v, x, 0)
    \/ Whole(p) \in v.mute /\ \E t \in Others(p) : x \in RowsOf(v.rows, t)

\* What the reason of an owed subpage says of it and of its parent.
Reasoned(v, t, why) ==
  /\ why.parent.level < Depth /\ \E k \in 0..(Width - 1) : t = Child(why.parent, k)
  /\ why.role = "cut" => \A x \in RowsOf(v.rows, why.parent) :
                           Covered(v, x, why.parent.level) /\ (x[2] <= why.stop => x \in v.safe)
  /\ why.role = "probe" => why.parent = Whole(t.page) /\ t \in Probes(t.page)
  /\ why.role = "rest" => why.parent = Whole(t.page) /\ OthersAre(v, t.page)

AllBooked(v, D) ==
  /\ \A t \in D : t.level > 0 => Settled(v, t)
  /\ \A p \in Page : Whole(p) \in D => SplitUp(v, p)

\* Of two views the second has what the first has.
Keeps(v, w) ==
  /\ v.rows = w.rows /\ v.safe \subseteq w.safe /\ v.mute \subseteq w.mute
  /\ \A x, l : l \in Nat /\ Covered(v, x, l) => Covered(w, x, l)

LEMMA Stays ==
  ASSUME NEW v, NEW w, Keeps(v, w)
  PROVE  /\ \A p : OthersAre(v, p) => OthersAre(w, p)
         /\ \A t \in Task : Settled(v, t) => Settled(w, t)
         /\ \A p : SplitUp(v, p) => SplitUp(w, p)
         /\ \A t : \A why \in Meta : Reasoned(v, t, why) => Reasoned(w, t, why)
         /\ \A D \in SUBSET Task : AllBooked(v, D) => AllBooked(w, D)
  <1>0. /\ v.rows = w.rows /\ v.safe \subseteq w.safe /\ v.mute \subseteq w.mute
        /\ \A x, l : l \in Nat /\ Covered(v, x, l) => Covered(w, x, l)
        /\ 0 \in Nat
    BY DEF Keeps
  <1>1. ASSUME NEW p, OthersAre(v, p) PROVE OthersAre(w, p)
    BY <1>0, <1>1 DEF OthersAre
  <1>2. ASSUME NEW t \in Task, Settled(v, t) PROVE Settled(w, t)
    <2>1. t.level \in Nat  BY TaskFields
    <2>2. \A x \in RowsOf(w.rows, t) : Covered(w, x, t.level)  BY <1>0, <1>2, <2>1 DEF Settled
    <2>3. \A p \in Page : t \in Probes(p) /\ t \notin w.mute /\ RowsOf(w.rows, t) # {} => OthersAre(w, p)
      BY <1>0, <1>1, <1>2 DEF Settled
    <2> QED BY <2>2, <2>3 DEF Settled
  <1>3. ASSUME NEW p, SplitUp(v, p) PROVE SplitUp(w, p)
    BY <1>0, <1>3 DEF SplitUp
  <1>4. ASSUME NEW t, NEW why \in Meta, Reasoned(v, t, why) PROVE Reasoned(w, t, why)
    <2>1. why.parent \in Task  BY DEF Meta
    <2>2. why.parent.level \in Nat  BY <2>1, TaskFields
    <2>3. why.role = "cut" => \A x \in RowsOf(w.rows, why.parent) :
                           Covered(w, x, why.parent.level) /\ (x[2] <= why.stop => x \in w.safe)
      BY <1>0, <1>4, <2>2 DEF Reasoned
    <2> QED BY <1>1, <1>4, <2>3 DEF Reasoned
  <1>5. ASSUME NEW D \in SUBSET Task, AllBooked(v, D) PROVE AllBooked(w, D)
    BY <1>2, <1>3, <1>5 DEF AllBooked
  <1> QED BY <1>1, <1>2, <1>3, <1>4, <1>5

\* The subpages queued or in flight whose reason is known, and the tasks that are booked.
Asking == (ToSet(subq) \cup inflight) \cap DOMAIN meta
Booking == {cur[w] : w \in {w \in Worker : walkStep[w] = "book"}}
Through == done \cup Booking
Working == {w \in Worker : walkStep[w] \in {"ask", "settle", "book"}}
InHand  == {cur[w] : w \in Working}
Known   == ToSet(subq) \cup inflight \cup pages \cup InHand

Excused == {v \in verdict : v[1].level > 0 /\ v[2] # "unbooked"}
Safe    == journaled \cup UNION {Asked(v[1]) : v \in Excused}

InMemory == [rows |-> index, safe |-> Safe, mute |-> Let("silent"), owed |-> Asking \ Through]
OnDisk   == [rows |-> index, safe |-> Safe, mute |-> Let("silent"), owed |-> Owing(pending) \ done]

WalkTyped == WalkTypeOK /\ IsFiniteSet(inflight)

WalkMemory ==
  /\ \A t \in DOMAIN meta : Reasoned(InMemory, t, meta[t])
  /\ \A p \in Page : Whole(p) \in opened => OthersAre(InMemory, p)
  /\ AllBooked(InMemory, Through)
  /\ \A t \in Known \ DOMAIN meta : t.level > 0 => Settled(InMemory, t)

WalkDisk ==
  /\ \A i \in DOMAIN pending : Reasoned(OnDisk, pending[i].task, pending[i].meta)
  /\ AllBooked(OnDisk, done)

\* The answer at hand is what its task asked for, or the first rows of that, or nothing.
AnswerFits(w) ==
  /\ answer[w] \in [kind : Kind, rows : SUBSET journaled]
  /\ answer[w].rows \subseteq Asked(cur[w])
  /\ answer[w].kind = "complete" => answer[w].rows = Asked(cur[w])
  /\ answer[w].kind = "cut" => answer[w].rows # {}
  /\ answer[w].kind \notin {"complete", "cut"} => answer[w].rows = {}
  /\ \A x \in answer[w].rows : \A y \in Asked(cur[w]) : y[2] <= x[2] => y \in answer[w].rows

WalkHands ==
  /\ \A w \in Working : cur[w] \in Task
  /\ \A w \in Worker : walkStep[w] = "settle" => AnswerFits(w)

\* pending.txt is what memory owes.
SavedNow == /\ Owing(pending) = Asking
            /\ \A i \in DOMAIN pending : pending[i].meta = meta[pending[i].task]

WalkLocked == /\ \A w \in Worker : walkStep[w] = "book" <=> lock = w
              /\ lock # None => SavedNow

NoneEnded == Let("dropped") \cup Let("unbooked") = {}

WalkExit ==
  /\ NoneEnded => /\ \A p \in Page : Whole(p) \in done \cup pages \cup Let("parked") \cup InHand
                  /\ Owing(pending) \ done \subseteq Asking \cup Let("parked")
  /\ (\A w \in Worker : walkStep[w] = "gone") => subq = <<>> /\ inflight = {} /\ pages = {}

WalkInv == WalkTyped /\ WalkMemory /\ WalkDisk /\ WalkHands /\ WalkLocked /\ WalkExit

LEMMA KeepsBy ==
  ASSUME NEW v, NEW w, v.rows = w.rows, v.safe \subseteq w.safe, v.mute \subseteq w.mute,
         v.owed \subseteq Task, w.owed \subseteq Task,
         \A t \in v.owed : t \in w.owed \/ \A x \in RowsOf(w.rows, t) : Covered(w, x, t.level)
  PROVE  Keeps(v, w)
  <1> SUFFICES ASSUME NEW x, NEW l \in Nat, Covered(v, x, l) PROVE Covered(w, x, l)
    BY DEF Keeps
  <1>1. CASE x \in v.safe
    BY <1>1 DEF Covered
  <1>2. CASE x \notin v.safe
    <2>1. PICK t \in v.owed : t.level > l /\ x \in RowsOf(v.rows, t)  BY <1>2 DEF Covered
    <2>2. t.level \in Nat  BY <2>1, TaskFields
    <2>3. CASE t \in w.owed
      BY <2>1, <2>3 DEF Covered
    <2>4. CASE t \notin w.owed
      <3>1. Covered(w, x, t.level)  BY <2>1, <2>4
      <3>2. CASE x \in w.safe
        BY <3>2 DEF Covered
      <3>3. CASE x \notin w.safe
        <4>1. PICK u \in w.owed : u.level > t.level /\ x \in RowsOf(w.rows, u)  BY <3>1, <3>3 DEF Covered
        <4>2. u.level \in Nat  BY <4>1, TaskFields
        <4>3. u.level > l  BY <2>1, <2>2, <4>1, <4>2
        <4> QED BY <4>1, <4>3 DEF Covered
      <3> QED BY <3>2, <3>3
    <2> QED BY <2>3, <2>4
  <1> QED BY <1>1, <1>2

LEMMA SaveIs ==
  ASSUME NEW q \in Seq(Task), NEW taken \in SUBSET Task, IsFiniteSet(taken),
         NEW m, DOMAIN m \subseteq Task, Range(m) \subseteq Meta,
         pending \in Seq([task : Task, meta : Meta]), SavePending(q, taken, m)
  PROVE  /\ pending' \in Seq([task : Task, meta : Meta])
         /\ ~Saves(q, m) => pending' = pending
         /\ Saves(q, m) => /\ Owing(pending') = (ToSet(q) \cup taken) \cap DOMAIN m
                           /\ \A i \in DOMAIN pending' : pending'[i].meta = m[pending'[i].task]
  <1> DEFINE more == SetToSeq(taken \cap DOMAIN m)
             owed == q \o more
             line(i) == [task |-> owed[i], meta |-> m[owed[i]]]
  <1>1. more \in Seq(Task) /\ ToSet(more) = taken \cap DOMAIN m
    <2>1. IsFiniteSet(taken \cap DOMAIN m)  BY FS_Subset
    <2>2. more \in Seq(taken \cap DOMAIN m) /\ ToSet(more) = taken \cap DOMAIN m  BY <2>1, SeqsOfSet
    <2>3. taken \cap DOMAIN m \subseteq Task  OBVIOUS
    <2> QED BY <2>2, <2>3, SeqMonotonic
  <1>2. pending' = IF Saves(q, m) THEN [i \in DOMAIN owed |-> line(i)] ELSE pending
    BY DEF SavePending
  <1> HIDE DEF more
  <1>3. owed \in Seq(Task) /\ ToSet(owed) = ToSet(q) \cup (taken \cap DOMAIN m)
    BY <1>1, ConcatSet
  <1>4. CASE Saves(q, m)
    <2> HIDE DEF owed
    <2>1. ToSet(owed) \subseteq DOMAIN m /\ ToSet(owed) = (ToSet(q) \cup taken) \cap DOMAIN m
      BY <1>3, <1>4 DEF Saves
    <2>2. \A i \in DOMAIN owed : owed[i] \in Task /\ m[owed[i]] \in Meta
      BY <1>3, <2>1, ElementOfSeq DEF ToSet, Range
    <2>3. \A i \in DOMAIN owed : line(i) \in [task : Task, meta : Meta]  BY <2>2
    <2>4. DOMAIN owed = 1..Len(owed) /\ Len(owed) \in Nat  BY <1>3
    <2>5. pending' = [i \in 1..Len(owed) |-> line(i)]  BY <1>2, <1>4, <2>4
    <2>6. DOMAIN pending' = DOMAIN owed /\ \A i \in DOMAIN owed : pending'[i].task = owed[i] /\ pending'[i].meta = m[owed[i]]
      BY <2>4, <2>5
    <2>7. pending' \in Seq([task : Task, meta : Meta])
      <3> HIDE DEF line
      <3> QED BY <2>3, <2>4, <2>5, IsASeq
    <2>8. Owing(pending') = ToSet(owed)
      BY <2>6 DEF Owing, ToSet
    <2> QED BY <1>4, <2>1, <2>6, <2>7, <2>8
  <1>5. CASE ~Saves(q, m)
    BY <1>2, <1>5
  <1> QED BY <1>4, <1>5

\* What was saved is what memory owes: the files say of it what memory says.
LEMMA DiskFollows ==
  ASSUME WalkTyped', WalkMemory', SavedNow' PROVE WalkDisk'
  <1> DEFINE v == InMemory'
             w == OnDisk'
  <1>1. /\ v.rows = w.rows /\ v.safe = w.safe /\ v.mute = w.mute
        /\ v.owed = Asking' \ Through' /\ w.owed = Asking' \ done'
    BY DEF InMemory, OnDisk, SavedNow
  <1>2. Asking' \subseteq Task /\ done' \subseteq Through' /\ done' \subseteq Task
    BY DEF WalkTyped, WalkTypeOK, Asking, Through
  <1>3. Keeps(v, w)
    <2>1. v.owed \subseteq w.owed /\ v.owed \subseteq Task /\ w.owed \subseteq Task  BY <1>1, <1>2
    <2> HIDE DEF v, w
    <2> QED BY <1>1, <2>1, KeepsBy
  <1>4. AllBooked(w, done')
    <2>1. AllBooked(v, done')  BY <1>2 DEF WalkMemory, AllBooked
    <2> QED BY <1>2, <1>3, <2>1, Stays
  <1>5. ASSUME NEW i \in DOMAIN pending' PROVE Reasoned(w, pending'[i].task, pending'[i].meta)
    <2>1. pending'[i].task \in Asking'  BY <1>5 DEF SavedNow, Owing
    <2>2. pending'[i].task \in DOMAIN meta' /\ pending'[i].meta = meta'[pending'[i].task]
      BY <1>5, <2>1 DEF SavedNow, Asking
    <2>3. pending'[i].meta \in Meta  BY <2>2 DEF WalkTyped, WalkTypeOK, Range
    <2>4. Reasoned(v, pending'[i].task, pending'[i].meta)  BY <2>2 DEF WalkMemory
    <2> QED BY <1>3, <2>3, <2>4, Stays
  <1> QED BY <1>4, <1>5 DEF WalkDisk

LEMMA SafeGrows ==
  ASSUME index' = index, journaled \subseteq journaled', verdict \subseteq verdict'
  PROVE  /\ Safe \subseteq Safe' /\ \A why : Let(why) \subseteq Let(why)'
         /\ NoneEnded' => NoneEnded
  <1>1. Excused \subseteq Excused'  BY DEF Excused
  <1>2. \A t : Asked(t)' = Asked(t)  BY DEF Asked, Within
  <1>3. Safe \subseteq Safe'  BY <1>1, <1>2 DEF Safe
  <1>4. \A why : Let(why) \subseteq Let(why)'  BY DEF Let
  <1>5. NoneEnded' => NoneEnded  BY <1>4 DEF NoneEnded
  <1> QED BY <1>3, <1>4, <1>5

LEMMA MemoryKept ==
  ASSUME WalkTyped, WalkMemory, Keeps(InMemory, InMemory'),
         Through \subseteq Task,
         \A t \in DOMAIN meta' : \/ t \in DOMAIN meta /\ meta'[t] = meta[t]
                                 \/ Reasoned(InMemory', t, meta'[t]),
         \A p \in Page : Whole(p) \in opened' => Whole(p) \in opened \/ OthersAre(InMemory', p),
         \A t \in Through' : \/ t \in Through
                             \/ /\ t.level > 0 => Settled(InMemory', t)
                                /\ \A p \in Page : t = Whole(p) => SplitUp(InMemory', p),
         \A t \in Known' \ DOMAIN meta' :
           t.level > 0 => \/ t \in Task /\ t \in Known \ DOMAIN meta
                          \/ t \in Through
                          \/ Settled(InMemory', t)
  PROVE  WalkMemory'
  <1> DEFINE v == InMemory
             w == InMemory'
  <1>1. \A t \in Task : Settled(v, t) => Settled(w, t)  BY Stays
  <1>2. \A p : (OthersAre(v, p) => OthersAre(w, p)) /\ (SplitUp(v, p) => SplitUp(w, p))  BY Stays
  <1>3. \A t : \A why \in Meta : Reasoned(v, t, why) => Reasoned(w, t, why)  BY Stays
  <1>4. \A t \in DOMAIN meta' : Reasoned(w, t, meta'[t])
    <2> SUFFICES ASSUME NEW t \in DOMAIN meta', t \in DOMAIN meta, meta'[t] = meta[t]
                 PROVE  Reasoned(w, t, meta'[t])
      OBVIOUS
    <2>1. meta[t] \in Meta  BY DEF WalkTyped, WalkTypeOK, Range
    <2>2. Reasoned(v, t, meta[t])  BY DEF WalkMemory
    <2> QED BY <1>3, <2>1, <2>2
  <1>5. \A p \in Page : Whole(p) \in opened' => OthersAre(w, p)
    BY <1>2 DEF WalkMemory
  <1>6. AllBooked(w, Through')
    <2>1. \A t \in Through' : t.level > 0 => Settled(w, t)
      BY <1>1 DEF WalkMemory, AllBooked
    <2>2. \A p \in Page : Whole(p) \in Through' => SplitUp(w, p)
      BY <1>2 DEF WalkMemory, AllBooked
    <2> QED BY <2>1, <2>2 DEF AllBooked
  <1>7. \A t \in Known' \ DOMAIN meta' : t.level > 0 => Settled(w, t)
    BY <1>1 DEF WalkMemory, AllBooked
  <1> QED BY <1>4, <1>5, <1>6, <1>7 DEF WalkMemory

LEMMA LinesTyped ==
  ASSUME WalkTyped
  PROVE  /\ \A i \in DOMAIN pending : pending[i].task \in Task /\ pending[i].meta \in Meta
         /\ Owing(pending) \subseteq Task
  <1> DEFINE L == [task : Task, meta : Meta]
  <1>1. pending \in Seq(L)  BY DEF WalkTyped, WalkTypeOK
  <1>2. \A i \in DOMAIN pending : pending[i] \in L
    <2> HIDE DEF L
    <2>1. \A i \in 1..Len(pending) : pending[i] \in L  BY <1>1, ElementOfSeq
    <2>2. DOMAIN pending = 1..Len(pending)  BY <1>1
    <2> QED BY <2>1, <2>2
  <1>3. \A i \in DOMAIN pending : pending[i].task \in Task /\ pending[i].meta \in Meta  BY <1>2
  <1> QED BY <1>3 DEF Owing

LEMMA DiskKept ==
  ASSUME WalkTyped, WalkDisk, index' = index, Safe \subseteq Safe', Let("silent") \subseteq Let("silent")',
         UNCHANGED <<pending, done>>
  PROVE  WalkDisk'
  <1> DEFINE v == OnDisk
             w == OnDisk'
  <1>1. /\ v.rows = w.rows /\ v.safe \subseteq w.safe /\ v.mute \subseteq w.mute /\ v.owed = w.owed
    BY DEF OnDisk, Owing
  <1>2. v.owed \subseteq Task
    BY LinesTyped DEF OnDisk
  <1>3. Keeps(v, w)
    <2> HIDE DEF v, w
    <2> QED BY <1>1, <1>2, KeepsBy
  <1>4. AllBooked(w, done')
    <2>1. done \subseteq Task  BY DEF WalkTyped, WalkTypeOK
    <2> QED BY <1>3, <2>1, Stays DEF WalkDisk
  <1>5. ASSUME NEW i \in DOMAIN pending' PROVE Reasoned(w, pending'[i].task, pending'[i].meta)
    <2>1. pending[i].meta \in Meta /\ pending' = pending
      BY <1>5, LinesTyped
    <2>2. Reasoned(v, pending[i].task, pending[i].meta)  BY <1>5, <2>1 DEF WalkDisk
    <2> QED BY <1>3, <2>1, <2>2, Stays
  <1> QED BY <1>4, <1>5 DEF WalkDisk

LEMMA HandsTyped ==
  ASSUME WalkTyped, WalkHands
  PROVE  /\ Through \subseteq Task /\ Asking \subseteq Task /\ InHand \subseteq Task /\ Known \subseteq Task
         /\ Booking \subseteq InHand /\ \A w \in Worker : walkStep[w] = "book" => cur[w] \in Booking
  <1>1. InHand \subseteq Task  BY DEF WalkHands, InHand
  <1>2. Booking \subseteq InHand  BY DEF Booking, InHand, Working
  <1>3. ToSet(subq) \subseteq Task  BY ElementOfSeq DEF WalkTyped, WalkTypeOK, ToSet
  <1>4. done \subseteq Task /\ inflight \subseteq Task /\ pages \subseteq Task  BY DEF WalkTyped, WalkTypeOK
  <1> QED BY <1>1, <1>2, <1>3, <1>4 DEF Through, Asking, Known, Booking

LEMMA NoBooking ==
  ASSUME WalkLocked, lock = None PROVE Booking = {} /\ Through = done
  <1>1. \A w \in Worker : w # None  BY WalkAssumption
  <1> QED BY <1>1 DEF WalkLocked, Booking, Through

LEMMA AskedRows ==
  ASSUME WalkTyped, NEW t \in Task
  PROVE  /\ Asked(t) = RowsOf(index, t) /\ Asked(t) \subseteq Page \X Position
         /\ \A x \in Asked(t) : x[2] \in Nat
  <1>1. index \in [Page -> SUBSET Position]  BY DEF WalkTyped, WalkTypeOK
  <1>2. Asked(t) = RowsOf(index, t)  BY DEF Asked, RowsOf
  <1> QED BY <1>1, <1>2, AskedIs

\* A step that leaves the queue, the tasks in hand and what is booked as they are.
LEMMA QueueKept ==
  ASSUME WalkTyped, WalkMemory, WalkDisk, WalkHands, index' = index, UNCHANGED <<pending, done, queue>>,
         Safe \subseteq Safe', Let("silent") \subseteq Let("silent")',
         Booking' = Booking, InHand' = InHand
  PROVE  WalkMemory' /\ WalkDisk' /\ Asking' = Asking
  <1> DEFINE v == InMemory
             w == InMemory'
  <1>1. Asking' = Asking /\ Through' = Through /\ Known' = Known /\ meta' = meta /\ opened' = opened
    BY DEF Asking, Through, Known, queue
  <1>2. /\ v.rows = w.rows /\ v.safe \subseteq w.safe /\ v.mute \subseteq w.mute /\ v.owed = w.owed
    BY <1>1 DEF InMemory
  <1>3. v.owed \subseteq Task /\ Through \subseteq Task /\ Known \subseteq Task
    BY HandsTyped DEF InMemory
  <1>4. Keeps(v, w)
    <2> HIDE DEF v, w
    <2> QED BY <1>2, <1>3, KeepsBy
  <1>5. WalkMemory'
    <2> HIDE DEF v, w
    <2>1. Keeps(InMemory, InMemory')  BY <1>4 DEF v, w
    <2> QED BY <1>1, <1>3, <2>1, MemoryKept
  <1> QED BY <1>1, <1>5, DiskKept

LEMMA AskStep ==
  ASSUME WalkInv, NEW w \in Worker, Ask(w) PROVE WalkInv'
  <1> DEFINE t == cur[w]
  <1>1. WalkTyped /\ WalkMemory /\ WalkDisk /\ WalkHands /\ WalkLocked /\ WalkExit  BY DEF WalkInv
  <1>2. /\ walkStep[w] = "ask" /\ walkStep' = [walkStep EXCEPT ![w] = "settle"]
        /\ UNCHANGED <<index, done, pending, queue, fails, cur, lock, restarts, verdict>>
    BY DEF Ask, Move
  <1>3. PICK kind \in Answers, got \in {{}, Asked(t)} \cup {{r \in Asked(t) : r[2] <= c[2]} : c \in Asked(t)} :
          /\ kind = "complete" => got = Asked(t)
          /\ kind = "cut" => got # {}
          /\ kind \in {"silent", "refused", "failed", "error"} => got = {}
          /\ failures' = failures \/ (failures < MaxFails /\ failures' = failures + 1)
          /\ answer' = [answer EXCEPT ![w] = [kind |-> kind, rows |-> got]]
          /\ journaled' = journaled \cup got
    BY DEF Ask
  <1>4. walkStep \in [Worker -> {"idle", "ask", "settle", "book", "gone"}]
        /\ answer \in [Worker -> [kind : Kind, rows : SUBSET journaled] \cup {None}]
        /\ failures \in 0..MaxFails /\ MaxFails \in Nat /\ kind \in Kind
    BY <1>1, WalkAssumption DEF WalkTyped, WalkTypeOK
  <1>5. w \in Working /\ t \in Task  BY <1>1, <1>2 DEF Working, WalkHands
  <1>6. /\ got \subseteq Asked(t) /\ got \subseteq Page \X Position
        /\ \A x \in got : \A y \in Asked(t) : y[2] <= x[2] => y \in got
    <2>1. Asked(t) \subseteq Page \X Position /\ \A x \in Asked(t) : x[2] \in Nat  BY <1>1, <1>5, AskedRows
    <2>2. got \subseteq Asked(t)  BY <1>3
    <2>3. ASSUME NEW x \in got, NEW y \in Asked(t), y[2] <= x[2] PROVE y \in got
      <3>1. CASE got = Asked(t)
        BY <3>1
      <3>2. CASE got # Asked(t)
        <4>1. PICK c \in Asked(t) : got = {r \in Asked(t) : r[2] <= c[2]}  BY <1>3, <2>3, <3>2
        <4>2. x[2] <= c[2] /\ x[2] \in Nat /\ y[2] \in Nat /\ c[2] \in Nat  BY <2>1, <2>2, <4>1
        <4>3. y[2] <= c[2]  BY <2>3, <4>2
        <4> QED BY <4>1, <4>3
      <3> QED BY <3>1, <3>2
    <2> QED BY <2>1, <2>2, <2>3
  <1> HIDE DEF t
  <1>7. /\ journaled \subseteq journaled' /\ journaled' \subseteq Page \X Position /\ got \subseteq journaled'
    BY <1>1, <1>3, <1>6 DEF WalkTyped, WalkTypeOK
  <1>8. Safe \subseteq Safe' /\ Let("silent") \subseteq Let("silent")' /\ Let("parked") = Let("parked")' /\ (NoneEnded' => NoneEnded)
    BY <1>2, <1>7, SafeGrows DEF Let
  <1>9. Booking' = Booking /\ InHand' = InHand /\ Working' = Working
    <2>1. \A u \in Worker : walkStep'[u] = IF u = w THEN "settle" ELSE walkStep[u]  BY <1>2, <1>4
    <2>2. {u \in Worker : walkStep'[u] = "book"} = {u \in Worker : walkStep[u] = "book"}  BY <1>2, <2>1
    <2>3. Working' = Working  BY <1>2, <2>1 DEF Working
    <2> QED BY <1>2, <2>2, <2>3 DEF Booking, InHand
  <1>10. WalkMemory' /\ WalkDisk' /\ Asking' = Asking  BY <1>1, <1>2, <1>8, <1>9, QueueKept
  <1>11. answer' \in [Worker -> [kind : Kind, rows : SUBSET journaled'] \cup {None}]
    <2>1. [kind |-> kind, rows |-> got] \in [kind : Kind, rows : SUBSET journaled']  BY <1>4, <1>7
    <2>2. \A u \in Worker : answer[u] \in [kind : Kind, rows : SUBSET journaled'] \cup {None}  BY <1>4, <1>7
    <2> QED BY <1>3, <1>4, <2>1, <2>2
  <1>12. WalkTyped'
    <2>1. walkStep' \in [Worker -> {"idle", "ask", "settle", "book", "gone"}]  BY <1>2, <1>4
    <2>2. failures' \in 0..MaxFails  BY <1>3, <1>4
    <2> QED BY <1>1, <1>2, <1>7, <1>11, <2>1, <2>2 DEF WalkTyped, WalkTypeOK, queue
  <1>13. WalkHands'
    <2>1. \A u \in Working' : cur'[u] \in Task  BY <1>1, <1>2, <1>9 DEF WalkHands
    <2>2. ASSUME NEW u \in Worker, walkStep'[u] = "settle" PROVE AnswerFits(u)'
      <3>1. Asked(cur[u])' = Asked(cur[u])  BY <1>2 DEF Asked, Within
      <3>2. CASE u = w
        <4>1. answer'[u] = [kind |-> kind, rows |-> got]  BY <1>3, <1>4, <3>2
        <4>2. answer'[u] \in [kind : Kind, rows : SUBSET journaled'] /\ answer'[u].kind = kind /\ answer'[u].rows = got
          BY <1>4, <1>7, <4>1
        <4>3. kind \notin {"complete", "cut"} => got = {}  BY <1>3, <1>4 DEF Kind
        <4> QED BY <1>3, <1>6, <3>1, <3>2, <4>2, <4>3 DEF AnswerFits, t
      <3>3. CASE u # w
        <4>1. answer'[u] = answer[u] /\ walkStep[u] = "settle"  BY <1>2, <1>3, <1>4, <2>2, <3>3
        <4>2. AnswerFits(u)  BY <1>1, <4>1 DEF WalkHands
        <4>3. answer'[u] \in [kind : Kind, rows : SUBSET journaled']  BY <1>7, <4>1, <4>2 DEF AnswerFits
        <4> QED BY <3>1, <4>1, <4>2, <4>3 DEF AnswerFits
      <3> QED BY <3>2, <3>3
    <2> QED BY <2>1, <2>2 DEF WalkHands
  <1>14. WalkLocked'
    <2>1. \A u \in Worker : walkStep'[u] = "book" <=> walkStep[u] = "book"  BY <1>2, <1>4
    <2>2. SavedNow => SavedNow'  BY <1>2, <1>10 DEF SavedNow, Owing, queue
    <2> QED BY <1>1, <1>2, <2>1, <2>2 DEF WalkLocked
  <1>15. WalkExit'
    <2>1. walkStep'[w] = "settle"  BY <1>2, <1>4
    <2>2. Owing(pending)' = Owing(pending) /\ done' = done /\ pages' = pages  BY <1>2 DEF Owing, queue
    <2> QED BY <1>1, <1>8, <1>9, <1>10, <2>1, <2>2 DEF WalkExit
  <1> QED BY <1>10, <1>12, <1>13, <1>14, <1>15 DEF WalkInv

\* What a worker that goes back to the head of the loop leaves the others.
LEMMA Looped ==
  ASSUME WalkTyped, WalkHands, NEW w \in Worker, Loop(w),
         index' = index, journaled' = journaled
  PROVE  /\ walkStep' \in [Worker -> {"idle", "ask", "settle", "book", "gone"}]
         /\ cur' \in [Worker -> Task \cup {None}]
         /\ answer' \in [Worker -> [kind : Kind, rows : SUBSET journaled'] \cup {None}]
         /\ walkStep'[w] = "idle" /\ \A u \in Worker : u # w => walkStep'[u] = walkStep[u]
         /\ InHand' \subseteq InHand /\ InHand \subseteq InHand' \cup {cur[w]}
         /\ WalkHands'
  <1>1. /\ walkStep \in [Worker -> {"idle", "ask", "settle", "book", "gone"}]
        /\ cur \in [Worker -> Task \cup {None}]
        /\ answer \in [Worker -> [kind : Kind, rows : SUBSET journaled] \cup {None}]
    BY DEF WalkTyped, WalkTypeOK
  <1>2. /\ walkStep' = [walkStep EXCEPT ![w] = "idle"] /\ cur' = [cur EXCEPT ![w] = None]
        /\ answer' = [answer EXCEPT ![w] = None]
    BY DEF Loop
  <1>3. \A u \in Worker : /\ walkStep'[u] = IF u = w THEN "idle" ELSE walkStep[u]
                          /\ cur'[u] = IF u = w THEN None ELSE cur[u]
                          /\ answer'[u] = IF u = w THEN None ELSE answer[u]
    BY <1>1, <1>2
  <1>4. Working' \subseteq Working \ {w} /\ Working \subseteq Working' \cup {w}  BY <1>3 DEF Working
  <1>5. \A u \in Working' : cur'[u] = cur[u]  BY <1>3, <1>4 DEF Working
  <1>6. \A u \in Working : u = w \/ (u \in Working' /\ cur'[u] = cur[u])  BY <1>4, <1>5
  <1>7. InHand' \subseteq InHand /\ InHand \subseteq InHand' \cup {cur[w]}
    BY <1>4, <1>5, <1>6 DEF InHand
  <1>8. WalkHands'
    <2>1. \A u \in Working' : cur'[u] \in Task  BY <1>4, <1>5 DEF WalkHands
    <2>2. ASSUME NEW u \in Worker, walkStep'[u] = "settle" PROVE AnswerFits(u)'
      <3>1. u # w /\ walkStep[u] = "settle" /\ answer'[u] = answer[u] /\ cur'[u] = cur[u]  BY <1>3, <2>2
      <3>2. AnswerFits(u)  BY <3>1 DEF WalkHands
      <3>3. Asked(cur[u])' = Asked(cur[u])  BY <3>1 DEF Asked, Within
      <3> QED BY <3>1, <3>2, <3>3 DEF AnswerFits
    <2> QED BY <2>1, <2>2 DEF WalkHands
  <1> QED BY <1>1, <1>2, <1>3, <1>7, <1>8

LEMMA BookStep ==
  ASSUME WalkInv, NEW w \in Worker, Book(w) PROVE WalkInv'
  <1>1. WalkTyped /\ WalkMemory /\ WalkDisk /\ WalkHands /\ WalkLocked /\ WalkExit  BY DEF WalkInv
  <1>2. /\ walkStep[w] = "book" /\ Loop(w) /\ done' = done \cup {cur[w]} /\ lock' = None
        /\ UNCHANGED <<index, journaled, pending, queue, fails, bounds, verdict>>
    BY DEF Book
  <1>3. lock = w /\ lock # None /\ SavedNow /\ w \in Working /\ cur[w] \in Task
        /\ \A u \in Worker : walkStep[u] = "book" <=> u = w
    BY <1>1, <1>2, WalkAssumption DEF WalkLocked, WalkHands, Working
  <1>4. /\ walkStep' \in [Worker -> {"idle", "ask", "settle", "book", "gone"}]
        /\ cur' \in [Worker -> Task \cup {None}]
        /\ answer' \in [Worker -> [kind : Kind, rows : SUBSET journaled'] \cup {None}]
        /\ walkStep'[w] = "idle" /\ \A u \in Worker : u # w => walkStep'[u] = walkStep[u]
        /\ InHand' \subseteq InHand /\ InHand \subseteq InHand' \cup {cur[w]}
        /\ WalkHands'
    BY <1>1, <1>2, Looped
  <1>5. Booking = {cur[w]} /\ Booking' = {}  BY <1>3, <1>4 DEF Booking
  <1>6. Asking' = Asking /\ Through' = Through /\ done' = Through
        /\ Known' \subseteq Known /\ meta' = meta /\ opened' = opened /\ subq' = subq /\ pages' = pages /\ inflight' = inflight
    BY <1>2, <1>4, <1>5 DEF Asking, Through, Known, queue
  <1>7. WalkTyped'
    <2>1. done' \subseteq Task  BY <1>1, <1>2, <1>3 DEF WalkTyped, WalkTypeOK
    <2> QED BY <1>1, <1>2, <1>4, <1>6, <2>1 DEF WalkTyped, WalkTypeOK, queue, bounds
  <1>8. Safe' = Safe /\ \A why : Let(why)' = Let(why)
    <2>1. \A t : Asked(t)' = Asked(t)  BY <1>2 DEF Asked, Within
    <2> QED BY <1>2, <2>1 DEF Safe, Excused, Let
  <1>9. InMemory' = InMemory  BY <1>2, <1>6, <1>8 DEF InMemory
  <1>10. WalkMemory'
    <2>1. Keeps(InMemory, InMemory')  BY <1>9 DEF Keeps
    <2>2. Through \subseteq Task /\ Known \subseteq Task  BY <1>1, HandsTyped
    <2> QED BY <1>1, <1>6, <2>1, <2>2, MemoryKept
  <1>11. SavedNow'  BY <1>2, <1>3, <1>6 DEF SavedNow, Owing
  <1>12. WalkDisk'  BY <1>7, <1>10, <1>11, DiskFollows
  <1>13. WalkLocked'
    <2>1. \A u \in Worker : walkStep'[u] # "book" /\ u # None  BY <1>3, <1>4, WalkAssumption
    <2> QED BY <1>2, <2>1 DEF WalkLocked
  <1>14. WalkExit'
    <2>1. Owing(pending)' = Owing(pending)  BY <1>2 DEF Owing
    <2>2. NoneEnded' => NoneEnded  BY <1>8 DEF NoneEnded
    <2> QED BY <1>1, <1>2, <1>4, <1>6, <1>8, <2>1, <2>2 DEF WalkExit
  <1> QED BY <1>4, <1>7, <1>10, <1>12, <1>13, <1>14 DEF WalkInv

\* What pending.txt holds after a save of the queue as the step leaves it.
LEMMA Saved ==
  ASSUME WalkTyped, subq' \in Seq(Task), inflight' \subseteq Task, IsFiniteSet(inflight'),
         DOMAIN meta' \subseteq Task, Range(meta') \subseteq Meta, SavePending(subq', inflight', meta')
  PROVE  /\ pending' \in Seq([task : Task, meta : Meta])
         /\ ~Saves(subq', meta') => pending' = pending
         /\ Saves(subq', meta') => SavedNow'
  <1> DEFINE q == subq'
             taken == inflight'
             m == meta'
             L == [task : Task, meta : Meta]
  <1>1. pending \in Seq(L)  BY DEF WalkTyped, WalkTypeOK
  <1> HIDE DEF q, taken, m, L
  <1>2. \A Q \in Seq(Task), T \in SUBSET Task : \A M :
          (IsFiniteSet(T) /\ DOMAIN M \subseteq Task /\ Range(M) \subseteq Meta /\ SavePending(Q, T, M)) =>
          (/\ pending' \in Seq(L)
           /\ ~Saves(Q, M) => pending' = pending
           /\ Saves(Q, M) => /\ Owing(pending') = (ToSet(Q) \cup T) \cap DOMAIN M
                             /\ \A i \in DOMAIN pending' : pending'[i].meta = M[pending'[i].task])
    BY SaveIs, <1>1 DEF L
  <1>3. q \in Seq(Task) /\ taken \in SUBSET Task /\ IsFiniteSet(taken) /\ DOMAIN m \subseteq Task /\ Range(m) \subseteq Meta
     BY DEF q, taken, m
  <1>4. SavePending(q, taken, m)
     BY DEF q, taken, m
  <1>5. /\ pending' \in Seq(L)
        /\ ~Saves(q, m) => pending' = pending
        /\ Saves(q, m) => /\ Owing(pending') = (ToSet(q) \cup taken) \cap DOMAIN m
                                  /\ \A i \in DOMAIN pending' : pending'[i].meta = m[pending'[i].task]
    BY <1>2, <1>3, <1>4
  <1>6. Owing(pending)' = Owing(pending') /\ Asking' = (ToSet(q) \cup taken) \cap DOMAIN m
    BY DEF Owing, Asking, q, taken, m
  <1> QED BY <1>5, <1>6 DEF SavedNow, q, taken, m, L

\* The rows of a subpage let go are safe.
LEMMA LetGo ==
  ASSUME NEW u, NEW why, <<u, why>> \in verdict', u.level > 0, why # "unbooked"
  PROVE  RowsOf(index', u) \subseteq Safe'
  <1>1. <<u, why>>[1] = u /\ <<u, why>>[2] = why  OBVIOUS
  <1>2. <<u, why>> \in Excused'  BY <1>1 DEF Excused
  <1>3. \A e \in Excused' : \A x \in Asked(e[1])' : x \in Safe'  BY DEF Safe
  <1>4. \A e : Asked(e[1])' = RowsOf(index', e[1])  BY DEF Asked, RowsOf, Within
  <1>5. \A e \in Excused' : \A x \in RowsOf(index', e[1]) : x \in Safe'  BY <1>3, <1>4
  <1>6. \A x \in RowsOf(index', <<u, why>>[1]) : x \in Safe'  BY <1>2, <1>5
  <1> QED BY <1>1, <1>6

LEMMA RetryStep ==
  ASSUME WalkInv, NEW w \in Worker, Retry(w) PROVE WalkInv'
  <1> DEFINE t == cur[w]
             park == answer[w].kind = "failed" /\ fails[t] >= ParkAfter
  <1>1. WalkTyped /\ WalkMemory /\ WalkDisk /\ WalkHands /\ WalkLocked /\ WalkExit  BY DEF WalkInv
  <1>2. /\ walkStep[w] = "settle" /\ lock = None /\ Loop(w)
        /\ fails' = (IF answer[w].kind = "error" THEN fails ELSE [fails EXCEPT ![t] = @ + 1])
        /\ inflight' = inflight \ {t}
        /\ UNCHANGED <<index, journaled, done, meta, opened, lock, bounds>>
        /\ SavePending(subq', inflight', meta')
        /\ \/ /\ verdict' = verdict \cup {<<t, "parked">>} /\ UNCHANGED <<subq, pages>>
           \/ /\ UNCHANGED verdict
              /\ subq' = IF t \in DOMAIN meta THEN <<t>> \o subq ELSE subq
              /\ pages' = IF t \in DOMAIN meta THEN pages ELSE pages \cup {t}
    <2>1. CASE park
      BY <2>1 DEF Retry
    <2>2. CASE ~park
      BY <2>2 DEF Retry, Requeue
    <2> QED BY <2>1, <2>2
  <1> HIDE DEF park
  <1>3. t \in Task /\ t \in InHand
    BY <1>1, <1>2 DEF WalkHands, Working, InHand
  <1>4. /\ walkStep' \in [Worker -> {"idle", "ask", "settle", "book", "gone"}]
        /\ cur' \in [Worker -> Task \cup {None}]
        /\ answer' \in [Worker -> [kind : Kind, rows : SUBSET journaled'] \cup {None}]
        /\ walkStep'[w] = "idle" /\ \A u \in Worker : u # w => walkStep'[u] = walkStep[u]
        /\ InHand' \subseteq InHand /\ InHand \subseteq InHand' \cup {t}
        /\ WalkHands'
    BY <1>1, <1>2, Looped
  <1> HIDE DEF t
  <1>5. /\ subq' \in Seq(Task) /\ ToSet(subq) \subseteq ToSet(subq') /\ ToSet(subq') \subseteq ToSet(subq) \cup {t}
    <2>1. subq \in Seq(Task)  BY <1>1 DEF WalkTyped, WalkTypeOK
    <2> DEFINE one == <<t>>
    <2>2. one \in Seq(Task) /\ ToSet(one) = {t}
      <3>1. DOMAIN one = 1..1 /\ one[1] = t  OBVIOUS
      <3>2. ToSet(one) = {one[i] : i \in 1..1}  BY <3>1 DEF ToSet
      <3> QED BY <1>3, <3>1, <3>2
    <2>3. /\ subq' = subq \/ subq' = one \o subq
          /\ pages' = pages \/ pages' = pages \cup {t}
      BY <1>2
    <2> HIDE DEF one
    <2>4. one \o subq \in Seq(Task) /\ ToSet(one \o subq) = {t} \cup ToSet(subq)
      BY <2>1, <2>2, ConcatSet
    <2> QED BY <2>1, <2>3, <2>4
  <1>6. Booking = {} /\ Through = done /\ Booking' = {} /\ Through' = done' /\ done' = done
        /\ \A u \in Worker : walkStep'[u] # "book"
    <2>1. Booking = {} /\ Through = done  BY <1>1, <1>2, NoBooking
    <2>2. \A u \in Worker : walkStep[u] # "book"
      BY <1>1, <1>2, WalkAssumption DEF WalkLocked
    <2>3. \A u \in Worker : walkStep'[u] # "book"  BY <1>4, <2>2
    <2> QED BY <1>2, <2>1, <2>3 DEF Booking, Through
  <1>7. t \in DOMAIN meta => t.level > 0  BY <1>1 DEF WalkTyped, WalkTypeOK
  <1>8. /\ Asking \subseteq Asking' \cup {t}
        /\ <<t, "parked">> \in verdict' \/ Asking \subseteq Asking'
        /\ <<t, "parked">> \in verdict' \/ t \in DOMAIN meta \/ t \in pages'
    <2>1. meta' = meta /\ inflight' = inflight \ {t}  BY <1>2
    <2>2. Asking \subseteq Asking' \cup {t}  BY <1>5, <2>1 DEF Asking
    <2>3. ASSUME subq' = <<t>> \o subq PROVE t \in ToSet(subq')
      <3>1. subq \in Seq(Task)  BY <1>1 DEF WalkTyped, WalkTypeOK
      <3>2. Len(subq') = 1 + Len(subq) /\ subq'[1] = t /\ Len(subq) \in Nat  BY <2>3, <3>1
      <3>3. subq' \in Seq(Task) /\ DOMAIN subq' = 1..Len(subq')  BY <1>5
      <3>4. 1 \in DOMAIN subq'  BY <3>2, <3>3
      <3> QED BY <3>2, <3>4 DEF ToSet
    <2>4. ASSUME <<t, "parked">> \notin verdict', t \in DOMAIN meta PROVE t \in ToSet(subq')
      BY <1>2, <2>3, <2>4
    <2>5. <<t, "parked">> \in verdict' \/ Asking \subseteq Asking'
      BY <2>1, <2>2, <2>4 DEF Asking
    <2> QED BY <1>2, <2>2, <2>5
  <1>9. /\ index' = index /\ journaled' = journaled /\ verdict \subseteq verdict' /\ meta' = meta /\ opened' = opened
        /\ pages \subseteq pages' /\ pages' \subseteq pages \cup {t} /\ inflight' \subseteq inflight
    BY <1>2
  <1>10. /\ Safe \subseteq Safe' /\ \A why : Let(why) \subseteq Let(why)'
         /\ NoneEnded' => NoneEnded
    BY <1>9, SafeGrows
  <1>11. <<t, "parked">> \in verdict' => t \in Let("parked")' /\ (t.level > 0 => RowsOf(index', t) \subseteq Safe')
    <2> SUFFICES ASSUME <<t, "parked">> \in verdict'
                 PROVE  t \in Let("parked")' /\ (t.level > 0 => RowsOf(index', t) \subseteq Safe')
      OBVIOUS
    <2>1. <<t, "parked">>[1] = t /\ <<t, "parked">>[2] = "parked"  OBVIOUS
    <2>2. t \in Let("parked")'  BY <2>1 DEF Let
    <2> QED BY <2>2, LetGo
  <1>12. Keeps(InMemory, InMemory')
    <2> DEFINE v == InMemory
               x == InMemory'
    <2>1. /\ v.rows = x.rows /\ v.safe \subseteq x.safe /\ v.mute \subseteq x.mute
          /\ v.owed = Asking \ done /\ x.owed = Asking' \ done /\ x.rows = index' /\ x.safe = Safe'
      BY <1>6, <1>9, <1>10 DEF InMemory
    <2>2. Asking \subseteq Task /\ Asking' \subseteq Task
      BY <1>1, <1>3, <1>5, <1>9, HandsTyped DEF Asking, WalkTyped, WalkTypeOK
    <2> HIDE DEF v, x
    <2>3. ASSUME NEW u \in v.owed, u \notin x.owed PROVE \A y \in RowsOf(x.rows, u) : Covered(x, y, u.level)
      <3>1. u = t /\ <<t, "parked">> \in verdict' /\ u \in DOMAIN meta  BY <1>8, <2>1, <2>3 DEF Asking
      <3>2. RowsOf(x.rows, u) \subseteq x.safe  BY <1>7, <1>11, <2>1, <3>1
      <3> QED BY <3>2 DEF Covered
    <2>4. Keeps(v, x)  BY <2>1, <2>2, <2>3, KeepsBy
    <2> QED BY <2>4 DEF v, x
  <1>13. WalkMemory'
    <2>1. Through \subseteq Task /\ Known \subseteq Task  BY <1>1, HandsTyped
    <2>2. Known' \subseteq Known  BY <1>3, <1>4, <1>5, <1>9 DEF Known
    <2> QED BY <1>1, <1>6, <1>9, <1>12, <2>1, <2>2, MemoryKept
  <1>14. /\ DOMAIN meta' \subseteq Task /\ Range(meta') \subseteq Meta /\ IsFiniteSet(inflight') /\ inflight' \subseteq Task
         /\ pages' \subseteq Task /\ fails' \in [Task -> Nat]
    <2>1. /\ DOMAIN meta \subseteq Task /\ Range(meta) \subseteq Meta /\ IsFiniteSet(inflight) /\ inflight \subseteq Task
          /\ pages \subseteq Task /\ fails \in [Task -> Nat]
      BY <1>1 DEF WalkTyped, WalkTypeOK
    <2>2. IsFiniteSet(inflight')  BY <1>9, <2>1, FS_Subset
    <2>3. fails' \in [Task -> Nat]
      <3>1. fails[t] \in Nat  BY <1>3, <2>1
      <3>2. fails' = fails \/ fails' = [fails EXCEPT ![t] = fails[t] + 1]  BY <1>2
      <3> QED BY <2>1, <3>1, <3>2
    <2> QED BY <1>3, <1>9, <2>1, <2>2, <2>3
  <1>15. /\ pending' \in Seq([task : Task, meta : Meta])
         /\ ~Saves(subq', meta') => pending' = pending
         /\ Saves(subq', meta') => SavedNow'
    BY <1>1, <1>2, <1>5, <1>14, Saved
  <1>16. WalkTyped'
    BY <1>1, <1>2, <1>4, <1>5, <1>9, <1>14, <1>15 DEF WalkTyped, WalkTypeOK, bounds
  <1>17. WalkDisk'
    <2>1. CASE Saves(subq', meta')
      BY <1>13, <1>15, <1>16, <2>1, DiskFollows
    <2>2. CASE ~Saves(subq', meta')
      BY <1>1, <1>6, <1>9, <1>10, <1>15, <2>2, DiskKept
    <2> QED BY <2>1, <2>2
  <1>18. WalkLocked'
    <2>1. \A u \in Worker : u # None  BY WalkAssumption
    <2> QED BY <1>2, <1>6, <2>1 DEF WalkLocked
  <1>19. WalkExit'
    <2>1. ASSUME NoneEnded'
          PROVE  /\ \A p \in Page : Whole(p) \in done' \cup pages' \cup Let("parked")' \cup InHand'
                 /\ Owing(pending)' \ done' \subseteq Asking' \cup Let("parked")'
      <3>1. /\ \A p \in Page : Whole(p) \in done \cup pages \cup Let("parked") \cup InHand
            /\ Owing(pending) \ done \subseteq Asking \cup Let("parked")
        BY <1>1, <1>10, <2>1 DEF WalkExit
      <3>2. ASSUME NEW p \in Page PROVE Whole(p) \in done' \cup pages' \cup Let("parked")' \cup InHand'
        <4>1. CASE Whole(p) = t
          <5>1. t.level = 0  BY <4>1, WholeIs
          <5>2. t \notin DOMAIN meta  BY <1>7, <5>1
          <5> QED BY <1>8, <1>11, <4>1, <5>2
        <4>2. CASE Whole(p) # t
          BY <1>4, <1>6, <1>9, <1>10, <3>1, <4>2
        <4> QED BY <4>1, <4>2
      <3>3. Owing(pending)' \ done' \subseteq Asking' \cup Let("parked")'
        <4>1. CASE Saves(subq', meta')
          BY <1>15, <4>1 DEF SavedNow
        <4>2. CASE ~Saves(subq', meta')
          <5>1. Owing(pending)' = Owing(pending)  BY <1>15, <4>2 DEF Owing
          <5> QED BY <1>6, <1>8, <1>10, <1>11, <3>1, <5>1
        <4> QED BY <4>1, <4>2
      <3> QED BY <3>2, <3>3
    <2> QED BY <1>4, <2>1 DEF WalkExit
  <1> QED BY <1>4, <1>13, <1>16, <1>17, <1>18, <1>19 DEF WalkInv

\* A stretch of a sequence.
LEMMA PartSet ==
  ASSUME NEW A, NEW q \in Seq(A), NEW m \in Nat \ {0}, NEW n \in Nat, n <= Len(q)
  PROVE  SubSeq(q, m, n) \in Seq(A) /\ ToSet(SubSeq(q, m, n)) = {q[i] : i \in m..n}
  <1> DEFINE piece == SubSeq(q, m, n)
  <1>1. m \in Int /\ n \in Int /\ \A i \in m..n : q[i] \in A
    <2>1. \A i \in m..n : i \in 1..Len(q)  OBVIOUS
    <2> QED BY <2>1, ElementOfSeq
  <1>2. /\ piece \in Seq(A) /\ Len(piece) = IF m <= n THEN n - m + 1 ELSE 0
        /\ \A i \in 1..(n - m + 1) : piece[i] = q[m + i - 1]
    BY <1>1, SubSeqProperties
  <1> HIDE DEF piece
  <1>3. DOMAIN piece = 1..Len(piece)  BY <1>2
  <1>4. \A i \in DOMAIN piece : m + i - 1 \in m..n /\ piece[i] = q[m + i - 1]
    BY <1>1, <1>2, <1>3
  <1>5. \A i \in m..n : i - m + 1 \in DOMAIN piece /\ piece[i - m + 1] = q[i]
    <2> TAKE i \in m..n
    <2>1. i - m + 1 \in 1..(n - m + 1) /\ m <= n /\ m + (i - m + 1) - 1 = i  BY <1>1
    <2> QED BY <1>2, <1>3, <2>1
  <1>6. ToSet(piece) = {q[i] : i \in m..n}
    <2>1. ToSet(piece) = {piece[i] : i \in DOMAIN piece}  BY DEF ToSet
    <2>2. \A i \in DOMAIN piece : piece[i] \in {q[k] : k \in m..n}  BY <1>4
    <2>3. \A i \in m..n : q[i] \in {piece[k] : k \in DOMAIN piece}  BY <1>5
    <2> QED BY <2>1, <2>2, <2>3
  <1> QED BY <1>2, <1>6 DEF piece

\* The first subpage that is not booked.
FirstLive(q, D, live) ==
  /\ live \in 0..Len(q)
  /\ live = 0 => \A i \in 1..Len(q) : q[i] \in D
  /\ live # 0 => q[live] \notin D /\ \A i \in 1..Len(q) : i < live => q[i] \in D

Before(q, live) == ToSet(IF live = 0 THEN q ELSE SubSeq(q, 1, live - 1))
After(q, live)  == IF live = 0 THEN <<>> ELSE SubSeq(q, live + 1, Len(q))

LEMMA LiveIs ==
  ASSUME NEW q \in Seq(Task), NEW D, NEW live,
         live = LET next == {i \in 1..Len(q) : q[i] \notin D} IN IF next # {} THEN Min(next) ELSE 0
  PROVE  FirstLive(q, D, live)
  <1> DEFINE n == Len(q)
             I == {i \in 1..n : q[i] \notin D}
  <1>1. n \in Nat  OBVIOUS
  <1>2. live = IF I # {} THEN Min(I) ELSE 0  OBVIOUS
  <1>3. I # {} => live \in I /\ \A i \in I : live <= i
    <2> SUFFICES ASSUME I # {} PROVE live \in I /\ \A i \in I : live <= i
      OBVIOUS
    <2>1. I \subseteq Nat  OBVIOUS
    <2>2. \E k \in I : \A i \in I : k <= i  BY <2>1, LeastNat
    <2> QED BY <1>2, <2>2 DEF Min
  <1>4. CASE I = {}
    <2>1. live = 0  BY <1>2, <1>4
    <2>2. \A i \in 1..n : q[i] \in D  BY <1>4
    <2> QED BY <1>1, <2>1, <2>2 DEF FirstLive
  <1>5. CASE I # {}
    <2>1. live \in I /\ \A i \in I : live <= i  BY <1>3, <1>5
    <2>2. live \in 1..n /\ q[live] \notin D  BY <2>1
    <2>3. \A i \in 1..n : i < live => q[i] \in D
      <3> SUFFICES ASSUME NEW i \in 1..n, i < live, i \in I PROVE FALSE
        OBVIOUS
      <3>1. live <= i  BY <2>1
      <3> QED BY <1>1, <2>2, <3>1
    <2> QED BY <1>1, <2>2, <2>3 DEF FirstLive
  <1> QED BY <1>4, <1>5

\* What is before it and after it.
LEMMA TakenIs ==
  ASSUME NEW q \in Seq(Task), NEW D, NEW live, FirstLive(q, D, live)
  PROVE  /\ After(q, live) \in Seq(Task) /\ Before(q, live) \subseteq D
         /\ live = 0 => After(q, live) = <<>> /\ ToSet(q) \subseteq Before(q, live)
         /\ live # 0 => /\ q[live] \in ToSet(q) /\ q[live] \notin D
                        /\ ToSet(q) \subseteq Before(q, live) \cup {q[live]} \cup ToSet(After(q, live))
         /\ ToSet(After(q, live)) \subseteq ToSet(q)
  <1> DEFINE n == Len(q)
             skip == Before(q, live)
             after == After(q, live)
  <1>1. n \in Nat /\ DOMAIN q = 1..n /\ ToSet(q) = {q[i] : i \in 1..n}  BY DEF ToSet
  <1>2. CASE live = 0
    <2>1. skip = ToSet(q) /\ after = <<>>  BY <1>2 DEF Before, After
    <2> HIDE DEF skip, after
    <2>2. \A i \in 1..n : q[i] \in D  BY <1>2 DEF FirstLive
    <2>3. skip \subseteq D  BY <1>1, <2>1, <2>2
    <2>4. ToSet(<<>>) = {} /\ <<>> \in Seq(Task)  BY DEF ToSet
    <2>5. ToSet(after) = {} /\ after \in Seq(Task)  BY <2>1, <2>4
    <2> QED BY <1>2, <2>1, <2>3, <2>5 DEF skip, after
  <1>3. CASE live # 0
    <2>1. live \in 1..n /\ q[live] \notin D /\ \A i \in 1..n : i < live => q[i] \in D
      BY <1>1, <1>3 DEF FirstLive
    <2>2. skip = ToSet(SubSeq(q, 1, live - 1)) /\ after = SubSeq(q, live + 1, n)  BY <1>3 DEF Before, After
    <2> HIDE DEF skip, after
    <2>3. live + 1 \in Nat \ {0} /\ live - 1 \in Nat /\ live - 1 <= n /\ 1 \in Nat \ {0} /\ n <= n  BY <1>1, <2>1
    <2>4. after \in Seq(Task) /\ ToSet(after) = {q[i] : i \in (live + 1)..n}
      <3>1. SubSeq(q, live + 1, n) \in Seq(Task) /\ ToSet(SubSeq(q, live + 1, n)) = {q[i] : i \in (live + 1)..n}
        BY <1>1, <2>3, PartSet
      <3> QED BY <2>2, <3>1
    <2>5. skip = {q[i] : i \in 1..(live - 1)}
      <3>1. ToSet(SubSeq(q, 1, live - 1)) = {q[i] : i \in 1..(live - 1)}
        BY <1>1, <2>3, PartSet
      <3> QED BY <2>2, <3>1
    <2> HIDE DEF n
    <2>6. \A i \in 1..(live - 1) : i \in 1..n /\ i < live  BY <1>1, <2>1
    <2>7. \A i \in (live + 1)..n : i \in 1..n  BY <1>1, <2>1
    <2>8. \A i \in 1..n : i \in 1..(live - 1) \/ i = live \/ i \in (live + 1)..n  BY <1>1, <2>1
    <2>9. skip \subseteq D  BY <2>1, <2>5, <2>6
    <2>10. ToSet(after) \subseteq ToSet(q) /\ q[live] \in ToSet(q)  BY <1>1, <2>1, <2>4, <2>7
    <2>11. ToSet(q) \subseteq skip \cup {q[live]} \cup ToSet(after)  BY <1>1, <2>4, <2>5, <2>8
    <2> QED BY <1>3, <2>1, <2>4, <2>9, <2>10, <2>11 DEF skip, after
  <1> QED BY <1>2, <1>3

LEMMA TakeStep ==
  ASSUME WalkInv, NEW w \in Worker, Take(w) PROVE WalkInv'
  <1> DEFINE live == SelectInSeq(subq, LAMBDA t : t \notin done)
             skip == ToSet(IF live = 0 THEN subq ELSE SubSeq(subq, 1, live - 1))
             after == IF live = 0 THEN <<>> ELSE SubSeq(subq, live + 1, Len(subq))
  <1>1. WalkTyped /\ WalkMemory /\ WalkDisk /\ WalkHands /\ WalkLocked /\ WalkExit  BY DEF WalkInv
  <1>2. /\ walkStep[w] = "idle" /\ lock = None
        /\ meta' = Forget(meta, skip) /\ subq' = after
        /\ UNCHANGED <<index, files, opened, fails, answer, lock, bounds, verdict>>
        /\ \/ \E t \in IF live # 0 THEN {subq[live]} ELSE pages :
                /\ cur' = [cur EXCEPT ![w] = t]
                /\ inflight' = inflight \cup {t} /\ pages' = pages \ {t}
                /\ walkStep' = [walkStep EXCEPT ![w] = "ask"]
           \/ /\ live = 0 /\ pages = {}
              /\ walkStep' = [walkStep EXCEPT ![w] = IF inflight = {} THEN "gone" ELSE "idle"]
              /\ UNCHANGED <<cur, inflight, pages>>
    BY DEF Take, Move
  <1>3. /\ after \in Seq(Task) /\ skip \subseteq done
        /\ live = 0 => after = <<>> /\ ToSet(subq) \subseteq skip
        /\ live # 0 => /\ subq[live] \in ToSet(subq) /\ subq[live] \notin done
                       /\ ToSet(subq) \subseteq skip \cup {subq[live]} \cup ToSet(after)
        /\ ToSet(after) \subseteq ToSet(subq)
    <2>1. subq \in Seq(Task)  BY <1>1 DEF WalkTyped, WalkTypeOK
    <2>2. live = LET next == {i \in 1..Len(subq) : subq[i] \notin done} IN IF next # {} THEN Min(next) ELSE 0
      BY DEF SelectInSeq
    <2> HIDE DEF live
    <2>3. FirstLive(subq, done, live)  BY <2>1, <2>2, LiveIs
    <2>4. skip = Before(subq, live) /\ after = After(subq, live)  BY DEF Before, After
    <2> HIDE DEF skip, after
    <2> QED BY <2>1, <2>3, <2>4, TakenIs
  <1> HIDE DEF live, skip, after
  <1>4. /\ walkStep \in [Worker -> {"idle", "ask", "settle", "book", "gone"}]
        /\ cur \in [Worker -> Task \cup {None}] /\ inflight \subseteq Task /\ IsFiniteSet(inflight)
        /\ pages \subseteq Task /\ done \subseteq Task /\ ToSet(subq) \subseteq Task
    BY <1>1, ElementOfSeq DEF WalkTyped, WalkTypeOK, ToSet
  \* A task t is taken, or none is.
  <1> DEFINE Got(t) == /\ t \in Task /\ (t \in ToSet(subq) \/ t \in pages)
                       /\ cur' = [cur EXCEPT ![w] = t]
                       /\ inflight' = inflight \cup {t} /\ pages' = pages \ {t}
                       /\ walkStep' = [walkStep EXCEPT ![w] = "ask"]
                       /\ ToSet(subq) \subseteq skip \cup {t} \cup ToSet(after)
             NotGot == /\ live = 0 /\ pages = {} /\ ToSet(subq) \subseteq skip
                       /\ walkStep' = [walkStep EXCEPT ![w] = IF inflight = {} THEN "gone" ELSE "idle"]
                       /\ UNCHANGED <<cur, inflight, pages>>
  <1>5. (\E t \in Task : Got(t)) \/ NotGot
    <2>1. ASSUME NEW t \in IF live # 0 THEN {subq[live]} ELSE pages,
                 cur' = [cur EXCEPT ![w] = t], inflight' = inflight \cup {t}, pages' = pages \ {t},
                 walkStep' = [walkStep EXCEPT ![w] = "ask"]
          PROVE  t \in Task /\ Got(t)
      BY <1>3, <1>4, <2>1
    <2> QED BY <1>2, <1>3, <2>1
  <1>6. /\ inflight \subseteq inflight' /\ inflight' \subseteq Task /\ IsFiniteSet(inflight')
        /\ pages' \subseteq pages /\ cur' \in [Worker -> Task \cup {None}]
        /\ walkStep' \in [Worker -> {"idle", "ask", "settle", "book", "gone"}]
        /\ \A u \in Worker : u # w => walkStep'[u] = walkStep[u] /\ cur'[u] = cur[u]
        /\ walkStep'[w] \in {"ask", "idle", "gone"}
        /\ walkStep'[w] = "ask" => cur'[w] \in Task /\ (cur'[w] \in ToSet(subq) \/ cur'[w] \in pages)
        /\ ToSet(subq) \subseteq skip \cup inflight' \cup ToSet(after)
        /\ \A t \in pages \ pages' : walkStep'[w] = "ask" /\ cur'[w] = t
        /\ inflight' \subseteq inflight \cup pages \cup ToSet(subq)
    <2>1. CASE \E t \in Task : Got(t)
      <3>1. PICK t \in Task : Got(t)  BY <2>1
      <3>2. IsFiniteSet(inflight')  BY <1>4, <3>1, FS_AddElement
      <3> QED BY <1>4, <3>1, <3>2
    <2>2. CASE NotGot
      BY <1>2, <1>4, <2>2
    <2> QED BY <1>5, <2>1, <2>2
  <1> HIDE DEF Got, NotGot
  <1>7. /\ index' = index /\ journaled' = journaled /\ pending' = pending /\ done' = done /\ verdict' = verdict
        /\ lock' = None /\ opened' = opened /\ subq' = after
        /\ meta' = [x \in DOMAIN meta \ skip |-> meta[x]]
    BY <1>2 DEF files, Forget
  <1>8. Booking = {} /\ Through = done /\ Booking' = {} /\ Through' = done' /\ done' = done
        /\ \A u \in Worker : walkStep'[u] # "book" /\ u # None
    <2>1. Booking = {} /\ Through = done  BY <1>1, <1>2, NoBooking
    <2>2. \A u \in Worker : walkStep[u] # "book" /\ u # None
      BY <1>1, <1>2, WalkAssumption DEF WalkLocked
    <2>3. \A u \in Worker : walkStep'[u] # "book" /\ u # None  BY <1>6, <2>2
    <2> QED BY <1>7, <2>1, <2>3 DEF Booking, Through
  <1>9. Safe' = Safe /\ (\A why : Let(why)' = Let(why)) /\ NoneEnded' = NoneEnded
    <2>1. \A t : Asked(t)' = Asked(t)  BY <1>7 DEF Asked, Within
    <2>2. \A why : Let(why)' = Let(why)  BY <1>7 DEF Let
    <2> QED BY <1>7, <2>1, <2>2 DEF Safe, Excused, NoneEnded
  <1>10. Asking \ done \subseteq Asking'
    <2>1. ASSUME NEW u \in Asking, u \notin done PROVE u \in Asking'
      <3>1. u \in DOMAIN meta' /\ u \notin skip  BY <1>3, <1>7, <2>1 DEF Asking
      <3>2. u \in ToSet(subq') \cup inflight'  BY <1>6, <1>7, <2>1, <3>1 DEF Asking
      <3> QED BY <3>1, <3>2 DEF Asking
    <2> QED BY <2>1
  <1>11. Keeps(InMemory, InMemory')
    <2> DEFINE v == InMemory
               x == InMemory'
    <2>1. /\ v.rows = x.rows /\ v.safe \subseteq x.safe /\ v.mute \subseteq x.mute
          /\ v.owed = Asking \ done /\ x.owed = Asking' \ done
      BY <1>7, <1>8, <1>9 DEF InMemory
    <2>2. Asking \subseteq Task /\ Asking' \subseteq Task
      BY <1>1, <1>3, <1>4, <1>6, <1>7, HandsTyped DEF Asking
    <2> HIDE DEF v, x
    <2>3. Keeps(v, x)  BY <1>10, <2>1, <2>2, KeepsBy
    <2> QED BY <2>3 DEF v, x
  <1>12. InHand' \subseteq InHand \cup ToSet(subq) \cup pages /\ InHand \subseteq InHand'
         /\ (walkStep'[w] = "ask" => cur'[w] \in InHand')
    <2>1. w \notin Working  BY <1>2 DEF Working
    <2>2. \A u \in Working : u # w /\ u \in Working' /\ cur'[u] = cur[u]
      BY <1>6, <2>1 DEF Working
    <2>3. \A u \in Working' : (u # w /\ u \in Working /\ cur'[u] = cur[u]) \/ (u = w /\ walkStep'[w] = "ask")
      BY <1>6 DEF Working
    <2>4. walkStep'[w] = "ask" => w \in Working'  BY DEF Working
    <2> QED BY <1>6, <2>2, <2>3, <2>4 DEF InHand
  <1>13. WalkMemory'
    <2>1. Through \subseteq Task /\ Known \subseteq Task  BY <1>1, HandsTyped
    <2>2. Known' \subseteq Known  BY <1>3, <1>6, <1>7, <1>12 DEF Known
    <2>3. \A u \in DOMAIN meta' : u \in DOMAIN meta /\ meta'[u] = meta[u]  BY <1>7
    <2>4. \A u \in Known' \ DOMAIN meta' : u \in Known \ DOMAIN meta \/ u \in Through
      BY <1>3, <1>7, <1>8, <2>2
    <2> QED BY <1>1, <1>7, <1>8, <1>11, <2>1, <2>2, <2>3, <2>4, MemoryKept
  <1>14. WalkDisk'  BY <1>1, <1>7, <1>9, DiskKept
  <1>15. WalkTyped'
    <2>1. DOMAIN meta' \subseteq DOMAIN meta /\ Range(meta') \subseteq Range(meta)
      BY <1>7 DEF Range
    <2>2. DOMAIN meta' \subseteq {t \in Task : t.level > 0} /\ Range(meta') \subseteq Meta
      BY <1>1, <2>1 DEF WalkTyped, WalkTypeOK
    <2> QED BY <1>1, <1>2, <1>3, <1>4, <1>6, <1>7, <2>2 DEF WalkTyped, WalkTypeOK, bounds
  <1>16. WalkHands'
    <2>1. ASSUME NEW u \in Working' PROVE cur'[u] \in Task
      BY <1>1, <1>6, <2>1 DEF Working, WalkHands
    <2>2. ASSUME NEW u \in Worker, walkStep'[u] = "settle" PROVE AnswerFits(u)'
      <3>1. u # w /\ walkStep[u] = "settle" /\ cur'[u] = cur[u] /\ answer' = answer  BY <1>2, <1>6, <2>2
      <3>2. AnswerFits(u)  BY <1>1, <3>1 DEF WalkHands
      <3>3. Asked(cur[u])' = Asked(cur[u])  BY <1>7, <3>1 DEF Asked, Within
      <3> QED BY <1>7, <3>1, <3>2, <3>3 DEF AnswerFits
    <2> QED BY <2>1, <2>2 DEF WalkHands
  <1>17. WalkLocked'  BY <1>7, <1>8 DEF WalkLocked
  <1>18. WalkExit'
    <2>1. ASSUME NoneEnded'
          PROVE  /\ \A p \in Page : Whole(p) \in done' \cup pages' \cup Let("parked")' \cup InHand'
                 /\ Owing(pending)' \ done' \subseteq Asking' \cup Let("parked")'
      <3>1. /\ \A p \in Page : Whole(p) \in done \cup pages \cup Let("parked") \cup InHand
            /\ Owing(pending) \ done \subseteq Asking \cup Let("parked")
        BY <1>1, <1>9, <2>1 DEF WalkExit
      <3>2. Owing(pending)' = Owing(pending)  BY <1>7 DEF Owing
      <3>3. \A p \in Page : Whole(p) \in done' \cup pages' \cup Let("parked")' \cup InHand'
        BY <1>6, <1>8, <1>9, <1>12, <3>1
      <3> QED BY <1>8, <1>9, <1>10, <3>1, <3>2, <3>3
    <2>2. ASSUME \A u \in Worker : walkStep'[u] = "gone"
          PROVE  subq' = <<>> /\ inflight' = {} /\ pages' = {}
      <3>1. walkStep'[w] = "gone"  BY <2>2
      <3>2. ~\E t \in Task : Got(t)
        <4>1. ASSUME NEW t \in Task, Got(t) PROVE FALSE
          <5>1. walkStep'[w] = "ask"  BY <1>4, <4>1 DEF Got
          <5> QED BY <3>1, <5>1
        <4> QED BY <4>1
      <3>3. NotGot  BY <1>5, <3>2
      <3>4. inflight = {}  BY <1>4, <3>1, <3>3 DEF NotGot
      <3> QED BY <1>3, <1>7, <3>3, <3>4 DEF NotGot
    <2> QED BY <2>1, <2>2 DEF WalkExit
  <1> QED BY <1>13, <1>14, <1>15, <1>16, <1>17, <1>18 DEF WalkInv

\* A nonempty set of positions has a last one.
LEMMA LastOf ==
  ASSUME NEW S, S \subseteq Position, S # {} PROVE \E r \in S : \A r2 \in S : r2 <= r
  <1>1. Span[0] \in Nat /\ Position = 0..(Span[0] - 1)
    <2>1. 0 \in 0..Depth  BY SpanIs
    <2> QED BY <2>1, SpanIs DEF Position
  <1> DEFINE n == Span[0]
             down == {n - r : r \in S}
  <1> HIDE DEF n
  <1>2. n \in Nat /\ S \subseteq 0..(n - 1)  BY <1>1 DEF n
  <1>3. down \subseteq Nat /\ down # {}
    <2>1. \A r \in S : n - r \in Nat  BY <1>2
    <2> QED BY <2>1
  <1>4. PICK k \in down : \A j \in down : k <= j  BY <1>3, LeastNat
  <1>5. PICK r \in S : k = n - r  BY <1>4
  <1>6. \A r2 \in S : n - r <= n - r2  BY <1>4, <1>5
  <1>7. \A r2 \in S : r2 <= r  BY <1>2, <1>5, <1>6
  <1> QED BY <1>7

\* What the reason of a probe says of the subpages beside its page's probes.
LEMMA ProbeReason ==
  ASSUME NEW v, v.rows \in [Page -> SUBSET Position], NEW p \in Page, NEW t \in Probes(p),
         NEW why \in Meta, Reasoned(v, t, why)
  PROVE  why.role # "probe" => OthersAre(v, p)
  <1>1. t \in Task /\ t.level = 1 /\ t.page = p  BY OfWhole
  <1>2. /\ why.parent \in Task /\ why.role \in Role /\ why.parent.level < Depth
        /\ \E k \in 0..(Width - 1) : t = Child(why.parent, k)
    BY DEF Meta, Reasoned
  <1>3. why.parent = Whole(p)
    <2>1. PICK k \in 0..(Width - 1) : t = Child(why.parent, k)  BY <1>2
    <2>2. t.page = why.parent.page /\ t.level = why.parent.level + 1  BY <1>2, <2>1, ChildIs
    <2>3. why.parent.level \in Nat  BY <1>2, TaskFields
    <2>4. why.parent.level = 0 /\ why.parent.page = p  BY <1>1, <2>2, <2>3
    <2> QED BY <1>2, <2>4, OfLevelZero
  <1>4. CASE why.role = "rest"
    BY <1>1, <1>4 DEF Reasoned
  <1>5. CASE why.role = "cut"
    <2>1. \A x \in RowsOf(v.rows, Whole(p)) : Covered(v, x, 0)
      BY <1>3, <1>5, WholeIs DEF Reasoned
    <2>2. \A u \in Others(p) : RowsOf(v.rows, u) \subseteq RowsOf(v.rows, Whole(p))
      <3> TAKE u \in Others(p)
      <3>1. PICK k \in 0..(Width - 1) : u = Child(Whole(p), k)  BY DEF Others
      <3>2. Whole(p) \in Task /\ Whole(p).level < Depth  BY WholeIs, SpanIs
      <3> QED BY <3>1, <3>2, ChildRows
    <2> QED BY <2>1, <2>2 DEF OthersAre
  <1> QED BY <1>2, <1>4, <1>5 DEF Role

\* The siblings of a cut subpage with rows before its parent's cut row, below it, have
\* their rows already.
LEMMA LowerSafe ==
  ASSUME NEW v, v.rows \in [Page -> SUBSET Position], NEW t \in Task, NEW u \in Task,
         NEW why \in Meta, Reasoned(v, t, why), NEW other \in Meta, Reasoned(v, u, other),
         why.role = "cut", other.parent = why.parent, u.at < t.at,
         NEW y \in RowsOf(v.rows, t), y[2] < why.stop
  PROVE  RowsOf(v.rows, u) \subseteq v.safe
  <1> DEFINE p == why.parent
  <1>1. p \in Task /\ p.level < Depth /\ why.stop \in Position  BY DEF Meta, Reasoned
  <1>2. PICK k \in 0..(Width - 1) : t = Child(p, k)  BY DEF Reasoned
  <1>3. PICK j \in 0..(Width - 1) : u = Child(p, j)  BY DEF Reasoned
  <1>4. t.level = u.level  BY <1>1, <1>2, <1>3, ChildIs
  <1>5. RowsOf(v.rows, u) \subseteq RowsOf(v.rows, p)  BY <1>1, <1>3, ChildRows
  <1>6. \A x \in RowsOf(v.rows, u) : x[2] < y[2]  BY <1>4, LowerRows
  <1>7. \A x \in RowsOf(v.rows, p) : x[2] <= why.stop => x \in v.safe  BY DEF Reasoned
  <1> HIDE DEF p
  <1>8. ASSUME NEW x \in RowsOf(v.rows, u) PROVE x \in v.safe
    <2>1. x[2] \in Nat /\ y[2] \in Nat /\ why.stop \in Nat  BY <1>1, AskedIs, SpanIs DEF Position
    <2>2. x[2] <= why.stop  BY <1>6, <2>1
    <2> QED BY <1>5, <1>7, <2>2
  <1> QED BY <1>8

\* The rows, the reason and the early end of a booking.
RowNos(w) == {r[2] : r \in answer[w].rows}
WhyOf(t)  == IF t \in DOMAIN meta THEN meta[t] ELSE Entry("rest", t, 0)
Drops(w)  == WhyOf(cur[w]).role = "cut" /\ \E r \in RowNos(w) : r < WhyOf(cur[w]).stop
EndsEarly(w)   == Drops(w) /\ ~Saves(subq, Forget(meta, {cur[w]}))

LEMMA SettleShared ==
  ASSUME WalkInv, NEW w \in Worker, Settle(w)
  PROVE  /\ WalkTyped /\ WalkMemory /\ WalkDisk /\ WalkHands /\ WalkLocked /\ WalkExit
         /\ walkStep[w] = "settle" /\ lock = None /\ Booked(cur[w], answer[w])
         /\ inflight' = inflight \ {cur[w]}
         /\ UNCHANGED <<index, journaled, done, pages, fails, bounds>>
         /\ cur[w] \in Task /\ cur[w] \in InHand /\ cur[w] \in Known /\ AnswerFits(w)
         /\ Booking = {} /\ Through = done /\ \A u \in Worker : walkStep[u] # "book" /\ u # None
         /\ Asked(cur[w]) = RowsOf(index, cur[w])
         /\ RowNos(w) \subseteq Position
         /\ IsFiniteSet(inflight') /\ inflight' \subseteq Task
  <1>1. WalkTyped /\ WalkMemory /\ WalkDisk /\ WalkHands /\ WalkLocked /\ WalkExit  BY DEF WalkInv
  <1>2. /\ walkStep[w] = "settle" /\ lock = None /\ Booked(cur[w], answer[w])
        /\ inflight' = inflight \ {cur[w]}
        /\ UNCHANGED <<index, journaled, done, pages, fails, bounds>>
    BY DEF Settle
  <1>3. cur[w] \in Task /\ cur[w] \in InHand /\ cur[w] \in Known /\ AnswerFits(w)
    BY <1>1, <1>2 DEF WalkHands, Working, InHand, Known
  <1>4. Booking = {} /\ Through = done  BY <1>1, <1>2, NoBooking
  <1>5. \A u \in Worker : walkStep[u] # "book" /\ u # None
    BY <1>1, <1>2, WalkAssumption DEF WalkLocked
  <1>6. Asked(cur[w]) = RowsOf(index, cur[w]) /\ Asked(cur[w]) \subseteq Page \X Position
    BY <1>1, <1>3, AskedRows
  <1>7. RowNos(w) \subseteq Position
    <2>1. answer[w].rows \subseteq Page \X Position  BY <1>3, <1>6 DEF AnswerFits
    <2>2. \A x \in answer[w].rows : x[2] \in Position  BY <2>1
    <2> QED BY <2>2 DEF RowNos
  <1>8. IsFiniteSet(inflight') /\ inflight' \subseteq Task
    <2>1. IsFiniteSet(inflight) /\ inflight \subseteq Task  BY <1>1 DEF WalkTyped, WalkTypeOK
    <2> QED BY <1>2, <2>1, FS_Subset
  <1> QED BY <1>1, <1>2, <1>3, <1>4, <1>5, <1>6, <1>7, <1>8

\* A booking that ends while it drops siblings.
LEMMA SettleEnded ==
  ASSUME WalkInv, NEW w \in Worker, Settle(w), EndsEarly(w) PROVE WalkInv'
  <1> DEFINE t == cur[w]
             why == WhyOf(t)
  <1>1. /\ WalkTyped /\ WalkMemory /\ WalkDisk /\ WalkHands /\ WalkLocked /\ WalkExit
        /\ walkStep[w] = "settle" /\ lock = None
        /\ inflight' = inflight \ {t}
        /\ UNCHANGED <<index, journaled, done, pages, fails, bounds>>
        /\ t \in Task /\ t \in InHand /\ t \in Known
        /\ Booking = {} /\ Through = done /\ \A u \in Worker : walkStep[u] # "book" /\ u # None
        /\ IsFiniteSet(inflight') /\ inflight' \subseteq Task
    BY SettleShared
  <1>2. /\ Loop(w) /\ meta' = Forget(meta, {t})
        /\ verdict' = verdict \cup {<<t, "dropped">>}
        /\ UNCHANGED <<pending, subq, opened, lock>>
    BY DEF Settle, EndsEarly, Drops, RowNos, WhyOf
  <1>3. t \in DOMAIN meta /\ why = meta[t] /\ why.role = "cut"
    BY DEF EndsEarly, Drops, WhyOf, Entry
  <1>4. /\ walkStep' \in [Worker -> {"idle", "ask", "settle", "book", "gone"}]
        /\ cur' \in [Worker -> Task \cup {None}]
        /\ answer' \in [Worker -> [kind : Kind, rows : SUBSET journaled'] \cup {None}]
        /\ walkStep'[w] = "idle" /\ \A u \in Worker : u # w => walkStep'[u] = walkStep[u]
        /\ InHand' \subseteq InHand /\ InHand \subseteq InHand' \cup {t}
        /\ WalkHands'
    BY <1>1, <1>2, Looped
  <1>5. /\ index \in [Page -> SUBSET Position] /\ t.level > 0 /\ why \in Meta
        /\ DOMAIN meta \subseteq {u \in Task : u.level > 0} /\ Range(meta) \subseteq Meta
    BY <1>1, <1>3 DEF WalkTyped, WalkTypeOK, Range
  <1>6. Reasoned(InMemory, t, why)  BY <1>1, <1>3 DEF WalkMemory
  <1> HIDE DEF t, why
  <1>7. meta' = [x \in DOMAIN meta \ {t} |-> meta[x]]  BY <1>2 DEF Forget
  <1>8. Booking' = {} /\ Through' = done /\ \A u \in Worker : walkStep'[u] # "book"
    <2>1. \A u \in Worker : walkStep'[u] # "book"  BY <1>1, <1>4
    <2> QED BY <1>1, <2>1 DEF Booking, Through
  <1>9. /\ Safe \subseteq Safe' /\ \A reason : Let(reason) \subseteq Let(reason)'
        /\ ~NoneEnded' /\ RowsOf(index', t) \subseteq Safe'
    <2>1. verdict \subseteq verdict' /\ <<t, "dropped">> \in verdict'  BY <1>2
    <2>2. Safe \subseteq Safe' /\ \A reason : Let(reason) \subseteq Let(reason)'  BY <1>1, <2>1, SafeGrows
    <2>3. t \in Let("dropped")'
      <3>1. <<t, "dropped">>[1] = t /\ <<t, "dropped">>[2] = "dropped"  OBVIOUS
      <3> QED BY <2>1, <3>1 DEF Let
    <2>4. RowsOf(index', t) \subseteq Safe'  BY <1>5, <2>1, LetGo
    <2> QED BY <2>2, <2>3, <2>4 DEF NoneEnded
  <1>10. Asking' = Asking \ {t}  BY <1>1, <1>2, <1>7 DEF Asking
  <1>11. Keeps(InMemory, InMemory')
    <2> DEFINE v == InMemory
               x == InMemory'
    <2>1. /\ v.rows = x.rows /\ v.safe \subseteq x.safe /\ v.mute \subseteq x.mute
          /\ v.owed = Asking \ done /\ x.owed = (Asking \ {t}) \ done /\ x.rows = index' /\ x.safe = Safe'
      BY <1>1, <1>8, <1>9, <1>10 DEF InMemory
    <2>2. Asking \subseteq Task  BY <1>1, HandsTyped
    <2> HIDE DEF v, x
    <2>3. ASSUME NEW u \in v.owed, u \notin x.owed PROVE \A y \in RowsOf(x.rows, u) : Covered(x, y, u.level)
      <3>1. u = t  BY <2>1, <2>3
      <3> QED BY <1>9, <2>1, <3>1 DEF Covered
    <2>4. Keeps(v, x)  BY <2>1, <2>2, <2>3, KeepsBy
    <2> QED BY <2>4 DEF v, x
  <1>12. Settled(InMemory', t)
    <2> DEFINE v == InMemory
               x == InMemory'
    <2>1. v.rows = index /\ x.rows = index' /\ x.safe = Safe'  BY DEF InMemory
    <2>2. \A y \in RowsOf(x.rows, t) : Covered(x, y, t.level)  BY <1>9, <2>1 DEF Covered
    <2>3. \A p \in Page : t \in Probes(p) => OthersAre(x, p)
      <3> TAKE p \in Page
      <3>1. Keeps(v, x) /\ Reasoned(v, t, why)  BY <1>6, <1>11
      <3> HIDE DEF v, x
      <3>2. t \in Probes(p) => OthersAre(v, p)  BY <1>3, <1>5, <2>1, <3>1, ProbeReason DEF t, why
      <3> QED BY <3>1, <3>2, Stays
    <2> QED BY <2>2, <2>3 DEF Settled
  <1>13. WalkMemory'
    <2>1. Through \subseteq Task /\ Known \subseteq Task  BY <1>1, HandsTyped
    <2>2. Known' \subseteq Known  BY <1>1, <1>2, <1>4 DEF Known
    <2>3. \A u \in DOMAIN meta' : u \in DOMAIN meta /\ meta'[u] = meta[u]  BY <1>7
    <2>4. \A u \in Known' \ DOMAIN meta' : u \in Known \ DOMAIN meta \/ u = t  BY <1>7, <2>2
    <2> QED BY <1>1, <1>2, <1>8, <1>11, <1>12, <2>1, <2>2, <2>3, <2>4, MemoryKept
  <1>14. WalkDisk'
    <2>1. UNCHANGED <<pending, done>>  BY <1>1, <1>2
    <2> QED BY <1>1, <1>9, <2>1, DiskKept
  <1>15. WalkTyped'
    <2>1. DOMAIN meta' \subseteq DOMAIN meta /\ Range(meta') \subseteq Range(meta)  BY <1>7 DEF Range
    <2>2. DOMAIN meta' \subseteq {u \in Task : u.level > 0} /\ Range(meta') \subseteq Meta  BY <1>5, <2>1
    <2> QED BY <1>1, <1>2, <1>4, <2>2 DEF WalkTyped, WalkTypeOK, bounds
  <1>16. WalkLocked'  BY <1>1, <1>2, <1>8 DEF WalkLocked
  <1>17. WalkExit'  BY <1>4, <1>9 DEF WalkExit
  <1> QED BY <1>4, <1>13, <1>14, <1>15, <1>16, <1>17 DEF WalkInv

\* What a booking leaves in the queue, and why.
LEMMA SettleQueue ==
  ASSUME WalkInv, NEW w \in Worker, Settle(w), ~EndsEarly(w)
  PROVE  LET t    == cur[w]
             why  == WhyOf(t)
             got == RowNos(w)
             m    == Forget(meta, {t})
             open == why.role = "probe" /\ got # {} /\ why.parent \notin opened
             rest == IF open THEN Rest(t) ELSE <<>>
             q    == IF Drops(w) THEN Picked(subq, {i \in DOMAIN subq : m[subq[i]].parent # why.parent \/ subq[i].at >= t.at})
                     ELSE subq
             subs == IF answer[w].kind = "complete" THEN <<>> ELSE Subpages(t, got # {})
             last == IF got = {} THEN 0 ELSE CHOOSE r \in got : \A r2 \in got : r2 <= r
             new  == subs \o rest \o q
             m2   == Joined(Give(subs, IF got # {} THEN Entry("cut", t, last) ELSE Entry("probe", t, 0)),
                           Joined(Give(rest, Entry("rest", why.parent, 0)), m))
         IN  /\ subq' = new /\ meta' = m2
             /\ opened' = IF open THEN opened \cup {why.parent} ELSE opened
             /\ SavePending(new, inflight', m2)
             /\ IF Saves(new, m2)
                THEN Move(w, "settle", "book") /\ lock' = w /\ UNCHANGED <<cur, answer>>
                ELSE Loop(w) /\ UNCHANGED lock
             /\ verdict' = verdict \cup
                  (IF Saves(new, m2) THEN {} ELSE {<<t, "unbooked">>}) \cup
                  CASE answer[w].kind = "silent" -> {<<t, "silent">>}
                    [] answer[w].kind = "cut" /\ subs = <<>> -> {<<t, "skipped">>}
                    [] OTHER -> {}
  BY DEF Settle, EndsEarly, Drops, RowNos, WhyOf

LEMMA JoinedIs ==
  ASSUME NEW f, NEW g
  PROVE  /\ DOMAIN Joined(f, g) = DOMAIN f \cup DOMAIN g
         /\ \A x \in DOMAIN f : Joined(f, g)[x] = f[x]
         /\ \A x \in DOMAIN g \ DOMAIN f : Joined(f, g)[x] = g[x]
  BY DEF Joined

LEMMA GiveIs ==
  ASSUME NEW ts, NEW entry
  PROVE  DOMAIN Give(ts, entry) = ToSet(ts) /\ \A x \in ToSet(ts) : Give(ts, entry)[x] = entry
  BY DEF Give

LEMMA ForgetIs ==
  ASSUME NEW f, NEW S
  PROVE  DOMAIN Forget(f, S) = DOMAIN f \ S /\ \A x \in DOMAIN f \ S : Forget(f, S)[x] = f[x]
  BY DEF Forget

Opens(w)    == WhyOf(cur[w]).role = "probe" /\ RowNos(w) # {} /\ WhyOf(cur[w]).parent \notin opened
SubsOf(w)   == IF answer[w].kind = "complete" THEN {} ELSE ToSet(Subpages(cur[w], RowNos(w) # {}))
RestOf(w)   == IF Opens(w) THEN Others(cur[w].page) ELSE {}
Final(w, r) == r \in RowNos(w) /\ \A r2 \in RowNos(w) : r2 <= r

LEMMA SettleSets ==
  ASSUME WalkInv, NEW w \in Worker, Settle(w), ~EndsEarly(w)
  PROVE  /\ subq' \in Seq(Task) /\ SubsOf(w) \cup RestOf(w) \subseteq ToSet(subq')
         /\ ToSet(subq') \subseteq SubsOf(w) \cup RestOf(w) \cup ToSet(subq)
         /\ \A u \in (ToSet(subq) \cap DOMAIN meta) \ {cur[w]} :
              u \in ToSet(subq') \/ (Drops(w) /\ meta[u].parent = WhyOf(cur[w]).parent /\ ~(u.at >= cur[w].at))
         /\ DOMAIN meta' = SubsOf(w) \cup RestOf(w) \cup (DOMAIN meta \ {cur[w]})
         /\ RowNos(w) # {} => \E last \in Position : Final(w, last) /\ \A u \in SubsOf(w) : meta'[u] = Entry("cut", cur[w], last)
         /\ RowNos(w) = {} => \A u \in SubsOf(w) : meta'[u] = Entry("probe", cur[w], 0)
         /\ \A u \in RestOf(w) \ SubsOf(w) : meta'[u] = Entry("rest", WhyOf(cur[w]).parent, 0)
         /\ \A u \in DOMAIN meta \ ({cur[w]} \cup SubsOf(w) \cup RestOf(w)) : meta'[u] = meta[u]
         /\ opened' = IF Opens(w) THEN opened \cup {WhyOf(cur[w]).parent} ELSE opened
         /\ SavePending(subq', inflight', meta')
         /\ \/ Saves(subq', meta') /\ Move(w, "settle", "book") /\ lock' = w /\ UNCHANGED <<cur, answer>>
            \/ ~Saves(subq', meta') /\ Loop(w) /\ UNCHANGED lock /\ <<cur[w], "unbooked">> \in verdict'
         /\ verdict \subseteq verdict'
         /\ answer[w].kind = "silent" => <<cur[w], "silent">> \in verdict'
         /\ answer[w].kind = "cut" /\ cur[w].level = Depth => <<cur[w], "skipped">> \in verdict'
  <1> DEFINE t    == cur[w]
             why  == WhyOf(t)
             got == RowNos(w)
             m    == Forget(meta, {t})
             open == why.role = "probe" /\ got # {} /\ why.parent \notin opened
             rest == IF open THEN Rest(t) ELSE <<>>
             after == {i \in DOMAIN subq : m[subq[i]].parent # why.parent \/ subq[i].at >= t.at}
             q    == IF Drops(w) THEN Picked(subq, after) ELSE subq
             subs == IF answer[w].kind = "complete" THEN <<>> ELSE Subpages(t, got # {})
             last == IF got = {} THEN 0 ELSE CHOOSE r \in got : \A r2 \in got : r2 <= r
             new  == subs \o rest \o q
             e1   == IF got # {} THEN Entry("cut", t, last) ELSE Entry("probe", t, 0)
             e2   == Entry("rest", why.parent, 0)
             m2   == Joined(Give(subs, e1), Joined(Give(rest, e2), m))
  <1>1. /\ subq' = new /\ meta' = m2
        /\ opened' = IF open THEN opened \cup {why.parent} ELSE opened
        /\ SavePending(new, inflight', m2)
        /\ IF Saves(new, m2)
           THEN Move(w, "settle", "book") /\ lock' = w /\ UNCHANGED <<cur, answer>>
           ELSE Loop(w) /\ UNCHANGED lock
        /\ verdict' = verdict \cup
             (IF Saves(new, m2) THEN {} ELSE {<<t, "unbooked">>}) \cup
             CASE answer[w].kind = "silent" -> {<<t, "silent">>}
               [] answer[w].kind = "cut" /\ subs = <<>> -> {<<t, "skipped">>}
               [] OTHER -> {}
    BY SettleQueue
  <1> HIDE DEF new, m2, rest, q, subs, last, open, after, m, e1, e2, got, why, t
  <1>2. /\ WalkTyped /\ WalkMemory /\ t \in Task /\ got \subseteq Position
    BY SettleShared DEF t, got
  <1>3. open <=> Opens(w)  BY DEF open, Opens, why, got, t
  <1>4. open => t \in Probes(t.page) /\ t.page \in Page
    <2> SUFFICES ASSUME open PROVE t \in Probes(t.page) /\ t.page \in Page
      OBVIOUS
    <2>1. t \in DOMAIN meta /\ meta[t].role = "probe"  BY DEF open, why, WhyOf, Entry
    <2>2. Reasoned(InMemory, t, meta[t])  BY <1>2, <2>1 DEF WalkMemory
    <2> QED BY <1>2, <2>1, <2>2, TaskFields DEF Reasoned
  <1>5. rest \in Seq(Task) /\ ToSet(rest) = RestOf(w)
    <2>1. CASE open
      <3>1. rest = Rest(t)  BY <2>1 DEF rest
      <3>2. Rest(t) \in Seq(Task) /\ ToSet(Rest(t)) = Others(t.page)  BY <1>4, <2>1, RestIs
      <3> QED BY <1>3, <2>1, <3>1, <3>2 DEF RestOf, t
    <2>2. CASE ~open
      <3>1. rest = <<>> /\ RestOf(w) = {}  BY <1>3, <2>2 DEF rest, RestOf
      <3>2. ToSet(<<>>) = {}  BY DEF ToSet
      <3> QED BY <3>1, <3>2
    <2> QED BY <2>1, <2>2
  <1>6. subs \in Seq(Task) /\ ToSet(subs) = SubsOf(w)
    <2>1. CASE answer[w].kind = "complete"
      <3>1. subs = <<>> /\ SubsOf(w) = {}  BY <2>1 DEF subs, SubsOf
      <3>2. ToSet(<<>>) = {}  BY DEF ToSet
      <3> QED BY <3>1, <3>2
    <2>2. CASE answer[w].kind # "complete"
      <3>1. subs = Subpages(t, got # {}) /\ SubsOf(w) = ToSet(Subpages(t, got # {}))
        BY <2>2 DEF subs, SubsOf, got, t
      <3>2. (got # {}) \in BOOLEAN  OBVIOUS
      <3> HIDE DEF got
      <3>3. Subpages(t, got # {}) \in Seq(Task)  BY <1>2, <3>2, SubsAre
      <3> QED BY <3>1, <3>3
    <2> QED BY <2>1, <2>2
  <1>7. subq \in Seq(Task) /\ ToSet(subq) = {subq[i] : i \in DOMAIN subq}
    BY <1>2 DEF WalkTyped, WalkTypeOK, ToSet
  <1>8. /\ q \in Seq(Task) /\ ToSet(q) \subseteq ToSet(subq)
        /\ \A u \in (ToSet(subq) \cap DOMAIN meta) \ {t} :
             u \in ToSet(q) \/ (Drops(w) /\ meta[u].parent = why.parent /\ ~(u.at >= t.at))
    <2>1. CASE Drops(w)
      <3>1. q = Picked(subq, after) /\ after \in SUBSET (DOMAIN subq)  BY <2>1 DEF q, after
      <3>2. q \in Seq(Task) /\ ToSet(q) = {subq[i] : i \in after}  BY <1>7, <3>1, PickedIs
      <3>3. ASSUME NEW u \in (ToSet(subq) \cap DOMAIN meta) \ {t}, u \notin ToSet(q)
            PROVE  meta[u].parent = why.parent /\ ~(u.at >= t.at)
        <4>1. PICK i \in DOMAIN subq : u = subq[i]  BY <1>7, <3>3
        <4>2. i \notin after  BY <3>2, <3>3, <4>1
        <4>3. m[u] = meta[u]  BY <3>3, ForgetIs DEF m
        <4> QED BY <4>1, <4>2, <4>3 DEF after
      <3>4. ToSet(q) \subseteq ToSet(subq)  BY <1>7, <3>1, <3>2
      <3> QED BY <2>1, <3>2, <3>3, <3>4
    <2>2. CASE ~Drops(w)
      <3>1. q = subq  BY <2>2 DEF q
      <3> QED BY <1>7, <3>1
    <2> QED BY <2>1, <2>2
  <1>9. new \in Seq(Task) /\ ToSet(new) = SubsOf(w) \cup RestOf(w) \cup ToSet(q)
    <2> DEFINE front == subs \o rest
    <2>1. front \in Seq(Task) /\ ToSet(front) = ToSet(subs) \cup ToSet(rest)  BY <1>5, <1>6, ConcatSet
    <2>2. new = front \o q  BY DEF new
    <2> HIDE DEF front
    <2>3. front \o q \in Seq(Task) /\ ToSet(front \o q) = ToSet(front) \cup ToSet(q)  BY <1>8, <2>1, ConcatSet
    <2> QED BY <1>5, <1>6, <2>1, <2>2, <2>3
  <1>10. DOMAIN m = DOMAIN meta \ {t} /\ \A u \in DOMAIN meta \ {t} : m[u] = meta[u]  BY ForgetIs DEF m
  <1> DEFINE g1 == Give(subs, e1)
             g2 == Give(rest, e2)
             j  == Joined(g2, m)
  <1>11. DOMAIN g1 = SubsOf(w) /\ \A u \in SubsOf(w) : g1[u] = e1  BY <1>6, GiveIs
  <1>12. DOMAIN g2 = RestOf(w) /\ \A u \in RestOf(w) : g2[u] = e2  BY <1>5, GiveIs
  <1>13. m2 = Joined(g1, j)  BY DEF m2
  <1> HIDE DEF g1, g2
  <1>14. /\ DOMAIN j = RestOf(w) \cup (DOMAIN meta \ {t})
         /\ \A u \in RestOf(w) : j[u] = e2
         /\ \A u \in DOMAIN meta \ ({t} \cup RestOf(w)) : j[u] = meta[u]
    <2>1. /\ DOMAIN j = DOMAIN g2 \cup DOMAIN m
          /\ \A u \in DOMAIN g2 : j[u] = g2[u]
          /\ \A u \in DOMAIN m \ DOMAIN g2 : j[u] = m[u]
      BY JoinedIs
    <2> HIDE DEF j
    <2> QED BY <1>10, <1>12, <2>1
  <1> HIDE DEF j
  <1>15. /\ DOMAIN m2 = SubsOf(w) \cup RestOf(w) \cup (DOMAIN meta \ {t})
         /\ \A u \in SubsOf(w) : m2[u] = e1
         /\ \A u \in RestOf(w) \ SubsOf(w) : m2[u] = e2
         /\ \A u \in DOMAIN meta \ ({t} \cup SubsOf(w) \cup RestOf(w)) : m2[u] = meta[u]
    <2> DEFINE k == Joined(g1, j)
    <2>1. /\ DOMAIN k = DOMAIN g1 \cup DOMAIN j
          /\ \A u \in DOMAIN g1 : k[u] = g1[u]
          /\ \A u \in DOMAIN j \ DOMAIN g1 : k[u] = j[u]
      BY JoinedIs
    <2>2. m2 = k  BY <1>13
    <2> HIDE DEF k
    <2> QED BY <1>11, <1>14, <2>1, <2>2
  <1>16. got # {} => last \in Position /\ Final(w, last) /\ e1 = Entry("cut", t, last)
    <2> SUFFICES ASSUME got # {} PROVE last \in Position /\ Final(w, last) /\ e1 = Entry("cut", t, last)
      OBVIOUS
    <2>1. \E r \in got : \A r2 \in got : r2 <= r  BY <1>2, LastOf
    <2>2. last = CHOOSE r \in got : \A r2 \in got : r2 <= r  BY DEF last
    <2>3. last \in got /\ \A r2 \in got : r2 <= last  BY <2>1, <2>2
    <2>4. e1 = Entry("cut", t, last)  BY DEF e1
    <2> QED BY <1>2, <2>3, <2>4 DEF Final, got
  <1>17. got = {} => e1 = Entry("probe", t, 0)  BY DEF e1
  <1>18. \/ Saves(new, m2) /\ Move(w, "settle", "book") /\ lock' = w /\ UNCHANGED <<cur, answer>>
         \/ ~Saves(new, m2) /\ Loop(w) /\ UNCHANGED lock /\ <<t, "unbooked">> \in verdict'
    BY <1>1
  <1>19. verdict \subseteq verdict'  BY <1>1
  <1>20. answer[w].kind = "silent" => <<t, "silent">> \in verdict'  BY <1>1
  <1>21. answer[w].kind = "cut" /\ t.level = Depth => <<t, "skipped">> \in verdict'
    <2> SUFFICES ASSUME answer[w].kind = "cut", t.level = Depth PROVE <<t, "skipped">> \in verdict'
      OBVIOUS
    <2>1. subs = <<>>  BY DEF subs, Subpages
    <2> QED BY <1>1, <2>1
  <1>22. opened' = IF Opens(w) THEN opened \cup {WhyOf(cur[w]).parent} ELSE opened
    BY <1>1, <1>3 DEF why, t
  <1>23. ToSet(new) \subseteq SubsOf(w) \cup RestOf(w) \cup ToSet(subq) /\ SubsOf(w) \cup RestOf(w) \subseteq ToSet(new)
         /\ ToSet(q) \subseteq ToSet(new)
    BY <1>8, <1>9
  <1>24. subq' = new /\ meta' = m2 /\ SavePending(new, inflight', m2)  BY <1>1
  <1>25. /\ RowNos(w) # {} => \E z \in Position : Final(w, z) /\ \A u \in SubsOf(w) : meta'[u] = Entry("cut", cur[w], z)
         /\ RowNos(w) = {} => \A u \in SubsOf(w) : meta'[u] = Entry("probe", cur[w], 0)
         /\ \A u \in RestOf(w) \ SubsOf(w) : meta'[u] = Entry("rest", WhyOf(cur[w]).parent, 0)
    BY <1>15, <1>16, <1>17, <1>24 DEF got, t, e2, why
  <1>26. \A u \in (ToSet(subq) \cap DOMAIN meta) \ {cur[w]} :
           u \in ToSet(subq') \/ (Drops(w) /\ meta[u].parent = WhyOf(cur[w]).parent /\ ~(u.at >= cur[w].at))
    BY <1>8, <1>23, <1>24 DEF t, why
  <1>27. /\ DOMAIN meta' = SubsOf(w) \cup RestOf(w) \cup (DOMAIN meta \ {cur[w]})
         /\ \A u \in DOMAIN meta \ ({cur[w]} \cup SubsOf(w) \cup RestOf(w)) : meta'[u] = meta[u]
         /\ SavePending(subq', inflight', meta')
    BY <1>15, <1>24 DEF t
  <1>28. \/ Saves(subq', meta') /\ Move(w, "settle", "book") /\ lock' = w /\ UNCHANGED <<cur, answer>>
         \/ ~Saves(subq', meta') /\ Loop(w) /\ UNCHANGED lock /\ <<cur[w], "unbooked">> \in verdict'
    BY <1>18, <1>24 DEF t
  <1> QED BY <1>9, <1>19, <1>20, <1>21, <1>22, <1>23, <1>24, <1>25, <1>26, <1>27, <1>28 DEF t

LEMMA CoverLess ==
  ASSUME NEW v, v.owed \subseteq Task, NEW y, NEW l \in Nat, NEW k \in Nat, k <= l, Covered(v, y, l)
  PROVE  Covered(v, y, k)
  <1>1. CASE y \in v.safe
    BY <1>1 DEF Covered
  <1>2. CASE y \notin v.safe
    <2>1. PICK t \in v.owed : t.level > l /\ y \in RowsOf(v.rows, t)  BY <1>2 DEF Covered
    <2>2. t.level > k  BY <2>1, TaskFields
    <2> QED BY <2>1, <2>2 DEF Covered
  <1> QED BY <1>1, <1>2

\* The answer that is booked, and the subpages owed for it.
LEMMA SubsFacts ==
  ASSUME WalkInv, NEW w \in Worker, Settle(w)
  PROVE  /\ answer[w].kind \in {"complete", "cut", "silent"}
         /\ answer[w].kind = "complete" => SubsOf(w) = {} /\ answer[w].rows = Asked(cur[w])
         /\ answer[w].kind = "cut" => /\ RowNos(w) # {}
                                      /\ cur[w].level < Depth => SubsOf(w) = {Child(cur[w], k) : k \in 0..(Width - 1)}
                                      /\ ~(cur[w].level < Depth) => SubsOf(w) = {}
         /\ answer[w].kind = "silent" => /\ RowNos(w) = {}
                                         /\ cur[w].level > 0 => SubsOf(w) = {}
                                         /\ cur[w].level = 0 => cur[w] = Whole(cur[w].page) /\ SubsOf(w) = Probes(cur[w].page)
         /\ \A u \in SubsOf(w) : cur[w].level < Depth /\ \E k \in 0..(Width - 1) : u = Child(cur[w], k)
         /\ \A r \in answer[w].rows : r[2] \in RowNos(w)
         /\ \A n \in RowNos(w) : \E r \in answer[w].rows : r[2] = n
  <1> DEFINE t == cur[w]
             a == answer[w]
  <1>1. t \in Task /\ AnswerFits(w) /\ Booked(t, a)  BY SettleShared
  <1>2. a.kind \in {"complete", "cut", "silent"}  BY <1>1 DEF Booked
  <1>3. /\ \A r \in a.rows : r[2] \in RowNos(w)
        /\ \A n \in RowNos(w) : \E r \in a.rows : r[2] = n
    BY DEF RowNos
  <1>4. /\ a.kind = "complete" => a.rows = Asked(t)
        /\ a.kind = "cut" => RowNos(w) # {}
        /\ a.kind = "silent" => RowNos(w) = {}
    <2>1. a.kind = "cut" => a.rows # {}  BY <1>1 DEF AnswerFits
    <2>2. a.kind = "silent" => a.rows = {}
      <3>1. a.kind = "silent" => a.kind \notin {"complete", "cut"}  OBVIOUS
      <3> QED BY <1>1, <3>1 DEF AnswerFits
    <2> QED BY <1>1, <1>3, <2>1, <2>2 DEF AnswerFits
  <1>5. t.level \in 0..Depth /\ t.level \in Nat /\ Depth \in Nat /\ Depth > 0 /\ t.page \in Page
    BY <1>1, TaskFields, SpanIs
  <1> HIDE DEF t, a
  <1>6. a.kind = "complete" => SubsOf(w) = {}  BY DEF SubsOf, a
  <1>7. ASSUME a.kind = "cut"
        PROVE  /\ t.level < Depth => SubsOf(w) = {Child(t, k) : k \in 0..(Width - 1)}
               /\ ~(t.level < Depth) => SubsOf(w) = {}
    <2>1. RowNos(w) # {} /\ SubsOf(w) = ToSet(Subpages(t, RowNos(w) # {}))  BY <1>4, <1>7 DEF SubsOf, a, t
    <2>2. (RowNos(w) # {}) = TRUE  BY <2>1
    <2>3. SubsOf(w) = ToSet(Subpages(t, TRUE))  BY <2>1, <2>2
    <2>4. ~(t.level < Depth) => t.level = Depth  BY <1>5
    <2> QED BY <1>1, <2>3, <2>4, SubsAre
  <1>8. ASSUME a.kind = "silent"
        PROVE  /\ t.level > 0 => SubsOf(w) = {}
               /\ t.level = 0 => t = Whole(t.page) /\ SubsOf(w) = Probes(t.page)
    <2>1. RowNos(w) = {} /\ SubsOf(w) = ToSet(Subpages(t, RowNos(w) # {}))  BY <1>4, <1>8 DEF SubsOf, a, t
    <2>2. (RowNos(w) # {}) = FALSE  BY <2>1
    <2>3. SubsOf(w) = ToSet(Subpages(t, FALSE))  BY <2>1, <2>2
    <2>4. t.level > 0 => SubsOf(w) = {}  BY <1>1, <2>3, SubsAre
    <2>5. t.level = 0 => t = Whole(t.page)  BY <1>1, OfLevelZero
    <2>6. t = Whole(t.page) => SubsOf(w) = Probes(t.page)  BY <2>3 DEF Probes
    <2> QED BY <2>4, <2>5, <2>6
  <1>9. \A u \in SubsOf(w) : t.level < Depth /\ \E k \in 0..(Width - 1) : u = Child(t, k)
    <2> SUFFICES ASSUME NEW u \in SubsOf(w) PROVE t.level < Depth /\ \E k \in 0..(Width - 1) : u = Child(t, k)
      OBVIOUS
    <2>1. CASE a.kind = "complete"
      BY <1>6, <2>1
    <2>2. CASE a.kind = "cut"
      BY <1>7, <2>2
    <2>3. CASE a.kind = "silent"
      <3>1. ~(t.level > 0)  BY <1>8, <2>3
      <3>2. t.level = 0 /\ t = Whole(t.page) /\ SubsOf(w) = Probes(t.page)  BY <1>5, <1>8, <2>3, <3>1
      <3>3. \E k \in 0..(Width - 1) : u = Child(Whole(t.page), k)  BY <1>5, <3>2, OfWhole
      <3> QED BY <1>5, <3>2, <3>3
    <2> QED BY <1>2, <2>1, <2>2, <2>3 DEF a
  <1> QED BY <1>2, <1>3, <1>4, <1>6, <1>7, <1>8, <1>9 DEF t, a

\* What a booking leaves memory owing.
LEMMA SettleMemory ==
  ASSUME WalkInv, NEW w \in Worker, Settle(w), ~EndsEarly(w)
  PROVE  /\ WalkMemory' /\ Booking' \subseteq {cur[w]} /\ InHand' \subseteq InHand
         /\ Saves(subq', meta') => InHand' = InHand /\ WalkHands'
         /\ DOMAIN meta' \subseteq {u \in Task : u.level > 0} /\ Range(meta') \subseteq Meta
         /\ opened' \subseteq {Whole(p) : p \in Page}
         /\ Safe \subseteq Safe' /\ Let("silent") \subseteq Let("silent")' /\ (NoneEnded' => NoneEnded /\ Saves(subq', meta'))
  <1> DEFINE t    == cur[w]
             why  == WhyOf(t)
             kind == answer[w].kind
             v    == InMemory
             x    == InMemory'
             S    == SubsOf(w)
             R    == RestOf(w)
  <1>1. /\ WalkTyped /\ WalkMemory /\ WalkDisk /\ WalkHands /\ WalkLocked
        /\ walkStep[w] = "settle" /\ lock = None
        /\ inflight' = inflight \ {t}
        /\ UNCHANGED <<index, journaled, done, pages, fails, bounds>>
        /\ t \in Task /\ t \in InHand /\ t \in Known /\ AnswerFits(w)
        /\ Through = done /\ \A u \in Worker : walkStep[u] # "book" /\ u # None
        /\ Asked(t) = RowsOf(index, t)
    BY SettleShared
  <1>2. /\ subq' \in Seq(Task) /\ S \cup R \subseteq ToSet(subq')
        /\ ToSet(subq') \subseteq S \cup R \cup ToSet(subq)
        /\ \A u \in (ToSet(subq) \cap DOMAIN meta) \ {t} :
             u \in ToSet(subq') \/ (Drops(w) /\ meta[u].parent = why.parent /\ ~(u.at >= t.at))
        /\ DOMAIN meta' = S \cup R \cup (DOMAIN meta \ {t})
        /\ RowNos(w) # {} => \E last \in Position : Final(w, last) /\ \A u \in S : meta'[u] = Entry("cut", t, last)
        /\ RowNos(w) = {} => \A u \in S : meta'[u] = Entry("probe", t, 0)
        /\ \A u \in R \ S : meta'[u] = Entry("rest", why.parent, 0)
        /\ \A u \in DOMAIN meta \ ({t} \cup S \cup R) : meta'[u] = meta[u]
        /\ opened' = IF Opens(w) THEN opened \cup {why.parent} ELSE opened
        /\ \/ Saves(subq', meta') /\ Move(w, "settle", "book") /\ lock' = w /\ UNCHANGED <<cur, answer>>
           \/ ~Saves(subq', meta') /\ Loop(w) /\ UNCHANGED lock /\ <<t, "unbooked">> \in verdict'
        /\ verdict \subseteq verdict'
        /\ kind = "silent" => <<t, "silent">> \in verdict'
        /\ kind = "cut" /\ t.level = Depth => <<t, "skipped">> \in verdict'
    BY SettleSets
  <1>3. /\ kind \in {"complete", "cut", "silent"}
        /\ kind = "complete" => S = {} /\ answer[w].rows = Asked(t)
        /\ kind = "cut" => /\ RowNos(w) # {}
                           /\ t.level < Depth => S = {Child(t, k) : k \in 0..(Width - 1)}
                           /\ ~(t.level < Depth) => S = {}
        /\ kind = "silent" => /\ RowNos(w) = {}
                              /\ t.level > 0 => S = {}
                              /\ t.level = 0 => t = Whole(t.page) /\ S = Probes(t.page)
        /\ \A u \in S : t.level < Depth /\ \E k \in 0..(Width - 1) : u = Child(t, k)
        /\ \A r \in answer[w].rows : r[2] \in RowNos(w)
        /\ \A n \in RowNos(w) : \E r \in answer[w].rows : r[2] = n
    BY SubsFacts
  <1>4. /\ t \in DOMAIN meta => why = meta[t] /\ why \in Meta /\ Reasoned(v, t, why) /\ t.level > 0
        /\ t \notin DOMAIN meta => why = Entry("rest", t, 0)
        /\ index \in [Page -> SUBSET Position] /\ DOMAIN meta \subseteq {u \in Task : u.level > 0} /\ Range(meta) \subseteq Meta
        /\ opened \subseteq {Whole(p) : p \in Page}
    BY <1>1 DEF WhyOf, WalkTyped, WalkTypeOK, WalkMemory, Range
  <1>5. /\ answer[w].rows \subseteq journaled /\ answer[w].rows \subseteq Asked(t)
        /\ \A z \in answer[w].rows : \A y \in Asked(t) : y[2] <= z[2] => y \in answer[w].rows
    BY <1>1 DEF AnswerFits
  <1>6. Opens(w) => why.role = "probe" /\ RowNos(w) # {} /\ R = Others(t.page)
    BY DEF Opens, RestOf
  <1>7. ~Opens(w) => R = {} /\ (why.role = "probe" /\ RowNos(w) # {} => why.parent \in opened)
    BY DEF Opens, RestOf
  <1> HIDE DEF t, why, kind, v, x, S, R
  <1>8. Opens(w) => t \in DOMAIN meta /\ why.parent = Whole(t.page) /\ t \in Probes(t.page) /\ t.page \in Page
    <2>1. Opens(w) => t \in DOMAIN meta  BY <1>4, <1>6 DEF Entry
    <2> QED BY <1>1, <1>4, <1>6, <2>1, TaskFields DEF Reasoned
  <1>9. t.level \in 0..Depth /\ t.level \in Nat /\ Depth \in Nat /\ Depth > 0 /\ t.page \in Page
    BY <1>1, TaskFields, SpanIs
  <1>10. \A u \in S : u \in Task /\ u.level = t.level + 1 /\ u # t /\ u.level > 0
    <2> TAKE u \in S
    <2>1. PICK k \in 0..(Width - 1) : u = Child(t, k)  BY <1>3
    <2>2. u \in Task /\ u.level = t.level + 1  BY <1>1, <1>3, <2>1, ChildIs
    <2> QED BY <1>9, <2>2
  <1>11. \A u \in R : u \in Task /\ u.level = 1 /\ t.level = 1 /\ u # t /\ u.page = t.page /\ Opens(w)
    <2> TAKE u \in R
    <2>1. Opens(w) /\ u \in Others(t.page)  BY <1>6, <1>7
    <2>2. t \in Probes(t.page) /\ t.page \in Page  BY <1>8, <2>1
    <2>3. u \notin Probes(t.page)  BY <2>1 DEF Others
    <2> QED BY <2>1, <2>2, <2>3, OfWhole
  <1>12. /\ Booking' \subseteq {t} /\ done' = done /\ Through' \subseteq done \cup {t} /\ done \subseteq Through'
         /\ InHand' \subseteq InHand /\ (Saves(subq', meta') => InHand' = InHand /\ WalkHands')
    <2>1. walkStep \in [Worker -> {"idle", "ask", "settle", "book", "gone"}]  BY <1>1 DEF WalkTyped, WalkTypeOK
    <2>2. CASE Saves(subq', meta')
      <3>1. walkStep' = [walkStep EXCEPT ![w] = "book"] /\ UNCHANGED <<cur, answer>>  BY <1>2, <2>2 DEF Move
      <3>2. \A u \in Worker : walkStep'[u] = IF u = w THEN "book" ELSE walkStep[u]  BY <2>1, <3>1
      <3>3. Booking' = {cur[w]}
        <4>1. {u \in Worker : walkStep'[u] = "book"} = {w}  BY <1>1, <3>2
        <4> QED BY <3>1, <4>1 DEF Booking
      <3>4. Working' = Working  BY <1>1, <3>2 DEF Working
      <3>5. InHand' = InHand  BY <3>1, <3>4 DEF InHand
      <3>6. WalkHands'
        <4>1. \A u \in Working' : cur'[u] \in Task  BY <1>1, <3>1, <3>4 DEF WalkHands
        <4>2. ASSUME NEW u \in Worker, walkStep'[u] = "settle" PROVE AnswerFits(u)'
          <5>1. walkStep[u] = "settle"  BY <3>2, <4>2
          <5>2. AnswerFits(u)  BY <1>1, <5>1 DEF WalkHands
          <5>3. Asked(cur[u])' = Asked(cur[u])  BY <1>1, <3>1 DEF Asked, Within
          <5> QED BY <1>1, <3>1, <5>2, <5>3 DEF AnswerFits
        <4> QED BY <4>1, <4>2 DEF WalkHands
      <3> QED BY <1>1, <3>3, <3>5, <3>6 DEF t, Through
    <2>3. CASE ~Saves(subq', meta')
      <3>1. Loop(w)  BY <1>2, <2>3
      <3>2. walkStep'[w] = "idle" /\ (\A u \in Worker : u # w => walkStep'[u] = walkStep[u]) /\ InHand' \subseteq InHand
        BY <1>1, <3>1, Looped
      <3>3. Booking' = {}  BY <1>1, <3>2 DEF Booking
      <3> QED BY <1>1, <2>3, <3>2, <3>3 DEF Through
    <2> QED BY <2>2, <2>3
  <1>13. /\ Safe \subseteq Safe' /\ \A reason : Let(reason) \subseteq Let(reason)'
         /\ NoneEnded' => NoneEnded /\ Saves(subq', meta')
    <2>1. /\ Safe \subseteq Safe' /\ \A reason : Let(reason) \subseteq Let(reason)'
          /\ NoneEnded' => NoneEnded
      BY <1>1, <1>2, SafeGrows
    <2>2. ~Saves(subq', meta') => t \in Let("unbooked")'
      <3>1. <<t, "unbooked">>[1] = t /\ <<t, "unbooked">>[2] = "unbooked"  OBVIOUS
      <3> QED BY <1>2, <3>1 DEF Let
    <2> QED BY <2>1, <2>2 DEF NoneEnded
  <1>14. kind = "silent" => t \in Let("silent")'
    <2>1. <<t, "silent">>[1] = t /\ <<t, "silent">>[2] = "silent"  OBVIOUS
    <2> QED BY <1>2, <2>1 DEF Let
  <1>15. t.level > 0 /\ (kind = "silent" \/ (kind = "cut" /\ t.level = Depth)) => RowsOf(index, t) \subseteq Safe'
    <2>1. t.level > 0 /\ kind = "silent" => RowsOf(index', t) \subseteq Safe'  BY <1>2, LetGo
    <2>2. t.level > 0 /\ kind = "cut" /\ t.level = Depth => RowsOf(index', t) \subseteq Safe'  BY <1>2, LetGo
    <2> QED BY <1>1, <2>1, <2>2
  <1>16. /\ v.rows = index /\ v.safe = Safe /\ v.mute = Let("silent") /\ v.owed = Asking \ done
         /\ x.rows = index /\ x.safe = Safe' /\ x.mute = Let("silent")' /\ x.owed = Asking' \ Through'
    BY <1>1 DEF v, x, InMemory
  <1>17. Asking \subseteq Task /\ Asking' \subseteq Task /\ t \notin Asking' /\ S \cup R \subseteq Asking'
    <2>1. DOMAIN meta' \subseteq Task  BY <1>2, <1>4, <1>10, <1>11
    <2>2. t \notin DOMAIN meta'  BY <1>2, <1>10, <1>11
    <2> QED BY <1>1, <1>2, <2>1, <2>2, HandsTyped DEF Asking
  <1>18. \A u \in v.owed \ {t} : u \in x.owed \/ RowsOf(index, u) \subseteq Safe
    <2> SUFFICES ASSUME NEW u \in v.owed, u # t, u \notin x.owed PROVE RowsOf(index, u) \subseteq Safe
      OBVIOUS
    <2>1. u \in Asking /\ u \notin done /\ u \notin Asking' /\ u \in Task  BY <1>12, <1>16, <1>17
    <2>2. u \in DOMAIN meta /\ u \in DOMAIN meta'  BY <1>2, <2>1 DEF Asking
    <2>3. u \in ToSet(subq) /\ u \notin ToSet(subq')  BY <1>1, <2>1, <2>2 DEF Asking
    <2>4. Drops(w) /\ meta[u].parent = why.parent /\ ~(u.at >= t.at)  BY <1>2, <2>2, <2>3
    <2>5. PICK n \in RowNos(w) : why.role = "cut" /\ n < why.stop  BY <2>4 DEF Drops, why, t
    <2>6. PICK y \in answer[w].rows : y[2] = n  BY <1>3
    <2>7. t \in DOMAIN meta /\ why \in Meta /\ Reasoned(v, t, why)  BY <1>4, <2>5 DEF Entry
    <2>8. meta[u] \in Meta /\ Reasoned(v, u, meta[u])  BY <1>1, <1>4, <2>2 DEF WalkMemory, Range, v
    <2>9. u.at < t.at  BY <1>1, <2>1, <2>4, TaskFields
    <2>10. y \in RowsOf(v.rows, t) /\ y[2] < why.stop  BY <1>1, <1>5, <1>16, <2>5, <2>6
    <2>11. v.rows \in [Page -> SUBSET Position]  BY <1>4, <1>16
    <2>12. RowsOf(v.rows, u) \subseteq v.safe
      BY <1>1, <2>1, <2>4, <2>5, <2>7, <2>8, <2>9, <2>10, <2>11, LowerSafe
    <2> QED BY <1>16, <2>12
  <1>19. \A y : \A l \in Nat : l >= t.level /\ Covered(v, y, l) => Covered(x, y, l)
    <2> SUFFICES ASSUME NEW y, NEW l \in Nat, l >= t.level, Covered(v, y, l) PROVE Covered(x, y, l)
      OBVIOUS
    <2>1. CASE y \in v.safe
      BY <1>13, <1>16, <2>1 DEF Covered
    <2>2. CASE y \notin v.safe
      <3>1. PICK u \in v.owed : u.level > l /\ y \in RowsOf(v.rows, u)  BY <2>2 DEF Covered
      <3>2. u # t  BY <1>9, <3>1
      <3>3. u \in x.owed \/ y \in x.safe  BY <1>13, <1>16, <1>18, <3>1, <3>2
      <3> QED BY <1>16, <3>1, <3>3 DEF Covered
    <2> QED BY <2>1, <2>2
  <1>20. \A c \in S \cup R : \A y \in RowsOf(index, c) : \A l \in Nat : l < c.level => Covered(x, y, l)
    <2> SUFFICES ASSUME NEW c \in S \cup R, NEW y \in RowsOf(index, c), NEW l \in Nat, l < c.level
                 PROVE  Covered(x, y, l)
      OBVIOUS
    <2>1. c \in Task /\ c # t /\ c.level > 0 /\ c.level >= t.level /\ c.level \in Nat  BY <1>9, <1>10, <1>11, TaskFields
    <2>2. CASE c \in done
      <3>1. Settled(v, c)  BY <1>1, <2>1, <2>2 DEF WalkMemory, AllBooked, v
      <3>2. Covered(v, y, c.level)  BY <1>16, <3>1 DEF Settled
      <3>3. Covered(x, y, c.level)  BY <1>19, <2>1, <3>2
      <3>4. x.owed \subseteq Task /\ l <= c.level  BY <1>16, <1>17, <2>1
      <3> QED BY <2>1, <3>3, <3>4, CoverLess
    <2>3. CASE c \notin done
      <3>1. c \in x.owed  BY <1>12, <1>16, <1>17, <2>1, <2>3
      <3> QED BY <1>16, <3>1 DEF Covered
    <2> QED BY <2>2, <2>3
  <1>21. \A y \in RowsOf(index, t) : Covered(x, y, t.level) \/ (kind = "silent" /\ t.level = 0)
    <2> SUFFICES ASSUME NEW y \in RowsOf(index, t), ~(kind = "silent" /\ t.level = 0) PROVE Covered(x, y, t.level)
      OBVIOUS
    <2>1. CASE kind = "complete"
      <3>1. y \in answer[w].rows  BY <1>1, <1>3, <2>1
      <3>2. y \in Safe'  BY <1>5, <1>13, <3>1 DEF Safe
      <3> QED BY <1>16, <3>2 DEF Covered
    <2>2. CASE kind = "cut" /\ t.level < Depth
      <3>1. PICK k \in 0..(Width - 1) : y \in RowsOf(index, Child(t, k))  BY <1>1, <1>4, <2>2, ChildCover
      <3>2. Child(t, k) \in S  BY <1>3, <2>2
      <3>3. t.level < Child(t, k).level  BY <1>9, <1>10, <3>2
      <3> QED BY <1>9, <1>20, <3>1, <3>2, <3>3
    <2>3. CASE t.level > 0 /\ (kind = "silent" \/ (kind = "cut" /\ t.level = Depth))
      <3>1. y \in Safe'  BY <1>15, <2>3
      <3> QED BY <1>16, <3>1 DEF Covered
    <2> QED BY <1>3, <1>9, <2>1, <2>2, <2>3
  <1>22. Keeps(v, x)
    <2>1. ASSUME NEW u \in v.owed, u \notin x.owed PROVE \A y \in RowsOf(x.rows, u) : Covered(x, y, u.level)
      <3>1. CASE u = t
        <4>1. t.level > 0  BY <1>4, <1>16, <3>1 DEF Asking
        <4> QED BY <1>9, <1>16, <1>21, <3>1, <4>1
      <3>2. CASE u # t
        <4>1. RowsOf(index, u) \subseteq Safe  BY <1>18, <2>1, <3>2
        <4> QED BY <1>13, <1>16, <4>1 DEF Covered
      <3> QED BY <3>1, <3>2
    <2>2. v.rows = x.rows /\ v.safe \subseteq x.safe /\ v.mute \subseteq x.mute /\ v.owed \subseteq Task /\ x.owed \subseteq Task
      BY <1>13, <1>16, <1>17
    <2> QED BY <2>1, <2>2, KeepsBy
  <1>23. Opens(w) => OthersAre(x, t.page)
    <2> SUFFICES ASSUME Opens(w), NEW u \in Others(t.page), NEW y \in RowsOf(x.rows, u) PROVE Covered(x, y, 0)
      BY DEF OthersAre
    <2>1. u \in R  BY <1>6
    <2>2. 0 < u.level  BY <1>11, <2>1
    <2> QED BY <1>16, <1>20, <2>1, <2>2
  <1>24. t.level > 0 => Settled(x, t)
    <2> SUFFICES ASSUME t.level > 0 PROVE Settled(x, t)
      OBVIOUS
    <2>1. \A y \in RowsOf(x.rows, t) : Covered(x, y, t.level)  BY <1>16, <1>21
    <2>2. ASSUME NEW p \in Page, t \in Probes(p), t \notin x.mute, RowsOf(x.rows, t) # {} PROVE OthersAre(x, p)
      <3>1. t.page = p  BY <2>2, OfWhole
      <3>2. CASE t \in DOMAIN meta
        <4>1. why \in Meta /\ Reasoned(v, t, why) /\ why = meta[t]  BY <1>4, <3>2
        <4>2. v.rows \in [Page -> SUBSET Position]  BY <1>4, <1>16
        <4>3. CASE why.role # "probe"
          <5>1. OthersAre(v, p)  BY <2>2, <4>1, <4>2, <4>3, ProbeReason
          <5> QED BY <1>22, <5>1, Stays
        <4>4. CASE why.role = "probe"
          <5>1. kind # "silent"  BY <1>14, <1>16, <2>2
          <5>2. RowNos(w) # {}
            <6>1. kind = "complete" => answer[w].rows # {}  BY <1>1, <1>3, <1>16, <2>2
            <6> QED BY <1>3, <5>1, <6>1
          <5>3. CASE Opens(w)
            BY <1>23, <3>1, <5>3
          <5>4. CASE ~Opens(w)
            <6>1. why.parent \in opened /\ why.parent = Whole(p)  BY <1>7, <3>1, <4>1, <4>4, <5>2, <5>4 DEF Reasoned
            <6>2. OthersAre(v, p)  BY <1>1, <6>1 DEF WalkMemory, v
            <6> QED BY <1>22, <6>2, Stays
          <5> QED BY <5>3, <5>4
        <4> QED BY <4>3, <4>4
      <3>3. CASE t \notin DOMAIN meta
        <4>1. Settled(v, t)  BY <1>1, <3>3 DEF WalkMemory, v
        <4>2. Settled(x, t)  BY <1>1, <1>22, <4>1, Stays
        <4> QED BY <2>2, <4>2 DEF Settled
      <3> QED BY <3>2, <3>3
    <2> QED BY <2>1, <2>2 DEF Settled
  <1>25. ASSUME NEW p \in Page, t = Whole(p) PROVE SplitUp(x, p)
    <2>0. t.level = 0 /\ t.page = p  BY <1>25, WholeIs
    <2> SUFFICES ASSUME NEW y \in RowsOf(index, t), ~Covered(x, y, 0)
                 PROVE  Whole(p) \in x.mute /\ \E u \in Others(p) : y \in RowsOf(x.rows, u)
      BY <1>16, <1>25 DEF SplitUp
    <2>1. kind = "silent"  BY <1>21, <2>0
    <2>2. Whole(p) \in x.mute  BY <1>14, <1>16, <1>25, <2>1
    <2>3. S = Probes(p)  BY <1>3, <2>0, <2>1
    <2>4. PICK k \in 0..(Width - 1) : y \in RowsOf(index, Child(t, k))  BY <1>1, <1>4, <1>9, <2>0, ChildCover
    <2>5. Child(t, k) \notin S
      <3>1. ASSUME Child(t, k) \in S PROVE Covered(x, y, 0)
        <4>1. 0 < Child(t, k).level  BY <1>10, <3>1
        <4> QED BY <1>20, <2>4, <3>1, <4>1
      <3> QED BY <3>1
    <2>6. Child(t, k) \in Others(p)  BY <1>25, <2>3, <2>5 DEF Others
    <2> QED BY <1>16, <2>2, <2>4, <2>6
  <1>26. \A u \in S : meta'[u] \in Meta /\ Reasoned(x, u, meta'[u])
    <2> SUFFICES ASSUME NEW u \in S PROVE meta'[u] \in Meta /\ Reasoned(x, u, meta'[u])
      OBVIOUS
    <2>1. t.level < Depth /\ \E k \in 0..(Width - 1) : u = Child(t, k)  BY <1>3
    <2>2. CASE RowNos(w) # {}
      <3>1. PICK last \in Position : Final(w, last) /\ meta'[u] = Entry("cut", t, last)  BY <1>2, <2>2
      <3>2. meta'[u] = [role |-> "cut", parent |-> t, stop |-> last]  BY <3>1 DEF Entry
      <3>3. meta'[u] \in Meta  BY <1>1, <3>2 DEF Meta, Role
      <3>4. ASSUME NEW y \in RowsOf(x.rows, t)
            PROVE  Covered(x, y, t.level) /\ (y[2] <= last => y \in x.safe)
        <4>1. kind # "silent"  BY <1>3, <2>2
        <4>2. Covered(x, y, t.level)  BY <1>16, <1>21, <4>1
        <4>3. last \in RowNos(w)  BY <3>1 DEF Final
        <4>4. PICK z \in answer[w].rows : z[2] = last  BY <1>3, <4>3
        <4>5. y[2] <= last => y \in answer[w].rows  BY <1>1, <1>5, <1>16, <4>4
        <4>6. y[2] <= last => y \in Safe'  BY <1>5, <1>13, <4>5 DEF Safe
        <4> QED BY <1>16, <4>2, <4>6
      <3>5. meta'[u].role = "cut" /\ meta'[u].parent = t /\ meta'[u].stop = last  BY <3>2
      <3>6. Reasoned(x, u, meta'[u])  BY <2>1, <3>4, <3>5 DEF Reasoned
      <3> QED BY <3>3, <3>6
    <2>3. CASE RowNos(w) = {}
      <3>1. meta'[u] = [role |-> "probe", parent |-> t, stop |-> 0]  BY <1>2, <2>3 DEF Entry
      <3>2. kind = "silent" /\ ~(t.level > 0)  BY <1>3, <2>3
      <3>3. t = Whole(t.page) /\ u \in Probes(t.page)  BY <1>3, <1>9, <3>2
      <3>4. u.page = t.page  BY <1>9, <3>3, OfWhole
      <3>5. 0 \in Position
        <4>1. 0 \in 0..Depth  BY <1>9
        <4> QED BY <4>1, SpanIs DEF Position
      <3>6. meta'[u] \in Meta  BY <1>1, <3>1, <3>5 DEF Meta, Role
      <3>7. meta'[u].role = "probe" /\ meta'[u].parent = t  BY <3>1
      <3>8. Reasoned(x, u, meta'[u])  BY <2>1, <3>3, <3>4, <3>7 DEF Reasoned
      <3> QED BY <3>6, <3>8
    <2> QED BY <2>2, <2>3
  <1>27. \A u \in R \ S : meta'[u] \in Meta /\ Reasoned(x, u, meta'[u])
    <2> SUFFICES ASSUME NEW u \in R \ S PROVE meta'[u] \in Meta /\ Reasoned(x, u, meta'[u])
      OBVIOUS
    <2>1. Opens(w) /\ u.page = t.page /\ u \in Others(t.page)  BY <1>6, <1>11
    <2>2. why.parent = Whole(t.page) /\ Whole(t.page) \in Task /\ Whole(t.page).level = 0  BY <1>8, <2>1, WholeIs
    <2>3. meta'[u] = [role |-> "rest", parent |-> Whole(t.page), stop |-> 0]  BY <1>2, <2>2 DEF Entry
    <2>4. 0 \in Position
      <3>1. 0 \in 0..Depth  BY <1>9
      <3> QED BY <3>1, SpanIs DEF Position
    <2>5. meta'[u] \in Meta  BY <2>2, <2>3, <2>4 DEF Meta, Role
    <2>6. \E k \in 0..(Width - 1) : u = Child(Whole(t.page), k)  BY <2>1 DEF Others
    <2>7. meta'[u].role = "rest" /\ meta'[u].parent = Whole(t.page)  BY <2>3
    <2>8. Reasoned(x, u, meta'[u])  BY <1>9, <1>23, <2>1, <2>2, <2>6, <2>7 DEF Reasoned
    <2> QED BY <2>5, <2>8
  <1>28. /\ DOMAIN meta' \subseteq {u \in Task : u.level > 0} /\ Range(meta') \subseteq Meta
         /\ \A u \in DOMAIN meta' : (u \in DOMAIN meta /\ meta'[u] = meta[u]) \/ Reasoned(x, u, meta'[u])
    <2>1. \A u \in R : u.level > 0  BY <1>11
    <2>2. DOMAIN meta' \subseteq {u \in Task : u.level > 0}  BY <1>2, <1>4, <1>10, <1>11, <2>1
    <2>3. \A u \in DOMAIN meta' : u \in S \/ u \in R \ S \/ (u \in DOMAIN meta /\ meta'[u] = meta[u])  BY <1>2
    <2>4. \A u \in DOMAIN meta' : meta'[u] \in Meta  BY <1>4, <1>26, <1>27, <2>3 DEF Range
    <2> QED BY <1>26, <1>27, <2>2, <2>3, <2>4 DEF Range
  <1>29. \A p \in Page : Whole(p) \in opened' => Whole(p) \in opened \/ OthersAre(x, p)
    <2> SUFFICES ASSUME NEW p \in Page, Whole(p) \in opened', Whole(p) \notin opened PROVE OthersAre(x, p)
      OBVIOUS
    <2>1. Opens(w) /\ Whole(p) = Whole(t.page)  BY <1>2, <1>8
    <2>2. p = t.page  BY <1>9, <2>1, WholeIs
    <2> QED BY <1>23, <2>1, <2>2
  <1>30. opened' \subseteq {Whole(p) : p \in Page}  BY <1>2, <1>4, <1>8, <1>9
  <1>31. \A u \in Known' \ DOMAIN meta' : u \in Known \ DOMAIN meta \/ u = t
    <2>1. Known' \subseteq S \cup R \cup Known  BY <1>1, <1>2, <1>12 DEF Known
    <2> QED BY <1>2, <2>1
  <1>32. \A u \in Through' : \/ u \in Through
                             \/ /\ u.level > 0 => Settled(x, u)
                                /\ \A p \in Page : u = Whole(p) => SplitUp(x, p)
    BY <1>1, <1>12, <1>24, <1>25
  <1>33. WalkMemory'
    <2>1. Keeps(InMemory, InMemory') /\ Through \subseteq Task /\ Known \subseteq Task
      BY <1>1, <1>22, HandsTyped DEF v, x
    <2>2. \A u \in DOMAIN meta' : (u \in DOMAIN meta /\ meta'[u] = meta[u]) \/ Reasoned(InMemory', u, meta'[u])
      BY <1>28 DEF x
    <2>3. \A p \in Page : Whole(p) \in opened' => Whole(p) \in opened \/ OthersAre(InMemory', p)
      BY <1>29 DEF x
    <2>4. \A u \in Through' : \/ u \in Through
                              \/ /\ u.level > 0 => Settled(InMemory', u)
                                 /\ \A p \in Page : u = Whole(p) => SplitUp(InMemory', p)
      BY <1>32 DEF x
    <2>5. \A u \in Known' \ DOMAIN meta' : u.level > 0 => \/ u \in Task /\ u \in Known \ DOMAIN meta
                                                          \/ u \in Through
                                                          \/ Settled(InMemory', u)
      BY <1>24, <1>31, <2>1 DEF x
    <2> QED BY <1>1, <2>1, <2>2, <2>3, <2>4, <2>5, MemoryKept
  <1>34. Booking' \subseteq {cur[w]}  BY <1>12 DEF t
  <1> QED BY <1>12, <1>13, <1>28, <1>30, <1>33, <1>34

LEMMA SettleStep ==
  ASSUME WalkInv, NEW w \in Worker, Settle(w) PROVE WalkInv'
  <1>1. CASE EndsEarly(w)
    BY <1>1, SettleEnded
  <1>2. CASE ~EndsEarly(w)
    <2>1. /\ WalkTyped /\ WalkMemory /\ WalkDisk /\ WalkHands /\ WalkLocked /\ WalkExit
          /\ lock = None /\ UNCHANGED <<index, journaled, done, pages, fails, bounds>>
          /\ \A u \in Worker : walkStep[u] # "book" /\ u # None
          /\ IsFiniteSet(inflight') /\ inflight' \subseteq Task /\ AnswerFits(w)
      BY SettleShared
    <2>2. /\ subq' \in Seq(Task) /\ SavePending(subq', inflight', meta')
          /\ \/ Saves(subq', meta') /\ Move(w, "settle", "book") /\ lock' = w /\ UNCHANGED <<cur, answer>>
             \/ ~Saves(subq', meta') /\ Loop(w) /\ UNCHANGED lock
          /\ verdict \subseteq verdict'
      BY <1>2, SettleSets
    <2>3. /\ WalkMemory' /\ InHand' \subseteq InHand
          /\ Saves(subq', meta') => InHand' = InHand /\ WalkHands'
          /\ DOMAIN meta' \subseteq {u \in Task : u.level > 0} /\ Range(meta') \subseteq Meta
          /\ opened' \subseteq {Whole(p) : p \in Page}
          /\ Safe \subseteq Safe' /\ Let("silent") \subseteq Let("silent")' /\ (NoneEnded' => NoneEnded /\ Saves(subq', meta'))
      BY <1>2, SettleMemory
    <2>4. /\ walkStep \in [Worker -> {"idle", "ask", "settle", "book", "gone"}]
          /\ cur \in [Worker -> Task \cup {None}]
          /\ answer \in [Worker -> [kind : Kind, rows : SUBSET journaled] \cup {None}]
      BY <2>1 DEF WalkTyped, WalkTypeOK
    <2>5. /\ pending' \in Seq([task : Task, meta : Meta])
          /\ ~Saves(subq', meta') => pending' = pending
          /\ Saves(subq', meta') => SavedNow'
      <3>1. DOMAIN meta' \subseteq Task  BY <2>3
      <3> QED BY <2>1, <2>2, <2>3, <3>1, Saved
    <2>6. /\ walkStep' \in [Worker -> {"idle", "ask", "settle", "book", "gone"}]
          /\ cur' \in [Worker -> Task \cup {None}]
          /\ answer' \in [Worker -> [kind : Kind, rows : SUBSET journaled'] \cup {None}]
          /\ WalkHands' /\ walkStep'[w] \in {"book", "idle"}
          /\ \A u \in Worker : u # w => walkStep'[u] = walkStep[u]
          /\ Saves(subq', meta') <=> walkStep'[w] = "book"
          /\ lock' = IF Saves(subq', meta') THEN w ELSE None
      <3>1. CASE Saves(subq', meta')
        <4>1. walkStep' = [walkStep EXCEPT ![w] = "book"] /\ UNCHANGED <<cur, answer>> /\ lock' = w  BY <2>2, <3>1 DEF Move
        <4> QED BY <2>1, <2>3, <2>4, <3>1, <4>1
      <3>2. CASE ~Saves(subq', meta')
        <4>1. Loop(w) /\ lock' = None  BY <2>1, <2>2, <3>2
        <4>2. /\ walkStep' \in [Worker -> {"idle", "ask", "settle", "book", "gone"}]
              /\ cur' \in [Worker -> Task \cup {None}]
              /\ answer' \in [Worker -> [kind : Kind, rows : SUBSET journaled'] \cup {None}]
              /\ walkStep'[w] = "idle" /\ \A u \in Worker : u # w => walkStep'[u] = walkStep[u]
              /\ WalkHands'
          BY <2>1, <4>1, Looped
        <4> QED BY <3>2, <4>1, <4>2
      <3> QED BY <3>1, <3>2
    <2>7. WalkTyped'
      BY <2>1, <2>2, <2>3, <2>5, <2>6 DEF WalkTyped, WalkTypeOK, bounds
    <2>8. WalkDisk'
      <3>1. CASE Saves(subq', meta')
        BY <2>3, <2>5, <2>7, <3>1, DiskFollows
      <3>2. CASE ~Saves(subq', meta')
        BY <2>1, <2>3, <2>5, <3>2, DiskKept
      <3> QED BY <3>1, <3>2
    <2>9. WalkLocked'
      <3>1. \A u \in Worker : walkStep'[u] = "book" <=> lock' = u  BY <2>1, <2>6
      <3>2. lock' # None => SavedNow'  BY <2>5, <2>6
      <3> QED BY <3>1, <3>2 DEF WalkLocked
    <2>10. WalkExit'
      <3>1. ASSUME NoneEnded'
            PROVE  /\ \A p \in Page : Whole(p) \in done' \cup pages' \cup Let("parked")' \cup InHand'
                   /\ Owing(pending)' \ done' \subseteq Asking' \cup Let("parked")'
        <4>1. NoneEnded /\ Saves(subq', meta') /\ InHand' = InHand /\ SavedNow'  BY <2>3, <2>5, <3>1
        <4>2. \A p \in Page : Whole(p) \in done \cup pages \cup Let("parked") \cup InHand  BY <2>1, <4>1 DEF WalkExit
        <4>3. Let("parked") \subseteq Let("parked")'  BY <2>2 DEF Let
        <4>4. Owing(pending)' = Asking'  BY <4>1 DEF SavedNow
        <4> QED BY <2>1, <4>1, <4>2, <4>3, <4>4
      <3> QED BY <2>6, <3>1 DEF WalkExit
    <2> QED BY <2>3, <2>6, <2>7, <2>8, <2>9, <2>10 DEF WalkInv
  <1> QED BY <1>1, <1>2

\* The subpages of pending.txt that are not booked, with a reason the file gives them.
LEMMA ReloadIs ==
  ASSUME WalkTyped
  PROVE  /\ \A i \in DOMAIN Reload : \E k \in DOMAIN pending : Reload[i] = pending[k] /\ pending[k].task \notin done
         /\ Owing(Reload) = Owing(pending) \ done
         /\ \E n \in Nat : DOMAIN Reload = 1..n
  <1> DEFINE L    == [task : Task, meta : Meta]
             keep == {i \in DOMAIN pending : pending[i].task \notin done /\
                        \A j \in 1..(i - 1) : pending[j].task # pending[i].task}
  <1>1. pending \in Seq(L)  BY DEF WalkTyped, WalkTypeOK
  <1>2. Reload = Picked(pending, keep)  BY DEF Reload
  <1>3. keep \in SUBSET (DOMAIN pending)  OBVIOUS
  <1>4. DOMAIN pending = 1..Len(pending) /\ Len(pending) \in Nat
    <2> HIDE DEF L
    <2> QED BY <1>1
  <1>5. \A i \in keep : pending[i].task \notin done  OBVIOUS
  <1>6. ASSUME NEW i \in DOMAIN pending, pending[i].task \notin done
        PROVE  \E k \in keep : pending[k].task = pending[i].task
    <2> DEFINE same == {k \in DOMAIN pending : pending[k].task = pending[i].task}
    <2>1. same \subseteq Nat /\ i \in same  BY <1>4, <1>6
    <2>2. PICK k \in same : \A j \in same : k <= j  BY <2>1, LeastNat
    <2>3. k \in DOMAIN pending /\ pending[k].task = pending[i].task  OBVIOUS
    <2>4. \A j \in 1..(k - 1) : pending[j].task # pending[k].task
      <3> SUFFICES ASSUME NEW j \in 1..(k - 1), pending[j].task = pending[k].task PROVE FALSE
        OBVIOUS
      <3>1. j \in DOMAIN pending /\ j < k  BY <1>4, <2>3
      <3>2. j \in same  BY <2>3, <3>1
      <3> QED BY <1>4, <2>2, <2>3, <3>1, <3>2
    <2>5. k \in keep  BY <1>6, <2>3, <2>4
    <2> QED BY <2>3, <2>5
  <1> HIDE DEF L, keep
  <1>7. /\ ToSet(Reload) = {pending[k] : k \in keep}
        /\ DOMAIN Reload = 1..Cardinality(keep)
        /\ \A i \in DOMAIN Reload : \E k \in keep : Reload[i] = pending[k]
    BY <1>1, <1>2, <1>3, PickedIs
  <1>8. Cardinality(keep) \in Nat
    <2>1. IsFiniteSet(1..Len(pending))  BY <1>4, FS_Interval
    <2> QED BY <1>3, <1>4, <2>1, FS_Subset, FS_CardinalityType
  <1>9. Owing(Reload) = {l.task : l \in ToSet(Reload)}  BY DEF Owing, ToSet
  <1>10. Owing(Reload) = {pending[k].task : k \in keep}  BY <1>7, <1>9
  <1>11. Owing(Reload) = Owing(pending) \ done
    <2>1. Owing(Reload) \subseteq Owing(pending) \ done  BY <1>3, <1>5, <1>10 DEF Owing
    <2>2. Owing(pending) \ done \subseteq Owing(Reload)  BY <1>6, <1>10 DEF Owing
    <2> QED BY <2>1, <2>2
  <1> QED BY <1>3, <1>5, <1>7, <1>8, <1>11

LEMMA RestartStep ==
  ASSUME WalkInv, Restart PROVE WalkInv'
  <1> DEFINE lines == Reload
  <1>1. WalkTyped /\ WalkMemory /\ WalkDisk /\ WalkHands /\ WalkLocked /\ WalkExit  BY DEF WalkInv
  <1>2. /\ restarts < MaxRestarts /\ restarts' = restarts + 1
        /\ subq' = [i \in DOMAIN lines |-> lines[i].task]
        /\ meta' = [t \in Owing(lines) |-> (CHOOSE l \in ToSet(lines) : l.task = t).meta]
        /\ opened' = {l.meta.parent : l \in {l \in ToSet(lines) : l.meta.role = "rest"}}
        /\ pages' = {Whole(p) : p \in Page} \ done /\ inflight' = {}
        /\ fails' = [t \in Task |-> 0]
        /\ walkStep' = [w \in Worker |-> "idle"] /\ cur' = [w \in Worker |-> None]
        /\ answer' = [w \in Worker |-> None] /\ lock' = None
        /\ UNCHANGED <<index, files, failures, verdict>>
    BY DEF Restart
  <1>3. /\ \A i \in DOMAIN lines : \E k \in DOMAIN pending : lines[i] = pending[k] /\ pending[k].task \notin done
        /\ Owing(lines) = Owing(pending) \ done
        /\ \E n \in Nat : DOMAIN lines = 1..n
    BY <1>1, ReloadIs
  <1>4. /\ \A k \in DOMAIN pending : pending[k].task \in Task /\ pending[k].meta \in Meta
        /\ Owing(pending) \subseteq Task
    BY <1>1, LinesTyped
  <1>5. \A k \in DOMAIN pending : Reasoned(OnDisk, pending[k].task, pending[k].meta)  BY <1>1 DEF WalkDisk
  <1> HIDE DEF lines
  <1>6. \A l \in ToSet(lines) : /\ l.task \in Task /\ l.meta \in Meta /\ Reasoned(OnDisk, l.task, l.meta)
                                /\ l.task \in Owing(lines)
    <2> SUFFICES ASSUME NEW i \in DOMAIN lines
                 PROVE  /\ lines[i].task \in Task /\ lines[i].meta \in Meta /\ Reasoned(OnDisk, lines[i].task, lines[i].meta)
                        /\ lines[i].task \in Owing(lines)
      BY DEF ToSet
    <2>1. PICK k \in DOMAIN pending : lines[i] = pending[k]  BY <1>3
    <2>2. lines[i].task \in Owing(lines)  BY DEF Owing
    <2> QED BY <1>4, <1>5, <2>1, <2>2
  <1>7. ToSet(subq') = Owing(lines) /\ subq' \in Seq(Task) /\ DOMAIN subq' = DOMAIN lines
    <2>1. PICK n \in Nat : DOMAIN lines = 1..n  BY <1>3
    <2>2. \A i \in 1..n : lines[i].task \in Task
      <3>1. \A i \in 1..n : lines[i] \in ToSet(lines)  BY <2>1 DEF ToSet
      <3> QED BY <1>6, <3>1
    <2> DEFINE e(i) == lines[i].task
    <2>3. subq' = [i \in 1..n |-> e(i)] /\ \A i \in 1..n : e(i) \in Task  BY <1>2, <2>1, <2>2
    <2>4. subq' \in Seq(Task)
      <3> HIDE DEF e
      <3> QED BY <2>3, IsASeq
    <2>5. DOMAIN subq' = 1..n /\ \A i \in 1..n : subq'[i] = lines[i].task  BY <2>3
    <2>6. ToSet(subq') = Owing(lines)  BY <2>1, <2>5 DEF ToSet, Owing
    <2> QED BY <2>1, <2>4, <2>5, <2>6
  <1>8. /\ DOMAIN meta' = Owing(lines)
        /\ \A t \in Owing(lines) : \E l \in ToSet(lines) : l.task = t /\ meta'[t] = l.meta
    <2>1. DOMAIN meta' = Owing(lines)  BY <1>2
    <2>2. ASSUME NEW t \in Owing(lines) PROVE \E l \in ToSet(lines) : l.task = t /\ meta'[t] = l.meta
      <3>1. \E l \in ToSet(lines) : l.task = t  BY DEF Owing, ToSet
      <3>2. meta'[t] = (CHOOSE l \in ToSet(lines) : l.task = t).meta  BY <1>2
      <3> QED BY <3>1, <3>2
    <2> QED BY <2>1, <2>2
  <1>9. /\ index' = index /\ journaled' = journaled /\ done' = done /\ pending' = pending /\ verdict' = verdict
        /\ failures' = failures
    BY <1>2 DEF files
  <1>10. /\ \A w \in Worker : walkStep'[w] = "idle" /\ cur'[w] = None /\ answer'[w] = None /\ w # None
         /\ Booking' = {} /\ Working' = {} /\ InHand' = {} /\ Through' = done
    <2>1. \A w \in Worker : walkStep'[w] = "idle" /\ cur'[w] = None /\ answer'[w] = None /\ w # None
      BY <1>2, WalkAssumption
    <2>2. Booking' = {} /\ Working' = {}  BY <2>1 DEF Booking, Working
    <2> QED BY <1>9, <2>1, <2>2 DEF InHand, Through
  <1>11. Safe' = Safe /\ (\A why : Let(why)' = Let(why)) /\ NoneEnded' = NoneEnded
    <2>1. \A t : Asked(t)' = Asked(t)  BY <1>9 DEF Asked, Within
    <2>2. \A why : Let(why)' = Let(why)  BY <1>9 DEF Let
    <2> QED BY <1>9, <2>1, <2>2 DEF Safe, Excused, NoneEnded
  <1>12. Asking' = Owing(pending) \ done  BY <1>2, <1>3, <1>7, <1>8 DEF Asking
  <1>13. InMemory' = OnDisk
    <2>1. (Owing(pending) \ done) \ done = Owing(pending) \ done  OBVIOUS
    <2> QED BY <1>9, <1>10, <1>11, <1>12, <2>1 DEF InMemory, OnDisk
  <1>14. \A t \in Task : \A why \in Meta : Reasoned(OnDisk, t, why) => t.level > 0
    <2> SUFFICES ASSUME NEW t \in Task, NEW why \in Meta, Reasoned(OnDisk, t, why) PROVE t.level > 0
      OBVIOUS
    <2>1. why.parent \in Task  BY DEF Meta
    <2>2. PICK k \in 0..(Width - 1) : t = Child(why.parent, k)  BY DEF Reasoned
    <2>3. t.level = why.parent.level + 1  BY <2>1, <2>2, ChildIs DEF Reasoned
    <2>4. why.parent.level \in Nat  BY <2>1, TaskFields
    <2> QED BY <2>3, <2>4
  <1>15. \A l \in ToSet(lines) : l.meta.role = "rest" => /\ l.meta.parent = Whole(l.task.page) /\ l.task.page \in Page
                                                         /\ OthersAre(OnDisk, l.task.page)
    BY <1>6, TaskFields DEF Reasoned
  <1>16. opened' \subseteq {Whole(p) : p \in Page} /\ \A p \in Page : Whole(p) \in opened' => OthersAre(OnDisk, p)
    <2>1. \A o \in opened' : \E p \in Page : o = Whole(p) /\ OthersAre(OnDisk, p)
      <3> SUFFICES ASSUME NEW o \in opened' PROVE \E p \in Page : o = Whole(p) /\ OthersAre(OnDisk, p)
        OBVIOUS
      <3>1. PICK l \in ToSet(lines) : l.meta.role = "rest" /\ o = l.meta.parent  BY <1>2
      <3> QED BY <1>15, <3>1
    <2>2. ASSUME NEW p \in Page, Whole(p) \in opened' PROVE OthersAre(OnDisk, p)
      <3>1. PICK p2 \in Page : Whole(p) = Whole(p2) /\ OthersAre(OnDisk, p2)  BY <2>1, <2>2
      <3>2. p = p2  BY <3>1, WholeIs
      <3> QED BY <3>1, <3>2
    <2> QED BY <2>1, <2>2
  <1>17. WalkMemory'
    <2>1. \A t \in DOMAIN meta' : Reasoned(OnDisk, t, meta'[t])  BY <1>6, <1>8
    <2>2. AllBooked(OnDisk, done)  BY <1>1 DEF WalkDisk
    <2>3. \A t \in Known' \ DOMAIN meta' : ~(t.level > 0)
      <3>1. Known' \ DOMAIN meta' \subseteq pages'  BY <1>2, <1>7, <1>8, <1>10 DEF Known
      <3>2. \A t \in pages' : t.level = 0  BY <1>2, WholeIs
      <3> QED BY <3>1, <3>2
    <2> QED BY <1>10, <1>13, <1>16, <2>1, <2>2, <2>3 DEF WalkMemory
  <1>18. WalkDisk'  BY <1>1, <1>9, <1>11, DiskKept
  <1>19. WalkTyped'
    <2>1. DOMAIN meta' \subseteq {t \in Task : t.level > 0} /\ Range(meta') \subseteq Meta
      <3>1. \A t \in DOMAIN meta' : t \in Task /\ t.level > 0 /\ meta'[t] \in Meta  BY <1>6, <1>8, <1>14
      <3> QED BY <3>1 DEF Range
    <2>2. pages' \subseteq Task /\ inflight' \subseteq Task /\ IsFiniteSet(inflight')  BY <1>2, WholeIs, FS_EmptySet
    <2>3. restarts' \in 0..MaxRestarts
      <3>1. restarts \in 0..MaxRestarts /\ MaxRestarts \in Nat  BY <1>1, WalkAssumption DEF WalkTyped, WalkTypeOK
      <3> QED BY <1>2, <3>1
    <2>4. fails' \in [Task -> Nat]  BY <1>2
    <2>5. /\ walkStep' \in [Worker -> {"idle", "ask", "settle", "book", "gone"}]
          /\ cur' \in [Worker -> Task \cup {None}] /\ lock' \in Worker \cup {None}
          /\ answer' \in [Worker -> [kind : Kind, rows : SUBSET journaled'] \cup {None}]
      BY <1>2
    <2> QED BY <1>1, <1>7, <1>9, <1>16, <2>1, <2>2, <2>3, <2>4, <2>5 DEF WalkTyped, WalkTypeOK
  <1>20. WalkHands'  BY <1>10 DEF WalkHands
  <1>21. WalkLocked'  BY <1>2, <1>10 DEF WalkLocked
  <1>22. WalkExit'
    <2>1. \A p \in Page : Whole(p) \in done' \cup pages'  BY <1>2, <1>9
    <2>2. Owing(pending)' \ done' \subseteq Asking'  BY <1>9, <1>12 DEF Owing
    <2>3. ~\A w \in Worker : walkStep'[w] = "gone"  BY <1>10, WalkAssumption
    <2> QED BY <2>1, <2>2, <2>3 DEF WalkExit
  <1> QED BY <1>17, <1>18, <1>19, <1>20, <1>21, <1>22 DEF WalkInv

LEMMA StartStep == WalkInit => WalkInv
  <1> SUFFICES ASSUME WalkInit PROVE WalkInv
    OBVIOUS
  <1>1. /\ index \in [Page -> SUBSET Position] /\ journaled = {}
        /\ done = {} /\ pending = <<>>
        /\ pages = {Whole(p) : p \in Page} /\ subq = <<>> /\ meta = <<>>
        /\ inflight = {} /\ opened = {}
        /\ fails = [t \in Task |-> 0] /\ verdict = {}
        /\ walkStep = [w \in Worker |-> "idle"] /\ cur = [w \in Worker |-> None]
        /\ answer = [w \in Worker |-> None] /\ lock = None
        /\ failures = 0 /\ restarts = 0
    BY DEF WalkInit
  <1>2. DOMAIN pending = {} /\ DOMAIN meta = {} /\ ToSet(subq) = {} /\ Owing(pending) = {} /\ Range(meta) = {}
    BY <1>1 DEF ToSet, Owing, Range
  <1>3. \A w \in Worker : walkStep[w] = "idle" /\ w # None  BY <1>1, WalkAssumption
  <1>4. Booking = {} /\ Working = {} /\ InHand = {} /\ Through = {} /\ Asking = {} /\ Known = pages
    BY <1>1, <1>2, <1>3 DEF Booking, Working, InHand, Through, Asking, Known
  <1>5. WalkTyped
    <2>1. pending \in Seq([task : Task, meta : Meta]) /\ subq \in Seq(Task)  BY <1>1
    <2>2. failures \in 0..MaxFails /\ restarts \in 0..MaxRestarts  BY <1>1, WalkAssumption
    <2>3. pages \subseteq Task /\ IsFiniteSet(inflight)  BY <1>1, WholeIs, FS_EmptySet
    <2>4. fails \in [Task -> Nat]  BY <1>1
    <2> QED BY <1>1, <1>2, <2>1, <2>2, <2>3, <2>4 DEF WalkTyped, WalkTypeOK
  <1>6. \A v : AllBooked(v, {})  BY DEF AllBooked
  <1>7. WalkMemory
    <2>1. \A t \in Known : t.level = 0  BY <1>1, <1>4, WholeIs
    <2>2. \A t \in Known \ DOMAIN meta : ~(t.level > 0)  BY <2>1
    <2>3. \A p \in Page : Whole(p) \notin opened  BY <1>1
    <2> QED BY <1>2, <1>4, <1>6, <2>2, <2>3 DEF WalkMemory
  <1>8. WalkDisk  BY <1>1, <1>2, <1>6 DEF WalkDisk
  <1>9. WalkHands  BY <1>3, <1>4 DEF WalkHands
  <1>10. WalkLocked  BY <1>1, <1>3 DEF WalkLocked
  <1>11. WalkExit
    <2>1. ~\A w \in Worker : walkStep[w] = "gone"  BY <1>3, WalkAssumption
    <2> QED BY <1>1, <1>2, <2>1 DEF WalkExit
  <1> QED BY <1>5, <1>7, <1>8, <1>9, <1>10, <1>11 DEF WalkInv

LEMMA WalkSteps == WalkInv /\ [WalkNext]_walkVars => WalkInv'
  <1> SUFFICES ASSUME WalkInv, [WalkNext]_walkVars PROVE WalkInv'
    OBVIOUS
  <1>1. CASE Restart
    BY <1>1, RestartStep
  <1>2. ASSUME NEW w \in Worker, Work(w) PROVE WalkInv'
    <2>1. CASE Take(w)
      BY <2>1, TakeStep
    <2>2. CASE Ask(w)
      BY <2>2, AskStep
    <2>3. CASE Retry(w)
      BY <2>3, RetryStep
    <2>4. CASE Settle(w)
      BY <2>4, SettleStep
    <2>5. CASE Book(w)
      BY <2>5, BookStep
    <2> QED BY <1>2, <2>1, <2>2, <2>3, <2>4, <2>5 DEF Work
  <1>3. CASE UNCHANGED walkVars
    <2>1. /\ index' = index /\ verdict' = verdict /\ journaled' = journaled /\ UNCHANGED <<pending, done, queue, fails>>
          /\ UNCHANGED <<walkStep, cur, answer, lock, failures, restarts>>
      BY <1>3 DEF walkVars, files, queue, worker, bounds
    <2>2. /\ WalkTyped /\ WalkMemory /\ WalkDisk /\ WalkHands /\ WalkLocked /\ WalkExit  BY DEF WalkInv
    <2>3. Booking' = Booking /\ Working' = Working /\ InHand' = InHand  BY <2>1 DEF Booking, Working, InHand
    <2>4. \A t : Asked(t)' = Asked(t)  BY <2>1 DEF Asked, Within
    <2>5. Safe' = Safe /\ (\A why : Let(why)' = Let(why)) /\ NoneEnded' = NoneEnded
      <3>1. \A why : Let(why)' = Let(why)  BY <2>1 DEF Let
      <3> QED BY <2>1, <2>4, <3>1 DEF Safe, Excused, NoneEnded
    <2>6. WalkMemory' /\ WalkDisk' /\ Asking' = Asking  BY <2>1, <2>2, <2>3, <2>5, QueueKept
    <2>7. WalkTyped'  BY <2>1, <2>2 DEF WalkTyped, WalkTypeOK, queue
    <2>8. WalkHands'
      <3>1. \A w \in Working' : cur'[w] \in Task  BY <2>1, <2>2, <2>3 DEF WalkHands
      <3>2. ASSUME NEW w \in Worker, walkStep'[w] = "settle" PROVE AnswerFits(w)'
        <4>1. AnswerFits(w)  BY <2>1, <2>2, <3>2 DEF WalkHands
        <4>2. Asked(cur[w])' = Asked(cur[w])  BY <2>1 DEF Asked, Within
        <4> QED BY <2>1, <4>1, <4>2 DEF AnswerFits
      <3> QED BY <3>1, <3>2 DEF WalkHands
    <2>9. WalkLocked'
      <3>1. SavedNow => SavedNow'  BY <2>1, <2>6 DEF SavedNow, Owing, queue
      <3> QED BY <2>1, <2>2, <3>1 DEF WalkLocked
    <2>10. WalkExit'
      <3>1. Owing(pending)' = Owing(pending) /\ pages' = pages /\ subq' = subq /\ inflight' = inflight
        BY <2>1 DEF Owing, queue
      <3> QED BY <2>1, <2>2, <2>3, <2>5, <2>6, <3>1 DEF WalkExit
    <2> QED BY <2>6, <2>7, <2>8, <2>9, <2>10 DEF WalkInv
  <1> QED BY <1>1, <1>2, <1>3 DEF WalkNext

LEMMA WalkSays == WalkInv => NothingIsLost
  <1> SUFFICES ASSUME WalkInv PROVE NothingIsLost
    OBVIOUS
  <1>1. /\ WalkTyped /\ WalkMemory /\ WalkDisk /\ WalkHands /\ WalkLocked /\ WalkExit  BY DEF WalkInv
  <1>2. index \in [Page -> SUBSET Position] /\ done \subseteq Task  BY <1>1 DEF WalkTyped, WalkTypeOK
  <1> DEFINE Let3 == {v[1] : v \in {v \in verdict : v[1].level > 0 /\ v[2] # "unbooked"}}
  <1>3. ASSUME NEW p \in Page, NEW r \in index[p]
        PROVE  \/ <<p, r>> \in journaled
               \/ \E t \in Owed \cup Unprobed \cup Let3 : <<p, r>> \in Asked(t)
    <2> DEFINE x == <<p, r>>
               d == OnDisk
    <2>1. /\ d.rows = index /\ d.safe = Safe /\ d.mute = Let("silent") /\ d.owed = Owing(pending) \ done  BY DEF OnDisk
    <2>2. \A t : Asked(t) = RowsOf(index, t)  BY DEF Asked, RowsOf
    <2>3. x[2] = r  OBVIOUS
    <2> HIDE DEF x, d
    <2>4. x \in RowsOf(index, Whole(p))
      <3>1. r \in Position /\ Whole(p) \in Task /\ Whole(p).page = p /\ Whole(p).level = 0 /\ Whole(p).at = 0
        BY <1>2, WholeIs
      <3>2. Span[0] \in Nat
        <4>1. 0 \in 0..Depth  BY SpanIs
        <4> QED BY <4>1, SpanIs
      <3>3. 0 * Span[0] <= r /\ r < (0 + 1) * Span[0]
        <4> DEFINE s == Span[0]
        <4>1. r \in 0..(s - 1) /\ s \in Nat  BY <3>1, <3>2 DEF Position
        <4> HIDE DEF s
        <4>2. 0 * s <= r /\ r < (0 + 1) * s  BY <4>1
        <4> QED BY <4>2 DEF s
      <3>4. Within(r, Whole(p))  BY <3>1, <3>3 DEF Within
      <3>5. x = <<Whole(p).page, r>>  BY <3>1 DEF x
      <3> QED BY <3>1, <3>4, <3>5 DEF RowsOf
    <2>5. ASSUME Covered(d, x, 0) PROVE x \in journaled \/ \E t \in Owed \cup Let3 : x \in Asked(t)
      <3>1. CASE x \in Safe
        <4>1. x \in journaled \/ \E v \in Excused : x \in Asked(v[1])  BY <3>1 DEF Safe
        <4> QED BY <4>1 DEF Excused
      <3>2. CASE \E t \in Owing(pending) \ done : x \in RowsOf(index, t)
        BY <2>2, <3>2 DEF Owed
      <3> QED BY <2>1, <2>5, <3>1, <3>2 DEF Covered
    <2>6. CASE Whole(p) \notin done
      <3>1. Whole(p) \in Owed  BY <2>6 DEF Owed
      <3> QED BY <2>2, <2>4, <3>1 DEF x
    <2>7. CASE Whole(p) \in done
      <3>1. SplitUp(d, p)  BY <1>1, <2>7 DEF WalkDisk, AllBooked, d
      <3>2. CASE Covered(d, x, 0)
        BY <2>5, <3>2 DEF x
      <3>3. CASE ~Covered(d, x, 0)
        <4>1. Whole(p) \in Let("silent") /\ \E t \in Others(p) : x \in RowsOf(index, t)
          BY <2>1, <2>4, <3>1, <3>3 DEF SplitUp
        <4>2. PICK t \in Others(p) : x \in RowsOf(index, t)  BY <4>1
        <4>3. \A u \in (Probes(p) \cap done) \ Let("silent") : Asked(u) = {}
          <5> SUFFICES ASSUME NEW u \in (Probes(p) \cap done) \ Let("silent"), Asked(u) # {} PROVE FALSE
            OBVIOUS
          <5>1. u.level > 0  BY OfWhole
          <5>2. Settled(d, u)  BY <1>1, <5>1 DEF WalkDisk, AllBooked, d
          <5>3. OthersAre(d, p)  BY <2>1, <2>2, <5>2 DEF Settled
          <5>4. Covered(d, x, 0)  BY <2>1, <4>2, <5>3 DEF OthersAre
          <5> QED BY <3>3, <5>4
        <4>4. t \in Unprobed
          <5>1. t \in {Child(Whole(p), k) : k \in 0..(Width - 1)} \ Probes(p)  BY DEF Others
          <5> QED BY <4>1, <4>3, <5>1, SpanIs DEF Unprobed
        <4> QED BY <2>2, <4>2, <4>4 DEF x
      <3> QED BY <3>2, <3>3
    <2> QED BY <2>6, <2>7
  <1>4. RowsAreOwed  BY <1>3 DEF RowsAreOwed
  <1>5. ExitOwesNothing
    <2> SUFFICES ASSUME \A w \in Worker : walkStep[w] = "gone", NoneEnded PROVE Owed \subseteq Let("parked")
      BY DEF ExitOwesNothing, NoneEnded
    <2>1. subq = <<>> /\ inflight = {} /\ pages = {}  BY <1>1 DEF WalkExit
    <2>2. ToSet(subq) = {}  BY <2>1 DEF ToSet
    <2>3. Asking = {}  BY <2>1, <2>2 DEF Asking
    <2>4. InHand = {}  BY DEF InHand, Working
    <2> QED BY <1>1, <2>1, <2>3, <2>4 DEF WalkExit, Owed
  <1> QED BY <1>1, <1>4, <1>5 DEF NothingIsLost, WalkTyped

(***************************************************************************)
(* For every set of pages, of workers and of answers, every depth and      *)
(* width of the split, and every number of failures and restarts: a row of *)
(* the index is in a journal, or the files owe a task that asks for it, or *)
(* it was let go, and a lane whose bookings all ended well ends with       *)
(* nothing but parked tasks owed (Lane.settle, Lane.save_pending and the  *)
(* reload, cdx_extended_walk.py).                                          *)
(***************************************************************************)
THEOREM WalkLosesNothing == WalkSpec => []NothingIsLost
  <1>1. WalkInit => WalkInv  BY StartStep
  <1>2. WalkInv /\ [WalkNext]_walkVars => WalkInv'  BY WalkSteps
  <1>3. WalkInv => NothingIsLost  BY WalkSays
  <1> QED BY <1>1, <1>2, <1>3, PTL DEF WalkSpec
=============================================================================
