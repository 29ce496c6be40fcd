------------------------------ MODULE SyncLock ------------------------------
(***************************************************************************)
(* The lock every store writer takes: scripts/harness/sync_lock.sh, run    *)
(* by `just sync`, `just bank`, `just ship` and `just red-clear`.          *)
(*                                                                         *)
(* The lock is a directory with a file `pid` inside.  A take is a sequence *)
(* of separate system calls (mkdir, cat, kill -0, rm -rf, mkdir, echo) and *)
(* so is a drop (rm -rf), so the calls of several processes interleave.    *)
(* A run is named by its pid: "idle" before and after the run, "dead" once *)
(* it was killed.  A dead pid may be handed to an unrelated program, which *)
(* `kill -0` cannot tell from the run it was.                              *)
(***************************************************************************)
EXTENDS Naturals, FiniteSets

CONSTANTS Pid,        \* the pids the machine hands out
          NoPid,      \* what `cat "$LOCK/pid"` prints when there is no file
          MaxFaults   \* bound on kills and on pids handed to other programs

ASSUME PidAssumption == NoPid \notin Pid
ASSUME MaxFaultsAssumption == MaxFaults \in Nat

VARIABLES dir,        \* the lock directory exists
          pidFile,    \* the contents of $LOCK/pid
          pc,         \* where each pid's run stands
          seen,       \* the shell variable `holder` of each take
          faults,     \* kills and foreign pids so far
          overlapped  \* history: two runs were inside sync_lock.sh at once

vars == <<dir, pidFile, pc, seen, faults, overlapped>>

Taking   == {"mkdir", "read", "probe", "unlink", "rmdir", "remkdir", "write"}
Dropping == {"dropUnlink", "dropRmdir"}
Script   == Taking \cup Dropping      \* a run is executing sync_lock.sh
Writing  == {"held", "bank"}          \* a run believes it holds the lock
Steps    == {"idle", "dead", "foreign"} \cup Script \cup Writing

\* Types, and that a pid file exists only inside the lock directory.
TypeOK ==
  /\ dir \in BOOLEAN
  /\ pidFile \in Pid \cup {NoPid}
  /\ pidFile # NoPid => dir
  /\ pc \in [Pid -> Steps]
  /\ seen \in [Pid -> Pid \cup {NoPid}]
  /\ faults \in 0..MaxFaults
  /\ overlapped \in BOOLEAN

Init ==
  /\ dir = FALSE
  /\ pidFile = NoPid
  /\ pc = [p \in Pid |-> "idle"]
  /\ seen = [p \in Pid |-> NoPid]
  /\ faults = 0
  /\ overlapped = FALSE

Alive(p) == pc[p] \notin {"idle", "dead"}     \* `kill -0 p` succeeds

\* p's run moves to step s; entering the script beside another is recorded.
Goto(p, s) ==
  /\ pc' = [pc EXCEPT ![p] = s]
  /\ overlapped' = (overlapped \/ (s \in Script /\ \E q \in Pid \ {p} : pc[q] \in Script))
-----------------------------------------------------------------------------
Start(p) ==
  /\ pc[p] = "idle"
  /\ Goto(p, "mkdir")
  /\ UNCHANGED <<dir, pidFile, seen, faults>>

Mkdir(p) ==
  /\ pc[p] = "mkdir"
  /\ dir' = TRUE
  /\ Goto(p, IF dir THEN "read" ELSE "write")
  /\ UNCHANGED <<pidFile, seen, faults>>

Read(p) ==
  /\ pc[p] = "read"
  /\ seen' = [seen EXCEPT ![p] = pidFile]
  /\ Goto(p, "probe")
  /\ UNCHANGED <<dir, pidFile, faults>>

\* Mutants: a take that never asks whether the holder lives, and one that
\* believes any recorded pid without asking.
MutProbeAlwaysStale(p) ==
  /\ pc[p] = "probe"
  /\ Goto(p, "unlink")
  /\ UNCHANGED <<dir, pidFile, seen, faults>>

MutProbeNeverStale(p) ==
  /\ pc[p] = "probe"
  /\ Goto(p, IF seen[p] # NoPid THEN "idle" ELSE "unlink")
  /\ UNCHANGED <<dir, pidFile, seen, faults>>

\* A live holder refuses the take with exit 3, and the caller exits before
\* it sets the EXIT trap; anything else is taken for a stale lock.
Probe(p) ==
  /\ pc[p] = "probe"
  /\ LET live == seen[p] # NoPid /\ Alive(seen[p])
     IN  Goto(p, IF live THEN "idle" ELSE "unlink")
  /\ UNCHANGED <<dir, pidFile, seen, faults>>

\* `rm -rf` empties the directory, then removes it by name.
Unlink(p) ==
  /\ pc[p] = "unlink"
  /\ pidFile' = NoPid
  /\ Goto(p, "rmdir")
  /\ UNCHANGED <<dir, seen, faults>>

\* A directory somebody wrote a pid into meanwhile is not empty: exit 1.
Rmdir(p) ==
  /\ pc[p] = "rmdir"
  /\ IF dir /\ pidFile # NoPid
       THEN Goto(p, "idle") /\ UNCHANGED dir
       ELSE Goto(p, "remkdir") /\ dir' = FALSE
  /\ UNCHANGED <<pidFile, seen, faults>>

\* The second mkdir fails when somebody else made the directory first: exit 1.
Remkdir(p) ==
  /\ pc[p] = "remkdir"
  /\ dir' = TRUE
  /\ Goto(p, IF dir THEN "idle" ELSE "write")
  /\ UNCHANGED <<pidFile, seen, faults>>

\* `echo "$pid" > "$LOCK/pid"` fails without a directory, and the script
\* exits 0 all the same.
WritePid(p) ==
  /\ pc[p] = "write"
  /\ pidFile' = IF dir THEN p ELSE pidFile
  /\ Goto(p, "held")
  /\ UNCHANGED <<dir, seen, faults>>

Take(p) == Start(p) \/ Mkdir(p) \/ Read(p) \/ Probe(p) \/ Unlink(p) \/ Rmdir(p)
             \/ Remkdir(p) \/ WritePid(p)

\* The tick calls `just bank` with ARK_LOCK_HELD naming itself, trusted only
\* while `sync_lock.sh holder` prints that pid; otherwise the bank takes the
\* lock as a process of its own, which is a Start.
NestedBank(p) ==
  /\ pc[p] = "held"
  /\ pidFile = p
  /\ Goto(p, "bank")
  /\ UNCHANGED <<dir, pidFile, seen, faults>>

\* The EXIT trap drops the lock, whoever it is that holds it by then.
BeginDrop(p) ==
  /\ pc[p] \in Writing
  /\ Goto(p, "dropUnlink")
  /\ UNCHANGED <<dir, pidFile, seen, faults>>

DropUnlink(p) ==
  /\ pc[p] = "dropUnlink"
  /\ pidFile' = NoPid
  /\ Goto(p, "dropRmdir")
  /\ UNCHANGED <<dir, seen, faults>>

DropRmdir(p) ==
  /\ pc[p] = "dropRmdir"
  /\ dir' = (dir /\ pidFile # NoPid)
  /\ Goto(p, "idle")
  /\ UNCHANGED <<pidFile, seen, faults>>

Drop(p) == BeginDrop(p) \/ DropUnlink(p) \/ DropRmdir(p)

\* kill -9, an out-of-memory kill or a reboot: no EXIT trap runs.
Kill(p) ==
  /\ pc[p] \in Script \cup Writing
  /\ faults < MaxFaults
  /\ faults' = faults + 1
  /\ Goto(p, "dead")
  /\ UNCHANGED <<dir, pidFile, seen>>

\* The machine gives a dead pid to a program that is no sync, which ends later.
Recycle(p) ==
  /\ pc[p] = "dead"
  /\ faults < MaxFaults
  /\ faults' = faults + 1
  /\ Goto(p, "foreign")
  /\ UNCHANGED <<dir, pidFile, seen>>

ForeignExit(p) ==
  /\ pc[p] = "foreign"
  /\ Goto(p, "dead")
  /\ UNCHANGED <<dir, pidFile, seen, faults>>

Next == \E p \in Pid : Take(p) \/ NestedBank(p) \/ Drop(p) \/ Kill(p)
                         \/ Recycle(p) \/ ForeignExit(p)

Spec == Init /\ [][Next]_vars

\* A started script and a started run go on, the hourly timer starts the next
\* run, and a foreign program ends; kills and recycled pids owe nothing.
Fairness == \A p \in Pid : WF_vars(Take(p)) /\ WF_vars(Drop(p)) /\ WF_vars(ForeignExit(p))

FairSpec == Spec /\ Fairness
-----------------------------------------------------------------------------
Holders == {p \in Pid : pc[p] \in Writing}

(***************************************************************************)
(* What the script's header promises: one lock, whoever started the run,   *)
(* so two syncs are never in the store together (sync_lock.sh:2-7).        *)
(***************************************************************************)
Exclusion == \A p, q \in Holders : p = q

(***************************************************************************)
(* What the calls guarantee: two runs write together only if two runs were *)
(* once inside sync_lock.sh at the same time, one taking over what it read *)
(* as stale (sync_lock.sh:27-39) while the other was making or dropping    *)
(* it.  Kills at any step and recycled pids never do it alone.             *)
(***************************************************************************)
ExclusionUnlessOverlap == overlapped \/ Exclusion

(***************************************************************************)
(* A lock a killed run left never closes the lane: while faults are        *)
(* finitely many, some run always gets to write again (sync_lock.sh:9-11). *)
(***************************************************************************)
LaneNeverCloses == []<>(Holders # {})
=============================================================================
