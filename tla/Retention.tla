------------------------------ MODULE Retention ------------------------------
(***************************************************************************)
(* How bytes leave the collecting machine: verify_raw.py checksums what is *)
(* on disk, offsite.py copies it to Drive and takes a receipt, prune.py    *)
(* deletes a file behind a proof: a receipt and Drive's own hash for a     *)
(* release, archive.org's hash for spent raw, Drive's hash of the newest   *)
(* package for the older stages, a checked store for a store backup.       *)
(* Collectors and hands go on writing the files meanwhile, and the remote  *)
(* sides change on their own.                                              *)
(*                                                                         *)
(* Bytes are a number, and every file has one size, the worst case for     *)
(* the size comparisons.  A stat is a number too: `signature` (inode to    *)
(* ctime) is new at every write, the mtime that SHA256SUMS.stat keeps is   *)
(* not when a copy preserves it.  A hash is the content.                   *)
(***************************************************************************)
EXTENDS Naturals, FiniteSets

CONSTANTS Release, Spent, Backup,   \* files, by the selector that may list them
          Staged,                    \* package stages, numbered oldest first
          Scenes,                   \* the sets of files there may be to begin with
          NoFile, Verifying,        \* no file in hand; and offsite between two of them
          MaxWrites, MaxDrift,      \* bounds on writes here, and on changes at the far sides
          MaxPassKills

Manifested == Release \cup Spent     \* what a SHA256SUMS beside the data names
KeptFile == Manifested \cup Backup \cup Staged
GoneFile == 0
Unproved == MaxWrites + MaxDrift + 2
Raced    == Unproved + 1

ASSUME RetentionAssumption ==
  /\ Staged \subseteq Nat /\ {MaxWrites, MaxDrift, MaxPassKills} \subseteq Nat
  /\ IsFiniteSet(KeptFile) /\ Scenes \subseteq SUBSET KeptFile
  /\ {NoFile, Verifying} \cap KeptFile = {} /\ NoFile # Verifying
  /\ Release \cap (Spent \cup Backup \cup Staged) = {}
  /\ Spent \cap (Backup \cup Staged) = {} /\ Backup \cap Staged = {}

VARIABLES
  onDisk, stampOf, mtime,   \* content, signature and mtime of each file here
  sums, sumStamp,  \* SHA256SUMS and SHA256SUMS.stat
  driveCopy, ia,       \* content at the far sides; a stage's is of its archive
  served,          \* files archive.org serves
  receipt, fresh,  \* data/logs/offsite-verified.json: its pins, and whether it is a day old
  listed,            \* files the offsite manifest has a row for
  store,           \* the store's stat, and whether a WAL lies beside it
  green,           \* history: the store `ark check` last called green
  hashing,         \* verify_raw's file in hand, and its mtime when it was listed
  vfile, vtodo, narrowed, named, old, pins,   \* offsite --verify
  pstep, prey, before, consented,   \* prune: the file, its stat, what the far side held
  deleted,         \* DELETED.tsv
  raced,           \* history: the file in hand, once it is written after the last look at it
  proof,           \* history: what the far side was seen to hold when a file went
  writes, drift, passKills

here    == <<onDisk, stampOf, mtime, writes>>
far     == <<driveCopy, ia, served, drift>>
records == <<sums, sumStamp, hashing>>
verify  == <<vfile, vtodo, narrowed, named, old, pins>>
pass    == <<pstep, prey, before, consented, deleted, proof>>
prune   == <<pass, raced>>
retentionVars   == <<here, far, records, receipt, fresh, listed, store, green, verify, prune, passKills>>

Bytes == 0..MaxWrites + MaxDrift + 1
NoPin   == [stat |-> GoneFile, digest |-> GoneFile]
NoPins  == [f \in Release |-> NoPin]
Pin     == [stat : Bytes, digest : Bytes]

RetentionTypeOK ==
  /\ {onDisk, stampOf, mtime, driveCopy} \subseteq [KeptFile -> Bytes]
  /\ {sums, sumStamp} \subseteq [Manifested -> Bytes]
  /\ ia \in [Spent -> Bytes] /\ served \subseteq Spent
  /\ {receipt, pins, old} \subseteq [Release -> Pin] /\ named \in Pin
  /\ {fresh, narrowed} \subseteq BOOLEAN /\ vtodo \subseteq listed /\ listed \subseteq Release
  /\ vfile \in Release \cup {NoFile, Verifying}
  /\ store \in [stat : Bytes, wal : BOOLEAN] /\ green \in Bytes
  /\ pstep \in {"idle", "ask", "recheck", "record", "look", "unlink"} /\ raced \subseteq Manifested
  /\ before \in Bytes /\ consented \in Bytes /\ deleted \subseteq Spent
  /\ writes \in 0..MaxWrites /\ drift \in 0..MaxDrift /\ passKills \in 0..MaxPassKills

RetentionInit ==
  /\ \E scene \in Scenes : onDisk = [f \in KeptFile |-> IF f \in scene THEN 1 ELSE GoneFile]
  /\ stampOf = onDisk /\ mtime = onDisk /\ writes = 0
  /\ sums = [f \in Manifested |-> GoneFile] /\ sumStamp = sums
  /\ hashing = [file |-> NoFile, stat |-> GoneFile]
  /\ driveCopy = [f \in KeptFile |-> GoneFile] /\ ia = [f \in Spent |-> 1] /\ served = Spent /\ drift = 0
  /\ receipt = NoPins /\ fresh = FALSE /\ listed = {}
  /\ store = [stat |-> 1, wal |-> FALSE] /\ green = GoneFile
  /\ vfile = NoFile /\ vtodo = {} /\ narrowed = FALSE /\ named = NoPin /\ old = NoPins /\ pins = NoPins
  /\ pstep = "idle" /\ prey = NoFile /\ before = GoneFile /\ consented = GoneFile /\ deleted = {}
  /\ raced = {}
  /\ proof = [f \in KeptFile |-> GoneFile] /\ passKills = 0
-----------------------------------------------------------------------------
(* The world. *)

\* Somebody writes a file: other bytes or the same again, under a new mtime or the old one.
Rewrite(f, other, keeping) ==
  /\ writes < MaxWrites /\ onDisk[f] # GoneFile /\ f \notin Staged
  /\ writes' = writes + 1
  /\ onDisk' = IF other THEN [onDisk EXCEPT ![f] = writes + 2] ELSE onDisk
  /\ stampOf' = [stampOf EXCEPT ![f] = writes + 2]
  /\ mtime' = IF keeping THEN mtime ELSE [mtime EXCEPT ![f] = writes + 2]
  /\ raced' = IF pstep = "unlink" /\ f = prey /\ f \in Manifested THEN {f} ELSE raced
  /\ UNCHANGED <<far, records, receipt, fresh, listed, store, green, verify, pass, passKills>>

\* A bank opens the store, writing it, and closes it again.
OpenStore ==
  /\ writes < MaxWrites /\ ~store.wal
  /\ writes' = writes + 1 /\ store' = [stat |-> writes + 2, wal |-> TRUE]
  /\ UNCHANGED <<onDisk, stampOf, mtime, far, records, receipt, fresh, listed, green, verify, prune, passKills>>

CloseStore ==
  /\ store.wal
  /\ store' = [store EXCEPT !.wal = FALSE]
  /\ UNCHANGED <<here, far, records, receipt, fresh, listed, green, verify, prune, passKills>>

\* A copy is lost or replaced at a far side, or archive.org stops serving a file.
Drift ==
  /\ drift < MaxDrift
  /\ drift' = drift + 1
  /\ \/ \E f \in KeptFile : driveCopy' = [driveCopy EXCEPT ![f] = GoneFile] /\ UNCHANGED <<ia, served>>
     \/ \E f \in Spent : ia' = [ia EXCEPT ![f] = MaxWrites + 1 + drift'] /\ UNCHANGED <<driveCopy, served>>
     \/ \E f \in Spent : served' = served \ {f} /\ UNCHANGED <<driveCopy, ia>>
  /\ UNCHANGED <<here, records, receipt, fresh, listed, store, green, verify, prune, passKills>>

\* The receipt passes MAX_AGE.
Expire ==
  /\ fresh
  /\ fresh' = FALSE
  /\ UNCHANGED <<here, far, records, receipt, listed, store, green, verify, prune, passKills>>
-----------------------------------------------------------------------------
(* verify_raw.py: a file whose mtime is the recorded one keeps its line; the others are hashed, *)
(* after they were listed.                                                                      *)

ListFile(f) ==
  /\ hashing.file = NoFile /\ onDisk[f] # GoneFile /\ (sumStamp[f] # mtime[f] \/ sums[f] = GoneFile)
  /\ hashing' = [file |-> f, stat |-> mtime[f]]
  /\ UNCHANGED <<here, far, sums, sumStamp, receipt, fresh, listed, store, green, verify, prune, passKills>>

\* A file that went meanwhile ends the run before it writes.
HashFile ==
  /\ hashing.file # NoFile
  /\ LET f == hashing.file IN
     IF onDisk[f] = GoneFile THEN UNCHANGED <<sums, sumStamp>>
     ELSE /\ sums' = [sums EXCEPT ![f] = onDisk[f]]
          /\ sumStamp' = [sumStamp EXCEPT ![f] = hashing.stat]
  /\ hashing' = [file |-> NoFile, stat |-> GoneFile]
  /\ UNCHANGED <<here, far, receipt, fresh, listed, store, green, verify, prune, passKills>>

\* A file that is gone loses its lines at the next run.
Forget(f) ==
  /\ hashing.file = NoFile /\ onDisk[f] = GoneFile /\ sums[f] # GoneFile
  /\ sums' = [sums EXCEPT ![f] = GoneFile] /\ sumStamp' = [sumStamp EXCEPT ![f] = GoneFile]
  /\ UNCHANGED <<here, far, hashing, receipt, fresh, listed, store, green, verify, prune, passKills>>
-----------------------------------------------------------------------------
(* offsite.py; every release is an entry of its own. *)

\* `--manifest`: a row for what has a checksum record.
Manifest ==
  /\ vfile = NoFile
  /\ listed' = {f \in Release : sums[f] # GoneFile}
  /\ listed' # listed
  /\ UNCHANGED <<here, far, records, receipt, fresh, store, green, verify, prune, passKills>>

\* `--upload --yes` and the upload of a package: a copy adds and overwrites, and never deletes.
Upload(f) ==
  /\ f \in listed \cup Staged /\ onDisk[f] # GoneFile /\ driveCopy[f] # onDisk[f]
  /\ driveCopy' = [driveCopy EXCEPT ![f] = onDisk[f]]
  /\ UNCHANGED <<here, ia, served, drift, records, receipt, fresh, listed, store, green, verify, prune, passKills>>

\* `--verify` revokes the pins of its rows before it checks anything: every pin, or with `--entry`
\* those of the rows it names, keeping the receipt's time.
VerifyBegin(scope, some) ==
  /\ vfile = NoFile /\ scope # {} /\ (~some => scope = listed)
  /\ old' = IF fresh THEN receipt ELSE NoPins
  /\ receipt' = IF some THEN [f \in Release |-> IF f \in scope THEN NoPin ELSE old'[f]] ELSE NoPins
  /\ pins' = receipt' /\ fresh' = TRUE
  /\ vtodo' = scope /\ narrowed' = some /\ vfile' = Verifying
  /\ UNCHANGED <<here, far, records, listed, store, green, named, prune, passKills>>

\* `check_entry`: the remote's hash against the manifest beside the data; then the first look of
\* `pin_local`, at the stat and at the digest the manifest names by now.
VerifyList(f) ==
  /\ vfile = Verifying /\ f \in vtodo
  /\ vtodo' = vtodo \ {f}
  /\ IF sums[f] # GoneFile /\ driveCopy[f] = sums[f] /\ onDisk[f] # GoneFile
     THEN vfile' = f /\ named' = [stat |-> stampOf[f], digest |-> sums[f]]
     ELSE UNCHANGED <<vfile, named>>
  /\ UNCHANGED <<here, far, records, receipt, fresh, listed, store, green, narrowed, old, pins, prune, passKills>>

VerifyIdle == vfile \notin {NoFile, Verifying}

\* A file whose old pin says the same is not read again, any other is hashed.
VerifyHash ==
  /\ VerifyIdle /\ old[vfile] # named
  /\ IF onDisk[vfile] = named.digest
     THEN old' = [old EXCEPT ![vfile] = named] /\ UNCHANGED <<vfile, named>>
     ELSE old' = old /\ vfile' = Verifying /\ named' = NoPin
  /\ UNCHANGED <<here, far, records, receipt, fresh, listed, store, green, vtodo, narrowed, pins, prune, passKills>>

\* The second look: pinned if it held still.
VerifyPin ==
  /\ VerifyIdle /\ old[vfile] = named
  /\ pins' = IF onDisk[vfile] # GoneFile /\ stampOf[vfile] = named.stat
             THEN [pins EXCEPT ![vfile] = named] ELSE pins
  /\ vfile' = Verifying /\ named' = NoPin
  /\ UNCHANGED <<here, far, records, receipt, fresh, listed, store, green, vtodo, narrowed, old, prune, passKills>>

VerifyReset == vfile' = NoFile /\ vtodo' = {} /\ narrowed' = FALSE /\ named' = NoPin /\ old' = NoPins /\ pins' = NoPins
VerifyWrite ==
  /\ vfile = Verifying /\ vtodo = {}
  /\ receipt' = pins /\ fresh' = (fresh \/ ~narrowed)
  /\ VerifyReset
  /\ UNCHANGED <<here, far, records, listed, store, green, prune, passKills>>
-----------------------------------------------------------------------------
(* prune.py. *)

NewestCopy == CHOOSE s \in Staged : \A r \in Staged : r <= s

\* What may be taken in hand.  A release needs a fresh pin of this very stat, spent raw a digest
\* recorded for it, a stage a newer one, a backup a newer store at rest.
Listed(f) ==
  /\ onDisk[f] # GoneFile
  /\ f \in Release => fresh /\ receipt[f].stat = stampOf[f]
  /\ f \in Spent   => sums[f] # GoneFile /\ sumStamp[f] = mtime[f]
  /\ f \in Staged   => f # NewestCopy
  /\ f \in Backup  => store.stat > stampOf[f] /\ ~store.wal
PruneTake(f) ==
  /\ pstep = "idle" /\ Listed(f)
  /\ prey' = f /\ pstep' = "ask" /\ before' = stampOf[f]
  /\ consented' = IF f \in Backup THEN store.stat ELSE GoneFile
  /\ UNCHANGED <<here, far, records, receipt, fresh, listed, store, green, verify, deleted, proof, raced, passKills>>

HeldOffsite ==
  pstep' = "idle" /\ prey' = NoFile /\ before' = GoneFile /\ consented' = GoneFile /\ raced' = {}

\* What the far side says of it.  A release is asked for by the digest of its pin; archive.org
\* must list it, serve it, and give a sha1; the older stages go by the newest one's checksum;
\* `ark check` reads the store, and may call it red.  A far side may not answer.
PruneAsk ==
  /\ pstep = "ask"
  /\ LET there == CASE prey \in Release -> driveCopy[prey]
                    [] prey \in Spent   -> IF prey \in served THEN ia[prey] ELSE GoneFile
                    [] prey \in Staged   -> driveCopy[NewestCopy]
                    [] prey \in Backup  -> store.stat
         fits  == CASE prey \in Release -> there = receipt[prey].digest
                    [] prey \in Staged   -> there = onDisk[NewestCopy]
                    [] OTHER            -> TRUE IN
     \/ HeldOffsite /\ UNCHANGED green
     \/ /\ there # GoneFile /\ fits
        /\ consented' = IF prey \in Backup THEN consented ELSE there
        /\ green' = IF prey \in Backup THEN there ELSE green
        /\ pstep' = "recheck" /\ UNCHANGED <<prey, before, raced>>
  /\ UNCHANGED <<here, far, records, receipt, fresh, listed, store, verify, deleted, proof, passKills>>

\* Where a file goes whose proof holds: what DELETED.tsv names, what is looked at once more.
Proven == pstep' = CASE prey \in Spent -> "record" [] prey \in Release -> "look" [] OTHER -> "unlink"

\* Mutant: what the far side said is not held against the file.
MutPruneRecheck ==
  /\ pstep = "recheck" /\ Proven
  /\ UNCHANGED <<here, far, records, receipt, fresh, listed, store, green, verify, deleted, proof, raced, passKills, prey, before, consented>>

\* The second look.  Spent raw is hashed here: the recorded digest may be archive.org's own.
PruneRecheck ==
  /\ pstep = "recheck"
  /\ LET ok == CASE prey \in Release -> stampOf[prey] = before /\ onDisk[prey] # GoneFile
                 [] prey \in Spent   -> onDisk[prey] = consented
                 [] prey \in Staged   -> onDisk[prey] # GoneFile
                 [] prey \in Backup  -> store.stat = consented /\ ~store.wal /\ stampOf[prey] = before IN
     IF ok THEN Proven /\ UNCHANGED <<prey, before, consented, raced>> ELSE HeldOffsite
  /\ UNCHANGED <<here, far, records, receipt, fresh, listed, store, green, verify, deleted, proof, passKills>>

\* DELETED.tsv is written and flushed before the file goes.
PruneRecord ==
  /\ pstep = "record"
  /\ deleted' = deleted \cup {prey} /\ pstep' = "look"
  /\ UNCHANGED <<here, far, records, receipt, fresh, listed, store, green, verify, prey, before, consented, proof, raced, passKills>>

\* The last look at the signature of a release or of spent raw.
PruneLook ==
  /\ pstep = "look"
  /\ IF stampOf[prey] = before /\ onDisk[prey] # GoneFile
     THEN pstep' = "unlink" /\ UNCHANGED <<prey, before, consented, raced>>
     ELSE HeldOffsite
  /\ UNCHANGED <<here, far, records, receipt, fresh, listed, store, green, verify, deleted, proof, passKills>>

\* The unlink takes whatever lies at the path by now.  `proof` keeps what went against what was seen.
PruneUnlink ==
  /\ pstep = "unlink"
  /\ LET proved == CASE prey \in Manifested -> onDisk[prey] = consented
                     [] prey \in Backup     -> green = consented
                     [] prey \in Staged      -> consented = onDisk[NewestCopy] IN
     proof' = [proof EXCEPT ![prey] = IF raced # {} THEN Raced ELSE IF proved THEN consented ELSE Unproved]
  /\ onDisk' = [onDisk EXCEPT ![prey] = GoneFile]
  /\ HeldOffsite
  /\ UNCHANGED <<stampOf, mtime, writes, far, records, receipt, fresh, listed, store, green, verify, deleted, passKills>>

\* A run of the three killed between two steps.
KillPass ==
  /\ passKills < MaxPassKills /\ (pstep # "idle" \/ vfile # NoFile \/ hashing.file # NoFile)
  /\ passKills' = passKills + 1
  /\ HeldOffsite /\ VerifyReset /\ hashing' = [file |-> NoFile, stat |-> GoneFile]
  /\ UNCHANGED <<here, far, sums, sumStamp, receipt, fresh, listed, store, green, deleted, proof>>

RetentionNext ==
  \/ \E f \in KeptFile, other, keeping \in BOOLEAN : Rewrite(f, other, keeping)
  \/ OpenStore \/ CloseStore \/ Drift \/ Expire
  \/ \E f \in Manifested : ListFile(f) \/ Forget(f)
  \/ HashFile \/ Manifest
  \/ \E f \in KeptFile : Upload(f) \/ PruneTake(f)
  \/ \E scope \in SUBSET listed, some \in BOOLEAN : VerifyBegin(scope, some)
  \/ \E f \in Release : VerifyList(f)
  \/ VerifyHash \/ VerifyPin \/ VerifyWrite
  \/ PruneAsk \/ PruneRecheck \/ PruneRecord \/ PruneLook \/ PruneUnlink \/ KillPass

RetentionSpec == RetentionInit /\ [][RetentionNext]_retentionVars
-----------------------------------------------------------------------------
(* What a deletion rests on. *)

\* A release or spent file goes only if the bytes that went are the ones the far side was seen to
\* hold in that very run, however file, remote and receipt changed between the steps; a backup
\* only behind a store that stood unchanged around the check that called it green (prune.py,
\* deletion_proof: unchanged local bytes and a current remote hash match).  But for a file written
\* between the last look at it and its unlink (prune.py:203-205, 670-672).
DeletedIsProved == \A f \in KeptFile : proof[f] # Unproved

\* Said at prune.py:199: a file is deleted only after its recorded and its remote copy were
\* checked.  Not kept of a file written behind the last look.
DeletedAsSeen == \A f \in KeptFile : proof[f] # Raced

\* A pin says what it was taken for: while the file keeps the signature of its pin, its bytes have
\* the digest of the pin (offsite.py, pin_local: hashed between two looks at the stats).
ReceiptIsTrue ==
  \A f \in Release : receipt[f] # NoPin /\ onDisk[f] # GoneFile /\ stampOf[f] = receipt[f].stat
                        => onDisk[f] = receipt[f].digest

(***************************************************************************)
(* A file goes on what was seen of it in that run, and a pin describes the *)
(* file it signs (prune.py, offsite.py).                                   *)
(***************************************************************************)
DeletedAsProved == RetentionTypeOK /\ DeletedIsProved /\ ReceiptIsTrue
=============================================================================
