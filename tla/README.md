# TLA+ verification of the Internet Digital Ark

The Ark collects evidence that a domain or a host existed in a year (1996 to 2013) from web
archives, indexes, messages and lists, keeps it in one DuckDB store, and exports the
domain-years a reviewer's database lacks. It is Python, bash and a justfile run by timers on a
few machines, with collectors, an hourly tick, a writer of the store (`just bank`) and a fleet of
runners on GitHub. What is hard in it is seldom a computation: it is that a dozen processes share
files, journals, a store, a git clone and a remote branch, any of which may be half written when
a process is killed.

These modules model that: each names the code it stands for, TLC checks it on small instances, and
TLAPS proves their safety for every instance. Paths below are relative to the
repository (`src/` in `PROJECT.json`).

- [Reading the project](#reading-the-project)
- [The system](#the-system)
- [Runs](#runs): what is checked together, what each run shows, its bounds and fairness
- [Modules](#modules): how each one's state and actions correspond to the code
- [Proofs](#proofs)
- [Where the code differs from what it says](#where-the-code-differs-from-what-it-says)
- [Not modelled](#not-modelled)
- [Plan](#plan)

## Reading the project

`X.tla` is a component, `XProofs.tla` the theorems about it or about its group of components,
`MCX.tla` the constants its runs share, `MCX*.cfg` the runs. `PROJECT.json` maps every definition to
the lines it stands for and lists the runs, the mutants, the findings, the hazards and the theorems.

    tlc -workers 2 -config MCBank.cfg MCBank
    tlapm BankProofs.tla

A definition named `Mut...` is a plausible bug of the definition after it. Each checked property
has one, and fails when the mutant replaces the definition; no specification uses them.

In every module an action is one command of a script, one transaction of the store, one write of
a file or one critical section under a lock: what another process, or a kill, can come between.
Variables called history in a module are not in the code; they only let a property speak of the
past. A property that is the conjunction of several named ones is checked as one: what it says of
the system is in its comment, what each part says in the part's.

## The system

| component | state it keeps | operations | interacts with |
|---|---|---|---|
| sync lock (`sync_lock.sh`) | a directory and a pid file | take, drop, holder | every writer of the store |
| bank and trigger (`justfile` `bank`, `bank_trigger.py`, `bank_approved.py`) | stamp, seen, red, retry and push marks in `data/logs`, the export in `output/` | trigger, fold, decide, ingest, export, gate, take back, stamp, publish | store, registers, drains, fleet |
| fleet push (`push_fleet.sh`, `fleet_leads.py`, `fleet_ledger.py`) | the fleet clone, the remote branch, drains | write statuses, lines and the claim, push, replay | fleet legs, bank, tick |
| sync drain and scribe (`justfile` `sync`, `fleet_findings.py`, `bank_findings.py`) | `incoming`, processed runs, two registers | download, flatten, validate, book, commit, move aside, mark | fleet, bank |
| evidence store (`db.py`, `bulk.py`, `hostnames.py`, `unbank_source.py`, `checks.py`) | evidence rows, `domain_year`, `hostname_year`, ingest receipts | ingest a file or a batch, unbank a source, check | journals, bank |
| hostname lanes and retraction (`hostnames.py`, `status_audit.py`) | rows by lane and class, receipts, parked hosts, audits | read a file, retract, re-ingest | store, collectors |
| parsers and collectors (`sources.py`, `scripts/sources`) | month lists, shards, swept marks; what a reader carries between lines | plan, sweep, read | store |
| run journals and converter (`journal.py`, `cli.py`, `cdx_suffix_convert.py`) | `.part` and final journals, the converter's state | start, line, end, promote, convert, ingest | collectors, bank |
| extended walk (`cdx_extended_walk.py`, `cdx_walk_jobs.py`) | `pending.txt`, `done.txt`, journals | take, ask, settle, restart | the index, the converter |
| platform walk (`cdx_platform_walk.py`) | a resume key, journals, `.done` and `.refused` | begin, ask, save, rotate, close | the index, hold |
| CDX lookup and governor (`cdx.py`) | rate, breaker, next start; a domain's record | ask, throttle, ease, fall to the next tier, probe | the index, run journals |
| resumable fetch (`fetch.py`) | part files, robots answers | ask robots, follow, transfer, continue | any server |
| hold and tick (`hold.sh`, `scheduled_sync.sh`, `heartbeat.py`) | the hold file, flags, unit and workflow states, labels, alerts | hold, lift, tick, ship, alert | bank, walks, fleet |
| resident agent (`run_agent.sh`, `work_queue.py`, `pacer.py`) | queue, sessions, due marks, back-off, lock | pick, start, call, requeue, park | repository, fleet |
| approvals (`approvals.py`, `request_approval.py`, `sync_approvals.py`) | the register's blocks in four places, branches, pull requests, issues | request, file, decide, close | bank, owner |
| held sets and intake (`held.py`, `intake.py`, `releases.py`) | archives, trees, `data/held/<marker>`, `data/baseline.json` | take in, extract, record, prepare, load | every reader of a baseline |
| figures (`extended_export.py`, `build_round_state.py`) | cached rows, the extended years, the state page | screen, write a year, price, check | intake, collectors |
| price and snapshot (`price_snapshot.py`, `snapshot_manifest.py`) | the stage and its manifest | stage, verify, price | exports, fleet legs |
| export and packaging (`export.py`, `package_delivery.sh`, `justfile` `ship`) | the export's files and stamp, archives, the Drive folder | export, reuse, stage, archive, sum, upload, gate | store, reviewer |
| provenance graph (`provenance.py`, `ark rebuild`, `ark check --shipped`) | a Parquet file per table, the store loaded from them | export, cut to a delivery's names, drop, load | store, packaging |
| source expansion (`expand.py`, `seed.py`, `work_queue.py`) | a journal per run, the candidate queue | download, read a half, seed, enqueue | store |
| retention (`verify_raw.py`, `offsite.py`, `prune.py`) | checksums, receipts, remote copies | checksum, copy, prove, delete | the disk, Drive |

What makes each correct, and what is hard in it:

* **lock**: at most one run writes the store; a lock left by a dead run never closes the lane.
  Hard: `mkdir`, `kill -0`, `rm -rf` and the pid's write are separate calls; pids are reused.
* **bank**: nothing reaches the fleet, and no approved row stays, without a passed check; a red
  takes an approval's rows and line back together; no journal counts as seen that was not folded.
  Hard: 20 commands under `set -e`, journals landing between them, kills between any two, three
  kinds of marks that say what to do at the next tick.
* **fleet push**: what was booked here reaches main, once, and never over something newer. Hard:
  a clone that lags, resets and replays, and a push that is given up.
* **drain**: a finding is booked however the tick that downloaded it was cut off. Hard: runs that
  upload before they end, downloads that fail quietly, a register edited by the scribe and a hand.
* **store, lanes, retraction**: a year cites an existing row of its own pair and the best there is;
  a file skipped for its receipt is held; a row off which a year moves was an error. Hard: files in
  any order, journals that grow, receipts keyed on bytes, transactions of several commits.
* **journals, walks**: what a later run skips as answered is, or will be, in the store; every row
  the index holds is journalled or owed. Hard: live, ended, killed and stalled runs look alike but
  for a file's age; two files that a kill can leave at odds; answers cut short without saying so.
* **lookup, fetch**: a record or a receipt says what was really asked and got. Hard: threads that
  learn of a refusal after they reserved their next start, artifacts that change under a transfer.
* **hold, agent, approvals**: a held thing is off, a queued thing is tried a bounded number of
  times, an ask is filed once. Hard: commands to several machines whose answer may be lost.
* **graph, expansion**: what was written table by table, or to two databases, is whole or says
  that it is not. Hard: a kill between any two tables, or between the store's commit and the queue's.
* **intake, figures, price, packaging, retention**: what is quoted, priced, shipped or deleted is
  judged on files as they are, not as they were when someone looked. Hard: none of these holds a
  lock over all it reads.

## Runs

Components that share no state are checked in one run: its module extends them, and the variable
`component` (`family` in MCStore), chosen at the start, says whose behaviour this is; the others
keep their initial state. So a run is the union of the components' state spaces, not the product,
and an invariant of one component is evaluated in all of them. `MCFair` is the fairness of the
component that moves. Components that do interact meet inside a module: the bank, its trigger, the
registers and the marks in Bank; tick, push, legs and drains in FleetPush; runs, promotion,
converter and ingest in Journals; hold, tick, walkers and alerts in Tick; staging, exports and a
pricing leg in Snapshot; export, packaging, tick and intake in Ship.

| run | instance | shows |
|---|---|---|
| `sync` | SyncLock: three pids, two faults (a kill, a reused pid). FleetPush: one lead, two pieces of work in all (a leg's push that finds the lead, or finds it again, or an export), a kill. Drain: two runs of one lead, one refused by the schema, a kill | `ExclusionUnlessOverlap`; `LeadsAreKept`, `LeadsSettle`; `ProcessedIsHeld`; `SyncSettles`: the lane opens again and what completed is booked |
| `bank` | two leads (one inside the standing clauses, one whose source held rows), a journal of the bank's own globs, a kill | `PublishedIsGatedUnlessCut`, `GateSettles`, `NothingBanksUnderRed` |
| `bank_live` | a lead, a journal, a new baseline, a kill, `FairSpec` | `StampedPlainIsFolded`, `BankSettles` |
| `bank_publish` | a lead, a journal, a kill | violation of `PublishedIsGated`, below |
| `store` | Store: three bulk files of three classes, one of targets only, or two capture journals and a lane of messages; two records a file, an unbank with a kill in it. Graph: three files of two sources over a registrable and a hostname beneath it, an unbank, two rebuilds, a kill | `RowsAreSound`; until the unbank `ReadIsStored`; `GraphIsSound`, `RebuildDiscardsNothing` |
| `sweeps` | Journals: two runs of a collector, a bank and its trigger, two mishaps (a run silent, a run or bank killed), or a run beside a sweep that grows, a bank killed. Walk: a page cut in two, two workers, every kind of answer, a failure, a restart | `JournalsAreKept`; `NothingIsLost`; `SweepsSettle`: answers reach the store, rows are booked |
| `walk_parked` | one worker, a failure that parks | violation of `ParkedIsOwed`, below |
| `reach` | Fetch: a page, a redirect to another host and the CDX, two versions of an artifact of two bytes, two runs. Governor: two threads, a breaker of two. Lookup: three kinds of domain over four years. Platform: three pages, two kills, four faults | `ReceiptIsSound`; `PaceIsKept`; `RecordIsExplained`; `PagesAreKept`; `EveryAskEnds` |
| `ops` | Tick: a bank host, a desk and a walkers' host, with two hold commands from any machine, or one and runs by hand of which one is a dry run, or one from the bank host and a label; a kill. Agent: a day of three hours, an alert and an umbrella issue, an added item, a run by hand, a refusal. Approvals: two sources, one at the gate only with the other, a lost answer, a failed call, a kill | `HoldIsHonoured`; `AttemptsAreKept`; `AsksAreWhole`; `OpsSettle`: the hours report, the queue drains |
| `sources` | Items: a list of two months, two messages each, faults and kills. Readers: every source, files of three lines. HostLanes: files of four lines. Retraction: a host, its www and their parent, audits and kills. Expand: two pages, one captured twice, a name of his, two downloads | `MonthsAreKept`; `YearsAreRead`; `LanesAreRead`; `ErrorsAreRetracted`, `PassingStays`; `ExpansionIsFollowed` |
| `releases` | Retention: a file of each kind. Snapshot: two sources, one made late. Price: three items over five names and three releases. Ship: three ships of any mode, a pull, a retraction, a release, a kill. Intake: three archives of two markers, three files, a kill, a mend by hand that changes, adds or removes a line. Figures: two inputs, two years, two releases, a cut. Lists: a registrable and two hostnames over two years, their rows of every class, his files, bars | `DeletedAsProved`; `PriceCitesTheStage`, `ShownIsWhole`; `PriceIsRight`; `DeliveryIsWhole`; `ReleaseIsHis`; `FiguresAreCurrent`; `ShippedRebuilds` |
| `drain_again` | a lead and its confirming read, a kill | violation of `RedrainWritesNothing`, below |

### The bounds

A cfg names every bound. One kill, fault or edit each is what a recovery path recovers from; a
second is allowed where a recovery can itself be cut (the lock, the walk of a platform, a
retraction). Where several such bounds would multiply, the MC module also bounds their sum: of
writes, drifts and kills Retention meets two, of edits and kills Snapshot two, of failed fetches,
kills and unbanks Expand two, of faults and kills Items three, of unbanks (counted twice), rebuilds
and kills Graph three, of runs and kills Retraction four, of bookings, facts, pulls and ships Ship
five. Beyond that:

* SyncLock: three pids are what a take-over by a third run needs.
* Bank: two leads give the partial failure of a loop over approvals and both kinds of take-back.
* FleetPush: leads share the drain, the push and nothing else, so one is enough. `MaxWork` bounds
  legs and exports together: two legs find a lead, reject a push and find the lead again while an
  older drain is under way (the mutant of the guard against a stale close is caught there); a leg and
  an export make a push of both be rejected; two exports leave a claim older than the last.
* Drain: two runs of one lead are the least in which a newer copy meets an older one.
* Store: no writer relates two pairs, so one pair and one host; a third class for an order of
  strengths that is not a single swap; two records of one file for its choice of a row.
* Journals: two runs for one to skip what the other answered, one row for a size taken too late.
* Walk: two subpages make siblings settle out of order, two workers keep one in flight while the
  other books; with `Width` 2 a stop at a cut row never has a later sibling to drop, so that drop is
  covered by `WalkLosesNothing` alone. `Width`, `Depth`, `SilentAfter`, `ParkAfter` are 10, 3, 3 and 8 in the code;
  wider and deeper splits are beyond a run's time, and `WalkLosesNothing` is of every width and depth.
* Governor: a breaker after two refusals (five in the code) is the least with one refusal that
  does not trip it; times are relative to now and the delays one to two units.
* Lookup: four years let each tier see one the others do not; Platform: three pages give a middle
  page, whose both neighbours share a host-year with it.
* Readers: a reader carries at most what the last two lines set, so three lines reach every state
  in which a fourth could be read; HostLanes has four, an object with its changes and the next.
* Retraction: a `www` is the nearest other row a host-year may move to.
* Snapshot: of two sources one may be absent when its turn comes; content of up to two bytes has
  an empty file and two sizes, of which one fits.
* Graph: a file that dates a registrable, one that dates it and a hostname, one of the first's
  source; six tables are the code's own. Two rebuilds, since one cut off is followed by another.
* Lists: one registrable and two hostnames, so that one may stand on a list and one not; every
  kind of row, every place of a name in his files, years barred, barred everywhere, or not.
* Expand: a page of two captures, so that one may fail where the other answers; a link of both
  pages, one of his, a name only the seed file has.
* Journals: `Mishaps` bounds silences and kills together at two beside two runs; a sweep's rows and
  a second run meet in no state but the bank's, so they are checked apart.
* Tick: two hold commands overlap in what they name, not in time: one owner gives one at a time
  (the file is rewritten without a lock, `hold.sh:49-58`). Runs by hand are those of the bank host,
  where the recipes run; `MaxDries` bounds those that set the bypass.
* Ship: three ships are one that is cut, one that resumes it and one copied by hand beside either;
  of the unlocked `just ship drive` one runs at a time.
* Intake: a mend by hand changes a file's count of lines by one, by none or by minus one.
* Figures: two years make a folder that is half deleted; two exports one that deletes the other's.
* Intake: two archives of one marker and one of the next are a replacement and a release.

### The fairness

Each liveness property holds under the fairness in its module, which is what the scheduling
justifies: systemd starts a timer's script and a started script runs on (weak fairness of its
commands); a server, GitHub or a network that refuses does not do so for ever (strong fairness of
the call that succeeds: a push, a fetch, a list of runs, a comment). No fairness is assumed of a
hand: not of the one that clears a red, lifts a hold or answers an ask. By module:

* SyncLock (`SyncSettles`): the timer, started scripts and the end of the foreign program that got
  a pid. Drain (`SyncSettles`): a list of each workflow's runs and a download answer again and
  again, and somebody cleans a clone the preflight refuses, keeping the rows or not.
* Bank (`BankSettles`): pacing comes due and an absent journal's refetch answers again and again.
* FleetPush (`LeadsSettle`): a push and a fetch go through again and again, and so does a tick of
  a drain.
* Journals, Walk (`SweepsSettle`): runs end or age, workers go on, and a bank goes on that was
  started; it is started as `bank_trigger.py` does, when a glob has moved since the stamp, or for
  reasons of its own, of which nothing is assumed. What only those could bring is said so:
  `AnsweredIsBanked` has the stamp's oversights (`Overlooked`) as an exception, and none if banks
  come for other reasons again and again.
* Fetch, Governor, Lookup, Platform (`EveryAskEnds`): a process goes on; nothing of the servers.
* Tick (`OpsSettle`): ticks and runs by hand go on once begun, ticks end and GitHub hears a report again and again. Agent (`OpsSettle`):
  hours turn, calls end, the back-off resets, and a work run reaches its start again and again in
  spite of holds and pacing.

`CHECK_DEADLOCK` is off where a component may stop: a walk done, a fetch ended, bounds spent.

## Modules

### SyncLock (`scripts/harness/sync_lock.sh`)

One action per system call of take and drop, for any number of runs named by their pids; a run
may be killed at any call and its pid handed to another program. `Alive` is `kill -0`.
`overlapped` is the exact limit of the code: two takes at once do both hold the lock, since the
directory exists before its pid does (see below).

### Bank (`justfile` recipes `bank`, `sync`'s last steps, `red-clear`; `bank_trigger.py`, `bank_approved.py`)

The bank is a shell at place `pc` of its script; each action is one command with its write. Around
it journals land (`Land`), partials age, a new baseline is set, a sync fetches and drains, a human
clears a red and the preflight's clone is cleaned. `bad` is chosen at the start: what `ark check`
will refuse once it is in the store, so that every gate may pass or fail. `rows` and `folded` are
the store as the bank sees it, `page` and `live` the Decision lines in the working tree and on the
branch, `output` and `fleet` the state of the export, `seen`/`stamp`/`red`/`retry`/`push` the marks
in `data/logs`. `cut` records that a kill fell between a write and its gate (`Ungated`). Left out:
`drained reads` as a reason, a hand-run `bank_trigger.py clear`, the text of reports; `due` is a
free choice.

### FleetPush (`push_fleet.sh`, `fleet_leads.py`, `fleet_ledger.py`, `fleet_findings.py outcome`)

The remote branch `main`, the clone's files and its idea of the remote, the copies the push script
saves, drains and legs. A tick or bank books statuses and ledger lines, stages the claim, commits
and pushes; a rejected push saves, fetches, resets and replays, at most three times. The claim's
export and its mark `.push_pending` are two commands with a kill between them (`Export`, `Touch`), and
a red's take-back and `just ship build` export with no mark (`TakeBack`): `unmarked` remembers that
the last export is one that got none. `stale` says
which of the clone and its origin/main stand on an older commit than the remote's; only that is
compared of a revision.

### Drain (`justfile` `sync`, `fleet_findings.py`, `bank_findings.py`)

What the tick does with findings, one action per command: list each workflow's runs, download,
mark, flatten to a directory per lead, replace what the schema refuses, book a row per lead,
commit, move aside. `page` and `head` are the registers in the clone and as committed, so a kill
leaves edits that the preflight waits on (`Clean`). A copy is what a run says of its lead.

### Graph, Lists (`provenance.py`, `ark export --provenance`, `ark rebuild` in `cli.py`; `export.py`, `held.py`)

Graph: the store's six tables `db` and the graph's six files `parquet`, written in the order of
`Tables` and dropped in its reverse, one action per statement, between ingests and unbanks that
find what a kill left. The three histories are the limits of what the code keeps: an export cut off
after rows left the store leaves newer files beside older ones that name what they lost (`torn`), a
rebuild may load such a graph (`spoiled`), and one cut off between `ingested_file` and
`hostname_year` leaves receipts of files whose hostnames have no year (`cutOff`), which no later
ingest reads again. `Behind` compares two counts, as `cli.py:1078-1087` does. Lists: the lists of an
export as functions of a store, what a delivery ships as the graph cut to the names on them, and the
lists of an export over a store rebuilt from the cut.

### Expand (`expand.py`, `ark download`, `seed.py`, `work_queue.py`, `bulk.py` `_enqueue_unverified`)

A download takes the next pages of the seed file that no journal has settled, fetches of each the
first captures of the window and journals a line each, flushed or not when it is killed; a pass over
the store reads one half of the journals (links, or pages asserted to be directories), commits, and
then queues what is dated by nothing. `owing` are the sources whose pass was begun and not ended,
or whose names lost a year to an unbank since; `passed` the pages settled by one capture where
another failed; `late` the pages asserted after a run had settled them. Nothing claims what is
queued.

### Store, HostLanes, Retraction (`db.py`, `bulk.py`, `hostnames.py`, `unbank_source.py`, `status_audit.py`)

In Store `rows` is the evidence table, `year` and `hostyear` the annual records with the row each
cites, `ledger` the receipts, `content` what each file holds now (journals grow, bulk files do
not). `IngestFile` and `IngestItems` are a whole file in its one transaction, `FoldJournals` the
journals of one batch folded with one insert, the `Delete...` actions the statements of the unbank,
each its own commit. `ReadIsStored` ends with the first unbank because the code gives it up there:
it drops years another source also proves and receipts may outlive their rows.

HostLanes has the lanes that read finished files of dated hosts, each with its class, its method,
its receipt and what it does with hosts whose parent nothing attests; `ChangedYear` walks a RIPE
object's lines. Retraction has the two audit files, the transaction that takes error rows off
host-years and the parent's year, and the journals of the other web families read again after it.

### Items, Readers (`collect_ietf_mail_archive.py`, `hostnames.py` item shards; `sources.py`, `checks.py`)

Items: `plan` caches a month list per mailing list, `sweep` appends a month's rows to its list's
shard and then its mark; a listing may fail, a transfer be cut, a process be killed between any two
writes. Readers: one machine for the readers of `sources.py`, with the table of sources
(`Sources`) and what each reader carries from line to line (`Carry`); a row's value is the
four-digit runs the check can see in it.

### Journals, Walk (`journal.py`, `ark cdx`, `cdx_suffix_convert.py`, `bulk.ingest_files`; `cdx_extended_walk.py`)

Journals: runs that write `<name>.part` and rename it when they end; the bank's promotion of
partials idle for 90 minutes (`CopyBegin`, `CopyEnd`: a `cp` in place); the converter's stat, read,
output and state file; the ingest that skips a ledgered name and refuses changed bytes. `torn` and
`stalled` say which runs met the two events that strand an answer in the code: a bank killed in its
`cp`, a live run silent for 90 minutes; the properties except those runs and no others. A bank is
started when the globs differ from the stamp (`fresh`), and the stamp is measured at the bank's end,
so a journal that lands after its fold, or a partial promoted just after a bank, is seen and not read.

Walk: one lane. A page holds positions in index order (`index`); a task is a page or a finer
subpage, `Span` positions long at its level, `Asked` its rows. `Take`, `Ask`, `Retry`, `Settle` and
`Book` are the worker's loop, with the lane lock held from `Settle` to `Book`, so that a kill may
fall between the replacement of `pending.txt` and the line in `done.txt`. `subq` keeps its order and
its duplicates, since a duplicate without a reason is a `KeyError` that ends a booking half way.

### Fetch, Governor, Lookup, Platform (`fetch.py`, `cdx.py`, `cdx_platform_walk.py`)

Fetch: a run asks robots.txt of every host before it asks the host anything, follows redirects,
transfers to a pipe or a part file, and continues with Range. A byte is the version of the artifact
it belongs to and its offset. The code keeps no validator of the version its part file is of: a range
of another version is appended all the same, and `spliced` remembers that it was, so that the
property says a receipt is of one version unless exactly that happened. Governor: `next` and each
thread's reserved start, relative to now; what is told to a thread (an answer, a throttle, a
refusal) arrives while others sleep. Lookup: the three tiers of `lookup_years`, or the sweep year
by year, where each question may be answered whole, cut at its limit or not at all. Platform: pages
by resume key, host-years first in a `.part`; two short answers to one page are not both cut; a
platform that is given up saves its state, then writes `.refused`, then closes its journal.

### Tick, Agent, Approvals (`hold.sh`, `scheduled_sync.sh`, `heartbeat.py`; `run_agent.sh`, `work_queue.py`; `sync_approvals.py`)

Tick: a hold writes the file of the machine it is run on, then turns switch after switch off on
several machines, each of which may not confirm (`said` is what was confirmed); a lift keeps what
another name holds. The tick syncs, banks, ships behind the label and alerts; `just sync` and
`just bank` by hand take the same steps under the same lock, and one that sets
`ARK_HOLD_BYPASS=dry-run` passes the hold. They read the bank host's own file (`justfile:85-89`,
`:234-238`), so a hold taken on another machine reaches them through the timer alone. Agent: one run an hour or by hand under a lock, the mode of
the hour, the queue with its urgent items first, attempts counted before a call, sessions kept
after it. Approvals: the register in the checkout, its HEAD, origin/live and live; a branch, a pull
request and an issue are three calls, each of which may land and not say so.

### Retention, Snapshot, Shown, Price, Ship, Intake, Figures

Retention (`verify_raw.py`, `offsite.py`, `prune.py`): a file of each kind that may go, its
checksum with the stat it was taken at, its receipt, the remote's copy, and each pass from its look
to its delete, which are two steps (`PruneLook`, `PruneUnlink`); `raced` are the files written between
them. Snapshot (`snapshot_manifest.py`, `price_snapshot.py`): hard links staged one by one,
reused by identity, manifest last; a leg that verifies and reads. Shown is what a stage promises, in
27 lines: nothing, or a whole snapshot of bytes its sources held, withdrawn before another is shown.
`ShownIsWhole` says that Snapshot implements it, under the mapping that shows what a leg that came
now would accept. Price (`price_snapshot.py`): the funnel from items to names counted, with the
split. Ship (`export.py`, `package_delivery.sh`, `just ship`): claim and full exports with the stamp
that lets one reuse the other, staging, archive, sum, upload and the gate. `just ship` runs under the
sync lock; `just ship drive` takes none and may run beside it (`lone`). A listing of the reviewer's
folder may fail and then reads as an empty folder (`Meets`); `astray` says which of the two let a
second archive in. Intake (`intake.py`,
`releases.py`, `held.py`): an archive copied, extracted, recorded and measured, held sets prepared,
and a reader that loads them and compares file after file. A file is the version of each of its
lines, since a mend by hand may change a line and leave the count that the figures are kept by;
`evened` are the releases so mended. `intake.py --recompute`, which measures whatever the count says,
is left out. Figures (`extended_export.py`,
`build_round_state.py`): the extended export with its cache of screened inputs, and the page built
from its files while they are rewritten; `underRead` are the inputs that grew while they were read.
An export deletes its folder file by file, the additions whole before the manifest or after it, as
`shutil.rmtree` lists them; `torn` are the exports that lost a year before their manifest. The check
that an export runs behind (`justfile:440-441`, `:1072-1073`) is part of its start.

## Proofs

Eight modules hold theorems. Each is about every value of the constants: any sets of pids, leads,
files, pages or names, any bounds on kills and faults. They rest on the named assumptions of the
component modules only (subsets are subsets, bounds are naturals, model values are fresh, sets that
are counted are finite) and no proof is assumed.

| module | theorem | says |
|---|---|---|
| `SyncProofs` | `LockTypeOK`, `LockExclusion` | the lock is well typed; `ExclusionUnlessOverlap` |
| | `FleetKeepsLeads` | `LeadsAreKept` |
| | `FleetClosesNothingNewer` | no lead is closed for an outcome read before it was filed |
| | `DrainHoldsProcessed` | `ProcessedIsHeld` |
| `BankProofs` | `BankTypeOK`, `BankStampsFolded`, `BankPublishesGated`, `BankGateSettles`, `BankRedHolds` | `StampedPlainIsFolded`, `PublishedIsGatedUnlessCut`, `GateSettles`; the action property `NothingBanksUnderRed` |
| | `BankGatesRows`, `BankRedTakesBoth` | the two halves of `GateSettles` |
| `StoreProofs` | `StoreRowsAreSound`, `StoreKeepsWhatItRead` | `RowsAreSound`, `ReadIsStored` |
| `IntakeProofs` | `JournalsStayKept`, `PriceStaysRight`, `ReleaseStaysHis` | `JournalsAreKept`, `PriceIsRight`, `ReleaseIsHis` |
| | `WalkLosesNothing` | `NothingIsLost` |
| `ReachProofs` | `GovernorKeepsPace`, `PlatformKeepsPages`, `LookupExplainsRecord`, `FetchReceiptIsSound` | `PaceIsKept`, `PagesAreKept`, `RecordIsExplained`, `ReceiptIsSound` |
| `OpsProofs` | `TickHonoursHold`, `AgentKeepsAttempts`, `ApprovalsAskWhole` | `HoldIsHonoured`, `AttemptsAreKept`, `AsksAreWhole` |
| `SourcesProofs` | `MonthsStayKept`, `ExpansionStaysFollowed`, `GraphStaysSound`, `LanesStayRead`, `RetractionLeavesNoError`, `YearsStayRead` | `MonthsAreKept`, `ExpansionIsFollowed`, `GraphIsSound`, `LanesAreRead`, `ErrorsAreRetracted`, `YearsAreRead` |
| | `RebuildKeepsIngests`, `PassingYearsStay` | the action properties `RebuildDiscardsNothing`, `PassingStays` |
| `ReleaseProofs` | `ShipDeliversWhole`, `RetentionDeletesAsProved`, `SnapshotPriceIsCited`, `FiguresStayCurrent`, `ShippedListsRebuild` | `DeliveryIsWhole`, `DeletedAsProved`, `PriceCitesTheStage`, `FiguresAreCurrent`, `ShippedRebuilds` |
| | `SnapshotShowsWhole` | the refinement `ShownIsWhole`: Snapshot implements Shown |

None of the properties is inductive as it stands. Each proof strengthens it, shows that the
strengthening holds at first and survives each action (one step per action, under it one per
conjunct the action can disturb), and that it implies the property:

* **SyncLock**: without overlap a run that holds, or is past its take, is the one the directory can
  name, and nobody else is inside the script; a second holder would need a second run inside.
* **Bank**: what is true at every place of the script: which of the measured journals are folded,
  about to be folded or about to be red; that an unchecked export sits in `output/` only on its way
  to the gate or under a red; that an approval's rows are gated or on their way to the gate; that
  between the statements of a take-back the rows and lines left are those still to be taken.
* **FleetPush** (`FleetInv`): in every copy of the files a banked lead has its ledger line, and at
  each place of the push the claim is in the clone or in what the script saved before the reset
  (`ClaimInv`); a clone that is not stale closes nothing main has not closed (`FoundInv`). **Drain**
  (`DrainInv`): what the committed register has, the working one has; when the drain moves aside
  both are the same; a processed run is booked, in the drain, or fetched with its copy's lead.
* **Store** (`StoreInv`): what a file holds is of its lane's kind (`ContentHeld`), an id is one row's
  (`RowsNamed`), and between the statements of an unbank nothing cites the rows about to go
  (`Unbanking`), which is why the years are deleted first. Fresh rows are numbered above the held
  ones, the error before the web capture that joins it, so a class keeps one row a subject; a receipt
  is true when written (`StoredFrom`) and stays true while rows only grow. That a batch of journals
  is read as they would be one by one follows from what a journal can hold, in any such state.
* **Journals** (`JournalsInv`): only a run that was silent for 90 minutes while it lived has a final
  name before it ended, and a final file beside a partial equals it unless a copy was cut (`RunInv`);
  rows are in an output before the state counts them (`SweepInv`).
* **Walk** (`WalkInv`): what is true of the queue in memory and of the two files after a restart is
  said once, of a view: the rows seen to and the tasks owed (`InMemory`, `OnDisk`). Every task booked
  is settled, each of its rows in a journal or under a finer task owed (`AllBooked`, `Settled`); the
  reason on file for a subpage is true of its parent: what lies at or before a cut row is in a journal,
  a subpage opened by a probe has its siblings owed (`Reasoned`); a subpage without a reason is
  settled already. While the lock is held `pending.txt` is what memory owes (`WalkLocked`), so a
  booking carries one view into the other in either half. Where the code stops at a cut row, the
  argument is that a cut subpage's rows below that row are those of lower siblings, which the
  parent's journal has: intervals of powers of `Width`, by the lemmas on `Child`, `Span` and `Within`.
* **Governor** (`PaceInv`): starts apart, and the next one past the pause. **Platform** (`PagesInv`):
  until it is saved a walk is where the state file is; an answer with a key was whole, one without
  ended the index unless it was cut (`AnswerIsKnown`). **Lookup** (`TierInv`, `ProbeInv`): what each
  tier may have heard before the next is asked; of the years not left to probe, the missing ones
  failed. **Fetch** (`FetchInv`): what is hashed is what is written, in order, no more is to
  come than was declared, and while nothing was spliced all of it is of one version (`HeldInv`,
  `FlowInv`).
* **Tick** (`HoldInv`): no switch of a name that was dropped is said to be off, on whichever
  machine the name is still listed. **Agent**
  (`QueueInv`, `TryInv`): the calls made of an item are at most the attempts on file, and what a run
  is about to try is open. **Approvals** (`RegisterInv`, `AskInv`): a block any copy of the register
  or any pushed branch has, the clone's commit has; a source without a listed issue has room for the
  issues still due.
* **Items** (`ItemsInv`): a sweep under way has written a prefix of its month (`ReadSoFar`).
  **Expand** (`ExpandInv`): journals hold pages whole, but for the last of a run that is cut
  (`PagesWhole`), and a pass has still to queue what it read and has not queued (`PassOwes`).
* **Graph** (`GraphInv`): which tables are written at each step and of which set of tables
  (`HowFar`); tables of which the first *k* are of one sound set and the others of another, no
  larger, are sound (`PrefixSound`), which is why the order of `Tables` matters; ids lie below the
  sequence in the store, and a rebuild starts past those of the graph (`IdsInv`); with nothing cut
  off what is read is dated (`DatedInv`). `RebuildKeepsIngests` rests on a part of it: while no file
  left the ledger the graph's is within it, and two finite sets one within the other of which the
  inner is no smaller are equal.
* **Readers** (`ReadersInv`): what is carried into a line is what the lines before it say, one clause
  per reader (`Carries`): the heading, stamp, section or object that still holds. A row then cites the
  year the artifact gives that name, reader by reader (`OwnItem` to `CarriedItem`), in files of any
  length.
* **Price** (`PriceInv`): names found are asked about, left or looked up, and no line an asked name
  still needs was read past (`Sorted`, `StillAhead`); the funnel's counts and the sets they count stay
  equal as a name moves from one to the other (`AskedAddsUp`). **Intake** (`IntakeInv`): the figures
  on file are of the named release's files, or the files have another count of lines by now, or the
  release is in `evened` (`Measured`), so a count found equal means the same lines or the exception
  says why not; a stamp says one and the same of the sets and of his files (`Stamped`); what a
  reader loaded is what the release holds, or is gone (`Reading`).
* **HostLanes** (`LanesInv`): a file in the ledger, or one a row was taken from, is there and is the
  one read (`FilesKept`), so what was true of its lines when a row was filed stays true of it.
* **Retraction** (`RetractInv`): of each host at most one row is one an audit listed, lists or may
  list (`Doubtful`), and no step makes another doubtful; its year rests on that row only while it is
  the host's only one (`HostSound`). A target answered, and neither the errors filed nor those about
  to be filed list it (`TargetsSound`), which is why the two files, written one after the other, never
  repoint a year onto an error. While a write is under way the listed rows state their errors, and
  what it leaves on one it has no target for, and then no web journal (`WriteSound`).
* **Ship** (`ShipInv`): a stamp vouches for the files it names (`StampSaid`), a ship that may write
  holds the lock (`LockHeld`), what it has put on the drive is still there when it closes the gate
  (`DriveKept`), and unless an archive went `astray` the folder holds one, and a ship past the
  listing finds its own there at most (`FolderKept`).
  **Retention** (`RetentionInv`): a signature is never given twice (`StampsNew`), so a pin is true of
  a file that still has it (`PinsTrue`), and a pass knows what it saw of its file as long as the file
  is unmoved (`Seen`); what is unlinked is what was last looked at, or it is in `raced`. **Snapshot** (`SnapshotInv`): an entry names an inode by a ctime it has had,
  and while it has it, its bytes (`TablesTrue`). For Shown, besides: a file keeps to inodes of its own,
  which hold what it has held (`Owned`), and only lists with every required file are staged and
  written (`ListsWhole`); so an accepted stage holds the bytes its manifest names, and two accepted
  ones in a row are the same, whichever step came between, with any number of stagers.
  **Figures** (`FiguresInv`): rows are of the content
  they are keyed on (`KeyedOnRows`), no key is ahead of its input (`KeysAreBehind`), so a manifest that a
  run has begun to clear is never current again (`ClearedIsBehind`); the years of a whole export are of
  the run that wrote the manifest (`WholeIsOne`), and a page that notes an export's number reads that
  export's files (`QuotedFromOne`). **Lists** (`ListsInv`): what each step wrote; then each list over the cut is the
  list over the whole, name by name.

Looking for these invariants corrected the models: assumptions the code justifies but the modules
had not said (`MaxReleases` positive, one row per registrable in `domain`, finite sets of machines,
the years a reader of two digits can state), two arms of a CASE in Readers that overlapped, claims
TLC's instances were too small to refute (`OneIssuePerSource`, and the lost subpage of Walk under
[Where the code differs](#where-the-code-differs-from-what-it-says)), and definitions that read
better without a destructured tuple, a nested function update or a selection under a filter.

Only model-checked:

* liveness (`SyncSettles`, `LeadsSettle`, `BankSettles`, `SweepsSettle`, `EveryAskEnds`,
  `OpsSettle`): fairness and ENABLED are out of the prover's reach.

Every safety invariant, action property and refinement that a passing run checks has its theorem.
The parts that would be inductions over data are stated so that a step shows them: a count is
compared as its set grows by one, a file by what was appended to it. No module declares a RECURSIVE operator.

## Where the code differs from what it says

Three runs that TLC must find violated; `PROJECT.json` quotes the line of the repository.

| run | the code |
|---|---|
| `bank_publish` | killed between the export and the gate, the next tick publishes an unchecked export |
| `walk_parked` | a subpage parked after its last failure is in no file: no start asks it again, though the log says so |
| `drain_again` | a run drained while in progress is drained again after the drain moved aside, and its older copy replaces the confirmed row, though a re-drained run is said to write nothing (`justfile:153-154`) |

The modules also state claims of the repository that the code does not keep; TLC refutes each under
the constants of the run its module is in. Their comments begin "Said at" with the place.

| property | the claim, and the behaviour that breaks it |
|---|---|
| `ShipsOncePerLabel` (Tick) | the label goes so that a failed ship does not retry every hour (`scheduled_sync.sh:12-15`); its removal may fail unseen (`:54`) and the next tick ships again |
| `FileNamesWhatIsHeld` (Tick) | the hold file names what is held (`hold.sh:7-8`); a lift writes the file before the switches, and one killed in between leaves switches off under no name |
| `ResumedOnce` (Agent) | an item's session is resumed once (`work_queue.py:7-9`); a resumed run that is killed resumes it again |
| `OneIssuePerSource` (Approvals) | a source's sections go into one issue and one pull request (`sync_approvals.py:1`); a source pending in two classes, filed in two runs, has an issue for each |
| `EveryAskFiles` (Approvals) | at the gate every ask files (`sync_approvals.py:14-16`); a local branch a killed run left makes every later `git worktree add -b` fail (`:236-240`) |
| `SweptIsInShard` (Items) | sweep is resumable (`collect_ietf_mail_archive.py:42-44`); the first row of a month joined to a torn line is lost although its month is marked |
| `ListedIsDated` (HostLanes) | a blocklist dates each listed host (`tests/test_hostnames.py:459`); not a host a nameserver lane filed first in the same class and year |
| `BreakerHoldsAll` (Governor) | the breaker holds every thread off (`cdx.py:299-300`); a thread that has reserved its start goes ahead |
| `TruncationIsReported` (Lookup) | truncation is reported (`cdx.py:14-16`); only by the tier that scans |
| `EveryEndHasAReceipt` (Fetch) | a receipt is printed on success or failure (`fetch.py:59-60`); a range request that cannot connect raises out of the run |
| `ShaIsOfOneArtifact` (Fetch) | a receipt's sha256 is of the artifact (`fetch.py:586-587`); a transfer continued over a part file of an older version hashes both |
| `DeletedAsSeen` (Retention) | a file goes only with the bytes its receipt proves (`prune.py:203-205`, `:670-672`); one rewritten between the last look and the unlink goes unproved |
| `OneArchiveOnDrive` (Ship) | the reviewer's folder holds one archive (`justfile:988-989`); a listing that fails reads as empty (`:999-1001`), and `just ship drive` holds no lock (`:1162`) |
| `FiguresAreOfTree` (Intake) | the figures kept are of exactly these files (`intake.py:170`); they are kept by the sum of the line counts (`:172-179`) |
| `ChangedIsStale` (Figures) | a file that changes reads as stale, never as current (`build_round_state.py:205-206`); an export killed while it clears its folder leaves a manifest that passes over years that are gone (`extended_export.py:303-305`) |
| `PriceReadsWhatItCites` (Snapshot) | a price is measured against what the finding cites (`price_snapshot.py:219-226`); the stage is verified once and read by path later |
| `SourceMatchesResults` (Ship) | the package's source matches its results (`package_delivery.sh:76`); a tick pulls the clone between export and package |
| `KeptIsWhatItWouldWrite` (Ship) | a full export keeps files byte for byte what it would write (`export.py:515-516`); the ledger it compares does not move with a retraction by hand |
| `RebuildRefusesAhead` (Graph) | a rebuild refuses when the store holds ingested files the export does not (`cli.py:1064-1066`); it compares two counts, so one file out and another in pass unseen |
| `ShippedRebuildsAll` (Lists) | a rebuild over a delivery writes every list again (`provenance.py:133-137`); not the pool and the unverified, for the registrables of `Untimely` and `Orphans` |
| `NamedIsWhole` (Intake) | a run refuses rather than half-applying (`intake.py:22-27`); a tree whose extraction was killed counts as extracted (`:266-271`) |

Others are excepted by name where a property would otherwise fail; the exception in the property
is the place to read:

* `ExclusionUnlessOverlap`: a take that finds the directory before its pid is written
  (`sync_lock.sh:27-39`) takes it for stale, so two takes at once both hold the lock.
* `GateSettles` (`cut`): a bank killed between an approved ingest and the gate (`justfile:393`)
  is followed by one that finds nothing newly approved and stamps it unchecked.
* `StampedPlainIsFolded` (`Cdx`): a journal a collector lands under `data/raw/cdx` after the
  bank's fold of that directory is stamped as seen (`bank_trigger.py:204`).
* `BankSettles`: a retried approval loses its reason when its journal is back and the ingest fails
  (`justfile:387-392`).
* `LeadsAreKept` (`unmarked`): a bank killed between the claim's export and `touch .push_pending`
  (`justfile:348-350`, `:397-399`), a red's own export after its take-back (`:419`) and that of
  `just ship build` leave a claim on disk no later tick pushes; main keeps the one before until the
  next bank exports.
* `SweepsSettle` (`Overlooked`): a partial killed less than 90 minutes before a bank, or a journal
  that lands after its fold, is in the globs the stamp measures (`bank_trigger.py:44`, `:204`,
  `justfile:310`) and starts no bank by itself; it is read when another reason brings one.
* `ReceiptIsSound` (`spliced`), `DeletedAsProved` (`raced`), `DeliveryIsWhole` (`astray`),
  `ReleaseIsHis` (`evened`), `FiguresAreCurrent` (`torn`): the behaviours that refute
  `ShaIsOfOneArtifact`, `DeletedAsSeen`, `OneArchiveOnDrive`, `FiguresAreOfTree` and
  `ChangedIsStale` above, and no others.
* `OpsSettle`: a dry run by hand passes the hold (`hold.sh:8-9`), and a hold run on another machine
  leaves the bank host's file as it was, so there only the ticks come to rest.
* `LeadsSettle`: a push given up after three attempts exits 0, the drain is moved, and the next
  rejected push resets the only copy of a closed status (`push_fleet.sh:80-93`).
* `ProcessedIsHeld`, `SyncSettles` (`missed`): a completed run whose download failed is marked
  processed (`justfile:126-128`).
* `ReadIsStored` (`unbanks`): an unbank takes the year of a pair another source
  proves, and that source's file is skipped for its receipt (`unbank_source.py:17-20`).
* `JournalsAreKept` (`stalled`, `torn`): a live run silent for 90 minutes is promoted, then
  replaces an ingested file, which every later ingest refuses without a red (`justfile:304-312`,
  `bulk.py:446-451`); a copy cut short under its final name is never completed.
* `NothingIsLost` (`verdict`): a page of the finest size that is cut is booked without the rows
  after the cut (`cdx_extended_walk.py:104-111`), and refusals count towards the silences that
  give a subpage up (`:437-441`). A subpage may also be lost to a `KeyError`: a silent page killed
  before its line in `done.txt` is asked again beside its probes, one of which is then both in flight
  and queued; once that is booked the queued copy has no reason, and a cut subpage whose siblings are
  to be dropped meets it in `self.meta[t]` (`:469`) after it left `inflight` and `meta` itself
  (`:466-467`). No later save writes it, though "Failures cost time, never rows" (`:27`). It takes
  three subpages of three rows, so the run's instance does not reach it; the proof did not go through
  without it and TLC then found it on that instance. The same `KeyError` may leave a queue the lane
  ends without (`ExitOwesNothing`), which the next start asks again.
* `PagesAreKept` (`firstCut`): an answer cut short ends a platform when it is the first page's,
  which has no key to be asked again with (`cdx_platform_walk.py:276`).
* `GraphIsSound` (`torn`, `spoiled`, `cutOff`): an export or a rebuild cut off, as above
  (`provenance.py:110-129`, `:225-251`).
* `ShippedRebuilds` (`Untimely`, `Orphans`): a registrable whose captures are all of barred years
  comes back as a candidate, and one his release gave and dropped is in no graph.
* `ExpansionIsFollowed` (`passed`, `late`, `owing`): a page is settled by any one capture that
  answered, even where another failed or its line was lost; a page asserted to be a directory after
  its run is not read as one (`expand.py:179-185`); a pass killed after the store's commit has queued
  nothing until its source's next pass (`bulk.py:464-471`).
* `FiguresAreCurrent` (`underRead`): an input that grows while it is screened is keyed on its size
  after the read, and its rows stay short until it grows again (`extended_export.py:68-71`).
* `PriceCitesTheStage` (`touched`): as `PriceReadsWhatItCites` above.

Smaller ones, seen while modelling and in no property: the bank's extended export runs under `|| true`
and the stamp after it counts the journals of `data/raw/extended` as seen whether it ran or not
(`justfile:440-443`); an unbank after a crash leaves rows when the
list of what was ingested is empty; the tick's step 9 stages again a half-written net-new folder;
`extended_export.py` removes the old output before it refuses an unapproved source; the RIPE reader
files 1999 under a fixed stamp; a failed month listing is cached as empty
(`collect_ietf_mail_archive.py:144-161`).

## Not modelled

* Canonical names, suffixes, English shares: computations on strings and tables, tested on data.
* Of the retraction the audited family `host_cdx` (`hostnames.py:1708-1713`), a storage node's own
  CDX: it is audited from its raw files by the steps that audit the other three.
* Of the provenance graph the trace tool, the retired language table and the hashes of its manifest.
* Of the expansion the parts of a seed pool's file and the texts of what is queued.
* The discovery harness and the measurements of open questions: reports over files by one process.
* The candidate queue's `claim` and `reset_in_flight`, which nothing calls.
* Collectors but the mail archive's: scripts of one request each, or of the same shape.
* What a language model does in an agent's run; texts of reports, mails and pages.

`PROJECT.json` says of each modelled component what is left out of it.

## Plan

Done: the modules above; the refinement of Shown by Snapshot, checked and proved; a theorem for
every safety property of the passing runs.

What would come next, in this order:

1. the composition of Drain with FleetPush over one set of drains;
2. the audits of Retraction beside the lanes of HostLanes over one evidence table;
3. the other lanes of the walk under the pool that shares its questions (`cdx_walk_jobs.py`).
