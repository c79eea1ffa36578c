# event-spine: specifications, model checking and proofs

event-spine is an event log with consumer groups, snapshots and a deterministic
command cycle, built to be run under a simulated disk that fails. This
directory holds TLA+ specifications of it, the TLC runs that check them and
the TLAPS proofs about them. `PROJECT.json` ties every definition to the lines
it models and lists runs, mutants, findings, hazards and theorems.

## The system

| part | state | operations | talks to |
|---|---|---|---|
| record framing (`log/record.go`) | none | encode, decode, verdict on a bad tail | segment |
| segment (`log/segment.go`, `log/recovery.go`) | file, base, next, size, sealed flag, sparse index | create, AppendAll, Sync, Seal, Read, scan and truncate | core.FS |
| log (`log/log.go`) | list of bases, active segment, cache of sealed ones, unsynced count | Open, Append, roll, maybeSync, Sync, Read, Close | segments, directory |
| groups (`log/group.go`) | commits file, last commit per group | openCommits, Commit, Committed, Reader | a segment of their own, the log's bounds |
| readers (`log/reader.go`) | segment handle, position, next offset, generation | Next, Seek | the log, compaction's generation counter |
| compaction (`log/compact.go`) | temporary file | Compact, CompactAll | rename, directory sync, readers |
| snapshots (`log/snapshot.go`) | one file per snapshot | Snapshot, LatestSnapshot, Restore | rename, directory sync, readers |
| cycle and chain (`core/cycle.go`, `core/chain.go`) | projection, hash chain, poison | Submit, Fold | a Decider and a Projection |
| ledger (`internal/devtools/ledger`) | balances | Decide, Apply, Run | the cycle |
| simulated disk (`sim/fs.go`) | live and durable directory, inodes with live and durable bytes | the calls of core.FS, three power cuts, Overwrite | everything above |
| harness (`internal/devtools/harness`) | schedule of faults, witness of what was promised | swarm, sweep, minimise, restart, check | everything above |

The log has one owner and no locks (`docs/adopting.md`, "One Goroutine"), so
nothing interleaves inside a process. What is hard is failure: a process that
dies, or a machine that loses power, between any two filesystem calls; calls
that fail after doing part of their work; and a restart that believes what it
finds. `fsync` on a file says nothing of its name, and `fsync` on a directory
nothing of its files, so every protocol here is an order of the two.

What makes each part correct:

* log: what a returned Sync covered survives every failure and never changes;
  all segments but the last are durable and whole; every offset the log claims
  reads back; batch mode bounds what a crash can take of what was appended since
  Open or a failed sync; recovery discards at most the record that was cut short and does not cry
  corruption.
* groups: a commit that returned survives; a group resumes only where it asked
  to; no record below its position was left unprocessed; every record is
  processed in the end.
* compaction, readers: a swap is all or nothing; only superseded records go; a
  cursor sees every surviving record, across swaps.
* snapshots: a snapshot that returned, or a later one, is found whole after
  every failure; its state and offset agree with the log, and replay from it
  gives the fold of the log.
* cycle, ledger: the cycle holds the fold of a prefix of the stored history
  however a restart batches it; a decided command applies; no account is
  overdrawn and no money appears, though a transfer is two events and a crash
  may keep one.
* harness: its checks never accuse a log that kept its promises and do accuse
  one that broke them; what it reports as fired is what made the run; a
  minimised failure is the failure it was given and needs each of its faults;
  a corpus entry whose faults no longer fire where they did is reported.

## Modules

`RecordFile` is the file both the log and the groups write. A file is a
sequence of cells: a whole record, the first bytes of one, or zeros. `ScanStops`
is the scan of recovery, `Verdicts` what it reports of the tail, `CrashExtend`
and `CrashTorn` what a power cut leaves. Sizes are counted in records, and
`CrashTorn`'s percentage becomes a number of whole cells and perhaps half of
one. A torn cell is anonymous and keeps its place once synced: half a record that
a Sync made durable and a torn power cut leaves under rewritten bytes always
reads as torn here, where the code's verdict depends on the bytes. Only a failed
write comes to that, and no property speaks of the verdict after one.

`SegmentedLog` is the log on its disk. `live`, `durableDir`, `data`, `durable`
are the simulated directory and inodes; `bases`, `active`, `next`, `size`,
`sealed`, `sinceSync` are fields of Log and of its active segment; `rest` is
what an Append in progress has yet to write; `pc` is the filesystem call that
comes next. An Append is therefore several steps: `LogAppend` takes the batch,
`AppendAll` writes what the segment takes, `RollSync`, `CreateSegment`,
`SyncDir` are the three calls of a roll, `Sync` or `SkipSync` is maybeSync. The
actions named `...Fails`, `AppendRefused` and `CreateExists` are the error
paths; `CreateFails` leaves a full, synced and sealed segment active and no
successor. `Kill` and the power cuts `Crash`, `Extend`, `Tear` are enabled at
every step. Three variables only observe: `acked`, the records that a returned
Sync covered, `countsFrom`, where the log ended when it was opened or a sync last
failed, and `spoiled`, whether a write has failed or a power cut has zeroed the
end of a file.
The cache of sealed segments is left out (their files do not change without
compaction), and calls that fail without changing anything (a Sync by the
caller, a read, a truncation) are stutters. The clock of the sync interval may
advance by any amount at each append (`MaySync`).

`DurableLog` is what the log promises: a sequence that grows, a prefix that is
acknowledged, and failures that take from the rest only. `SegmentedLog` refines
it through `Abstract`, whose `log` is what a scan of all segments returns.

`ConsumerGroups` is the commits file, the positions replayed from it and
consumers that read, commit and resume. The log under them is reduced to what
`DurableLog` promises. A record is its offset and its epoch (the number of
power cuts before it was written), so that a reused offset is another record.

`Compaction` is Compact beside a cursor. Names and inodes are apart: `live` and
`durableDir` bind a segment's name to the file the log wrote or to a compacted
one, handles (`cache`, `reader.seg`) keep their inode across a rename, `closed`
is what Close has closed. Compact is one step per filesystem call
(`RemoveStale`, `CreateTmp`, `CopyRecord`, `SyncTmp`, `Rename`, `SwapSync`), and
any of them may fail; the deferred removal after a failure may fail as well
(`CompactFails` leaves the temporary file or takes it away). Appends, rolls and Open are single steps here, their own
steps being in `SegmentedLog`. `NextInSegment` and `NextSeeks` are the two paths
of Reader.Next. Two compacted files of one segment hold the same records and
share an inode; a temporary file is never read, so whether a power cut keeps it
is left open.

`Snapshots` is Snapshot and Restore over a log reduced, as in
`ConsumerGroups`, to what `DurableLog` promises. Snapshot is one step per
filesystem call (`CreateTmp`, `WriteTmp`, `SyncTmp`, `Rename`, `SyncDir`,
`RemoveOlder`), each of which may fail, and a failure goes through the code's
removal of the temporary file (`Cleanup`). A projection is the sequence of the
records folded into it, so two states are equal only if the same records were
folded. Temporary files that earlier attempts left behind are not in the model.

`Cycle` is the command cycle with its chain, running the ledger. `Submit`
decides, stamps, applies and chains; `Fold` replays a batch of any size;
`ApplyAll` stops, poisoned, at an event that does not apply. The caller
(`Persist`, `Sync`) is external: the cycle does no I/O. A crash may keep any
part of an append under way. Digests are the sequences they hash, so the hash
is taken to be injective.

`Harness` is the simulation harness as a program. A run is deterministic and is
therefore an operator: `op` counts an operation and applies the faults
scheduled on it in the order of the code, `Simulate` takes the operations of a
run in turn. Only a crash stops a run. An injected error fails its operation and
is remembered in `failed`; the log and the workload, the constant operator
`NextOp`, see it and choose what comes next: the removal of a temporary file,
an operation as if nothing had happened (the restart's first look for a
snapshot, `restart.go:93`, drops its error), or the end of the run. The actions
are the loops: `MatrixPoint`, `MatrixDone`, `Sweep`, Minimize's two phases
(`TryFault`, `FaultsDone`, `TrySpan`, `Minimized`), `writeCorpusEntry` and
`simCorpus`, with `ChangeLog` a later commit in between. What the checks would
say of an outcome is an arbitrary message, chosen when the outcome is first met
and kept. `MCHarness` gives `NextOp` a small log in five versions: 2 has an extra
directory sync, 3 renames before it syncs, 4 differs only after a clock jump, 5
only in how it goes on after the dropped error. All of them restart in the last
step, look for a snapshot before and after, and skip the second look when the
first failed.

`Witness` is the workload with its witness and the checks it makes live
(`checkLive`), at restarts (`Consume`, `Reopen`) and of the disk the run leaves
(`check`). The log is there as its interface: records at offsets with a key and
the index of the append that made them, where its sealed segments end, half a
record behind the last one, one group's position, one newest snapshot, and what
reopening, a power cut and a bit flip do to them. A sealed segment with a damaged
record is refused whole (`Damaged`). A compaction that fails has swapped some
segments for good and may have left a swap that a power cut undoes. `check` makes
all the assertions of the code: on corruption reported, on what opening
discarded against the largest write (`Discarded`, counted in records), on the
tail, the acknowledged records, the scan, the group, the snapshot and its state,
and on the offset of the append that follows. `Reopen` compares tail, group and
snapshot with what they were, the snapshot only if looking it up had not failed.
`Misbehave` lets the log break one promise before the last check. Record
framing and several groups are not needed for the questions asked and are left
to the other modules.

`MCSegmentedLog`, `MCConsumerGroups` and `MCCompaction` only add symmetry. A module
`XProofs` holds the theorems about `X` and the inductive invariants they need;
those of the log are in `SegmentedLog` itself, where its run checks `Inv`. Mutated forms of a definition
(`NoDirSync`, `ResumeAfter`, `SwapQuietly`, ...) stand before the definition they mutate and
are used by nothing but the mutation runs of `PROJECT.json`.

`Env` names what the environment may do. `"orphan"` is special: without it
Open (and openCommits) is assumed not to meet a name that is not yet durable.
The code does not ensure this; `ViolOrphan` shows the
consequence, and the theorems that need it (`AckedIsDurable`, `LogReadsBack`,
`LogImplementsDurableLog`, `CommitsSurvive`) name it as their assumption.

## Runs

| run | bounds | shows |
|---|---|---|
| SegmentedLogFaults | segments of 2, 5 offsets, batches up to 3, os mode | acknowledged records, sealed segments, reads, the invariant of the proofs and the refinement, under all faults but `"orphan"` |
| SegmentedLogBatch | segments of 3, 6 offsets, batches up to 2, sync every 2 or on the interval | batch mode syncs when it must, and recovery's report, across reopenings, deaths, failed calls and every power cut |
| ConsumerGroupsFaults | 2 groups, 1 record, 3 commits, 1 power cut | commits survive, groups do not disturb each other, delivery is at-least-once with reused offsets |
| ConsumerGroupsLive | 2 groups, finitely many power cuts | everything synced is consumed |
| CompactionFaults | segments of 3, 4 offsets, 2 keys, one cursor | compaction loses nothing, and the cursor skips nothing and reads no replaced file |
| Snapshots | 3 records, 2 power cuts, every fault | what a restart would load is whole, is the fold of the log below its offset and never older than a snapshot that returned; restore and replay give the fold of the log |
| Cycle | 2 accounts, 2 amounts, 4 commands, 1 crash, 1 event the ledger cannot apply | the fold is that of the stored history, decided commands apply, balances stay sound |
| Harness | 4 steps, up to 2 faults of every kind, 5 versions of the log | fired faults explain the run, Minimize keeps the failure with no fault too many and ends, drift of the clean run is reported |
| Witness | 2 keys, 3 events, 5 steps, 1 flip, 1 misdeed | the checks raise no false alarm and miss no loss, wrong record or invented position of the kinds below |

Five offsets over segments of two give three segments, the middle one sealed on
both sides, and a batch of three crosses a roll in the middle and can fill a
segment exactly. In SegmentedLogBatch a segment holds more than the largest
batch and more than a batch may leave unsynced, so `DiscardsOneRecord` is not
the capacity of a file: a reopening that does not truncate breaks it. Six offsets fit two such segments, with unsynced
batches, a torn one and a second crash in each. One record is enough for a reused offset: it is lost and written
again in the next epoch. A sealed segment of three records over two keys has a
gap at its start or in its middle after compaction, and the cursor crosses from
it into the active segment. Events are interchangeable (symmetry); groups are too, but the
liveness run does without symmetry.

In `Snapshots` the second power cut strikes a log whose offsets already name
other records than before the first. In `Cycle` two accounts and amounts 1 and
2 suffice for a transfer, a refused transfer and a debit of what half a
transfer left. Two faults of every kind at every position are enough for one to
move or to hide the other, which is what Minimize has to survive. Three events
over two keys give a superseded record, its successor and one that supersedes
nothing; five steps fit append, sync, flip or failure, restart and the next
append at a reissued offset.

`CatchesLoss` and `CatchesPositions` are about what the checks do promise. A
missing record is excused by a later append of its key whether or not that one
survived (`supersededLater`), and a group may resume at any offset it ever asked
for (`attempted`), so a loss hidden in either way passes.

Three runs are violated, each a place where a comment says more than the code
does (details in `PROJECT.json`, findings):

* `ViolOrphan`: only the call that creates a file syncs its directory; a death
  or an error in between is never made up for.
* `ViolCrashKinds`: `FS.op` has no case for `CrashZeros` and `CrashTorn`, so two
  of the three crash shapes of the matrix never stop the machine.
* `ViolLateFlip`: `reopen` asks once whether a flip has fired and then opens the
  commits file, an operation a flip can ride on; the damage is then blamed on
  the log. `LateFlips` is this case, and `Witness` has it switched off.

Other limits are not runs of their own; changing one constant shows each:

* `"orphan"` added to `Env` of ConsumerGroupsFaults breaks `CommitSurvives`: the
  commits file has the same gap as a segment.
* `CommitAhead = TRUE` breaks `AtLeastOnce`, and `SnapshotAhead = TRUE` breaks
  `SnapshotSound`: a commit or snapshot of records that are not yet synced
  outlives them and then speaks of the records that took their offsets.
* `AnyOffset = TRUE` in CompactionFaults breaks `CursorSound`: Compact of an
  offset inside a sealed segment is not refused and leaves a closed handle in
  the cache.
* `NoFalseCorruption` and `DiscardsOneRecord` speak of a log that is not `spoiled`;
  without that, SegmentedLogBatch breaks them. A power cut that keeps a file's length
  (`Extend`) is reported as corruption. After a failed write a Sync makes its
  half record durable; reopening truncates it and new records are written in its
  place; a torn power cut before they are synced leaves the half record with
  some of them behind it.
* `BatchSyncsOnTime` counts the records appended since the log was opened or a sync
  last failed. A sync that failed was reported, and nothing bounds what is
  appended while it keeps failing. Close and Open restart the batch count without
  a sync, so over several openings the bound of `log.go:19` is not kept.
  `"invalid"` or `"orphan"` added to `Env` of SegmentedLogBatch breaks it.

Four hazards are on the list with no property, because the instance that could
show them leaves them out: the interval of batch mode on a clock that does not
advance (`log.go:309`; `MaySync` may always decline), the commits file's name
(`group.go:240`, `"orphan"`), Compact of an offset that begins no segment
(`compact.go:60`, `AnyOffset`) and a snapshot ahead of the last Sync
(`snapshot.go:75`, `SnapshotAhead`). The last three are among the limits above.

What `NoFalseAlarm` leaves out of the code's assertions: `checkLive` also asserts
that the offsets of its scan ascend and stay below the tail, which holds of any
`recs` of the model and is the subject of `CursorSound` and `NothingSkipped`;
and a snapshot looked up before a restart is there after it because nothing in
`Reopen` touches one, `Snapshots` being where that could fail.

What the harness models show besides: the length Minimize returns is not the
shortest that fails (spans are halved, not repeated), and once steps were
removed a kept fault may no longer fire; the recorded signature is the clean
run's, so a change that shows only after a clock jump or a flip is not reported
as drift. Nor does the signature cover how the log answers an error:
`NoSilentDrift` therefore speaks of the run up to the fault that fires first, and
would be false of the whole run (version 5, which goes on differently after the
error that `restart.go:93` drops).

## Fairness

`ConsumerGroupsLive` assumes weak fairness of opening the log and the commits
file, of finishing a call that began, of asking for a cursor and of reading.
The owner's single goroutine gives these as long as it runs; nothing is assumed
of appends, commits or faults. Power cuts are bounded by `MaxEpoch`, and kills
and closings are left out of that run: a process that is stopped for ever
before it reads consumes nothing. `Harness` assumes weak fairness of its steps:
it is a sequential program that keeps running, and `Terminates` says that its
loops end. The other runs assume nothing.

Deadlock is checked in every run but `Cycle` and `Witness`, whose behaviours
end when the bounded workload has.

## Proofs

Eight modules hold theorems. Each holds for every value of the constants that
the named assumptions of its component allow (any number of events, groups,
keys and faults, any segment size, batch size and bound). What else a theorem
assumes is in its statement. The assumptions on what the environment and the
caller do are needed, as TLC shows (the list "Other limits" above, `ViolOrphan`
and `ViolLateFlip`). Every safety property that a passing run checks is stated by a
theorem.

`RecordFileProofs` has the lemmas on files that the log and the groups share:
what a scan stops at, what appending, truncating and the power cuts do to the
prefix it accepts. It also has `HoldsAll`, by which several proofs avoid
induction: the initial parts of 0 .. n over which a predicate holds are a finite
set of numbers, and its greatest member is n.

### The log (`SegmentedLogProofs`)

| theorem | property | assumes |
|---|---|---|
| `InvHolds`, `TypeCorrect`, `SealedIsDurable` | `Inv`, `TypeOK`, `SealedDurable` | nothing |
| `AckedIsDurable` | `AckedDurable` | `"orphan" \notin Env` |
| `LogReadsBack` | `ReadsBack` | `"orphan" \notin Env` |
| `LogImplementsDurableLog` | `ImplementsDurableLog` | `"orphan" \notin Env` |
| `PromiseKept`, `PromiseHolds` | the promise, of the abstract log and of this one | the latter `"orphan" \notin Env` |
| `BatchIsSyncedOnTime` | `BatchSyncsOnTime` | batch mode with a positive batch, `Env \subseteq CountingEnv` |
| `NeverFalselyCorrupt` | `NoFalseCorruption` | nothing |
| `DiscardsAtMostOneRecord` | `DiscardsOneRecord` | nothing |

`Inv` is `TypeOK` with `InvFiles` (a record's place gives its offset), `InvDir`
(a power cut takes the newest names only), `InvSealed` (a segment with a
successor is synced, whole and adjoins it), `InvClosed` and `InvOpen` (what the
process's memory says of the disk). `SealedDurable` alone is not inductive: that
a new segment starts where the sealed one ends needs `next = active + size`, and
that the sealed one is synced when the new name appears needs the state between
the calls of a roll. `InvAcked` adds that an acknowledged record lies in one
durable file, in its contents and in its synced contents, inside the prefix that
a scan accepts: the first is what a later sync copies, the second what a power
cut restores.

The refinement needs three more. `InvChain`: segments begin at offset 0 and only
the last may be empty, so the scans of the segments join without a hole.
`InvRecords`: only validated events are written, and a file agrees with its
synced contents as far as both hold whole records, so that a power cut shortens
what a scan returns and changes none of it. `InvPromise`: the acknowledged
records are one per offset below some bound, and an open log counts all of them.
Together they are `InvAll`. The step proof then does not go action by action:
`Shapes` sorts all actions into seven shapes by what they do to the files and
to `acked`, and `Places` and `Scanned` turn "the record at offset i" into a
segment and a position in it. An append extends the abstract log, a sync
acknowledges, a power cut loses a suffix (`LogLost`), everything else leaves the
abstract log as it was (`LogKept`), a truncation on reopening included: what it
cuts was never accepted by a scan. `PromiseHolds` is then `PromiseKept` read
through the refinement.

`BatchIsSyncedOnTime` rests on `InvBatch`: all but the last `sinceSync` records of the
active segment are synced, or were there when the log was opened or a sync failed,
and `sinceSync` is below the batch size, or the segment full and synced, or a sync
of just that has failed, whenever the log waits for its caller. `CountingEnv` leaves out the faults after which that is false: a
batch that does not encode returns before the durability
decision, and a segment under a name that is not durable is lost whole.

`NeverFalselyCorrupt` and `DiscardsAtMostOneRecord` hold in every mode and for
every size of segment and batch, also with several segments and several batches
unsynced. They rest on `InvTail`, which holds until the log is `spoiled`: what is
synced of a file is whole records, what follows is whole too but for half a
record at the very end, and a segment is sealed only when it is full. Recovery
therefore never meets anything behind the place where its scan stops.

### Groups, snapshots and compaction

| theorem | property | assumes |
|---|---|---|
| `ConsumerGroupsProofs`: `TypeCorrect` | `TypeOK` | nothing |
| `CommitsSurvive` | `CommitSurvives` | `"orphan" \notin Env` |
| `DeliveryIsAtLeastOnce`, `ResumeIsPossible` | `AtLeastOnce`, `ResumesInsideLog` | `~CommitAhead` |
| `SnapshotsProofs`: `TypeCorrect`, `SnapshotsAreSound`, `SnapshotsSurvive`, `ReplayIsFold` | `TypeOK`, `SnapshotSound`, `SnapshotSurvives`, `ReplayMatches` | `~SnapshotAhead` |
| `CompactionProofs`: `TypeCorrect`, `NothingAcknowledgedIsLost`, `CompactionIsInvisible`, `CursorsAreSound`, `CursorsSkipNothing` | `TypeOK`, `NewestKept`, `CompactionInvisible`, `CursorSound`, `NothingSkipped` | `~AnyOffset` |

`~CommitAhead` and `~SnapshotAhead` are a discipline of the caller: to sync the log
before committing or snapshotting an offset. For commits `docs/adopting.md` asks
that the projection be durable; for snapshots no document asks anything, and the
harness keeps to synced offsets by itself. `~AnyOffset`
is how `CompactAll` calls Compact. Groups and snapshots stand on a log that is
only what `DurableLog` promises, which the refinement above shows the segmented
log to keep.

* Groups. `InvFile` and `InvMemory` say how the file, its synced contents and the
  positions in memory agree. `InvCommits` adds that a group with a returned commit
  has a synced record under a durable name, and that each of its records is
  that commit, one asked for since, or superseded by a synced one. `InvSeen` is
  the at-least-once argument: every record of the commits file, not only the
  one in force, names an offset that a Sync of the log covered and below which
  its group processed the log. Said of the one in force alone it would not be
  inductive, since a power cut brings an older one back.
* Snapshots. `InvDisk` says of both the live and the durable directory that
  every file in it is whole, synced and the fold of durable records, and that
  one of them is as new as the snapshot that returned last; `InvProgress`
  says what Snapshot has established at each of its calls; `InvState` that the
  projection is a prefix of the log.
* Compaction. `InvDisk` relates names, the two files a segment can have and
  their durable contents: the compacted one, once renamed, holds exactly the
  survivors of the other, and the file the log wrote keeps what was
  acknowledged. `InvLog` is the memory: bases, the cache, which handles are
  closed, and how far the copy is. `InvReader` says that a cursor whose
  generation is current stands in the file its segment's handle still has,
  between the records below its offset and the others; `NothingSkipped` is
  inductive with these. The lemma `SeekStays` came out of this proof: the last
  record of a file always survives compaction, so for an offset below the tail
  the walk of `Reader.seek` over following segments is never taken.

### The cycle and the ledger (`CycleProofs`)

| theorem | property | assumes |
|---|---|---|
| `CycleInvariant`, `TypeCorrect` | `Inv`, `TypeOK` | nothing |
| `ProjectionIsFold` | `FoldOfHistory` | nothing |
| `DecisionsApply` | `DecidedApplies` | nothing |
| `NeverOverdrawn`, `NoMoneyAppears` | `NoOverdraft`, `NoMoneyCreated` | nothing |
| `NeverLooksAbsorbed` | `NeverAbsorbed` | `0 \notin Amounts` |

`Inv` says that the cycle is the fold of a prefix of its history (`Describes`)
and that the history is one the decider and crashes can leave (`Sound`): every
event is foreign or comes from an accepted command (`Formed`), the credit of a
transfer stands right behind its debit (`Paired`), and no prefix overdraws an
account (`Positive`). Of every prefix, because a crash may cut the history
anywhere and a restart may fold it in batches of any size. `NoMoneyCreated`
needs `Covered` on top: between the two events of a transfer its amount is in no
account, so the bound has to hold by at least that amount, which the credit
then uses up. The balances after n events are a recursive function of n; that it
exists is proved, and what `ApplyAll` computes is compared with it event by
event. Amounts are positive in `ledger.Run` (`Intn(500)+1`); an amount of zero
would let an event change the history and no balance.

### The harness (`HarnessProofs`)

| theorem | property | assumes |
|---|---|---|
| `MinimizerIsOneMinimal`, `MinimizerReproduces` | `OneMinimal`, `MinimizeReproduces` | nothing |
| `FiredIsSufficient` | `FiredSuffices` | `MaxFaults > 0` |
| `DriftIsReported` | `NoSilentDrift` | `MaxFaults > 0` |
| `HarnessTypes` | `TypeOK` | `MaxFaults > 0`, `ShortSteps` |

All hold for every `NextOp` (every log, whatever it does after an error), every
list of crash points and every verdict of the checks, `ShortSteps` being the only
thing ever asked of the log.

* The minimizer. `InvMinimize` says which runs the loop has established: the
  configuration it holds fails with the message, and each fault before the
  current one was left out of this very configuration in vain. Nothing about
  what a run computes is used but that it is a function of its configuration.
* `FiredIsSufficient`: the faults that fired, alone, give the same run. `OpSame`
  is the heart: if every fault that fires in an operation is among those picked,
  the operation under only these is the same, although the faults have other
  places in the list (`Pick`, `Embeds`). It is lifted to the step and the run,
  since the same operations then fail and the log sees the same failures. `InvRuns` says which configuration each run kept is an
  outcome of, and the swarm is shown to be closed under leaving faults out.
* `DriftIsReported`: when the clean run is the recorded one and no recorded
  fault changes what the log reads, the faulted run is struck as recorded. A run
  without flips and clock jumps keeps step with the clean one (`Locked`) until
  the first operation a fault hits. What fires there, and the stream up to it
  (`Struck`), is a function of the clean stream and the faults, and nothing that
  happens later changes it. What the log does after the strike is not.
* `HarnessTypes`: no run exceeds the bound on its iterations if no step makes more
  than four operations (`ShortSteps`), which `Paced` counts.

`MCHarness` states that its own log keeps its steps short as an assumption, which
TLC evaluates.

### The witness (`WitnessProofs`)

| theorem | property |
|---|---|
| `WitnessInvariant`, `TypeCorrect` | `Inv`, `TypeOK` |
| `ChecksAreFair` | `NoFalseAlarm` |
| `LossIsCaught` | `CatchesLoss` |
| `WrongRecordIsCaught` | `CatchesWrongRecord` |
| `PositionsAreCaught` | `CatchesPositions` |

`ChecksAreFair` assumes `~LateFlips`, without which it is false (`ViolLateFlip`); the
others assume no more than the types of the constants. `InvTrust` is what the
witness may still believe under flips and truncations: below the offset it
trusts, the record at an offset is the one that was appended there, and no such
offset was given out again. `InvClean` is what holds before any flip, when the
log and the witness count alike and a missing record was superseded and
compacted. Both speak of a log that behaved; `InvEvidence` speaks of one that
did not, and says that the misdeed left something the checks look at. It is
established in the one step `Misbehave`, from the other parts. `InvTorn` says that half a
record comes from a batch the witness measured before it tried it.

### Only model-checked

Liveness and enabledness are outside the prover's reach: `EventuallyConsumed`,
`Terminates` and the absence of deadlock. The three violated runs are
counterexamples and have nothing to prove.

## Plan

1. `SegmentIndex`: the sparse index against a linear scan, over files with gaps.
2. The harness's `Replay` and `Diff`, which compare two runs step by step.

## Not modelled

The runtime filesystem (I/O, tied to sim.FS by its differential tests), the
command line except the corpus, benchmarks and the Kafka comparison, the
workload's shapes, `sim.FS.Clone`, and bytes, checksums and encodings as such.
The instance of `Cycle` has fewer accounts than an index can name, as every
caller in the repository does: beyond 65536 accounts an event's index would wrap.
