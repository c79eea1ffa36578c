------------------------------ MODULE Snapshots ------------------------------
(***************************************************************************)
(* Snapshots of a projection (log/snapshot.go): the temporary file, the    *)
(* rename, the directory sync, the removal of older snapshots, and Restore,*)
(* beside an application that folds the log.  As in ConsumerGroups the log *)
(* is what DurableLog promises, and a record is told apart from another at *)
(* the same offset by the number of power cuts before it was appended.     *)
(*                                                                         *)
(* A projection is the sequence of records folded into it, so two states   *)
(* are equal exactly when the same records were folded.                    *)
(*                                                                         *)
(* Snapshot is a step for every filesystem call that it makes.  A file is  *)
(* written only while it has its temporary name and nothing syncs the      *)
(* directory then, so a durable name can hold a copy of its inode.  The    *)
(* temporary files that earlier attempts left are not in the model: no     *)
(* operation reads one, and removeStale removes one before its name is     *)
(* used again.                                                             *)
(***************************************************************************)
EXTENDS Integers, Sequences, FiniteSets, FiniteSetsExt, SequencesExt

CONSTANTS
    MaxOffset,      \* bound: records in the log
    MaxEpoch,       \* bound: power cuts
    SnapshotAhead,  \* TRUE when callers snapshot records that no Sync covered
    Env             \* what the environment may do, see SnapshotEnv

SnapshotEnv ==
    { "kill", "power", "extend", "tear",  \* as in SegmentedLog
      "fserr" }                           \* a call that Snapshot makes fails

ASSUME SnapshotBoundsAssumption == MaxOffset \in Nat /\ MaxEpoch \in Nat
ASSUME SnapshotAheadAssumption == SnapshotAhead \in BOOLEAN
ASSUME SnapshotEnvAssumption == Env \subseteq SnapshotEnv

None == -1
Offsets == 0 .. MaxOffset

States == Seq(0 .. MaxEpoch)
NoState == <<None>>

INSTANCE RecordFile WITH Events <- States, Invalid <- NoState

(***************************************************************************)
(* An inode: what it holds, and what of that is synced.                    *)
(***************************************************************************)
File == [cells : Seq(Cell), synced : Seq(Cell)]
Empty == [cells |-> <<>>, synced |-> <<>>]

VARIABLES
    log,       \* the log's records: log[o + 1] is the epoch of the one at o
    safe,      \* how many of them a returned Sync covered
    epoch,     \* power cuts so far
    live,      \* sim.FS.live: the snapshots' files, by the offset in their name
    durable,   \* sim.FS.durable, likewise
    tmp,       \* the temporary file of the snapshot in progress
    pc,        \* the filesystem call the process makes next
    want,      \* the offset of the snapshot in progress
    state,     \* the application's projection, NoState before it restored
    returned   \* observer: the highest snapshot that returned

logVars == <<log, safe, epoch>>
disk == <<live, durable, tmp>>
vars == <<logVars, disk, pc, want, state, returned>>

-----------------------------------------------------------------------------
(***************************************************************************)
(* LatestSnapshot: the offset of the newest snapshot (None without one),   *)
(* and its state when the file is one whole record and nothing else.  A    *)
(* file that is not is an error, whose state here is NoState.              *)
(***************************************************************************)
LatestSnapshot(dir) ==
    LET off   == Max(DOMAIN dir)
        cells == dir[off].cells
        whole == Len(cells) = 1 /\ ScanStops(cells, off, 1)
    IN  IF dir = <<>>
        THEN [off |-> None, state |-> <<>>]
        ELSE [off |-> off, state |-> IF whole THEN cells[1].ev ELSE NoState]

Forget ==
    /\ pc' = "down"
    /\ tmp' = Empty
    /\ want' = None
    /\ state' = NoState

Init ==
    /\ log = <<>> /\ safe = 0 /\ epoch = 0
    /\ live = <<>> /\ durable = <<>> /\ tmp = Empty
    /\ pc = "down" /\ want = None
    /\ state = NoState
    /\ returned = None

(***************************************************************************)
(* The log: opened, appended to, synced, and its directory synced by a     *)
(* roll or a compaction.                                                   *)
(***************************************************************************)
Open ==
    /\ pc = "down"
    /\ pc' = "idle"
    /\ UNCHANGED <<logVars, disk, want, state, returned>>

LogAppend ==
    /\ pc = "idle"
    /\ Len(log) < MaxOffset
    /\ log' = log \o <<epoch>>
    /\ UNCHANGED <<safe, epoch, disk, pc, want, state, returned>>

LogSync ==
    /\ pc = "idle"
    /\ safe' = Len(log)
    /\ UNCHANGED <<log, epoch, disk, pc, want, state, returned>>

LogDirSync ==
    /\ pc = "idle"
    /\ durable' = live
    /\ UNCHANGED <<logVars, live, tmp, pc, want, state, returned>>

-----------------------------------------------------------------------------
(***************************************************************************)
(* Restore, and the application loading the state it returned; replaying   *)
(* is Fold.  The reader starts at the snapshot's offset, which is refused  *)
(* past the tail.  The mutant ReplaysFromLast takes the offset for the     *)
(* last record that the snapshot folded.                                   *)
(***************************************************************************)
ReplaysFromLast ==
    LET snap == LatestSnapshot(live) IN
    /\ pc = "idle"
    /\ snap.state # NoState
    /\ snap.off <= Len(log)
    /\ state' = IF snap.off \in 1 .. Len(log) THEN snap.state \o <<log[snap.off]>> ELSE snap.state
    /\ UNCHANGED <<logVars, disk, pc, want, returned>>

Restore ==
    LET snap == LatestSnapshot(live) IN
    /\ pc = "idle"
    /\ snap.state # NoState
    /\ snap.off <= Len(log)
    /\ state' = snap.state
    /\ UNCHANGED <<logVars, disk, pc, want, returned>>

Fold ==
    /\ pc = "idle"
    /\ state # NoState
    /\ Len(state) < Len(log)
    /\ state' = state \o <<log[Len(state) + 1]>>
    /\ UNCHANGED <<logVars, disk, pc, want, returned>>

-----------------------------------------------------------------------------
(***************************************************************************)
(* Snapshot of what the application held when it had folded off records.   *)
(* An offset past the tail is refused.  removeStale removes the temporary  *)
(* file that an earlier attempt left.                                      *)
(***************************************************************************)
Snapshot(off) ==
    /\ pc = "idle"
    /\ state # NoState
    /\ off <= Len(state)
    /\ off <= Len(log)
    /\ SnapshotAhead \/ off <= safe
    /\ want' = off
    /\ pc' = "create"
    /\ UNCHANGED <<logVars, disk, state, returned>>

CreateTmp ==
    /\ pc = "create"
    /\ tmp' = Empty
    /\ pc' = "write"
    /\ UNCHANGED <<logVars, live, durable, want, state, returned>>

WriteTmp ==
    /\ pc = "write"
    /\ tmp' = [tmp EXCEPT !.cells = <<Rec(want, SubSeq(state, 1, want))>>]
    /\ pc' = "synctmp"
    /\ UNCHANGED <<logVars, live, durable, want, state, returned>>

(***************************************************************************)
(* The write fails and stores nothing or half a record, or the sync fails, *)
(* or the rename: the temporary file is removed and the error returned.    *)
(***************************************************************************)
WriteTmpFails ==
    /\ "fserr" \in Env
    /\ pc = "write"
    /\ \E left \in {<<>>, <<Torn>>} : tmp' = [tmp EXCEPT !.cells = left]
    /\ pc' = "cleanup"
    /\ UNCHANGED <<logVars, live, durable, want, state, returned>>

(***************************************************************************)
(* Mutant of SyncTmp: the file is renamed before its bytes are durable.    *)
(***************************************************************************)
RenameUnsynced ==
    /\ pc = "synctmp"
    /\ pc' = "rename"
    /\ UNCHANGED <<logVars, disk, want, state, returned>>

SyncTmp ==
    /\ pc = "synctmp"
    /\ tmp' = [tmp EXCEPT !.synced = tmp.cells]
    /\ pc' = "rename"
    /\ UNCHANGED <<logVars, live, durable, want, state, returned>>

SyncOrRenameFails ==
    /\ "fserr" \in Env
    /\ pc \in {"synctmp", "rename"}
    /\ pc' = "cleanup"
    /\ UNCHANGED <<logVars, disk, want, state, returned>>

(***************************************************************************)
(* The error paths' Remove, whose own failure is ignored: removed or not,  *)
(* the temporary file is no longer in use.                                 *)
(***************************************************************************)
Cleanup ==
    /\ pc = "cleanup"
    /\ tmp' = Empty
    /\ pc' = "idle"
    /\ want' = None
    /\ UNCHANGED <<logVars, live, durable, state, returned>>

Rename ==
    /\ pc = "rename"
    /\ live' = [off \in DOMAIN live \cup {want} |-> IF off = want THEN tmp ELSE live[off]]
    /\ tmp' = Empty
    /\ pc' = "dirsync"
    /\ UNCHANGED <<logVars, durable, want, state, returned>>

(***************************************************************************)
(* Mutant of SyncDir: the older snapshots go before the new name is        *)
(* durable.                                                                *)
(***************************************************************************)
NoDirSync ==
    /\ pc = "dirsync"
    /\ pc' = "remove"
    /\ UNCHANGED <<logVars, disk, want, state, returned>>

SyncDir ==
    /\ pc = "dirsync"
    /\ durable' = live
    /\ pc' = "remove"
    /\ UNCHANGED <<logVars, live, tmp, want, state, returned>>

(***************************************************************************)
(* removeOlderSnapshots: one Remove for each snapshot below the new one,   *)
(* in ascending order.  Nothing syncs the directory afterwards.            *)
(***************************************************************************)
RemoveOlder ==
    LET older == {off \in DOMAIN live : off < want} IN
    /\ pc = "remove"
    /\ older # {}
    /\ live' = [off \in DOMAIN live \ {Min(older)} |-> live[off]]
    /\ UNCHANGED <<logVars, durable, tmp, pc, want, state, returned>>

SnapshotReturns ==
    /\ pc = "remove"
    /\ \A off \in DOMAIN live : off >= want
    /\ returned' = Max({want, returned})
    /\ pc' = "idle"
    /\ want' = None
    /\ UNCHANGED <<logVars, disk, state>>

(***************************************************************************)
(* The errors that return with everything as it is: those of removeStale   *)
(* and of the creation, of the directory sync and of a removal.            *)
(***************************************************************************)
SnapshotFails ==
    /\ "fserr" \in Env
    /\ pc \in {"create", "dirsync", "remove"}
    /\ pc' = "idle"
    /\ want' = None
    /\ UNCHANGED <<logVars, disk, state, returned>>

-----------------------------------------------------------------------------
Kill ==
    /\ "kill" \in Env
    /\ pc # "down"
    /\ Forget
    /\ UNCHANGED <<logVars, live, durable, returned>>

(***************************************************************************)
(* A power cut takes records of the log that no Sync covered, restores the *)
(* durable names, and leaves of each file what the shape of the cut says.  *)
(***************************************************************************)
PowerCut(left) ==
    /\ epoch < MaxEpoch
    /\ epoch' = epoch + 1
    /\ \E n \in safe .. Len(log) : log' = SubSeq(log, 1, n)
    /\ live' = [off \in DOMAIN durable |-> [durable[off] EXCEPT !.cells = left[off]]]
    /\ durable' = live'
    /\ Forget
    /\ UNCHANGED <<safe, returned>>

Crash ==
    /\ "power" \in Env
    /\ PowerCut([off \in DOMAIN durable |-> durable[off].synced])

Extend ==
    /\ "extend" \in Env
    /\ PowerCut([off \in DOMAIN durable |->
            CrashExtend(durable[off].cells, durable[off].synced)])

Tear ==
    /\ "tear" \in Env
    /\ \E half \in BOOLEAN : PowerCut([off \in DOMAIN durable |->
            CrashTorn(durable[off].cells, durable[off].synced, 0, half)])

Next ==
    \/ Open \/ LogAppend \/ LogSync \/ LogDirSync
    \/ Restore \/ Fold
    \/ \E off \in Offsets : Snapshot(off)
    \/ CreateTmp \/ WriteTmp \/ SyncTmp \/ Rename \/ SyncDir \/ RemoveOlder \/ SnapshotReturns
    \/ WriteTmpFails \/ SyncOrRenameFails \/ Cleanup \/ SnapshotFails
    \/ Kill \/ Crash \/ Extend \/ Tear

Spec == Init /\ [][Next]_vars

-----------------------------------------------------------------------------
(***************************************************************************)
(* The type of every variable.                                             *)
(***************************************************************************)
TypeOK ==
    /\ log \in States /\ Len(log) <= MaxOffset
    /\ safe \in 0 .. Len(log) /\ epoch \in 0 .. MaxEpoch
    /\ \A dir \in {live, durable} :
        DOMAIN dir \subseteq Offsets /\ \A off \in DOMAIN dir : dir[off] \in File
    /\ tmp \in File
    /\ pc \in {"down", "idle", "create", "write", "synctmp", "rename", "dirsync", "remove", "cleanup"}
    /\ want \in Offsets \cup {None}
    /\ state \in States \cup {NoState} /\ (state # NoState => Len(state) <= MaxOffset)
    /\ returned \in Offsets \cup {None}

(***************************************************************************)
(* A crash leaves either the previous snapshot or the new one and never a  *)
(* mixture (snapshot.go, Snapshot): at every moment, both what a restarted *)
(* process would load and what it would load after a power cut is whole,   *)
(* lies inside the part of the log that a power cut leaves, and is the     *)
(* fold of the records that the log holds below its offset.                *)
(***************************************************************************)
SnapshotSound ==
    \A dir \in {live, durable} :
        LET snap == LatestSnapshot(dir) IN
        /\ snap.off <= safe
        /\ snap.state = SubSeq(log, 1, snap.off)

(***************************************************************************)
(* A snapshot whose write returned is still there (harness/check.go,       *)
(* checkSnapshot): a restart finds it or a newer one, and so does one that *)
(* follows a power cut at this moment.                                     *)
(***************************************************************************)
SnapshotSurvives ==
    \A dir \in {live, durable} : LatestSnapshot(dir).off >= returned

(***************************************************************************)
(* Loading the newest snapshot and replaying from its offset is folding    *)
(* the whole log (snapshot.go, Restore): the projection an application     *)
(* holds is always the fold of a prefix of the log, whatever restarts,     *)
(* power cuts and reused offsets came before.                              *)
(***************************************************************************)
ReplayMatches == state # NoState => IsPrefix(state, log)
=============================================================================
