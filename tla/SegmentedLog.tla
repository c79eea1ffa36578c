---------------------------- MODULE SegmentedLog ----------------------------
(***************************************************************************)
(* The segmented log of log/log.go over the filesystem of sim/fs.go: one   *)
(* process that appends, syncs, rolls, closes and reopens, on a disk that  *)
(* a power cut reverts to what was synced.  Every call of the filesystem   *)
(* is a step of its own, so a process death or a power cut falls between   *)
(* any two of them.                                                        *)
(*                                                                         *)
(* Files are named by the base offset of their segment.  Without           *)
(* compaction (module Compaction) a name is never rebound, so the inode of *)
(* a name is its entry in data and durable.                                *)
(***************************************************************************)
EXTENDS RecordFile

CONSTANTS
    SegMax,              \* Options.MaxBytes, counted in records
    Mode,                \* Config.Durability: "batch", "sync" or "os"
    SyncRecords,         \* Config.SyncRecords, 0 when not set
    DefaultSyncRecords,  \* log.DefaultSyncRecords
    Interval,            \* TRUE when Config.SyncInterval and Clock are set
    MaxOffset,           \* bound: no offset reaches it
    MaxBatch,            \* bound: events in one Append
    Env                  \* what the environment may do, see EnvEvents

EnvEvents ==
    { "close",     \* the caller closes the log and opens it again
      "kill",      \* the process dies, the machine does not
      "orphan",    \* Open on a directory that holds a name not yet durable
      "power",     \* a power cut, sim.FS.Crash
      "extend",    \* a power cut, sim.FS.CrashExtend
      "tear",      \* a power cut, sim.FS.CrashTorn
      "writeerr",  \* File.Append stores a prefix and fails
      "syncerr",   \* File.Sync fails
      "direrr",    \* FS.Create or FS.Sync fails
      "invalid" }  \* the caller appends events that do not validate

ASSUME SegMaxAssumption == SegMax \in Nat \ {0}
ASSUME ModeAssumption == Mode \in {"batch", "sync", "os"}
ASSUME SyncRecordsAssumption == SyncRecords \in Nat
ASSUME DefaultSyncRecordsAssumption == DefaultSyncRecords \in Nat \ {0}
ASSUME IntervalAssumption == Interval \in BOOLEAN
ASSUME MaxOffsetAssumption == MaxOffset \in Nat
ASSUME MaxBatchAssumption == MaxBatch \in Nat
ASSUME EnvAssumption == Env \subseteq EnvEvents

VARIABLES
    live,        \* sim.FS.live: the names the directory holds
    durableDir,  \* sim.FS.durable: the names a power cut would leave
    data,        \* inode.data by name
    durable,     \* inode.durable by name
    pc,          \* the filesystem call the process makes next
    bases,       \* Log.bases
    active,      \* Log.active.base
    next,        \* Log.active.next
    size,        \* Log.active.size, in cells
    sealed,      \* Log.active.sealed
    sinceSync,   \* Log.sinceSync
    rest,        \* the events Append has not written yet
    countsFrom,  \* observer: where the log ended when opened or a sync failed
    acked,       \* observer: the records a returned Sync covered
    spoiled      \* observer: a write has failed or a cut has zeroed a file

disk == <<live, durableDir, data, durable>>
memory == <<bases, active, next, size, sealed, sinceSync, rest, countsFrom>>
vars == <<disk, pc, memory, acked, spoiled>>

Offsets == 0 .. MaxOffset
PCs == {"down", "idle", "append", "create", "dirsync", "sync"}

-----------------------------------------------------------------------------
(***************************************************************************)
(* Config.withDefaults: a batch log that names neither a count nor an      *)
(* interval syncs every DefaultSyncRecords records.                        *)
(***************************************************************************)
BatchRecords ==
    IF SyncRecords = 0 /\ ~Interval THEN DefaultSyncRecords ELSE SyncRecords

Full == size >= SegMax

(***************************************************************************)
(* How many events AppendAll stages: up to the one that fills the segment  *)
(* and no further than the last that validates before an invalid one.      *)
(***************************************************************************)
Takes(n) ==
    /\ n \in 0 .. Len(rest)
    /\ size + n <= SegMax
    /\ \A i \in 1 .. n : rest[i] # Invalid
    /\ n < Len(rest) => size + n = SegMax \/ rest[n + 1] = Invalid

(***************************************************************************)
(* AppendAll met an event that does not encode before the segment filled.  *)
(***************************************************************************)
EncodeError(n) == n < Len(rest) /\ size + n < SegMax

(***************************************************************************)
(* The calls of sim.FS that change the disk.                               *)
(***************************************************************************)
FileSync(b) == durable' = [durable EXCEPT ![b] = data[b]]

FileCreate(b) ==
    /\ live' = live \cup {b}
    /\ data' = [data EXCEPT ![b] = <<>>]
    /\ durable' = [durable EXCEPT ![b] = <<>>]

(***************************************************************************)
(* Mutant of DirSync: the directory is never made durable.                 *)
(***************************************************************************)
NoDirSync == UNCHANGED durableDir

DirSync == durableDir' = live

(***************************************************************************)
(* What the process forgets when it stops.                                 *)
(***************************************************************************)
Forget ==
    /\ pc' = "down"
    /\ bases' = {}
    /\ active' = 0
    /\ next' = 0
    /\ size' = 0
    /\ sealed' = FALSE
    /\ sinceSync' = 0
    /\ rest' = <<>>
    /\ countsFrom' = 0

(***************************************************************************)
(* A call that fails returns to the caller; a failed Open leaves no log.   *)
(***************************************************************************)
Return == pc' = "idle" /\ rest' = <<>>

(***************************************************************************)
(* The records the log holds as the process sees them.                     *)
(***************************************************************************)
Appended ==
    {r \in UNION {Range(data[b]) : b \in bases} : r.kind = "rec" /\ r.off < next}

-----------------------------------------------------------------------------
Init ==
    /\ live = {}
    /\ durableDir = {}
    /\ data = [b \in Offsets |-> <<>>]
    /\ durable = [b \in Offsets |-> <<>>]
    /\ pc = "down"
    /\ bases = {}
    /\ active = 0
    /\ next = 0
    /\ size = 0
    /\ sealed = FALSE
    /\ sinceSync = 0
    /\ rest = <<>>
    /\ countsFrom = 0
    /\ acked = {}
    /\ spoiled = FALSE

(***************************************************************************)
(* Open of an empty directory: createSegment(0) follows.                   *)
(***************************************************************************)
OpenEmpty ==
    /\ pc = "down"
    /\ live = {}
    /\ pc' = "create"
    /\ UNCHANGED <<disk, memory, acked, spoiled>>

(***************************************************************************)
(* The directory holds a name that a power cut would not leave: a process  *)
(* died, or a directory sync failed, between a segment's creation and the  *)
(* directory sync that follows it.  Instances without "orphan" assume that *)
(* the log is not opened on such a directory.                              *)
(***************************************************************************)
Orphaned == live # durableDir

(***************************************************************************)
(* Mutant of OpenNamed: the tail that the scan rejected stays in the file. *)
(***************************************************************************)
OpenWithoutTruncate(b) ==
    \E n \in 0 .. Len(data[b]) :
        /\ ScanStops(data[b], b, n)
        /\ data' = data
        /\ next' = NextAfter(data[b], b, n)
        /\ size' = n

(***************************************************************************)
(* openNamed with truncation: the file is scanned and cut to what the scan *)
(* accepts.  The truncation is not synced.                                 *)
(***************************************************************************)
OpenNamed(b) ==
    \E n \in 0 .. Len(data[b]) :
        /\ ScanStops(data[b], b, n)
        /\ data' = [data EXCEPT ![b] = SubSeq(data[b], 1, n)]
        /\ next' = NextAfter(data[b], b, n)
        /\ size' = n

(***************************************************************************)
(* Open of a directory with segments: the highest base becomes the active  *)
(* segment.  The directory is not synced.                                  *)
(***************************************************************************)
OpenExisting ==
    /\ pc = "down"
    /\ Orphaned => "orphan" \in Env
    /\ \E b \in live :
        /\ \A c \in live : c <= b
        /\ active' = b
        /\ OpenNamed(b)
    /\ bases' = live
    /\ sealed' = FALSE
    /\ sinceSync' = 0
    /\ pc' = "idle"
    /\ countsFrom' = next'
    /\ UNCHANGED <<live, durableDir, durable, rest, acked, spoiled>>

(***************************************************************************)
(* A caller's Log.Append.  Its loop runs at pc = "append".                 *)
(***************************************************************************)
LogAppend(events) ==
    /\ pc = "idle"
    /\ next + Len(events) <= MaxOffset
    /\ rest' = events
    /\ pc' = "append"
    /\ UNCHANGED <<disk, bases, active, next, size, sealed, sinceSync, countsFrom,
                   acked, spoiled>>

(***************************************************************************)
(* AppendAll: one write of everything the segment has room for.  An event  *)
(* that does not encode ends the Append after the prefix before it, with   *)
(* no durability decision; otherwise the loop goes on, or maybeSync runs.  *)
(***************************************************************************)
AppendAll ==
    /\ pc = "append"
    /\ ~Full
    /\ ~sealed
    /\ \E n \in 1 .. Len(rest) :
        /\ Takes(n)
        /\ data' = [data EXCEPT ![active] = @ \o Staged(next, rest, n)]
        /\ next' = next + n
        /\ size' = size + n
        /\ sinceSync' = sinceSync + n
        /\ rest' = IF EncodeError(n) THEN <<>> ELSE SubSeq(rest, n + 1, Len(rest))
        /\ pc' = CASE EncodeError(n) -> "idle"
                   [] n = Len(rest) -> "sync"
                   [] OTHER -> "append"
    /\ UNCHANGED <<live, durableDir, durable, bases, active, sealed, countsFrom,
                   acked, spoiled>>

(***************************************************************************)
(* AppendAll refuses: the segment is sealed, or the first event left does  *)
(* not encode.                                                             *)
(***************************************************************************)
AppendRefused ==
    /\ pc = "append"
    /\ ~Full
    /\ sealed \/ Takes(0)
    /\ Return
    /\ UNCHANGED <<disk, bases, active, next, size, sealed, sinceSync, countsFrom,
                   acked, spoiled>>

(***************************************************************************)
(* Mutant of AppendFails: the segment is not sealed.                       *)
(***************************************************************************)
AppendFailsUnsealed ==
    /\ "writeerr" \in Env
    /\ pc = "append"
    /\ ~Full
    /\ ~sealed
    /\ \E n \in 1 .. Len(rest), k \in 0 .. Len(rest), half \in 0 .. 1 :
        /\ Takes(n)
        /\ k < n
        /\ data' = [data EXCEPT ![active] = @ \o ShortWrite(next, rest, k, half)]
    /\ spoiled' = TRUE
    /\ Return
    /\ UNCHANGED <<live, durableDir, durable, bases, active, next, size, sealed,
                   sinceSync, countsFrom, acked>>

(***************************************************************************)
(* AppendAll's write fails after a prefix of its bytes, k whole records    *)
(* and perhaps half of one, reached the file.  The segment is sealed and   *)
(* none of them is counted.                                                *)
(***************************************************************************)
AppendFails ==
    /\ "writeerr" \in Env
    /\ pc = "append"
    /\ ~Full
    /\ ~sealed
    /\ \E n \in 1 .. Len(rest), k \in 0 .. Len(rest), half \in 0 .. 1 :
        /\ Takes(n)
        /\ k < n
        /\ data' = [data EXCEPT ![active] = @ \o ShortWrite(next, rest, k, half)]
    /\ sealed' = TRUE
    /\ spoiled' = TRUE
    /\ Return
    /\ UNCHANGED <<live, durableDir, durable, bases, active, next, size,
                   sinceSync, countsFrom, acked>>

(***************************************************************************)
(* Mutant of RollSync: the outgoing segment is sealed without a sync in os *)
(* mode, as roll once did.                                                 *)
(***************************************************************************)
RollSyncUnlessOs ==
    /\ pc = "append"
    /\ Full
    /\ IF Mode = "os" THEN UNCHANGED durable ELSE FileSync(active)
    /\ sealed' = TRUE
    /\ pc' = "create"
    /\ UNCHANGED <<live, durableDir, data, bases, active, next, size, sinceSync,
                   rest, countsFrom, acked, spoiled>>

(***************************************************************************)
(* roll, first half: sync the outgoing segment and seal it.                *)
(***************************************************************************)
RollSync ==
    /\ pc = "append"
    /\ Full
    /\ FileSync(active)
    /\ sealed' = TRUE
    /\ pc' = "create"
    /\ UNCHANGED <<live, durableDir, data, bases, active, next, size, sinceSync,
                   rest, countsFrom, acked, spoiled>>

RollSyncFails ==
    /\ "syncerr" \in Env
    /\ pc = "append"
    /\ Full
    /\ Return
    /\ countsFrom' = next
    /\ UNCHANGED <<disk, bases, active, next, size, sealed, sinceSync, acked,
                   spoiled>>

(***************************************************************************)
(* createSegment(next): newSegment creates the file, refusing to replace   *)
(* one that exists.                                                        *)
(***************************************************************************)
CreateSegment ==
    /\ pc = "create"
    /\ next \notin live
    /\ FileCreate(next)
    /\ pc' = "dirsync"
    /\ UNCHANGED <<durableDir, memory, acked, spoiled>>

CreateExists ==
    /\ pc = "create"
    /\ next \in live
    /\ Return
    /\ UNCHANGED <<disk, bases, active, next, size, sealed, sinceSync, countsFrom,
                   acked, spoiled>>

(***************************************************************************)
(* FS.Create fails in any other way.  The outgoing segment is synced and   *)
(* sealed by then and stays the active one; an Open returns no log.        *)
(***************************************************************************)
CreateFails ==
    /\ "direrr" \in Env
    /\ pc = "create"
    /\ IF bases = {}
       THEN Forget
       ELSE Return /\ UNCHANGED <<bases, active, next, size, sealed, sinceSync,
                                  countsFrom>>
    /\ UNCHANGED <<disk, acked, spoiled>>

(***************************************************************************)
(* createSegment's directory sync, and the end of roll or of Open: the new *)
(* segment becomes the active one.                                         *)
(***************************************************************************)
SyncDir ==
    /\ pc = "dirsync"
    /\ DirSync
    /\ bases' = bases \cup {next}
    /\ active' = next
    /\ size' = 0
    /\ sealed' = FALSE
    /\ sinceSync' = 0
    /\ pc' = IF rest = <<>> THEN "idle" ELSE "append"
    /\ UNCHANGED <<live, data, durable, next, rest, countsFrom, acked, spoiled>>

(***************************************************************************)
(* The directory sync fails.  The file stays; a roll leaves the sealed     *)
(* segment active, an Open returns no log.                                 *)
(***************************************************************************)
SyncDirFails ==
    /\ "direrr" \in Env
    /\ pc = "dirsync"
    /\ IF bases = {}
       THEN Forget
       ELSE Return /\ UNCHANGED <<bases, active, next, size, sealed, sinceSync,
                                  countsFrom>>
    /\ UNCHANGED <<disk, acked, spoiled>>

(***************************************************************************)
(* maybeSync: when the mode asks for a sync.  The interval of batch mode   *)
(* is measured on an injected clock, which may have advanced by any amount *)
(* or not at all.  SyncOneLate is a mutant of MustSync.                    *)
(***************************************************************************)
SyncOneLate ==
    \/ Mode = "sync"
    \/ Mode = "batch" /\ BatchRecords > 0 /\ sinceSync > BatchRecords

MustSync ==
    \/ Mode = "sync"
    \/ Mode = "batch" /\ BatchRecords > 0 /\ sinceSync >= BatchRecords

MaySync == MustSync \/ (Mode = "batch" /\ Interval)

(***************************************************************************)
(* Log.Sync, called by the caller or by maybeSync.                         *)
(***************************************************************************)
Sync ==
    /\ pc = "idle" \/ (pc = "sync" /\ MaySync)
    /\ FileSync(active)
    /\ sinceSync' = 0
    /\ acked' = acked \cup Appended
    /\ Return
    /\ UNCHANGED <<live, durableDir, data, bases, active, next, size, sealed,
                   countsFrom, spoiled>>

SyncFails ==
    /\ "syncerr" \in Env
    /\ pc = "sync" /\ MaySync
    /\ Return
    /\ countsFrom' = next
    /\ UNCHANGED <<disk, bases, active, next, size, sealed, sinceSync, acked,
                   spoiled>>

SkipSync ==
    /\ pc = "sync"
    /\ ~MustSync
    /\ Return
    /\ UNCHANGED <<disk, bases, active, next, size, sealed, sinceSync, countsFrom,
                   acked, spoiled>>

-----------------------------------------------------------------------------
(***************************************************************************)
(* Log.Close: the files are closed, nothing is synced.                     *)
(***************************************************************************)
Close ==
    /\ "close" \in Env
    /\ pc = "idle"
    /\ Forget
    /\ UNCHANGED <<disk, acked, spoiled>>

(***************************************************************************)
(* The process dies at any step; the page cache outlives it.               *)
(***************************************************************************)
Kill ==
    /\ "kill" \in Env
    /\ pc # "down"
    /\ Forget
    /\ UNCHANGED <<disk, acked, spoiled>>

(***************************************************************************)
(* A power cut, in the three shapes of sim.FS.  Names that were not synced *)
(* are gone, and their files with them.                                    *)
(***************************************************************************)
PowerCut(Left(_, _)) ==
    /\ live' = durableDir
    /\ data' = [b \in Offsets |->
                   IF b \in durableDir THEN Left(data[b], durable[b]) ELSE <<>>]
    /\ durable' = [b \in Offsets |-> IF b \in durableDir THEN durable[b] ELSE <<>>]
    /\ Forget
    /\ UNCHANGED <<durableDir, acked>>

Crash ==
    /\ "power" \in Env
    /\ PowerCut(LAMBDA cells, synced : synced)
    /\ UNCHANGED spoiled

Extend ==
    /\ "extend" \in Env
    /\ PowerCut(CrashExtend)
    /\ spoiled' = TRUE

Tear ==
    /\ "tear" \in Env
    /\ \E k \in 0 .. MaxOffset, half \in BOOLEAN :
        PowerCut(LAMBDA cells, synced : CrashTorn(cells, synced, k, half))
    /\ UNCHANGED spoiled

-----------------------------------------------------------------------------
Batches ==
    {s \in BoundedSeq(IF "invalid" \in Env THEN Events \cup {Invalid} ELSE Events,
                      MaxBatch) : s # <<>>}

Next ==
    \/ OpenEmpty \/ OpenExisting
    \/ \E events \in Batches : LogAppend(events)
    \/ AppendAll \/ AppendRefused \/ AppendFails
    \/ RollSync \/ RollSyncFails
    \/ CreateSegment \/ CreateExists \/ CreateFails \/ SyncDir \/ SyncDirFails
    \/ Sync \/ SyncFails \/ SkipSync
    \/ Close \/ Kill
    \/ Crash \/ Extend \/ Tear

Spec == Init /\ [][Next]_vars

-----------------------------------------------------------------------------
(***************************************************************************)
(* The type of every variable of the log and its disk.                     *)
(***************************************************************************)
TypeOK ==
    /\ live \subseteq Offsets
    /\ durableDir \subseteq Offsets
    /\ data \in [Offsets -> Seq(Cell)]
    /\ durable \in [Offsets -> Seq(Cell)]
    /\ pc \in PCs
    /\ bases \subseteq Offsets
    /\ active \in Offsets
    /\ next \in Nat
    /\ size \in Nat
    /\ sealed \in BOOLEAN
    /\ sinceSync \in Nat
    /\ rest \in Seq(Events \cup {Invalid})
    /\ countsFrom \in Nat
    /\ acked \subseteq Cell
    /\ spoiled \in BOOLEAN

(***************************************************************************)
(* Every record that a returned Sync covered would be recovered after a    *)
(* power cut at this instant: it lies in the valid prefix of the synced    *)
(* contents of a segment whose name is durable.  log.go: "Sync makes       *)
(* everything appended so far durable"; Sync mode: "Nothing acknowledged   *)
(* is lost on a crash".                                                    *)
(***************************************************************************)
AckedDurable == \A r \in acked : Recovered(durableDir, durable, r)

(***************************************************************************)
(* "Sealed" means "durable" (log.go, roll): every segment but the last is  *)
(* wholly synced, holds nothing but the records of its own offsets, and is *)
(* followed by the segment that begins where it ends.  Open scans only the *)
(* last segment and openSealedSegment refuses a damaged one, both on the   *)
(* strength of this.                                                       *)
(***************************************************************************)
SealedDurable ==
    \A b \in live : (\E c \in live : b < c) =>
        /\ data[b] = durable[b]
        /\ \A i \in DOMAIN data[b] : data[b][i].kind = "rec" /\ data[b][i].off = b + i - 1
        /\ b + Len(data[b]) \in live

(***************************************************************************)
(* Log.Read of offset o through segmentFor: the segment with the greatest  *)
(* base at or below o, and in it the record the scan accepted at o.        *)
(***************************************************************************)
Read(o, r) ==
    \E b \in bases :
        /\ b <= o /\ (\A c \in bases : c <= o => c <= b)
        /\ InFile(data[b], b, r)
        /\ r.off = o

(***************************************************************************)
(* While the log is open, every offset it claims to hold reads back, as    *)
(* exactly one record, and an acknowledged offset as the record that was   *)
(* acknowledged, whatever crashes, truncations and reopenings came before. *)
(***************************************************************************)
ReadsBack ==
    bases # {} =>
        /\ \A o \in 0 .. next - 1 : Cardinality({r \in Appended : Read(o, r)}) = 1
        /\ \A r \in acked : r.off < next /\ Read(r.off, r)

(***************************************************************************)
(* Batch mode syncs every SyncRecords appends (log.go): at rest, fewer     *)
(* than that many of the records appended since the log was opened, or     *)
(* since a sync last failed, would be lost to a power cut.  What a         *)
(* reopened log finds unsynced in its file is not counted, for Open starts *)
(* the count anew, and a sync that failed was reported; the next append    *)
(* tries it again.                                                         *)
(***************************************************************************)
LostByCrash ==
    {r \in Appended : r.off >= countsFrom /\ ~Recovered(durableDir, durable, r)}

BatchSyncsOnTime == pc = "idle" => Cardinality(LostByCrash) < BatchRecords

(***************************************************************************)
(* Recovery reports corruption only where a disk returned wrong bytes; no  *)
(* action here damages any, so a log that was never spoiled never does.    *)
(* harness/check.go:37 asserts this after every crash.                     *)
(***************************************************************************)
NoFalseCorruption ==
    pc = "down" /\ ~spoiled => \A b \in live, n \in 0 .. MaxOffset + 1 :
        (\A c \in live : c <= b) /\ ScanStops(data[b], b, n)
            => "corrupt" \notin Verdicts(data[b], n)

(***************************************************************************)
(* "Recovery may discard at most the largest write that can have been in   *)
(* flight" (recovery.go:17-19, asserted by harness/check.go:41).  Of a log *)
(* that was never spoiled it is no more than the one record cut short, be  *)
(* the segment as long as it may.                                          *)
(***************************************************************************)
DiscardsOneRecord ==
    pc = "down" /\ ~spoiled => \A b \in live, n \in 0 .. MaxOffset + 1 :
        (\A c \in live : c <= b) /\ ScanStops(data[b], b, n)
            => Len(data[b]) - n <= 1

-----------------------------------------------------------------------------
(***************************************************************************)
(* The inductive invariant behind AckedDurable and SealedDurable, in named *)
(* parts.                                                                  *)
(***************************************************************************)

(***************************************************************************)
(* Records lie where their offsets say.                                    *)
(***************************************************************************)
InvFiles ==
    \A b \in live :
        /\ Positional(data[b], b) /\ b + Len(data[b]) <= MaxOffset
        /\ Positional(durable[b], b) /\ b + Len(durable[b]) <= MaxOffset

(***************************************************************************)
(* A power cut removes the newest names only.                              *)
(***************************************************************************)
InvDir ==
    /\ durableDir \subseteq live
    /\ \A b \in live \ durableDir : \A c \in durableDir : c < b

(***************************************************************************)
(* Segments that have a successor are synced, whole and adjoin the next.   *)
(***************************************************************************)
InvSealed ==
    \A b, c \in live : b < c =>
        /\ data[b] = durable[b]
        /\ OnlyRecords(data[b], Len(data[b]))
        /\ b + Len(data[b]) <= c
        /\ b + Len(data[b]) \in live

(***************************************************************************)
(* Where the process stands when it has no log.                            *)
(***************************************************************************)
InvClosed ==
    bases = {} =>
        /\ pc \in {"down", "create", "dirsync"}
        /\ active = 0 /\ next = 0 /\ size = 0 /\ ~sealed /\ Len(rest) = 0
        /\ pc = "create" => live = {}
        /\ pc = "dirsync" => live = {0} /\ Len(data[0]) = 0 /\ Len(durable[0]) = 0

(***************************************************************************)
(* What the memory of an open log says of its disk.                        *)
(***************************************************************************)
InvOpen ==
    bases # {} =>
        /\ pc # "down"
        /\ active \in bases /\ bases \subseteq live
        /\ \A b \in bases : b <= active
        /\ live \subseteq bases \cup {next}
        /\ next = active + size /\ next + Len(rest) <= MaxOffset
        /\ size <= Len(data[active])
        /\ OnlyRecords(data[active], size)
        /\ ~sealed \/ Full => Len(data[active]) = size
        /\ next \in live \ bases => sealed /\ Full /\ Len(data[next]) = 0 /\ Len(durable[next]) = 0
        /\ pc \in {"create", "dirsync"} => sealed /\ Full /\ durable[active] = data[active]
        /\ pc = "dirsync" => next \in live \ bases

InvDisk == InvFiles /\ InvDir /\ InvSealed

Inv == TypeOK /\ InvDisk /\ InvClosed /\ InvOpen

(***************************************************************************)
(* Where every name an open log writes to is durable, an acknowledged      *)
(* record is in one file of the durable directory, both as it reads and as *)
(* it was synced.                                                          *)
(***************************************************************************)
InvAcked ==
    /\ bases \subseteq durableDir
    /\ \A r \in acked : \E b \in durableDir :
        InFile(data[b], b, r) /\ InFile(durable[b], b, r)

(***************************************************************************)
(* What the log reads back rests on three more facts.  The segments begin  *)
(* at offset 0, and one that has a successor is not empty.                 *)
(***************************************************************************)
InvChain ==
    /\ live # {} => 0 \in live
    /\ \A b, c \in live : b < c => Len(data[b]) > 0

(***************************************************************************)
(* Records hold events that were validated, and a file reads as it was     *)
(* synced as far as whole records reach: only a half record that was       *)
(* synced is ever written over.                                            *)
(***************************************************************************)
InvRecords ==
    \A b \in live :
        /\ \A i \in 1 .. Len(data[b]) : data[b][i].kind = "rec" => data[b][i].ev \in Events
        /\ \A i \in 1 .. Len(durable[b]) :
              /\ durable[b][i].kind = "rec" => durable[b][i].ev \in Events
              /\ OnlyRecords(durable[b], i) =>
                    i <= Len(data[b]) /\ data[b][i] = durable[b][i]

(***************************************************************************)
(* The acknowledged records are one for each offset below some k, and an   *)
(* open log counts all of them.                                            *)
(***************************************************************************)
InvPromise ==
    /\ bases # {} => \A r \in acked : r.off < next
    /\ \A r, s \in acked : r.off = s.off => r = s
    /\ \E k \in 0 .. MaxOffset :
          /\ \A r \in acked : r.off < k
          /\ \A o \in 0 .. k - 1 : \E r \in acked : r.off = o

(***************************************************************************)
(* An open log knows how much of its last segment it has synced since it   *)
(* was opened, and beyond that holds less than a batch whenever it waits   *)
(* for its caller or may write, unless a sync of just that has failed.     *)
(***************************************************************************)
InvBatch ==
    /\ \A i \in 1 .. Len(rest) : rest[i] # Invalid
    /\ bases # {} =>
          /\ \/ active + size - sinceSync <= countsFrom
             \/ \A i \in 1 .. size - sinceSync :
                   i <= Len(durable[active]) /\ durable[active][i] = data[active][i]
          /\ pc = "idle" =>
                \/ sinceSync < BatchRecords \/ countsFrom = next
                \/ Full /\ durable[active] = data[active]
          /\ pc = "append" =>
                Len(rest) > 0 /\ (~Full => sinceSync < BatchRecords \/ countsFrom = next)

(***************************************************************************)
(* As long as no write fails and no cut zeroes the end of a file, the      *)
(* synced part of every file is whole records, what follows is whole       *)
(* records too but for a half one at the very end, and only a full segment *)
(* is sealed.                                                              *)
(***************************************************************************)
InvTail ==
    ~spoiled =>
        /\ \A b \in live :
              /\ OnlyRecords(durable[b], Len(durable[b]))
              /\ \A i \in 1 .. Len(data[b]) :
                    data[b][i].kind = "rec" \/ (data[b][i].kind = "torn" /\ i = Len(data[b]))
        /\ bases # {} /\ sealed => Full

-----------------------------------------------------------------------------
(***************************************************************************)
(* The abstract log that the disk stands for: the events that a scan of    *)
(* every segment returns, up to the end of the last segment, and the       *)
(* prefix of them that was acknowledged.                                   *)
(***************************************************************************)
ScannedLen(b) == CHOOSE n \in 0 .. Len(data[b]) : ScanStops(data[b], b, n)

LogEnd == IF live = {} THEN 0 ELSE Max(live) + ScannedLen(Max(live))

EventAt(o) ==
    LET b == Max({c \in live : c <= o}) IN
    IF o - b < Len(data[b]) THEN data[b][o - b + 1].ev ELSE Invalid

AbstractLog == [i \in 1 .. LogEnd |-> EventAt(i - 1)]

AbstractPromised ==
    [i \in 1 .. Cardinality(acked) |-> (CHOOSE r \in acked : r.off = i - 1).ev]

Abstract ==
    INSTANCE DurableLog WITH log <- AbstractLog, promised <- AbstractPromised

(***************************************************************************)
(* The segmented log on its disk implements the abstract durable log: a    *)
(* step of the code extends the log, acknowledges a prefix of it, loses an *)
(* unacknowledged suffix, or changes nothing the caller can see.           *)
(***************************************************************************)
ImplementsDurableLog == Abstract!Spec
=============================================================================
