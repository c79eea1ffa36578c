----------------------------- MODULE Compaction -----------------------------
(***************************************************************************)
(* Compaction of sealed segments (log/compact.go) beside a cursor          *)
(* (log/reader.go), on a disk whose names and inodes are apart             *)
(* (sim/fs.go): a rename rebinds a name, a handle keeps its inode, and a   *)
(* power cut restores the names of the last directory sync.                *)
(*                                                                         *)
(* The inode of a segment's name is the file the log wrote, or a compacted *)
(* one.  Two compacted files of one segment have the same records, so they *)
(* share an inode here; and a temporary file, which is removed before it   *)
(* is used again, is an inode until the rename and a power cut takes it.   *)
(*                                                                         *)
(* Compact is a step for every filesystem call it makes.  Appending,       *)
(* rolling and opening, whose own steps are in SegmentedLog, are one step  *)
(* each; a power cut has the shape of sim.FS.Crash.                        *)
(***************************************************************************)
EXTENDS Integers, Sequences, FiniteSets, FiniteSetsExt, SequencesExt

CONSTANTS
    Keys,        \* the keys that events carry
    SegMax,      \* Options.MaxBytes, counted in records
    MaxOffset,   \* bound: no offset reaches it
    AnyOffset,   \* TRUE when callers compact offsets that begin no segment
    Env          \* what the environment may do, see CompactionEnv

CompactionEnv ==
    { "kill", "power",  \* as in SegmentedLog
      "fserr",          \* a call that Compact makes on its temporary file fails
      "direrr" }        \* the directory sync that ends Compact fails

ASSUME CompactionBoundsAssumption ==
    SegMax \in Nat \ {0} /\ MaxOffset \in Nat
ASSUME AnyOffsetAssumption == AnyOffset \in BOOLEAN
ASSUME CompactionEnvAssumption == Env \subseteq CompactionEnv

Offsets == 0 .. MaxOffset
Records == [off : Offsets, key : Keys]

Written(b) == <<"written", b>>
Compacted(b) == <<"compacted", b>>
Tmp(b) == <<"tmp", b>>
NoNode == <<"none", 0>>
Inodes == {"written", "compacted", "tmp"} \X Offsets

NoReader == [seg |-> NoNode, pos |-> 0, next |-> 0, generation |-> 0, from |-> 0, open |-> FALSE]
NoCompact == [base |-> 0, src |-> NoNode]

VARIABLES
    live,        \* sim.FS.live: the inode that a segment's name is bound to
    durableDir,  \* sim.FS.durable: the inode a power cut leaves it
    strays,      \* the bases whose temporary file exists
    data,        \* inode.data: the records of a file
    durable,     \* inode.durable
    pc,          \* the filesystem call the process makes next
    bases,       \* Log.bases
    next,        \* Log.active.next
    cache,       \* Log.sealed: the inode of the handle cached for a base
    closed,      \* the inodes whose handle has been closed
    generation,  \* Log.generation
    job,         \* the compaction in progress
    reader,      \* a Reader
    got,         \* observer: the records it returned
    acked        \* observer: the records a returned Sync covered

disk == <<live, durableDir, strays, data, durable>>
memory == <<bases, next, cache, closed, generation>>
vars == <<disk, pc, memory, job, reader, got, acked>>

-----------------------------------------------------------------------------
active == Max(bases)

(***************************************************************************)
(* The handle segmentFor returns for the segment at b, opening it when it  *)
(* is not cached, and the segment an offset belongs to.                    *)
(***************************************************************************)
Handle(b) == IF b # active /\ cache[b] # NoNode THEN cache[b] ELSE live[b]

BaseFor(o) == Max({b \in bases : b <= o})

Opened(B) == [b \in Offsets |-> IF b \in B \ {active} THEN Handle(b) ELSE cache[b]]

(***************************************************************************)
(* segment.next of the segment on inode i.                                 *)
(***************************************************************************)
SegNext(i) == IF i = live[active] THEN next ELSE Last(data[i]).off + 1

(***************************************************************************)
(* survivorsOf: the records that are the last of their key in the file.    *)
(* OldestPerKey is a mutant of it.                                         *)
(***************************************************************************)
OldestPerKey(file) ==
    {r \in Range(file) : \A s \in Range(file) : s.key = r.key => s.off >= r.off}

Survivors(file) ==
    {r \in Range(file) : \A s \in Range(file) : s.key = r.key => s.off <= r.off}

(***************************************************************************)
(* The records a process that opened the log would read, by the names of a *)
(* directory and the contents of its files.                                *)
(***************************************************************************)
Holds(dir, f) == UNION {Range(f[dir[b]]) : b \in {c \in Offsets : dir[c] # NoNode}}

Forget ==
    /\ pc' = "down"
    /\ bases' = {}
    /\ next' = 0
    /\ cache' = [b \in Offsets |-> NoNode]
    /\ closed' = {}
    /\ generation' = 0
    /\ job' = NoCompact
    /\ reader' = NoReader
    /\ got' = {}

-----------------------------------------------------------------------------
Init ==
    /\ live = [b \in Offsets |-> IF b = 0 THEN Written(0) ELSE NoNode]
    /\ durableDir = live
    /\ strays = {}
    /\ data = [i \in Inodes |-> <<>>]
    /\ durable = data
    /\ pc = "down"
    /\ bases = {} /\ next = 0 /\ closed = {} /\ generation = 0
    /\ cache = [b \in Offsets |-> NoNode]
    /\ job = NoCompact /\ reader = NoReader /\ got = {} /\ acked = {}

(***************************************************************************)
(* Open: the names that are segments, the last of which is scanned.  The   *)
(* temporary files that a crash left are not segments.                     *)
(***************************************************************************)
Open ==
    /\ pc = "down"
    /\ pc' = "idle"
    /\ bases' = {b \in Offsets : live[b] # NoNode}
    /\ LET last == Max(bases') file == data[live[last]] IN
        next' = IF file = <<>> THEN last ELSE Last(file).off + 1
    /\ UNCHANGED <<disk, cache, closed, generation, job, reader, got, acked>>

Append1(k) ==
    /\ pc = "idle"
    /\ next < MaxOffset
    /\ LET i == live[active] IN
        /\ Len(data[i]) < SegMax
        /\ data' = [data EXCEPT ![i] = @ \o <<[off |-> next, key |-> k]>>]
    /\ next' = next + 1
    /\ UNCHANGED <<live, durableDir, strays, durable, pc, bases, cache, closed, generation, job, reader, got, acked>>

(***************************************************************************)
(* An append that finds the active segment full: the roll syncs it, keeps  *)
(* its handle, creates the next segment and syncs the directory, with      *)
(* whatever other names it holds.                                          *)
(***************************************************************************)
AppendRolls(k) ==
    /\ pc = "idle"
    /\ next < MaxOffset
    /\ LET i == live[active] IN
        /\ Len(data[i]) >= SegMax
        /\ live' = [live EXCEPT ![next] = Written(next)]
        /\ data' = [data EXCEPT ![Written(next)] = <<[off |-> next, key |-> k]>>]
        /\ durable' = [durable EXCEPT ![i] = data[i], ![Written(next)] = <<>>]
        /\ cache' = [cache EXCEPT ![active] = i]
    /\ durableDir' = live'
    /\ bases' = bases \cup {next}
    /\ next' = next + 1
    /\ UNCHANGED <<strays, pc, closed, generation, job, reader, got, acked>>

Sync ==
    /\ pc = "idle"
    /\ LET i == live[active] IN durable' = [durable EXCEPT ![i] = data[i]]
    /\ acked' = acked \cup Holds(live, data)
    /\ UNCHANGED <<live, durableDir, strays, data, pc, memory, job, reader, got>>

-----------------------------------------------------------------------------
(***************************************************************************)
(* Compact(b) refuses the active segment and an offset that no segment     *)
(* follows; a segment in which nothing is superseded is left alone.        *)
(***************************************************************************)
Compact(b) ==
    /\ pc = "idle"
    /\ b < active
    /\ AnyOffset \/ b \in bases
    /\ LET c == BaseFor(b) i == Handle(c) IN
        /\ cache' = Opened({c})
        /\ i \notin closed
        /\ IF Survivors(data[i]) = Range(data[i])
           THEN UNCHANGED <<pc, job>>
           ELSE pc' = "stale" /\ job' = [base |-> b, src |-> i]
    /\ UNCHANGED <<disk, bases, next, closed, generation, reader, got, acked>>

(***************************************************************************)
(* removeStale, then createNamed of the temporary file.                    *)
(***************************************************************************)
RemoveStale ==
    /\ pc = "stale"
    /\ strays' = strays \ {job.base}
    /\ pc' = "create"
    /\ UNCHANGED <<live, durableDir, data, durable, memory, job, reader, got, acked>>

CreateTmp ==
    /\ pc = "create"
    /\ job.base \notin strays
    /\ strays' = strays \cup {job.base}
    /\ data' = [data EXCEPT ![Tmp(job.base)] = <<>>]
    /\ durable' = [durable EXCEPT ![Tmp(job.base)] = <<>>]
    /\ pc' = "copy"
    /\ UNCHANGED <<live, durableDir, memory, job, reader, got, acked>>

(***************************************************************************)
(* The survivors are copied one write each, in the order of the source;    *)
(* appendAt refuses an offset below the base of the new file.  The last is *)
(* followed by the sync, which the mutant RenameUnsynced leaves out.       *)
(***************************************************************************)
Uncopied == Survivors(data[job.src]) \ Range(data[Tmp(job.base)])

CopyRecord ==
    /\ pc = "copy"
    /\ \E r \in Uncopied :
        /\ \A s \in Uncopied : r.off <= s.off
        /\ r.off >= job.base
        /\ data' = [data EXCEPT ![Tmp(job.base)] = @ \o <<r>>]
    /\ UNCHANGED <<live, durableDir, strays, durable, pc, memory, job, reader, got, acked>>

Copied == Uncopied = {}

RenameUnsynced ==
    /\ pc = "copy"
    /\ Copied
    /\ pc' = "rename"
    /\ UNCHANGED <<disk, memory, job, reader, got, acked>>

SyncTmp ==
    /\ pc = "copy"
    /\ Copied
    /\ durable' = [durable EXCEPT ![Tmp(job.base)] = data[Tmp(job.base)]]
    /\ pc' = "rename"
    /\ UNCHANGED <<live, durableDir, strays, data, memory, job, reader, got, acked>>

Rename ==
    /\ pc = "rename"
    /\ live' = [live EXCEPT ![job.base] = Compacted(job.base)]
    /\ strays' = strays \ {job.base}
    /\ data' = [data EXCEPT ![Compacted(job.base)] = data[Tmp(job.base)], ![Tmp(job.base)] = <<>>]
    /\ durable' = [durable EXCEPT ![Compacted(job.base)] = durable[Tmp(job.base)], ![Tmp(job.base)] = <<>>]
    /\ pc' = "swapsync"
    /\ UNCHANGED <<durableDir, memory, job, reader, got, acked>>

(***************************************************************************)
(* The directory sync, after which the replaced file's handle is closed    *)
(* and forgotten and readers are told by the generation, which the mutant  *)
(* SwapQuietly does not do.                                                *)
(***************************************************************************)
SwapQuietly ==
    /\ pc = "swapsync"
    /\ durableDir' = live
    /\ closed' = closed \cup {job.src}
    /\ cache' = [cache EXCEPT ![job.base] = NoNode]
    /\ pc' = "idle"
    /\ job' = NoCompact
    /\ UNCHANGED <<live, strays, data, durable, bases, next, generation, reader, got, acked>>

SwapSync ==
    /\ pc = "swapsync"
    /\ durableDir' = live
    /\ closed' = closed \cup {job.src}
    /\ cache' = [cache EXCEPT ![job.base] = NoNode]
    /\ generation' = generation + 1
    /\ pc' = "idle"
    /\ job' = NoCompact
    /\ UNCHANGED <<live, strays, data, durable, bases, next, reader, got, acked>>

(***************************************************************************)
(* The sync fails: the swap was made and is not durable, and the log goes  *)
(* on reading the replaced file.                                           *)
(***************************************************************************)
SwapSyncFails ==
    /\ "direrr" \in Env
    /\ pc = "swapsync"
    /\ pc' = "idle"
    /\ job' = NoCompact
    /\ UNCHANGED <<disk, memory, reader, got, acked>>

(***************************************************************************)
(* A call before the rename fails, or a survivor lies below the new file's *)
(* base.  The temporary file is removed, or left when that fails too.      *)
(***************************************************************************)
CompactFails ==
    /\ pc \in {"stale", "create", "copy", "rename"}
    /\ \/ "fserr" \in Env
       \/ pc = "copy" /\ \E r \in Survivors(data[job.src]) : r.off < job.base
    /\ strays' \in {strays, strays \ {job.base}}
    /\ pc' = "idle"
    /\ job' = NoCompact
    /\ UNCHANGED <<live, durableDir, data, durable, memory, reader, got, acked>>

-----------------------------------------------------------------------------
(***************************************************************************)
(* locateFrom: the place of the first record at or after off.  FirstAfter  *)
(* is a mutant of it.                                                      *)
(***************************************************************************)
FirstAfter(i, off) ==
    LET P == {p \in DOMAIN data[i] : data[i][p].off > off}
    IN  IF P = {} THEN Len(data[i]) ELSE Min(P)

FirstAt(i, off) == Min({p \in DOMAIN data[i] : data[i][p].off >= off})

NewReader(from) ==
    /\ pc = "idle"
    /\ ~reader.open
    /\ from <= next
    /\ reader' = [NoReader EXCEPT !.next = from, !.from = from,
                                  !.generation = generation, !.open = TRUE]
    /\ UNCHANGED <<disk, pc, memory, job, got, acked>>

(***************************************************************************)
(* The cursor resolves its segment when it has none, when it crossed the   *)
(* end of the one it has, and when compaction replaced one.                *)
(***************************************************************************)
Unresolved ==
    reader.seg # NoNode =>
        reader.next >= SegNext(reader.seg) \/ reader.generation # generation

(***************************************************************************)
(* The segment in which seek finds the first record at or after off: the   *)
(* one off belongs to, or the first after it that reaches past off.        *)
(***************************************************************************)
SeekBase(off) ==
    Min({b \in bases : b >= BaseFor(off) /\ SegNext(Handle(b)) > off})

(***************************************************************************)
(* readRecordFrom at place p of inode i, and the cursor moving past what   *)
(* it read.  SkipsOne is a mutant of ReadAt.                               *)
(***************************************************************************)
SkipsOne(i, p, cached) ==
    /\ i \notin closed
    /\ LET r == data[i][p] IN
        /\ r.off >= reader.next
        /\ reader' = [reader EXCEPT !.seg = i, !.pos = p + 1, !.next = r.off + 2,
                                    !.generation = generation]
        /\ got' = got \cup {r}
    /\ cache' = cached
    /\ UNCHANGED <<disk, pc, bases, next, closed, generation, job, acked>>

ReadAt(i, p, cached) ==
    /\ i \notin closed
    /\ LET r == data[i][p] IN
        /\ r.off >= reader.next
        /\ reader' = [reader EXCEPT !.seg = i, !.pos = p + 1, !.next = r.off + 1,
                                    !.generation = generation]
        /\ got' = got \cup {r}
    /\ cache' = cached
    /\ UNCHANGED <<disk, pc, bases, next, closed, generation, job, acked>>

(***************************************************************************)
(* Reader.Next, short of the tail.                                         *)
(***************************************************************************)
NextInSegment ==
    /\ pc = "idle" /\ reader.open
    /\ reader.next < next
    /\ ~Unresolved
    /\ ReadAt(reader.seg, reader.pos, cache)

NextSeeks ==
    /\ pc = "idle" /\ reader.open
    /\ reader.next < next
    /\ Unresolved
    /\ LET b == SeekBase(reader.next) i == Handle(b) IN
        ReadAt(i, FirstAt(i, reader.next), Opened({c \in bases : BaseFor(reader.next) <= c /\ c <= b}))

-----------------------------------------------------------------------------
Kill ==
    /\ "kill" \in Env
    /\ pc # "down"
    /\ Forget
    /\ UNCHANGED <<disk, acked>>

Crash ==
    /\ "power" \in Env
    /\ live' = durableDir
    /\ data' = durable
    /\ strays' \in {{}, strays}
    /\ Forget
    /\ UNCHANGED <<durableDir, durable, acked>>

Next ==
    \/ Open
    \/ \E k \in Keys : Append1(k) \/ AppendRolls(k)
    \/ Sync
    \/ \E b \in Offsets : Compact(b) \/ NewReader(b)
    \/ RemoveStale \/ CreateTmp \/ CopyRecord \/ SyncTmp \/ Rename
    \/ SwapSync \/ SwapSyncFails \/ CompactFails
    \/ NextInSegment \/ NextSeeks
    \/ Kill \/ Crash

Spec == Init /\ [][Next]_vars

-----------------------------------------------------------------------------
(***************************************************************************)
(* The type of every variable.                                             *)
(***************************************************************************)
TypeOK ==
    /\ live \in [Offsets -> Inodes \cup {NoNode}]
    /\ durableDir \in [Offsets -> Inodes \cup {NoNode}]
    /\ strays \subseteq Offsets
    /\ data \in [Inodes -> Seq(Records)] /\ durable \in [Inodes -> Seq(Records)]
    /\ pc \in {"down", "idle", "stale", "create", "copy", "rename", "swapsync"}
    /\ bases \subseteq Offsets /\ next \in Offsets
    /\ cache \in [Offsets -> Inodes \cup {NoNode}] /\ closed \subseteq Inodes
    /\ generation \in Nat
    /\ reader.next \in Offsets /\ reader.seg \in Inodes \cup {NoNode}
    /\ got \subseteq Records /\ acked \subseteq Records

(***************************************************************************)
(* "Nothing is lost either way: compaction only ever removes records a     *)
(* newer record for the same key supersedes" (compact.go), and "the scope  *)
(* is one segment": whether the process restarts or the power fails, at    *)
(* any call of any compaction, an acknowledged record is there, or a newer *)
(* one of its key in the same segment is.                                  *)
(***************************************************************************)
Supersedes(dir, s, r) ==
    /\ s.key = r.key
    /\ s.off >= r.off
    /\ \A b \in r.off + 1 .. s.off : dir[b] = NoNode

NewestKept ==
    \A r \in acked :
        /\ \E s \in Holds(live, data) : Supersedes(live, s, r)
        /\ \E s \in Holds(durableDir, durable) : Supersedes(durableDir, s, r)

(***************************************************************************)
(* The newest record of each key in each segment, which compaction must    *)
(* not touch: no step but an append or a power cut changes it, whatever    *)
(* call of a compaction fails.                                             *)
(***************************************************************************)
Newest(dir, f) ==
    {r \in Holds(dir, f) : \A s \in Holds(dir, f) : Supersedes(dir, s, r) => s = r}

CompactionInvisible ==
    [][ Newest(live', data') # Newest(live, data) => next' > next \/ pc' = "down" ]_vars

(***************************************************************************)
(* A cursor never reads a closed handle or a position of another file: one *)
(* that need not resolve its segment stands at the first record at or      *)
(* after its offset, and every segment that can be resolved is open        *)
(* (reader.go, generation; compact.go: "Bumping the generation is how they *)
(* find out").                                                             *)
(***************************************************************************)
CursorSound ==
    pc # "down" =>
        /\ \A b \in bases : Handle(b) \notin closed
        /\ reader.open /\ ~Unresolved =>
            /\ reader.seg \notin closed
            /\ reader.pos \in DOMAIN data[reader.seg]
            /\ reader.pos = FirstAt(reader.seg, reader.next)

(***************************************************************************)
(* A reader walks past compacted offsets to the next surviving record and  *)
(* past nothing else (docs/adopting.md, section 4): every record the log   *)
(* still holds below the cursor was returned by it.                        *)
(***************************************************************************)
NothingSkipped ==
    reader.open =>
        \A r \in Holds(live, data) : reader.from <= r.off /\ r.off < reader.next => r \in got
=============================================================================
