-------------------------- MODULE SnapshotsProofs --------------------------
(***************************************************************************)
(* Proofs about Snapshots, for every bound: a crash leaves the previous    *)
(* snapshot or the new one, one that returned is not lost, and restoring   *)
(* and replaying is folding the log.                                       *)
(***************************************************************************)
EXTENDS Snapshots, SequenceTheorems, TLAPS

Recs == INSTANCE RecordFileProofs WITH Events <- States, Invalid <- NoState

-----------------------------------------------------------------------------
(***************************************************************************)
(* The inductive invariant, in named parts.                                *)
(***************************************************************************)

(***************************************************************************)
(* The file of a snapshot at off of the log lg: one record, synced, with   *)
(* the fold of the log's first off records.                                *)
(***************************************************************************)
Folded(lg, off) == <<Rec(off, SubSeq(lg, 1, off))>>
Whole(lg, off) == [cells |-> Folded(lg, off), synced |-> Folded(lg, off)]

(***************************************************************************)
(* A directory holds such files and nothing else, for offsets up to n.     *)
(***************************************************************************)
SoundDir(dir, lg, n) ==
    /\ dir = [off \in DOMAIN dir |-> dir[off]]
    /\ \A off \in DOMAIN dir : off \in 0 .. n /\ dir[off] = Whole(lg, off)

(***************************************************************************)
(* A directory holds snapshot r, when there is one, or a newer one.        *)
(***************************************************************************)
Holds(dir, r) == r # None => \E off \in DOMAIN dir : off >= r

(***************************************************************************)
(* The snapshot in progress: it is covered by a Sync and by the state, and *)
(* its file is written, synced and named in that order.                    *)
(***************************************************************************)
Busy == {"create", "write", "synctmp", "rename", "dirsync", "remove", "cleanup"}

InvProgress ==
    /\ pc \in Busy => want \in 0 .. safe /\ state # NoState /\ want <= Len(state)
    /\ pc = "synctmp" => tmp.cells = Folded(log, want)
    /\ pc = "rename" => tmp = Whole(log, want)
    /\ pc = "dirsync" => want \in DOMAIN live
    /\ pc = "remove" => want \in DOMAIN live /\ want \in DOMAIN durable

InvState ==
    state # NoState => Len(state) <= Len(log) /\ \A i \in 1 .. Len(state) : state[i] = log[i]

InvDisk ==
    /\ SoundDir(live, log, safe) /\ SoundDir(durable, log, safe)
    /\ Holds(live, returned) /\ Holds(durable, returned)

Inv == TypeOK /\ InvDisk /\ InvProgress /\ InvState

-----------------------------------------------------------------------------
USE SnapshotBoundsAssumption

(***************************************************************************)
(* Facts about states, records and files.                                  *)
(***************************************************************************)
LEMMA StateFacts ==
    /\ NoState \notin States /\ Len(NoState) = 1
    /\ Torn \in Cell
    /\ \A s \in States, o \in Nat :
        /\ Rec(o, s) \in Cell
        /\ Rec(o, s).kind = "rec" /\ Rec(o, s).off = o /\ Rec(o, s).ev = s
    /\ \A s \in States, o \in Nat : o <= Len(s) =>
        /\ SubSeq(s, 1, o) \in States /\ Len(SubSeq(s, 1, o)) = o
        /\ \A i \in 1 .. o : SubSeq(s, 1, o)[i] = s[i]
<1>1. NoState \notin States
  <2>1. NoState[1] = -1 /\ Len(NoState) = 1
    BY DEF NoState, None
  <2> QED BY <2>1 DEF States
<1>2. Len(NoState) = 1
  BY DEF NoState
<1>3. Torn \in Cell
  BY DEF Torn, Cell
<1>4. ASSUME NEW s \in States, NEW o \in Nat
      PROVE  /\ Rec(o, s) \in Cell
             /\ Rec(o, s).kind = "rec" /\ Rec(o, s).off = o /\ Rec(o, s).ev = s
  BY DEF Rec, Cell
<1>5. ASSUME NEW s \in States, NEW o \in Nat, o <= Len(s)
      PROVE  /\ SubSeq(s, 1, o) \in States /\ Len(SubSeq(s, 1, o)) = o
             /\ \A i \in 1 .. o : SubSeq(s, 1, o)[i] = s[i]
  BY <1>5 DEF States
<1> QED BY <1>1, <1>2, <1>3, <1>4, <1>5

(***************************************************************************)
(* Two logs that agree up to off fold to the same state there.             *)
(***************************************************************************)
LEMMA SameFold ==
    ASSUME NEW s \in States, NEW t \in States, NEW off \in Nat,
           off <= Len(s), off <= Len(t), \A i \in 1 .. off : s[i] = t[i]
    PROVE  SubSeq(s, 1, off) = SubSeq(t, 1, off)
<1> DEFINE a == SubSeq(s, 1, off)
           b == SubSeq(t, 1, off)
<1>1. a \in States /\ b \in States /\ Len(a) = off /\ Len(b) = off
      /\ \A i \in 1 .. off : a[i] = s[i] /\ b[i] = t[i]
  BY StateFacts
<1> HIDE DEF a, b
<1>2. Len(a) = Len(b) /\ \A i \in 1 .. Len(a) : a[i] = b[i]
  BY <1>1
<1>3. a = b
  BY <1>1, <1>2, SeqEqual DEF States
<1> QED BY <1>3 DEF a, b

LEMMA WholeFacts ==
    ASSUME NEW lg \in States, NEW off \in Nat, off <= Len(lg)
    PROVE  /\ Whole(lg, off) \in File
           /\ Folded(lg, off) \in Seq(Cell) /\ Len(Folded(lg, off)) = 1
           /\ Folded(lg, off)[1] = Rec(off, SubSeq(lg, 1, off))
           /\ Whole(lg, off).cells = Folded(lg, off)
           /\ Whole(lg, off).synced = Folded(lg, off)
<1>1. Rec(off, SubSeq(lg, 1, off)) \in Cell
  BY StateFacts
<1>2. /\ Folded(lg, off) \in Seq(Cell) /\ Len(Folded(lg, off)) = 1
      /\ Folded(lg, off)[1] = Rec(off, SubSeq(lg, 1, off))
  <2> DEFINE r == Rec(off, SubSeq(lg, 1, off))
  <2>1. r \in Cell
    BY <1>1
  <2> HIDE DEF r
  <2>2. <<r>> \in Seq(Cell) /\ Len(<<r>>) = 1 /\ <<r>>[1] = r
    BY <2>1
  <2> QED BY <2>2 DEF Folded, r
<1> QED BY <1>2 DEF Whole, File

(***************************************************************************)
(* A directory stays sound while the log keeps its first n records.        *)
(***************************************************************************)
LEMMA SoundDirKept ==
    ASSUME NEW dir, NEW lg \in States, NEW lg2 \in States, NEW n \in Nat, NEW n2 \in Nat,
           n <= n2, n <= Len(lg), n <= Len(lg2), \A i \in 1 .. n : lg2[i] = lg[i],
           SoundDir(dir, lg, n)
    PROVE  SoundDir(dir, lg2, n2)
<1>1. ASSUME NEW off \in DOMAIN dir PROVE off \in 0 .. n2 /\ dir[off] = Whole(lg2, off)
  <2>1. off \in 0 .. n /\ dir[off] = Whole(lg, off)
    BY DEF SoundDir
  <2>2. SubSeq(lg, 1, off) = SubSeq(lg2, 1, off)
    BY <2>1, SameFold
  <2>3. Whole(lg, off) = Whole(lg2, off)
    BY <2>2 DEF Whole, Folded
  <2> QED BY <2>1, <2>3
<1> QED BY <1>1 DEF SoundDir

LEMMA SoundDirFiles ==
    ASSUME NEW dir, NEW lg \in States, Len(lg) <= MaxOffset, NEW n \in 0 .. Len(lg),
           SoundDir(dir, lg, n)
    PROVE  DOMAIN dir \subseteq Offsets /\ \A off \in DOMAIN dir : dir[off] \in File
<1>1. Len(lg) \in Nat
  BY DEF States
<1>2. ASSUME NEW off \in DOMAIN dir PROVE off \in Offsets /\ dir[off] \in File
  <2>1. off \in 0 .. n /\ dir[off] = Whole(lg, off)
    BY DEF SoundDir
  <2> QED BY <1>1, <2>1, WholeFacts DEF Offsets
<1> QED BY <1>2

(***************************************************************************)
(* What LatestSnapshot finds in such a directory: nothing when there is no *)
(* snapshot, and otherwise the newest one, whole.                          *)
(***************************************************************************)
LEMMA LatestFacts ==
    ASSUME NEW dir, NEW lg \in States, NEW n \in 0 .. Len(lg), SoundDir(dir, lg, n)
    PROVE  \/ /\ DOMAIN dir = {}
              /\ LatestSnapshot(dir) = [off |-> None, state |-> <<>>]
           \/ \E m \in DOMAIN dir :
              /\ m \in 0 .. n /\ \A off \in DOMAIN dir : off <= m
              /\ LatestSnapshot(dir) = [off |-> m, state |-> SubSeq(lg, 1, m)]
<1>0. Len(lg) \in Nat /\ n \in Nat
  BY DEF States
<1>1. CASE DOMAIN dir = {}
  <2>1. dir = <<>>
    BY <1>1 DEF SoundDir
  <2> QED BY <1>1, <2>1 DEF LatestSnapshot
<1>2. CASE DOMAIN dir # {}
  <2> DEFINE D == DOMAIN dir
  <2>1. D \subseteq 0 .. n
    BY DEF SoundDir
  <2>2. \E m \in D : \A y \in D : y <= m
    <3> HIDE DEF D
    <3> QED BY <1>0, <1>2, <2>1, StateFacts, Recs!HasGreatest DEF D
  <2>3. Max(D) \in D /\ \A y \in D : Max(D) >= y
    <3>1. \E m \in D : \A y \in D : m >= y
      BY <1>0, <2>1, <2>2
    <3> HIDE DEF D
    <3> QED BY <3>1 DEF Max
  <2> DEFINE m == Max(D)
  <2>4. m \in D /\ m \in 0 .. n /\ \A y \in D : y <= m
    BY <1>0, <2>1, <2>3
  <2>5. LatestSnapshot(dir) =
          [off |-> m, state |-> IF Len(dir[m].cells) = 1 /\ ScanStops(dir[m].cells, m, 1)
                                THEN dir[m].cells[1].ev ELSE NoState]
    <3>1. dir # <<>>
      BY <1>2
    <3> QED BY <3>1 DEF LatestSnapshot
  <2> HIDE DEF m
  <2> DEFINE c == dir[m].cells
  <2>6. dir[m] = Whole(lg, m)
    BY <2>4 DEF SoundDir
  <2>7. Len(c) = 1 /\ c[1] = Rec(m, SubSeq(lg, 1, m))
    BY <1>0, <2>4, <2>6, WholeFacts
  <2>8. c[1].kind = "rec" /\ c[1].off = m /\ c[1].ev = SubSeq(lg, 1, m)
    <3> DEFINE r == c[1]
    <3>1. r = Rec(m, SubSeq(lg, 1, m))
      BY <2>7
    <3> HIDE DEF r
    <3>2. r.kind = "rec" /\ r.off = m /\ r.ev = SubSeq(lg, 1, m)
      BY <3>1 DEF Rec
    <3> QED BY <3>2 DEF r
  <2>9. ScanStops(c, m, 1)
    <3> HIDE DEF c
    <3> QED BY <1>0, <2>4, <2>7, <2>8 DEF ScanStops, ValidTo, Accepts
  <2>10. LatestSnapshot(dir) = [off |-> m, state |-> SubSeq(lg, 1, m)]
    BY <2>5, <2>7, <2>8, <2>9
  <2> QED BY <2>4, <2>10
<1> QED BY <1>1, <1>2

(***************************************************************************)
(* No shape of power cut changes a file that is wholly synced.             *)
(***************************************************************************)
LEMMA SyncedFilesStay ==
    ASSUME NEW c \in Seq(Cell), NEW half \in BOOLEAN
    PROVE  CrashExtend(c, c) = c /\ CrashTorn(c, c, 0, half) = c
<1>1. Unsynced(c, c) = <<>>
  BY DEF Unsynced
<1>2. c \o <<>> = c
  BY ConcatEmptySeq
<1>3. CrashExtend(c, c) = c
  <2>1. [i \in DOMAIN Unsynced(c, c) |-> Zeros] = <<>>
    BY <1>1
  <2> QED BY <1>2, <2>1 DEF CrashExtend
<1>4. CrashTorn(c, c, 0, half) = c
  BY <1>1, <1>2 DEF CrashTorn
<1> QED BY <1>3, <1>4

-----------------------------------------------------------------------------
(***************************************************************************)
(* The invariant holds of every step.                                      *)
(***************************************************************************)
LEMMA InvInit == Init => Inv
<1> SUFFICES ASSUME Init PROVE Inv
  OBVIOUS
<1>1. TypeOK
  <2>1. log \in States /\ Len(log) = 0 /\ <<>> \in Seq(Cell)
    BY DEF Init, States
  <2>2. tmp \in File
    BY <2>1 DEF Init, Empty, File
  <2>3. live = <<>> /\ durable = <<>> /\ DOMAIN <<>> = {}
    BY DEF Init
  <2> QED BY <2>1, <2>2, <2>3 DEF Init, TypeOK, Offsets
<1>2. InvDisk
  BY DEF Init, InvDisk, SoundDir, Holds
<1>3. InvProgress /\ InvState
  BY DEF Init, InvProgress, InvState, Busy
<1> QED BY <1>1, <1>2, <1>3 DEF Inv


(***************************************************************************)
(* What the parts of the invariant say of the log and the directories.     *)
(***************************************************************************)
LEMMA LogFacts ==
    ASSUME Inv
    PROVE  /\ log \in States /\ Len(log) \in Nat /\ Len(log) <= MaxOffset
           /\ safe \in Nat /\ safe <= Len(log) /\ safe \in 0 .. Len(log)
           /\ tmp \in File /\ None = -1
           /\ state # NoState => state \in States /\ Len(state) \in Nat /\ Len(state) <= MaxOffset
           /\ SoundDir(live, log, safe) /\ SoundDir(durable, log, safe)
           /\ Holds(live, returned) /\ Holds(durable, returned)
BY DEF Inv, InvDisk, TypeOK, States, None

(***************************************************************************)
(* The types follow from the other parts and those of the plain variables. *)
(***************************************************************************)
LEMMA InvFrom ==
    ASSUME log' \in States, Len(log') <= MaxOffset, safe' \in 0 .. Len(log'),
           epoch' \in 0 .. MaxEpoch, tmp' \in File,
           pc' \in {"down", "idle"} \cup Busy,
           want' \in Offsets \cup {None},
           state' \in States \cup {NoState},
           returned' \in Offsets \cup {None},
           InvDisk', InvProgress', InvState'
    PROVE  Inv'
<1>1. SoundDir(live', log', safe') /\ SoundDir(durable', log', safe')
  BY DEF InvDisk
<1>2. /\ DOMAIN live' \subseteq Offsets /\ \A off \in DOMAIN live' : live'[off] \in File
      /\ DOMAIN durable' \subseteq Offsets /\ \A off \in DOMAIN durable' : durable'[off] \in File
  BY <1>1, SoundDirFiles
<1>3. state' # NoState => Len(state') <= MaxOffset
  BY DEF InvState, States
<1>4. TypeOK'
  BY <1>2, <1>3 DEF TypeOK, Busy
<1> QED BY <1>4 DEF Inv

(***************************************************************************)
(* The log's own steps.                                                    *)
(***************************************************************************)
LEMMA LogStepsInv ==
    ASSUME Inv, Open \/ LogAppend \/ LogSync \/ LogDirSync
    PROVE  Inv'
<1> USE DEF logVars, disk
<1>1. pc' = "idle" /\ UNCHANGED <<epoch, live, tmp, want, state, returned>>
  BY DEF Open, LogAppend, LogSync, LogDirSync
<1>2. InvProgress'
  BY <1>1 DEF InvProgress, Busy
<1>3. /\ log' \in States /\ Len(log') <= MaxOffset /\ Len(log) <= Len(log')
      /\ \A i \in 1 .. Len(log) : log'[i] = log[i]
  <2>1. CASE log' = log
    BY <2>1, LogFacts
  <2>2. CASE LogAppend
    <3>1. log' = log \o <<epoch>> /\ Len(log) < MaxOffset /\ epoch \in 0 .. MaxEpoch
      BY <2>2 DEF LogAppend, Inv, TypeOK
    <3>2. Len(log') = Len(log) + 1 /\ log' \in States /\ \A i \in 1 .. Len(log) : log'[i] = log[i]
      BY <3>1, LogFacts DEF States
    <3> QED BY <3>1, <3>2, LogFacts
  <2> QED BY <2>1, <2>2 DEF Open, LogSync, LogDirSync
<1>4. safe' \in 0 .. Len(log') /\ safe <= safe'
  <2>1. safe' = safe \/ (safe' = Len(log) /\ log' = log)
    BY DEF Open, LogAppend, LogSync, LogDirSync
  <2> QED BY <1>3, <2>1, LogFacts DEF States
<1>5. InvState'
  BY <1>1, <1>3, LogFacts DEF Inv, InvState, States
<1>6. InvDisk'
  <2>1. durable' = durable \/ durable' = live
    BY DEF Open, LogAppend, LogSync, LogDirSync
  <2>0. Len(log') \in Nat
    BY <1>3 DEF States
  <2>2. /\ \A i \in 1 .. safe : log'[i] = log[i]
        /\ safe <= Len(log') /\ safe' \in Nat
    BY <1>3, <1>4, <2>0, LogFacts
  <2>3. SoundDir(live, log', safe') /\ SoundDir(durable, log', safe')
    BY <1>3, <1>4, <2>2, LogFacts, SoundDirKept
  <2> QED BY <1>1, <2>1, <2>3, LogFacts DEF InvDisk
<1> QED BY <1>1, <1>2, <1>3, <1>4, <1>5, <1>6, InvFrom DEF Inv, TypeOK

(***************************************************************************)
(* Restore, and the fold of one more record.                               *)
(***************************************************************************)
LEMMA FoldStepsInv ==
    ASSUME Inv, Restore \/ Fold
    PROVE  Inv'
<1> USE DEF logVars, disk
<1>1. pc = "idle" /\ UNCHANGED <<log, safe, epoch, live, durable, tmp, pc, want, returned>>
  BY DEF Restore, Fold
<1>2. InvProgress'
  BY <1>1 DEF InvProgress, Busy
<1>3. InvDisk'
  BY <1>1, LogFacts DEF InvDisk
<1>4. state' \in States /\ Len(state') <= Len(log) /\ \A i \in 1 .. Len(state') : state'[i] = log[i]
  <2>1. CASE Restore
    <3>1. state' = LatestSnapshot(live).state
      BY <2>1 DEF Restore
    <3>2. CASE DOMAIN live = {} /\ LatestSnapshot(live) = [off |-> None, state |-> <<>>]
      BY <3>1, <3>2, LogFacts DEF States
    <3>3. CASE \E m \in 0 .. safe : LatestSnapshot(live) = [off |-> m, state |-> SubSeq(log, 1, m)]
      <4>1. PICK m \in 0 .. safe : LatestSnapshot(live) = [off |-> m, state |-> SubSeq(log, 1, m)]
        BY <3>3
      <4>2. state' = SubSeq(log, 1, m) /\ m \in Nat /\ m <= Len(log)
        BY <3>1, <4>1, LogFacts
      <4> QED BY <4>2, LogFacts, StateFacts
    <3> QED BY <3>2, <3>3, LogFacts, LatestFacts
  <2>2. CASE Fold
    <3>1. state # NoState /\ Len(state) < Len(log) /\ state' = state \o <<log[Len(state) + 1]>>
      BY <2>2 DEF Fold
    <3>2. state \in States /\ Len(state) \in Nat /\ Len(state) + 1 \in 1 .. Len(log)
      BY <3>1, LogFacts
    <3>3. log[Len(state) + 1] \in 0 .. MaxEpoch
      BY <3>2, LogFacts DEF States
    <3> DEFINE e == log[Len(state) + 1]
    <3> HIDE DEF e
    <3>4. /\ state' \in States /\ Len(state') = Len(state) + 1
          /\ state'[Len(state) + 1] = e
          /\ \A i \in 1 .. Len(state) : state'[i] = state[i]
      <4>1. state' = state \o <<e>> /\ e \in 0 .. MaxEpoch
        BY <3>1, <3>3 DEF e
      <4> QED BY <3>2, <4>1 DEF States
    <3>5. \A i \in 1 .. Len(state) : state[i] = log[i]
      BY <3>1 DEF Inv, InvState
    <3> QED BY <3>2, <3>4, <3>5, LogFacts DEF e
  <2> QED BY <2>1, <2>2
<1>5. InvState'
  BY <1>1, <1>4 DEF InvState
<1> QED BY <1>1, <1>2, <1>3, <1>4, <1>5, InvFrom DEF Inv, TypeOK


(***************************************************************************)
(* Snapshot, up to the rename.                                             *)
(***************************************************************************)
LEMMA SnapshotInv ==
    ASSUME ~SnapshotAhead, Inv, NEW off \in Offsets, Snapshot(off)
    PROVE  Inv'
<1> USE DEF logVars, disk
<1>1. /\ want' = off /\ pc' = "create" /\ state # NoState /\ off <= Len(state) /\ off <= safe
      /\ UNCHANGED <<log, safe, epoch, live, durable, tmp, state, returned>>
  BY DEF Snapshot
<1>2. InvProgress'
  BY <1>1, LogFacts DEF InvProgress, Offsets
<1>3. InvDisk' /\ InvState'
  BY <1>1 DEF Inv, InvDisk, InvState
<1> QED BY <1>1, <1>2, <1>3, InvFrom DEF Inv, TypeOK, Busy

LEMMA TmpStepsInv ==
    ASSUME Inv, CreateTmp \/ WriteTmp \/ WriteTmpFails \/ SyncTmp \/ SyncOrRenameFails
    PROVE  Inv'
<1> USE DEF logVars, disk
<1>1. /\ UNCHANGED <<log, safe, epoch, live, durable, want, state, returned>>
      /\ pc \in {"create", "write", "synctmp", "rename"}
      /\ pc' \in {"write", "synctmp", "rename", "cleanup"}
  BY DEF CreateTmp, WriteTmp, WriteTmpFails, SyncTmp, SyncOrRenameFails
<1>2. InvDisk' /\ InvState'
  BY <1>1 DEF Inv, InvDisk, InvState
<1>3. want \in 0 .. safe /\ state # NoState /\ want <= Len(state)
  BY <1>1 DEF Inv, InvProgress, Busy
<1>4. tmp' \in File /\ (pc' = "synctmp" => tmp'.cells = Folded(log, want))
                    /\ (pc' = "rename" => tmp' = Whole(log, want))
  <2>0. want \in Nat /\ want <= Len(log)
    BY <1>3, LogFacts
  <2>1. CASE CreateTmp
    BY <2>1 DEF CreateTmp, Empty, File
  <2>2. CASE WriteTmp
    <3>1. SubSeq(state, 1, want) = SubSeq(log, 1, want)
      <4>1. \A i \in 1 .. want : state[i] = log[i]
        BY <1>3, LogFacts DEF Inv, InvState
      <4> QED BY <1>3, <2>0, <4>1, LogFacts, SameFold
    <3>2. tmp' = [tmp EXCEPT !.cells = Folded(log, want)] /\ pc' = "synctmp"
      BY <2>2, <3>1 DEF WriteTmp, Folded
    <3>3. Folded(log, want) \in Seq(Cell)
      BY <2>0, LogFacts, WholeFacts
    <3> QED BY <3>2, <3>3, LogFacts DEF File
  <2>3. CASE WriteTmpFails
    <3>1. PICK left \in {<<>>, <<Torn>>} : tmp' = [tmp EXCEPT !.cells = left]
      BY <2>3 DEF WriteTmpFails
    <3>2. left \in Seq(Cell)
      <4>1. <<Torn>> \in Seq(Cell) /\ <<>> \in Seq(Cell)
        BY StateFacts
      <4> QED BY <4>1
    <3> QED BY <2>3, <3>1, <3>2, LogFacts DEF WriteTmpFails, File
  <2>4. CASE SyncTmp
    <3>1. tmp' = [tmp EXCEPT !.synced = tmp.cells] /\ pc' = "rename" /\ tmp.cells = Folded(log, want)
      BY <2>4 DEF SyncTmp, Inv, InvProgress
    <3>2. tmp \in File
      BY LogFacts
    <3> QED BY <3>1, <3>2 DEF File, Whole
  <2>5. CASE SyncOrRenameFails
    BY <2>5, LogFacts DEF SyncOrRenameFails
  <2> QED BY <2>1, <2>2, <2>3, <2>4, <2>5
<1>5. InvProgress'
  BY <1>1, <1>3, <1>4 DEF InvProgress
<1> QED BY <1>1, <1>2, <1>4, <1>5, InvFrom DEF Inv, TypeOK, Busy

(***************************************************************************)
(* The steps that end a snapshot without a new name, and the one that      *)
(* ends it with success.                                                   *)
(***************************************************************************)
LEMMA EndStepsInv ==
    ASSUME Inv, Cleanup \/ SnapshotFails \/ SnapshotReturns
    PROVE  Inv'
<1> USE DEF logVars, disk
<1>1. /\ UNCHANGED <<log, safe, epoch, live, durable, state>>
      /\ pc' = "idle" /\ want' = None
      /\ tmp' = tmp \/ tmp' = Empty
  BY DEF Cleanup, SnapshotFails, SnapshotReturns
<1>2. InvProgress'
  BY <1>1 DEF InvProgress, Busy
<1>3. InvState'
  BY <1>1 DEF Inv, InvState
<1>4. tmp' \in File
  <2>1. Empty \in File
    BY DEF Empty, File
  <2> QED BY <1>1, <2>1, LogFacts
<1>5. returned' \in Offsets \cup {None} /\ Holds(live, returned') /\ Holds(durable, returned')
  <2>1. CASE returned' = returned
    BY <2>1, LogFacts DEF Inv, TypeOK
  <2>2. CASE SnapshotReturns
    <3>1. returned' = Max({want, returned}) /\ pc = "remove"
      BY <2>2 DEF SnapshotReturns
    <3>2. want \in 0 .. safe /\ want \in DOMAIN live /\ want \in DOMAIN durable
      BY <3>1 DEF Inv, InvProgress, Busy
    <3>3. want \in Offsets /\ want \in Int /\ returned \in Int /\ returned \in Offsets \cup {None}
      BY <3>2, LogFacts DEF Inv, TypeOK, Offsets
    <3>4. returned' = want \/ returned' = returned
      <4>1. \E x \in {want, returned} : \A y \in {want, returned} : x >= y
        BY <3>3
      <4> QED BY <3>1, <4>1 DEF Max
    <3>5. CASE returned' = want
      BY <3>2, <3>3, <3>5 DEF Holds
    <3> QED BY <2>1, <3>4, <3>5
  <2> QED BY <2>1, <2>2 DEF Cleanup, SnapshotFails
<1>6. InvDisk'
  BY <1>1, <1>5, LogFacts DEF InvDisk
<1> QED BY <1>1, <1>2, <1>3, <1>4, <1>5, <1>6, InvFrom DEF Inv, TypeOK

(***************************************************************************)
(* The rename, the directory sync and the removals.                        *)
(***************************************************************************)
LEMMA RenameInv == Inv /\ Rename => Inv'
<1> SUFFICES ASSUME Inv, Rename PROVE Inv'
  OBVIOUS
<1> USE DEF logVars, disk
<1>1. /\ live' = [off \in DOMAIN live \cup {want} |-> IF off = want THEN tmp ELSE live[off]]
      /\ tmp' = Empty /\ pc = "rename" /\ pc' = "dirsync"
      /\ UNCHANGED <<log, safe, epoch, durable, want, state, returned>>
  BY DEF Rename
<1>2. want \in 0 .. safe /\ state # NoState /\ want <= Len(state) /\ tmp = Whole(log, want)
  BY <1>1 DEF Inv, InvProgress, Busy
<1>3. DOMAIN live' = DOMAIN live \cup {want}
  BY <1>1
<1>4. SoundDir(live', log, safe)
  BY <1>1, <1>2, <1>3, LogFacts DEF SoundDir
<1>5. Holds(live', returned)
  BY <1>3, LogFacts DEF Holds
<1>6. InvDisk'
  BY <1>1, <1>4, <1>5, LogFacts DEF InvDisk
<1>7. InvState'
  BY <1>1 DEF Inv, InvState
<1>8. InvProgress'
  BY <1>1, <1>2, <1>3 DEF InvProgress
<1>9. tmp' \in File
  BY <1>1 DEF Empty, File
<1> QED BY <1>1, <1>6, <1>7, <1>8, <1>9, InvFrom DEF Inv, TypeOK, Busy

LEMMA SyncDirInv == Inv /\ SyncDir => Inv'
<1> SUFFICES ASSUME Inv, SyncDir PROVE Inv'
  OBVIOUS
<1> USE DEF logVars, disk
<1>1. /\ durable' = live /\ pc = "dirsync" /\ pc' = "remove"
      /\ UNCHANGED <<log, safe, epoch, live, tmp, want, state, returned>>
  BY DEF SyncDir
<1>2. InvDisk'
  BY <1>1, LogFacts DEF InvDisk
<1>3. InvState'
  BY <1>1 DEF Inv, InvState
<1>4. InvProgress'
  BY <1>1 DEF Inv, InvProgress, Busy
<1> QED BY <1>1, <1>2, <1>3, <1>4, InvFrom DEF Inv, TypeOK, Busy

LEMMA RemoveOlderInv == Inv /\ RemoveOlder => Inv'
<1> SUFFICES ASSUME Inv, RemoveOlder PROVE Inv'
  OBVIOUS
<1> USE DEF logVars, disk
<1> DEFINE older == {off \in DOMAIN live : off < want}
           x == Min(older)
<1>1. /\ older # {} /\ live' = [off \in DOMAIN live \ {x} |-> live[off]]
      /\ pc = "remove" /\ pc' = pc
      /\ UNCHANGED <<log, safe, epoch, durable, tmp, want, state, returned>>
  BY DEF RemoveOlder
<1>2. want \in 0 .. safe /\ want \in DOMAIN live /\ want \in DOMAIN durable
  BY <1>1 DEF Inv, InvProgress, Busy
<1>3. \A off \in DOMAIN live : off \in Nat
  BY LogFacts DEF SoundDir
<1>4. x \in older
  <2>1. older \subseteq Nat
    BY <1>3
  <2>2. \E m \in older : \A y \in older : m <= y
    <3> HIDE DEF older
    <3>1. older # {}
      BY <1>1
    <3> QED BY <2>1, <3>1, StateFacts, Recs!HasSmallest
  <2> HIDE DEF older
  <2> QED BY <2>2 DEF Min
<1>5. x < want /\ x \in Nat
  BY <1>3, <1>4
<1> HIDE DEF x, older
<1>6. want \in DOMAIN live'
  BY <1>1, <1>2, <1>3, <1>5
<1>7. SoundDir(live', log, safe)
  BY <1>1, LogFacts DEF SoundDir
<1>8. Holds(live', returned)
  <2> SUFFICES ASSUME returned # None PROVE \E off \in DOMAIN live' : off >= returned
    BY DEF Holds
  <2>1. PICK off \in DOMAIN live : off >= returned
    BY LogFacts DEF Holds
  <2>2. CASE off = x
    <3>1. returned \in Nat /\ want >= returned
      BY <1>2, <1>5, <2>1, <2>2, LogFacts DEF Inv, TypeOK, Offsets
    <3> QED BY <1>6, <3>1
  <2>3. CASE off # x
    BY <1>1, <2>1, <2>3
  <2> QED BY <2>2, <2>3
<1>9. InvDisk'
  BY <1>1, <1>7, <1>8, LogFacts DEF InvDisk
<1>10. InvState'
  BY <1>1 DEF Inv, InvState
<1>11. InvProgress'
  BY <1>1, <1>2, <1>6 DEF Inv, InvProgress, Busy
<1> QED BY <1>1, <1>9, <1>10, <1>11, InvFrom DEF Inv, TypeOK, Busy

(***************************************************************************)
(* The process dies, alone or with the power.                              *)
(***************************************************************************)
LEMMA KillInv == Inv /\ Kill => Inv'
<1> SUFFICES ASSUME Inv, Kill PROVE Inv'
  OBVIOUS
<1> USE DEF logVars, disk
<1>1. /\ pc' = "down" /\ tmp' = Empty /\ want' = None /\ state' = NoState
      /\ UNCHANGED <<log, safe, epoch, live, durable, returned>>
  BY DEF Kill, Forget
<1>2. InvDisk' /\ InvState' /\ InvProgress'
  BY <1>1 DEF Inv, InvDisk, InvState, InvProgress, Busy
<1>3. tmp' \in File
  BY <1>1 DEF Empty, File
<1> QED BY <1>1, <1>2, <1>3, InvFrom DEF Inv, TypeOK

LEMMA PowerCutInv ==
    ASSUME Inv, NEW left, PowerCut(left),
           \A off \in DOMAIN durable : left[off] = durable[off].cells
    PROVE  Inv'
<1> USE DEF logVars, disk
<1>1. /\ pc' = "down" /\ tmp' = Empty /\ want' = None /\ state' = NoState
      /\ UNCHANGED <<safe, returned>>
      /\ live' = [off \in DOMAIN durable |-> [durable[off] EXCEPT !.cells = left[off]]]
      /\ durable' = live'
  BY DEF PowerCut, Forget
<1>2. PICK n \in safe .. Len(log) : log' = SubSeq(log, 1, n)
  BY DEF PowerCut
<1>3. n \in Nat /\ n <= Len(log) /\ safe <= n
  BY <1>2, LogFacts
<1>4. log' \in States /\ Len(log') = n /\ \A i \in 1 .. n : log'[i] = log[i]
  BY <1>2, <1>3, LogFacts, StateFacts
<1>5. live' = durable
  <2>1. ASSUME NEW off \in DOMAIN durable
        PROVE  [durable[off] EXCEPT !.cells = left[off]] = durable[off]
    <3>1. durable[off] \in File /\ left[off] = durable[off].cells
      BY DEF Inv, TypeOK
    <3> QED BY <3>1 DEF File
  <2>2. live' = [off \in DOMAIN durable |-> durable[off]]
    BY <1>1, <2>1
  <2> QED BY <2>2, LogFacts DEF SoundDir
<1>6. InvDisk'
  <2>1. SoundDir(durable, log', safe)
    BY <1>3, <1>4, LogFacts, SoundDirKept
  <2> QED BY <1>1, <1>5, <2>1, LogFacts DEF InvDisk
<1>7. InvState' /\ InvProgress'
  BY <1>1 DEF InvState, InvProgress, Busy
<1>8. tmp' \in File /\ epoch' \in 0 .. MaxEpoch
  BY <1>1 DEF PowerCut, Empty, File, Inv, TypeOK
<1>9. safe' \in 0 .. Len(log') /\ Len(log') <= MaxOffset
  BY <1>1, <1>3, <1>4, LogFacts
<1> QED BY <1>1, <1>4, <1>6, <1>7, <1>8, <1>9, InvFrom DEF Inv, TypeOK

LEMMA CrashesInv == Inv /\ (Crash \/ Extend \/ Tear) => Inv'
<1> SUFFICES ASSUME Inv, Crash \/ Extend \/ Tear PROVE Inv'
  OBVIOUS
<1>1. ASSUME NEW off \in DOMAIN durable
      PROVE  durable[off].cells \in Seq(Cell) /\ durable[off].synced = durable[off].cells
  <2>1. off \in 0 .. safe /\ durable[off] = Whole(log, off)
    BY LogFacts DEF SoundDir
  <2> QED BY <2>1, LogFacts, WholeFacts
<1>2. CASE Crash
  BY <1>1, <1>2, PowerCutInv DEF Crash
<1>3. CASE Extend
  <2>1. \A off \in DOMAIN durable :
          CrashExtend(durable[off].cells, durable[off].synced) = durable[off].cells
    BY <1>1, SyncedFilesStay
  <2> QED BY <1>3, <2>1, PowerCutInv DEF Extend
<1>4. CASE Tear
  <2>1. PICK half \in BOOLEAN : PowerCut([off \in DOMAIN durable |->
            CrashTorn(durable[off].cells, durable[off].synced, 0, half)])
    BY <1>4 DEF Tear
  <2>2. \A off \in DOMAIN durable :
          CrashTorn(durable[off].cells, durable[off].synced, 0, half) = durable[off].cells
    BY <1>1, SyncedFilesStay
  <2> QED BY <2>1, <2>2, PowerCutInv
<1> QED BY <1>2, <1>3, <1>4

LEMMA InvNext ==
    ASSUME ~SnapshotAhead
    PROVE  Inv /\ [Next]_vars => Inv'
<1> SUFFICES ASSUME Inv, [Next]_vars PROVE Inv'
  OBVIOUS
<1>1. CASE UNCHANGED vars
  <2>1. UNCHANGED <<log, safe, epoch, live, durable, tmp, pc, want, state, returned>>
    BY <1>1 DEF vars, logVars, disk
  <2> QED BY <2>1 DEF Inv, TypeOK, InvDisk, InvProgress, InvState
<1>2. CASE \E off \in Offsets : Snapshot(off)
  BY <1>2, SnapshotInv
<1> QED BY <1>1, <1>2, LogStepsInv, FoldStepsInv, TmpStepsInv, EndStepsInv, RenameInv,
           SyncDirInv, RemoveOlderInv, KillInv, CrashesInv DEF Next

-----------------------------------------------------------------------------
(***************************************************************************)
(* Every variable keeps its type, when callers snapshot only offsets that  *)
(* a Sync of the log covered; the theorems below assume the same.          *)
(***************************************************************************)
THEOREM TypeCorrect ==
    ASSUME ~SnapshotAhead
    PROVE  Spec => []TypeOK
<1>1. Inv => TypeOK
  BY DEF Inv
<1> QED BY <1>1, InvInit, InvNext, PTL DEF Spec

(***************************************************************************)
(* At every moment, what a restarted process would load, with or without   *)
(* a power cut before, is a whole snapshot and the fold of the log's       *)
(* records below its offset, all of which survive a power cut.             *)
(***************************************************************************)
THEOREM SnapshotsAreSound ==
    ASSUME ~SnapshotAhead
    PROVE  Spec => []SnapshotSound
<1>1. Inv => SnapshotSound
  <2> SUFFICES ASSUME Inv, NEW dir \in {live, durable}
               PROVE  LET snap == LatestSnapshot(dir) IN
                      snap.off <= safe /\ snap.state = SubSeq(log, 1, snap.off)
    BY DEF SnapshotSound
  <2>1. SoundDir(dir, log, safe)
    BY LogFacts
  <2>2. CASE LatestSnapshot(dir) = [off |-> None, state |-> <<>>]
    <3>1. SubSeq(log, 1, -1) = <<>>
      BY LogFacts DEF States
    <3> QED BY <2>2, <3>1, LogFacts
  <2>3. CASE \E m \in 0 .. safe : LatestSnapshot(dir) = [off |-> m, state |-> SubSeq(log, 1, m)]
    BY <2>3, LogFacts
  <2> QED BY <2>1, <2>2, <2>3, LogFacts, LatestFacts
<1> QED BY <1>1, InvInit, InvNext, PTL DEF Spec

(***************************************************************************)
(* A snapshot whose write returned, or a newer one, is what a restart      *)
(* finds, after a power cut too, although older snapshots are removed      *)
(* without a sync of the directory.                                        *)
(***************************************************************************)
THEOREM SnapshotsSurvive ==
    ASSUME ~SnapshotAhead
    PROVE  Spec => []SnapshotSurvives
<1>1. Inv => SnapshotSurvives
  <2> SUFFICES ASSUME Inv, NEW dir \in {live, durable}
               PROVE  LatestSnapshot(dir).off >= returned
    BY DEF SnapshotSurvives
  <2>1. SoundDir(dir, log, safe) /\ Holds(dir, returned)
    BY LogFacts
  <2>2. returned \in Nat \cup {None}
    BY DEF Inv, TypeOK, Offsets
  <2>3. CASE DOMAIN dir = {} /\ LatestSnapshot(dir) = [off |-> None, state |-> <<>>]
    BY <2>1, <2>3, LogFacts DEF Holds
  <2>4. ASSUME NEW m \in DOMAIN dir, m \in 0 .. safe, \A off \in DOMAIN dir : off <= m,
               LatestSnapshot(dir) = [off |-> m, state |-> SubSeq(log, 1, m)]
        PROVE  LatestSnapshot(dir).off >= returned
    <3>1. CASE returned = None
      BY <2>4, <3>1, LogFacts
    <3>2. CASE returned # None
      <4>1. PICK off \in DOMAIN dir : off >= returned
        BY <2>1, <3>2 DEF Holds
      <4>2. off \in Nat /\ off <= m
        BY <2>1, <2>4 DEF SoundDir
      <4> QED BY <2>2, <2>4, <4>1, <4>2, LogFacts
    <3> QED BY <3>1, <3>2
  <2> QED BY <2>1, <2>3, <2>4, LogFacts, LatestFacts
<1> QED BY <1>1, InvInit, InvNext, PTL DEF Spec

(***************************************************************************)
(* The projection that an application restored and replayed is the fold of *)
(* a prefix of the log.                                                    *)
(***************************************************************************)
THEOREM ReplayIsFold ==
    ASSUME ~SnapshotAhead
    PROVE  Spec => []ReplayMatches
<1>1. Inv => ReplayMatches
  <2> SUFFICES ASSUME Inv, state # NoState PROVE IsPrefix(state, log)
    BY DEF ReplayMatches
  <2>1. /\ state \in States /\ Len(state) \in Nat /\ Len(state) <= Len(log)
        /\ \A i \in 1 .. Len(state) : state[i] = log[i]
    BY LogFacts DEF Inv, InvState
  <2>2. SubSeq(state, 1, Len(state)) = SubSeq(log, 1, Len(state))
    BY <2>1, LogFacts, SameFold
  <2> QED BY <2>1, <2>2, LogFacts DEF IsPrefix
<1> QED BY <1>1, InvInit, InvNext, PTL DEF Spec

=============================================================================
