------------------------ MODULE ConsumerGroupsProofs ------------------------
(***************************************************************************)
(* Proofs about ConsumerGroups, for every set of groups and every bound:   *)
(* a commit that returned survives, and delivery is at-least-once.         *)
(***************************************************************************)
EXTENDS ConsumerGroups, TLAPS

File == INSTANCE RecordFileProofs WITH Events <- Commits, Invalid <- NoCommit

-----------------------------------------------------------------------------
(***************************************************************************)
(* The inductive invariant, in named parts.                                *)
(***************************************************************************)

(***************************************************************************)
(* The commits file.  Only a whole file is ever synced, what is synced is  *)
(* where the file begins, and record i carries sequence number i - 1.      *)
(***************************************************************************)
InvFile ==
    /\ Len(synced) <= Len(cells)
    /\ \A i \in 1 .. Len(synced) : cells[i] = synced[i]
    /\ OnlyRecords(synced, Len(synced))
    /\ Positional(cells, 0)
    /\ \A i \in 1 .. Len(cells) : cells[i].kind = "rec" => cells[i].ev \in Commits
    /\ named => exists

(***************************************************************************)
(* What the process's memory says of the file.                             *)
(***************************************************************************)
InvMemory ==
    /\ Len(log) <= MaxOffset
    /\ ~opened => at = [g \in Groups |-> None] /\ next = 0 /\ ~sealed
    /\ opened => exists /\ pc \in {"idle", "commitsync"}
    /\ opened /\ ~sealed => OnlyRecords(cells, Len(cells)) /\ next = Len(cells)
    /\ pc = "dirsync" => exists /\ cells = <<>>
    /\ pc = "commitsync" =>
        /\ opened /\ ~sealed
        /\ want \in Commits
        /\ cells # <<>> /\ cells[Len(cells)].ev = want

Inv == TypeOK /\ InvFile /\ InvMemory

(***************************************************************************)
(* A record of the file is superseded by a synced one, or it is the commit *)
(* that returned last or one that was asked for since; and a commit that   *)
(* returned left a synced record under a durable name.                     *)
(***************************************************************************)
Superseded(g, i) == \E j \in i + 1 .. Len(synced) : synced[j].ev.group = g

InvCommits ==
    /\ opened => named
    /\ \A g \in Groups :
        /\ returned[g] # None => named /\ Superseded(g, 0)
        /\ \A i \in 1 .. Len(cells) :
            cells[i].kind = "rec" /\ cells[i].ev.group = g =>
                cells[i].ev.off \in {returned[g]} \cup since[g] \/ Superseded(g, i)

(***************************************************************************)
(* A group has processed the records below its cursor, and those below     *)
(* every offset it committed, which no power cut takes from the log.       *)
(***************************************************************************)
Processed(g, c) == c <= Len(log) /\ \A o \in 0 .. c - 1 : <<o, log[o + 1]>> \in seen[g]

InvSeen ==
    /\ \A i \in 1 .. Len(cells) : cells[i].kind = "rec" =>
        cells[i].ev.off <= safe /\ Processed(cells[i].ev.group, cells[i].ev.off)
    /\ \A g \in Groups :
        /\ at[g] # None => at[g] <= safe /\ Processed(g, at[g])
        /\ pos[g] # None => Processed(g, pos[g])

-----------------------------------------------------------------------------
USE GroupBoundsAssumption, CommitAheadAssumption

(***************************************************************************)
(* Facts about commit records, and about the file's operators.             *)
(***************************************************************************)
LEMMA CommitFacts ==
    /\ NoCommit \notin Commits
    /\ Torn \in Cell /\ Torn.kind # "rec"
    /\ \A c \in Commits, o \in Nat :
        /\ Rec(o, c) \in Cell
        /\ Rec(o, c).kind = "rec" /\ Rec(o, c).off = o /\ Rec(o, c).ev = c
    /\ \A c \in Commits : c.group \in Groups /\ c.off \in Offsets
    /\ \A g \in Groups, o \in Offsets :
        LET c == [group |-> g, off |-> o] IN c \in Commits /\ c.group = g /\ c.off = o
<1>1. NoCommit \notin Commits
  BY DEF NoCommit, Commits, Offsets, None
<1>2. Torn \in Cell /\ Torn.kind # "rec"
  BY DEF Torn, Cell
<1>3. \A c \in Commits, o \in Nat :
        /\ Rec(o, c) \in Cell
        /\ Rec(o, c).kind = "rec" /\ Rec(o, c).off = o /\ Rec(o, c).ev = c
  BY DEF Rec, Cell
<1>4. /\ \A c \in Commits : c.group \in Groups /\ c.off \in Offsets
      /\ \A g \in Groups, o \in Offsets :
          LET c == [group |-> g, off |-> o] IN c \in Commits /\ c.group = g /\ c.off = o
  BY DEF Commits
<1> QED BY <1>1, <1>2, <1>3, <1>4

LEMMA SameCells == File!Cell = Cell
BY DEF File!Cell, Cell

LEMMA ScanStopsSomewhere ==
    ASSUME NEW s \in Seq(Cell)
    PROVE  \E n \in 0 .. Len(s) : ScanStops(s, 0, n)
<1>1. \E n \in 0 .. Len(s) : File!ScanStops(s, 0, n)
  BY CommitFacts, SameCells, File!ScanExists
<1> QED BY <1>1 DEF File!ScanStops, File!ValidTo, File!Accepts, ScanStops, ValidTo, Accepts

(***************************************************************************)
(* A file of whole records in their places is accepted to its end, and the *)
(* scan of a longer one gets at least that far.                            *)
(***************************************************************************)
LEMMA ScanTakesRecords ==
    ASSUME NEW s \in Seq(Cell), NEW m \in 0 .. Len(s), NEW n \in Nat,
           Positional(s, 0), OnlyRecords(s, m), ScanStops(s, 0, n)
    PROVE  m <= n
<1>1. ASSUME NEW i \in 1 .. m PROVE Accepts(s, 0, i)
  <2>1. s[i].kind = "rec" /\ s[i].off = i - 1
    BY DEF Positional, OnlyRecords
  <2>2. i # 1 => s[i - 1].kind = "rec" /\ s[i - 1].off = i - 2
    BY DEF Positional, OnlyRecords
  <2> QED BY <2>1, <2>2 DEF Accepts
<1>2. n < m => n + 1 \in 1 .. m /\ n < Len(s)
  OBVIOUS
<1> QED BY <1>1, <1>2 DEF ScanStops

(***************************************************************************)
(* commits.replay returns the last commit of the group that the scan       *)
(* accepts.                                                                *)
(***************************************************************************)
LEMMA ReplayFacts ==
    ASSUME NEW s \in Seq(Cell), NEW g
    PROVE  \E n \in 0 .. Len(s) :
            /\ ScanStops(s, 0, n)
            /\ \/ Replay(s, g) = None /\ \A i \in 1 .. n : s[i].ev.group # g
               \/ \E i \in 1 .. n : /\ s[i].ev.group = g
                                    /\ Replay(s, g) = s[i].ev.off
                                    /\ \A j \in i + 1 .. n : s[j].ev.group # g
<1> DEFINE n == CHOOSE m \in 0 .. Len(s) : ScanStops(s, 0, m)
           S == {i \in 1 .. n : s[i].ev.group = g}
<1>1. n \in 0 .. Len(s) /\ ScanStops(s, 0, n)
  BY ScanStopsSomewhere
<1>2. Replay(s, g) = IF S = {} THEN None ELSE s[Max(S)].ev.off
  BY DEF Replay
<1> HIDE DEF n
<1>3. CASE S = {}
  BY <1>1, <1>2, <1>3
<1>4. CASE S # {}
  <2>1. n \in Nat /\ S \subseteq 0 .. n
    BY <1>1
  <2>2. \E m \in S : \A y \in S : y <= m
    <3> HIDE DEF S
    <3> QED BY <1>4, <2>1, CommitFacts, File!HasGreatest
  <2>3. Max(S) \in S /\ \A y \in S : y <= Max(S)
    <3>1. \E m \in S : \A y \in S : m >= y
      BY <2>1, <2>2
    <3>2. Max(S) \in S /\ \A y \in S : Max(S) >= y
      <4> HIDE DEF S
      <4> QED BY <3>1 DEF Max
    <3> QED BY <2>1, <3>2
  <2>4. Max(S) \in 1 .. n /\ s[Max(S)].ev.group = g
    BY <2>3
  <2>5. ASSUME NEW j \in Max(S) + 1 .. n PROVE s[j].ev.group # g
    <3> DEFINE m == Max(S)
    <3>1. m \in 1 .. n /\ \A y \in S : y <= m
      BY <2>3, <2>4
    <3> HIDE DEF m
    <3>2. j \in 1 .. n /\ ~(j <= m)
      BY <2>1, <2>5, <3>1 DEF m
    <3> QED BY <3>1, <3>2
  <2> QED BY <1>1, <1>2, <1>4, <2>4, <2>5
<1> QED BY <1>3, <1>4

(***************************************************************************)
(* What every shape of power cut leaves of a named commits file.           *)
(***************************************************************************)
Leaves(left) ==
    /\ left \in Seq(Cell)
    /\ Len(synced) <= Len(left)
    /\ \A j \in 1 .. Len(synced) : left[j] = synced[j]
    /\ \A j \in Len(synced) + 1 .. Len(left) :
        left[j].kind = "rec" => j <= Len(cells) /\ left[j] = cells[j]

LEMMA PowerCutLeaves ==
    ASSUME TypeOK, Crash \/ Extend \/ Tear
    PROVE  \E left : Leaves(left) /\ PowerCut(left)
<1> USE CommitFacts, SameCells
<1>1. cells \in Seq(File!Cell) /\ synced \in Seq(File!Cell)
  BY DEF TypeOK
<1>2. ASSUME NEW left, File!Keeps(cells, synced, left) PROVE Leaves(left)
  BY <1>2 DEF File!Keeps, Leaves
<1>3. CASE Crash
  BY <1>1, <1>2, <1>3, File!CrashKeeps DEF Crash
<1>4. CASE Extend
  <2>1. File!CrashExtend(cells, synced) = CrashExtend(cells, synced)
    BY DEF File!CrashExtend, CrashExtend, File!Zeros, Zeros, File!Unsynced, Unsynced
  <2>2. File!Keeps(cells, synced, CrashExtend(cells, synced))
    BY <1>1, <2>1, File!ExtendKeeps
  <2> QED BY <1>2, <1>4, <2>2 DEF Extend
<1>5. CASE Tear
  <2>1. PICK k \in 0 .. MaxCommits, half \in BOOLEAN : PowerCut(CrashTorn(cells, synced, k, half))
    BY <1>5 DEF Tear
  <2>2. File!CrashTorn(cells, synced, k, half) = CrashTorn(cells, synced, k, half)
    BY DEF File!CrashTorn, CrashTorn, File!Torn, Torn, File!Unsynced, Unsynced
  <2>3. File!Keeps(cells, synced, CrashTorn(cells, synced, k, half))
    BY <1>1, <2>2, File!TornKeeps
  <2> QED BY <1>2, <2>1, <2>3
<1> QED BY <1>3, <1>4, <1>5

-----------------------------------------------------------------------------
(***************************************************************************)
(* The invariant holds of every step.                                      *)
(***************************************************************************)
LEMMA InvInit == Init => Inv
<1> SUFFICES ASSUME Init PROVE Inv
  OBVIOUS
<1>1. TypeOK
  <2>1. log \in Seq(0 .. MaxEpoch) /\ cells \in Seq(Cell) /\ synced \in Seq(Cell)
    BY DEF Init
  <2>2. exists \in BOOLEAN /\ named \in BOOLEAN /\ opened \in BOOLEAN /\ sealed \in BOOLEAN
    BY DEF Init
  <2>3. /\ at \in [Groups -> Offsets \cup {None}]
        /\ pos \in [Groups -> Offsets \cup {None}]
        /\ seen \in [Groups -> SUBSET (Offsets \X (0 .. MaxEpoch))]
        /\ returned \in [Groups -> Offsets \cup {None}]
        /\ since \in [Groups -> SUBSET Offsets]
    BY DEF Init
  <2>4. safe = 0 /\ Len(log) = 0 /\ epoch = 0 /\ next = 0 /\ pc = "down" /\ want = NoCommit
    BY DEF Init
  <2> QED BY <2>1, <2>2, <2>3, <2>4 DEF TypeOK
<1> QED BY <1>1 DEF Init, Inv, InvFile, InvMemory, OnlyRecords, Positional

LEMMA ForgetInv ==
    ASSUME Inv, Forget, UNCHANGED <<logVars, fileVars, obsVars>>
    PROVE  Inv'
<1>1. TypeOK'
  BY DEF Inv, TypeOK, Forget, logVars, fileVars, obsVars, Offsets
<1>2. InvFile'
  BY DEF Inv, InvFile, fileVars, OnlyRecords, Positional
<1>3. InvMemory'
  BY DEF Inv, InvMemory, Forget, logVars, fileVars
<1> QED BY <1>1, <1>2, <1>3 DEF Inv

LEMMA PowerCutInv ==
    ASSUME Inv, NEW left, Leaves(left), PowerCut(left)
    PROVE  Inv'
<1> DEFINE file == IF named THEN left ELSE <<>>
           safeFile == IF named THEN synced ELSE <<>>
<1>1. cells' = file /\ synced' = safeFile /\ exists' = named /\ named' = named
  BY DEF PowerCut
<1>2. /\ log' \in Seq(0 .. MaxEpoch) /\ Len(log') \in safe .. Len(log)
      /\ safe' = safe /\ epoch' \in 0 .. MaxEpoch
  <2>1. PICK n \in safe .. Len(log) : log' = SubSeq(log, 1, n)
    BY DEF PowerCut
  <2>2. n \in 0 .. Len(log) /\ log \in Seq(0 .. MaxEpoch)
    BY DEF Inv, TypeOK
  <2>3. SubSeq(log, 1, n) \in Seq(0 .. MaxEpoch) /\ Len(SubSeq(log, 1, n)) = n
    BY <2>2
  <2> QED BY <2>1, <2>3 DEF PowerCut, Inv, TypeOK
<1>3. cells' \in Seq(Cell) /\ synced' \in Seq(Cell)
  BY <1>1 DEF Leaves, Inv, TypeOK
<1>4. TypeOK'
  <2>1. /\ pc' = "down" /\ next' = 0 /\ want' = NoCommit
        /\ at' \in [Groups -> Offsets \cup {None}]
        /\ pos' \in [Groups -> Offsets \cup {None}]
    BY DEF PowerCut, Forget
  <2>2. /\ exists' \in BOOLEAN /\ named' \in BOOLEAN
        /\ opened' \in BOOLEAN /\ sealed' \in BOOLEAN
    BY <1>1 DEF PowerCut, Forget, Inv, TypeOK
  <2>3. UNCHANGED <<seen, returned, since>>
    BY DEF PowerCut, obsVars
  <2>4. safe' \in 0 .. Len(log')
    BY <1>2 DEF Inv, TypeOK
  <2> QED BY <1>2, <1>3, <2>1, <2>2, <2>3, <2>4 DEF Inv, TypeOK
<1>5. CASE named
  <2>1. cells' = left /\ synced' = synced
    BY <1>1, <1>5
  <2>2. ASSUME NEW i \in 1 .. Len(left), left[i].kind = "rec"
        PROVE  i \in 1 .. Len(cells) /\ left[i] = cells[i]
    <3>1. Len(synced) \in Nat /\ Len(left) \in Nat /\ Len(cells) \in Nat
      BY DEF Leaves, Inv, TypeOK
    <3>2. i <= Len(synced) \/ i \in Len(synced) + 1 .. Len(left)
      BY <3>1
    <3> QED BY <2>2, <3>1, <3>2 DEF Leaves, Inv, InvFile
  <2>3. InvFile'
    BY <1>1, <1>5, <2>1, <2>2 DEF Leaves, Inv, InvFile, OnlyRecords, Positional
  <2>4. InvMemory'
    BY <1>2 DEF PowerCut, Forget, Inv, TypeOK, InvMemory
  <2> QED BY <1>4, <2>3, <2>4 DEF Inv
<1>6. CASE ~named
  <2>1. cells' = <<>> /\ synced' = <<>>
    BY <1>1, <1>6
  <2>2. InvFile'
    BY <1>1, <1>6, <2>1 DEF InvFile, OnlyRecords, Positional
  <2>3. InvMemory'
    BY <1>2 DEF PowerCut, Forget, Inv, TypeOK, InvMemory
  <2> QED BY <1>4, <2>2, <2>3 DEF Inv
<1> QED BY <1>5, <1>6

LEMMA OpenCommitsInv == Inv /\ OpenCommits => Inv'
<1> SUFFICES ASSUME Inv, OpenCommits PROVE Inv'
  OBVIOUS
<1>1. PICK n \in 0 .. Len(cells) :
        /\ ScanStops(cells, 0, n)
        /\ cells' = SubSeq(cells, 1, n)
        /\ next' = NextAfter(cells, 0, n)
  BY DEF OpenCommits
<1>2. cells \in Seq(Cell) /\ Len(synced) \in 0 .. Len(cells)
  BY DEF Inv, TypeOK, InvFile
<1>3. cells' \in Seq(Cell) /\ Len(cells') = n /\ \A i \in 1 .. n : cells'[i] = cells[i]
  BY <1>1, <1>2
<1>4. OnlyRecords(cells, n)
  BY <1>1 DEF ScanStops, ValidTo, Accepts, OnlyRecords
<1>5. next' = n
  BY <1>1, <1>2, <1>4 DEF NextAfter, Inv, InvFile, Positional, OnlyRecords
<1>6. Len(synced) <= n
  <2>1. OnlyRecords(cells, Len(synced))
    BY <1>2 DEF Inv, InvFile, OnlyRecords
  <2> QED BY <1>1, <1>2, <2>1, ScanTakesRecords DEF Inv, InvFile
<1>7. ASSUME NEW g \in Groups PROVE Replay(cells, g) \in Offsets \cup {None}
  <2>1. PICK m \in 0 .. Len(cells) :
            /\ ScanStops(cells, 0, m)
            /\ \/ Replay(cells, g) = None /\ \A i \in 1 .. m : cells[i].ev.group # g
               \/ \E i \in 1 .. m : /\ cells[i].ev.group = g
                                    /\ Replay(cells, g) = cells[i].ev.off
                                    /\ \A j \in i + 1 .. m : cells[j].ev.group # g
    BY <1>2, ReplayFacts
  <2>2. CASE \E i \in 1 .. m : Replay(cells, g) = cells[i].ev.off
    <3>1. PICK i \in 1 .. m : Replay(cells, g) = cells[i].ev.off
      BY <2>2
    <3>2. cells[i].kind = "rec" /\ i \in 1 .. Len(cells)
      BY <1>2, <2>1, <3>1 DEF ScanStops, ValidTo, Accepts
    <3>3. cells[i].ev \in Commits
      BY <3>2 DEF Inv, InvFile
    <3> QED BY <3>1, <3>3, CommitFacts
  <2> QED BY <2>1, <2>2
<1>8. TypeOK'
  <2>1. at' \in [Groups -> Offsets \cup {None}]
    BY <1>7 DEF OpenCommits
  <2>2. opened' \in BOOLEAN /\ sealed' \in BOOLEAN
    BY DEF OpenCommits
  <2>4. next' \in Nat
    BY <1>2, <1>5
  <2>3. UNCHANGED <<log, safe, epoch, exists, named, synced, pc, want, pos, seen, returned, since>>
    BY DEF OpenCommits, logVars, obsVars
  <2> QED BY <1>3, <2>1, <2>2, <2>3, <2>4 DEF Inv, TypeOK
<1>9. InvFile'
  <2>1. UNCHANGED <<synced, named, exists>>
    BY DEF OpenCommits
  <2>2. \A i \in 1 .. n : i \in 1 .. Len(cells)
    BY <1>2
  <2>3. Positional(cells, 0)' /\ \A i \in 1 .. Len(cells') : cells'[i].kind = "rec" => cells'[i].ev \in Commits
    BY <1>3, <2>2 DEF Inv, InvFile, Positional
  <2>4. \A i \in 1 .. Len(synced) : cells'[i] = synced[i]
    BY <1>2, <1>3, <1>6 DEF Inv, InvFile
  <2> QED BY <1>3, <1>6, <2>1, <2>3, <2>4 DEF Inv, InvFile, OnlyRecords
<1>10. InvMemory'
  BY <1>3, <1>4, <1>5 DEF OpenCommits, Inv, InvMemory, OnlyRecords, logVars
<1> QED BY <1>8, <1>9, <1>10 DEF Inv

LEMMA CommitInv ==
    ASSUME Inv, NEW g \in Groups, NEW off \in Offsets, Commit(g, off)
    PROVE  Inv'
<1> DEFINE c == [group |-> g, off |-> off]
           r == Rec(next, c)
<1>1. c \in Commits
  BY CommitFacts
<1> HIDE DEF c
<1>2. r \in Cell /\ r.kind = "rec" /\ r.off = next /\ r.ev = c
  BY <1>1, CommitFacts DEF Inv, TypeOK
<1>3. cells' = cells \o <<r>> /\ want' = c /\ next' = next + 1 /\ pc' = "commitsync"
  BY DEF Commit, c
<1> HIDE DEF r
<1>4. /\ cells \in Seq(Cell) /\ next = Len(cells)
      /\ OnlyRecords(cells, Len(cells)) /\ opened /\ ~sealed
  BY DEF Commit, MayCommit, Inv, TypeOK, InvMemory
<1>5. /\ cells' \in Seq(Cell) /\ Len(cells') = Len(cells) + 1
      /\ cells'[Len(cells) + 1] = r
      /\ \A i \in 1 .. Len(cells) : cells'[i] = cells[i]
  BY <1>2, <1>3, <1>4
<1>6. TypeOK'
  BY <1>1, <1>3, <1>5 DEF Commit, Inv, TypeOK, logVars
<1>7. InvFile'
  <2>1. \A i \in 1 .. Len(cells') : i \in 1 .. Len(cells) \/ i = Len(cells) + 1
    BY <1>4, <1>5
  <2>2. UNCHANGED <<synced, named, exists>>
    BY DEF Commit
  <2>3. Positional(cells, 0)'
    <3>1. Positional(cells, 0) /\ Len(cells) \in Nat
      BY <1>4 DEF Inv, InvFile
    <3> QED BY <1>2, <1>4, <1>5, <2>1, <3>1 DEF Positional
  <2>4. \A i \in 1 .. Len(cells') : cells'[i].kind = "rec" => cells'[i].ev \in Commits
    BY <1>1, <1>2, <1>5, <2>1 DEF Inv, InvFile
  <2>5. Len(synced) <= Len(cells') /\ \A i \in 1 .. Len(synced) : cells'[i] = synced[i]
    BY <1>4, <1>5 DEF Inv, TypeOK, InvFile
  <2> QED BY <2>2, <2>3, <2>4, <2>5 DEF Inv, InvFile, OnlyRecords
<1>8. InvMemory'
  <2>1. OnlyRecords(cells, Len(cells))'
    BY <1>2, <1>4, <1>5 DEF OnlyRecords
  <2>2. cells' # <<>> /\ cells'[Len(cells')].ev = want'
    BY <1>2, <1>3, <1>4, <1>5
  <2> QED BY <1>1, <1>3, <1>4, <1>5, <2>1, <2>2 DEF Commit, Inv, InvMemory, logVars
<1> QED BY <1>6, <1>7, <1>8 DEF Inv

(***************************************************************************)
(* A step that leaves the file and the memory of it alone.                 *)
(***************************************************************************)
LEMMA QuietInv ==
    ASSUME Inv, TypeOK', Len(log') <= MaxOffset,
           UNCHANGED <<exists, cells, synced, opened, at, next, sealed, want>>,
           named' => exists,
           pc' = pc \/ (pc = "down" /\ pc' = "idle") \/ (pc # "down" /\ pc' = "idle")
    PROVE  Inv'
<1>1. InvFile'
  BY DEF Inv, InvFile, OnlyRecords, Positional
<1>2. InvMemory'
  BY DEF Inv, InvMemory, OnlyRecords
<1> QED BY <1>1, <1>2 DEF Inv

LEMMA CommitAppendFailsInv ==
    ASSUME Inv, NEW g \in Groups, NEW off \in Offsets, CommitAppendFails(g, off)
    PROVE  Inv'
<1>1. PICK tail \in {<<>>, <<Torn>>} : cells' = cells \o tail
  BY DEF CommitAppendFails
<1>2. /\ cells \in Seq(Cell) /\ Len(cells) \in Nat
      /\ Len(synced) \in Nat /\ Len(synced) <= Len(cells)
      /\ \A i \in 1 .. Len(synced) : cells[i] = synced[i]
  BY DEF Inv, TypeOK, InvFile
<1>3. /\ cells' \in Seq(Cell) /\ Len(cells) <= Len(cells')
      /\ \A i \in 1 .. Len(cells) : cells'[i] = cells[i]
      /\ \A i \in Len(cells) + 1 .. Len(cells') : cells'[i].kind # "rec"
  <2>1. CASE tail = <<>>
    BY <1>1, <1>2, <2>1
  <2>2. CASE tail = <<Torn>>
    <3>1. cells' = cells \o <<Torn>> /\ <<Torn>> \in Seq(Cell) /\ Torn \in Cell /\ Torn.kind # "rec"
      BY <1>1, <2>2, CommitFacts
    <3> QED BY <1>2, <3>1
  <2> QED BY <1>1, <2>1, <2>2
<1>4. TypeOK'
  <2>1. sealed' \in BOOLEAN
    BY DEF CommitAppendFails
  <2>2. since' \in [Groups -> SUBSET Offsets]
    BY DEF CommitAppendFails, Inv, TypeOK
  <2>3. UNCHANGED <<log, safe, epoch, exists, named, synced, pc, opened, at, next, want, pos, seen, returned>>
    BY DEF CommitAppendFails, logVars
  <2> QED BY <1>3, <2>1, <2>2, <2>3 DEF Inv, TypeOK
<1>5. InvFile'
  <2>1. \A i \in 1 .. Len(cells') : cells'[i].kind = "rec" => i \in 1 .. Len(cells) /\ cells'[i] = cells[i]
    BY <1>2, <1>3
  <2>2. UNCHANGED <<synced, named, exists>>
    BY DEF CommitAppendFails
  <2>3. Positional(cells, 0)' /\ \A i \in 1 .. Len(cells') : cells'[i].kind = "rec" => cells'[i].ev \in Commits
    BY <2>1 DEF Inv, InvFile, Positional
  <2>4. Len(synced) <= Len(cells') /\ \A i \in 1 .. Len(synced) : cells'[i] = synced[i]
    <3>1. Len(cells') \in Nat
      BY <1>3
    <3> QED BY <1>2, <1>3, <3>1
  <2> QED BY <2>2, <2>3, <2>4 DEF Inv, InvFile, OnlyRecords
<1>6. InvMemory'
  BY DEF CommitAppendFails, MayCommit, Inv, InvMemory, logVars
<1> QED BY <1>4, <1>5, <1>6 DEF Inv

LEMMA CommitSyncInv == Inv /\ CommitSync => Inv'
<1> SUFFICES ASSUME Inv, CommitSync PROVE Inv'
  OBVIOUS
<1>1. want \in Commits /\ want.group \in Groups /\ want.off \in Offsets
  BY CommitFacts DEF CommitSync, Inv, InvMemory
<1>2. TypeOK'
  <2>1. /\ at' \in [Groups -> Offsets \cup {None}]
        /\ returned' \in [Groups -> Offsets \cup {None}]
        /\ since' \in [Groups -> SUBSET Offsets]
    BY <1>1 DEF CommitSync, Inv, TypeOK
  <2>2. UNCHANGED <<log, safe, epoch, exists, named, cells, opened, next, sealed, pos, seen>>
    BY DEF CommitSync, logVars
  <2>3. synced' = cells /\ pc' = "idle" /\ want' = NoCommit
    BY DEF CommitSync
  <2> QED BY <2>1, <2>2, <2>3 DEF Inv, TypeOK
<1>3. opened /\ ~sealed /\ OnlyRecords(cells, Len(cells))
  BY DEF CommitSync, Inv, InvMemory
<1>4. InvFile'
  <2>1. synced' = cells /\ UNCHANGED <<cells, named, exists>>
    BY DEF CommitSync
  <2> QED BY <1>3, <2>1 DEF Inv, TypeOK, InvFile, OnlyRecords, Positional
<1>5. InvMemory'
  BY <1>3 DEF CommitSync, Inv, InvMemory, OnlyRecords, logVars
<1> QED BY <1>2, <1>4, <1>5 DEF Inv

LEMMA CreateCommitsInv == Inv /\ CreateCommits => Inv'
<1> SUFFICES ASSUME Inv, CreateCommits PROVE Inv'
  OBVIOUS
<1>1. cells' = <<>> /\ synced' = <<>> /\ pc' = "dirsync" /\ exists' = TRUE /\ named' = named
  BY DEF CreateCommits
<1>2. TypeOK'
  <2>1. cells' \in Seq(Cell) /\ synced' \in Seq(Cell) /\ exists' \in BOOLEAN
    BY <1>1
  <2>2. UNCHANGED <<log, safe, epoch, named, opened, at, next, sealed, want, pos, seen, returned, since>>
    BY DEF CreateCommits, logVars, obsVars
  <2> QED BY <1>1, <2>1, <2>2 DEF Inv, TypeOK
<1>3. InvFile'
  BY <1>1 DEF InvFile, OnlyRecords, Positional
<1>4. InvMemory'
  BY <1>1 DEF CreateCommits, Inv, InvMemory, logVars
<1> QED BY <1>2, <1>3, <1>4 DEF Inv

LEMMA SyncCommitsDirInv == Inv /\ SyncCommitsDir => Inv'
<1> SUFFICES ASSUME Inv, SyncCommitsDir PROVE Inv'
  OBVIOUS
<1>1. TypeOK'
  <2>1. named' \in BOOLEAN /\ opened' \in BOOLEAN /\ pc' = "idle"
    BY DEF SyncCommitsDir
  <2>2. UNCHANGED <<log, safe, epoch, exists, cells, synced, at, next, sealed, want, pos, seen, returned, since>>
    BY DEF SyncCommitsDir, logVars, obsVars
  <2> QED BY <2>1, <2>2 DEF Inv, TypeOK
<1>2. InvFile'
  BY DEF SyncCommitsDir, Inv, InvFile, InvMemory, OnlyRecords, Positional
<1>3. InvMemory'
  BY DEF SyncCommitsDir, Inv, InvMemory, OnlyRecords, logVars
<1> QED BY <1>1, <1>2, <1>3 DEF Inv

LEMMA CommitSyncFailsInv == Inv /\ CommitSyncFails => Inv'
<1> SUFFICES ASSUME Inv, CommitSyncFails PROVE Inv'
  OBVIOUS
<1>1. TypeOK'
  <2>1. pc' = "idle" /\ want' = NoCommit
    BY DEF CommitSyncFails
  <2>2. UNCHANGED <<log, safe, epoch, exists, named, cells, synced, opened, at, next, sealed, pos,
                    seen, returned, since>>
    BY DEF CommitSyncFails, logVars, fileVars, obsVars
  <2> QED BY <2>1, <2>2 DEF Inv, TypeOK
<1>2. InvFile'
  BY DEF CommitSyncFails, fileVars, Inv, InvFile, OnlyRecords, Positional
<1>3. InvMemory'
  BY DEF CommitSyncFails, logVars, fileVars, Inv, InvMemory, OnlyRecords
<1> QED BY <1>1, <1>2, <1>3 DEF Inv

(***************************************************************************)
(* The steps that change neither the commits file nor what the process     *)
(* remembers of it: the log's own steps, and those of the consumers.       *)
(***************************************************************************)
LEMMA LogStepsInv ==
    Inv /\ (Open \/ LogAppend \/ LogSync \/ LogDirSync \/ SyncCommitsDirFails) => Inv'
<1>1. ASSUME Inv, Open PROVE Inv'
  <2>1. TypeOK'
    BY <1>1 DEF Open, logVars, fileVars, obsVars, Inv, TypeOK
  <2> QED BY <1>1, <2>1, QuietInv DEF Open, logVars, fileVars, Inv, InvFile, InvMemory
<1>2. ASSUME Inv, LogAppend PROVE Inv'
  <2>1. log' \in Seq(0 .. MaxEpoch) /\ Len(log') = Len(log) + 1 /\ Len(log) \in Nat
    BY <1>2 DEF LogAppend, Inv, TypeOK
  <2>2. UNCHANGED <<safe, epoch, exists, named, cells, synced, pc, opened, at, next, sealed,
                    want, pos, seen, returned, since>>
    BY <1>2 DEF LogAppend, fileVars, memVars, obsVars
  <2>3. safe' \in 0 .. Len(log')
    BY <1>2, <2>1, <2>2 DEF Inv, TypeOK
  <2>4. TypeOK'
    BY <1>2, <2>1, <2>2, <2>3 DEF Inv, TypeOK
  <2>5. Len(log') <= MaxOffset
    BY <1>2, <2>1 DEF LogAppend
  <2> QED BY <1>2, <2>2, <2>4, <2>5, QuietInv DEF Inv, InvFile
<1>3. ASSUME Inv, LogSync PROVE Inv'
  <2>1. UNCHANGED <<log, epoch, exists, named, cells, synced, pc, opened, at, next, sealed,
                    want, pos, seen, returned, since>>
    BY <1>3 DEF LogSync, fileVars, memVars, obsVars
  <2>2. safe' \in 0 .. Len(log')
    BY <1>3, <2>1 DEF LogSync, Inv, TypeOK
  <2>3. TypeOK'
    BY <1>3, <2>1, <2>2 DEF Inv, TypeOK
  <2> QED BY <1>3, <2>1, <2>3, QuietInv DEF Inv, InvFile, InvMemory
<1>4. ASSUME Inv, LogDirSync PROVE Inv'
  <2>1. UNCHANGED <<log, safe, epoch, exists, cells, synced, pc, opened, at, next, sealed,
                    want, pos, seen, returned, since>>
    BY <1>4 DEF LogDirSync, logVars, memVars, obsVars
  <2>2. named' = exists
    BY <1>4 DEF LogDirSync
  <2>3. TypeOK'
    BY <1>4, <2>1, <2>2 DEF Inv, TypeOK
  <2> QED BY <1>4, <2>1, <2>2, <2>3, QuietInv DEF Inv, InvMemory
<1>5. ASSUME Inv, SyncCommitsDirFails PROVE Inv'
  <2>1. UNCHANGED <<log, safe, epoch, exists, named, cells, synced, opened, at, next, sealed,
                    want, pos, seen, returned, since>> /\ pc = "dirsync" /\ pc' = "idle"
    BY <1>5 DEF SyncCommitsDirFails, logVars, fileVars, obsVars
  <2>2. TypeOK'
    BY <1>5, <2>1 DEF Inv, TypeOK
  <2> QED BY <1>5, <2>1, <2>2, QuietInv DEF Inv, InvFile, InvMemory
<1> QED BY <1>1, <1>2, <1>3, <1>4, <1>5

LEMMA ConsumerStepsInv ==
    ASSUME Inv, NEW g \in Groups, Resume(g) \/ Consume(g)
    PROVE  Inv'
<1>1. UNCHANGED <<log, safe, epoch, exists, named, cells, synced, pc, opened, at, next, sealed,
                  want, returned, since>>
  BY DEF Resume, Consume, logVars, fileVars, obsVars
<1>2. /\ pos' \in [Groups -> Offsets \cup {None}]
      /\ seen' \in [Groups -> SUBSET (Offsets \X (0 .. MaxEpoch))]
  <2>1. CASE Resume(g)
    BY <2>1 DEF Resume, obsVars, Inv, TypeOK, Offsets
  <2>2. CASE Consume(g)
    <3>1. /\ pos[g] \in 0 .. Len(log) - 1
          /\ seen' = [seen EXCEPT ![g] = @ \cup {<<pos[g], log[pos[g] + 1]>>}]
          /\ pos' = [pos EXCEPT ![g] = @ + 1]
      BY <2>2 DEF Consume
    <3>2. /\ Len(log) \in Nat /\ Len(log) <= MaxOffset /\ log \in Seq(0 .. MaxEpoch)
          /\ pos \in [Groups -> Offsets \cup {None}]
          /\ seen \in [Groups -> SUBSET (Offsets \X (0 .. MaxEpoch))]
      BY DEF Inv, TypeOK, InvMemory
    <3>3. pos[g] \in Offsets /\ pos[g] + 1 \in Offsets /\ log[pos[g] + 1] \in 0 .. MaxEpoch
      BY <3>1, <3>2 DEF Offsets
    <3>4. <<pos[g], log[pos[g] + 1]>> \in Offsets \X (0 .. MaxEpoch)
      BY <3>3
    <3> QED BY <3>1, <3>2, <3>3, <3>4
  <2> QED BY <2>1, <2>2
<1>3. TypeOK'
  BY <1>1, <1>2 DEF Inv, TypeOK
<1> QED BY <1>1, <1>3, QuietInv DEF Inv, InvFile, InvMemory

LEMMA InvNext == Inv /\ [Next]_vars => Inv'
<1> SUFFICES ASSUME Inv, [Next]_vars PROVE Inv'
  OBVIOUS
<1>1. CASE UNCHANGED vars
  <2>1. UNCHANGED <<log, safe, epoch, exists, named, cells, synced, pc, opened, at, next, sealed,
                    want, pos, seen, returned, since>>
    BY <1>1 DEF vars, logVars, fileVars, memVars, obsVars
  <2>2. TypeOK'
    BY <2>1 DEF Inv, TypeOK
  <2> QED BY <2>1, <2>2, QuietInv DEF Inv, InvFile, InvMemory
<1>2. CASE Next
  <2>1. CASE Crash \/ Extend \/ Tear
    BY <2>1, PowerCutLeaves, PowerCutInv DEF Inv
  <2>2. CASE Close \/ Kill
    BY <2>2, ForgetInv DEF Close, Kill
  <2>3. CASE \E g \in Groups : Resume(g) \/ Consume(g)
    BY <2>3, ConsumerStepsInv
  <2>4. CASE \E g \in Groups, off \in Offsets : Commit(g, off) \/ CommitAppendFails(g, off)
    BY <2>4, CommitInv, CommitAppendFailsInv
  <2> QED BY <1>2, <2>1, <2>2, <2>3, <2>4, LogStepsInv, OpenCommitsInv, CreateCommitsInv,
             SyncCommitsDirInv, CommitSyncInv, CommitSyncFailsInv DEF Next
<1> QED BY <1>1, <1>2

(***************************************************************************)
(* Every variable keeps its type, whatever the environment does.           *)
(***************************************************************************)
THEOREM TypeCorrect == Spec => []TypeOK
<1>1. Inv => TypeOK
  BY DEF Inv
<1> QED BY <1>1, InvInit, InvNext, PTL DEF Spec


-----------------------------------------------------------------------------
(***************************************************************************)
(* A commit that returned survives.                                        *)
(***************************************************************************)
LEMMA SyncedFacts ==
    ASSUME Inv
    PROVE  /\ cells \in Seq(Cell) /\ synced \in Seq(Cell)
           /\ Len(cells) \in Nat /\ Len(synced) \in Nat /\ Len(synced) <= Len(cells)
           /\ \A i \in 1 .. Len(synced) :
                i \in 1 .. Len(cells) /\ cells[i] = synced[i] /\ synced[i].kind = "rec"
BY DEF Inv, TypeOK, InvFile, OnlyRecords

(***************************************************************************)
(* A step after which the file's records and what is synced of them are    *)
(* among those before, and that forgets no commit asked for.               *)
(***************************************************************************)
LEMMA CommitsKept ==
    ASSUME Inv, InvCommits, Inv',
           opened' => named', named => named',
           \A i \in 1 .. Len(cells') : cells'[i].kind = "rec" =>
                i \in 1 .. Len(cells) /\ cells'[i] = cells[i],
           synced' = synced, returned' = returned,
           \A g \in Groups : since[g] \subseteq since'[g]
    PROVE  InvCommits'
<1>1. ASSUME NEW g \in Groups, NEW i \in Nat, Superseded(g, i) PROVE Superseded(g, i)'
  BY <1>1 DEF Superseded
<1>2. ASSUME NEW g \in Groups, returned'[g] # None PROVE named' /\ Superseded(g, 0)'
  BY <1>1, <1>2 DEF InvCommits
<1>3. ASSUME NEW g \in Groups, NEW i \in 1 .. Len(cells'),
             cells'[i].kind = "rec", cells'[i].ev.group = g
      PROVE  cells'[i].ev.off \in {returned'[g]} \cup since'[g] \/ Superseded(g, i)'
  BY <1>1, <1>3 DEF InvCommits
<1> QED BY <1>2, <1>3 DEF InvCommits

LEMMA InvCommitsNext ==
    ASSUME "orphan" \notin Env, Inv, InvCommits, Inv', [Next]_vars
    PROVE  InvCommits'
<1> USE DEF logVars, fileVars, memVars, obsVars
<1>1. CASE UNCHANGED vars
  BY <1>1, CommitsKept DEF vars, InvCommits
<1>2. CASE Open \/ LogAppend \/ LogSync \/ SyncCommitsDirFails \/ CommitSyncFails
  <2>1. UNCHANGED <<named, cells, synced, opened, returned, since>>
    BY <1>2 DEF Open, LogAppend, LogSync, SyncCommitsDirFails, CommitSyncFails
  <2> QED BY <2>1, CommitsKept DEF InvCommits
<1>3. CASE LogDirSync
  <2>1. UNCHANGED <<cells, synced, opened, returned, since>> /\ named' = exists
    BY <1>3 DEF LogDirSync
  <2>2. named => exists
    BY DEF Inv, InvFile
  <2> QED BY <2>1, <2>2, CommitsKept DEF InvCommits
<1>4. CASE OpenCommits
  <2>1. PICK n \in 0 .. Len(cells) : cells' = SubSeq(cells, 1, n)
    BY <1>4 DEF OpenCommits
  <2>2. UNCHANGED <<named, synced, returned, since>> /\ named
    BY <1>4 DEF OpenCommits
  <2>3. ASSUME NEW i \in 1 .. Len(cells') PROVE i \in 1 .. Len(cells) /\ cells'[i] = cells[i]
    BY <2>1, SyncedFacts
  <2> QED BY <2>2, <2>3, CommitsKept
<1>5. CASE CreateCommits
  <2>1. cells' = <<>> /\ synced' = <<>> /\ UNCHANGED <<named, opened, returned, since>> /\ ~exists
    BY <1>5 DEF CreateCommits
  <2>2. ~named
    BY <2>1 DEF Inv, InvFile
  <2>3. \A g \in Groups : returned[g] = None
    BY <2>2 DEF InvCommits
  <2> QED BY <2>1, <2>2, <2>3 DEF InvCommits
<1>6. CASE SyncCommitsDir
  <2>1. UNCHANGED <<cells, synced, returned, since>> /\ named'
    BY <1>6 DEF SyncCommitsDir
  <2> QED BY <2>1, CommitsKept DEF InvCommits
<1>7. ASSUME NEW g \in Groups, Resume(g) \/ Consume(g) PROVE InvCommits'
  <2>1. UNCHANGED <<named, cells, synced, opened, returned, since>>
    BY <1>7 DEF Resume, Consume
  <2> QED BY <2>1, CommitsKept DEF InvCommits
<1>8. ASSUME NEW g \in Groups, NEW off \in Offsets, Commit(g, off) PROVE InvCommits'
  <2> DEFINE c == [group |-> g, off |-> off]
             r == Rec(next, c)
  <2>1. c \in Commits /\ c.group = g /\ c.off = off
    BY CommitFacts
  <2> HIDE DEF c
  <2>2. r \in Cell /\ r.ev = c
    BY <2>1, CommitFacts DEF Inv, TypeOK
  <2>3. cells' = cells \o <<r>> /\ UNCHANGED <<named, synced, opened, returned>>
    BY <1>8 DEF Commit, c
  <2>4. \A h \in Groups : since[h] \subseteq since'[h]
    BY <1>8 DEF Commit, Inv, TypeOK
  <2>5. off \in since'[g]
    BY <1>8 DEF Commit, Inv, TypeOK
  <2> HIDE DEF r
  <2>6. /\ Len(cells') = Len(cells) + 1 /\ cells'[Len(cells) + 1] = r
        /\ \A i \in 1 .. Len(cells) : cells'[i] = cells[i]
    BY <2>2, <2>3, SyncedFacts
  <2>7. ASSUME NEW h \in Groups, NEW i \in Nat, Superseded(h, i) PROVE Superseded(h, i)'
    BY <2>3, <2>7 DEF Superseded
  <2>8. ASSUME NEW h \in Groups, NEW i \in 1 .. Len(cells'),
               cells'[i].kind = "rec", cells'[i].ev.group = h
        PROVE  cells'[i].ev.off \in {returned'[h]} \cup since'[h] \/ Superseded(h, i)'
    <3>1. CASE i = Len(cells) + 1
      <4>1. cells'[i].ev.off = off /\ h = g
        BY <2>1, <2>2, <2>6, <2>8, <3>1
      <4> QED BY <2>5, <4>1
    <3>2. CASE i # Len(cells) + 1
      <4>1. i \in 1 .. Len(cells) /\ cells'[i] = cells[i]
        BY <2>6, <3>2, SyncedFacts
      <4> QED BY <2>3, <2>4, <2>7, <2>8, <4>1 DEF InvCommits
    <3> QED BY <3>1, <3>2
  <2>9. ASSUME NEW h \in Groups, returned'[h] # None PROVE named' /\ Superseded(h, 0)'
    BY <2>3, <2>7, <2>9 DEF InvCommits
  <2> QED BY <2>3, <2>8, <2>9 DEF InvCommits
<1>9. ASSUME NEW g \in Groups, NEW off \in Offsets, CommitAppendFails(g, off) PROVE InvCommits'
  <2>1. PICK tail \in {<<>>, <<Torn>>} : cells' = cells \o tail
    BY <1>9 DEF CommitAppendFails
  <2>2. UNCHANGED <<named, synced, opened, returned>>
    BY <1>9 DEF CommitAppendFails
  <2>3. \A h \in Groups : since[h] \subseteq since'[h]
    BY <1>9 DEF CommitAppendFails, Inv, TypeOK
  <2>4. ASSUME NEW i \in 1 .. Len(cells'), cells'[i].kind = "rec"
        PROVE  i \in 1 .. Len(cells) /\ cells'[i] = cells[i]
    <3>1. CASE tail = <<>>
      BY <2>1, <3>1, SyncedFacts
    <3>2. CASE tail = <<Torn>>
      <4>1. Torn \in Cell /\ Torn.kind # "rec" /\ cells' = cells \o <<Torn>>
        BY <2>1, <3>2, CommitFacts
      <4>2. cells'[Len(cells) + 1] = Torn /\ Len(cells') = Len(cells) + 1
        BY <4>1, SyncedFacts
      <4> QED BY <2>4, <4>1, <4>2, SyncedFacts
    <3> QED BY <3>1, <3>2
  <2> QED BY <2>2, <2>3, <2>4, CommitsKept DEF InvCommits
<1>10. CASE CommitSync
  <2>1. /\ synced' = cells /\ UNCHANGED <<named, opened, cells>>
        /\ returned' = [returned EXCEPT ![want.group] = want.off]
        /\ since' = [since EXCEPT ![want.group] = {}]
    BY <1>10 DEF CommitSync
  <2>2. /\ want.group \in Groups /\ want.off \in Offsets /\ opened
        /\ cells # <<>> /\ cells[Len(cells)].ev = want
    BY <1>10, CommitFacts DEF CommitSync, Inv, InvMemory
  <2>3. named
    BY <2>2 DEF InvCommits
  <2>4. Len(cells) \in 1 .. Len(cells)
    BY <2>2, SyncedFacts
  <2>5. ASSUME NEW g \in Groups, NEW i \in Nat, Superseded(g, i) PROVE Superseded(g, i)'
    <3>1. PICK j \in i + 1 .. Len(synced) : synced[j].ev.group = g
      BY <2>5 DEF Superseded
    <3>2. j \in i + 1 .. Len(cells) /\ cells[j].ev.group = g
      BY <3>1, SyncedFacts
    <3> QED BY <2>1, <3>2 DEF Superseded
  <2>6. ASSUME NEW g \in Groups, g = want.group, NEW i \in 0 .. Len(cells) - 1
        PROVE  Superseded(g, i)'
    <3>1. Len(cells) \in i + 1 .. Len(cells)
      BY SyncedFacts
    <3> QED BY <2>1, <2>2, <2>6, <3>1 DEF Superseded
  <2>7. ASSUME NEW g \in Groups, returned'[g] # None PROVE named' /\ Superseded(g, 0)'
    <3>1. CASE g = want.group
      BY <2>1, <2>3, <2>4, <2>6, <3>1
    <3>2. CASE g # want.group
      <4>1. returned'[g] = returned[g]
        BY <2>1, <3>2 DEF Inv, TypeOK
      <4> QED BY <2>1, <2>3, <2>5, <2>7, <4>1 DEF InvCommits
    <3> QED BY <3>1, <3>2
  <2>8. ASSUME NEW g \in Groups, NEW i \in 1 .. Len(cells'),
               cells'[i].kind = "rec", cells'[i].ev.group = g
        PROVE  cells'[i].ev.off \in {returned'[g]} \cup since'[g] \/ Superseded(g, i)'
    <3>1. CASE g = want.group
      <4>1. CASE i = Len(cells)
        <5>1. returned'[g] = want.off
          BY <2>1, <3>1 DEF Inv, TypeOK
        <5> QED BY <2>1, <2>2, <4>1, <5>1
      <4>2. CASE i # Len(cells)
        <5>1. i \in 0 .. Len(cells) - 1
          BY <2>1, <2>4, <4>2
        <5> QED BY <2>6, <3>1, <5>1
      <4> QED BY <4>1, <4>2
    <3>2. CASE g # want.group
      <4>1. returned'[g] = returned[g] /\ since'[g] = since[g]
        BY <2>1, <3>2 DEF Inv, TypeOK
      <4> QED BY <2>1, <2>5, <2>8, <4>1 DEF InvCommits
    <3> QED BY <3>1, <3>2
  <2> QED BY <2>1, <2>3, <2>7, <2>8 DEF InvCommits
<1>11. CASE Close \/ Kill
  <2>1. UNCHANGED <<named, cells, synced, returned, since>> /\ opened' = FALSE
    BY <1>11 DEF Close, Kill, Forget
  <2> QED BY <2>1, CommitsKept
<1>12. CASE Crash \/ Extend \/ Tear
  <2>1. PICK left : Leaves(left) /\ PowerCut(left)
    BY <1>12, PowerCutLeaves DEF Inv
  <2>2. UNCHANGED <<named, returned, since>> /\ opened' = FALSE
    BY <2>1 DEF PowerCut, Forget
  <2>3. CASE named
    <3>1. cells' = left /\ synced' = synced
      BY <2>1, <2>3 DEF PowerCut
    <3>2. ASSUME NEW i \in 1 .. Len(left), left[i].kind = "rec"
          PROVE  i \in 1 .. Len(cells) /\ left[i] = cells[i]
      <4>1. Len(left) \in Nat
        BY <2>1 DEF Leaves
      <4>2. i <= Len(synced) \/ i \in Len(synced) + 1 .. Len(left)
        BY <4>1, SyncedFacts
      <4> QED BY <2>1, <3>2, <4>1, <4>2, SyncedFacts DEF Leaves
    <3> QED BY <2>2, <3>1, <3>2, CommitsKept
  <2>4. CASE ~named
    <3>1. cells' = <<>> /\ synced' = <<>>
      BY <2>1, <2>4 DEF PowerCut
    <3>2. \A g \in Groups : returned[g] = None
      BY <2>4 DEF InvCommits
    <3> QED BY <2>2, <3>1, <3>2 DEF InvCommits
  <2> QED BY <2>3, <2>4
<1> QED BY <1>1, <1>2, <1>3, <1>4, <1>5, <1>6, <1>7, <1>8, <1>9, <1>10, <1>11, <1>12 DEF Next

(***************************************************************************)
(* What a scan of the file, or of what is synced of it, resumes from.      *)
(***************************************************************************)
LEMMA ReplayKept ==
    ASSUME Inv, InvCommits, NEW g \in Groups, NEW s \in Seq(Cell),
           Len(synced) <= Len(s), \A i \in 1 .. Len(synced) : s[i] = synced[i],
           Len(s) <= Len(cells), \A i \in 1 .. Len(s) : s[i] = cells[i]
    PROVE  Replay(s, g) \in {returned[g]} \cup since[g]
<1>1. PICK n \in 0 .. Len(s) :
        /\ ScanStops(s, 0, n)
        /\ \/ Replay(s, g) = None /\ \A i \in 1 .. n : s[i].ev.group # g
           \/ \E i \in 1 .. n : /\ s[i].ev.group = g
                                /\ Replay(s, g) = s[i].ev.off
                                /\ \A j \in i + 1 .. n : s[j].ev.group # g
  BY ReplayFacts
<1>2. Len(synced) <= n
  <2>1. OnlyRecords(s, Len(synced)) /\ Positional(s, 0)
    <3>1. \A i \in 1 .. Len(s) : i \in 1 .. Len(cells)
      BY SyncedFacts
    <3> QED BY <3>1, SyncedFacts DEF OnlyRecords, Positional, Inv, InvFile
  <2> QED BY <1>1, <2>1, SyncedFacts, ScanTakesRecords
<1>3. ASSUME NEW i \in Nat, \A j \in i + 1 .. n : s[j].ev.group # g PROVE ~Superseded(g, i)
  BY <1>1, <1>2, <1>3, SyncedFacts DEF Superseded
<1>4. CASE Replay(s, g) = None /\ \A i \in 1 .. n : s[i].ev.group # g
  <2>1. ~Superseded(g, 0)
    BY <1>3, <1>4
  <2> QED BY <1>4, <2>1 DEF InvCommits
<1>5. CASE \E i \in 1 .. n : /\ s[i].ev.group = g
                             /\ Replay(s, g) = s[i].ev.off
                             /\ \A j \in i + 1 .. n : s[j].ev.group # g
  <2>1. PICK i \in 1 .. n : /\ s[i].ev.group = g
                            /\ Replay(s, g) = s[i].ev.off
                            /\ \A j \in i + 1 .. n : s[j].ev.group # g
    BY <1>5
  <2>2. ~Superseded(g, i)
    BY <1>3, <2>1
  <2>3. i \in 1 .. Len(cells) /\ s[i] = cells[i] /\ s[i].kind = "rec"
    BY <1>1, SyncedFacts DEF ScanStops, ValidTo, Accepts
  <2> QED BY <2>1, <2>2, <2>3 DEF InvCommits
<1> QED BY <1>1, <1>4, <1>5

(***************************************************************************)
(* A commit that returned survives every restart and power cut, whatever   *)
(* fails, as long as openCommits never finds the file under a name that is *)
(* not durable.  With such a file the property is false, and group.go does *)
(* nothing about it: it syncs the directory only of a file that it creates.*)
(***************************************************************************)
THEOREM CommitsSurvive ==
    ASSUME "orphan" \notin Env
    PROVE  Spec => []CommitSurvives
<1>1. Init => InvCommits
  BY DEF Init, InvCommits
<1>2. Inv /\ InvCommits /\ [Next]_vars => InvCommits'
  BY InvNext, InvCommitsNext
<1>3. Inv /\ InvCommits => CommitSurvives
  <2> SUFFICES ASSUME Inv, InvCommits, NEW g \in Groups
               PROVE  /\ returned[g] # None => named
                      /\ Replay(cells, g) \in {returned[g]} \cup since[g]
                      /\ Replay(synced, g) \in {returned[g]} \cup since[g]
    BY DEF CommitSurvives
  <2>1. Replay(cells, g) \in {returned[g]} \cup since[g]
    BY SyncedFacts, ReplayKept
  <2>2. Replay(synced, g) \in {returned[g]} \cup since[g]
    BY SyncedFacts, ReplayKept
  <2> QED BY <2>1, <2>2 DEF InvCommits
<1> QED BY <1>1, <1>2, <1>3, InvInit, InvNext, PTL DEF Spec


-----------------------------------------------------------------------------
(***************************************************************************)
(* Delivery is at-least-once, for consumers that commit only what a Sync   *)
(* covered.                                                                *)
(***************************************************************************)

(***************************************************************************)
(* What a group has processed stays processed while the log keeps the      *)
(* records up to n.                                                        *)
(***************************************************************************)
LEMMA ProcessedKept ==
    ASSUME NEW g \in Groups, NEW c \in Int, NEW n \in Nat,
           n <= Len(log'), \A o \in 1 .. n : log'[o] = log[o],
           seen[g] \subseteq seen'[g], c <= n, Processed(g, c)
    PROVE  Processed(g, c)'
<1>1. ASSUME NEW o \in 0 .. c - 1 PROVE <<o, log'[o + 1]>> \in seen'[g]
  <2>1. o + 1 \in 1 .. n
    OBVIOUS
  <2> QED BY <2>1 DEF Processed
<1>2. c <= Len(log')
  OBVIOUS
<1> QED BY <1>1, <1>2 DEF Processed

(***************************************************************************)
(* A step that adds no commit and moves no cursor, and that keeps the      *)
(* records of the log below n: all of them, or those a Sync covered when   *)
(* the process dies with its cursors.                                      *)
(***************************************************************************)
LEMMA SeenKept ==
    ASSUME Inv, InvSeen, Inv', NEW n \in Nat,
           safe <= n, n <= Len(log'), \A o \in 1 .. n : log'[o] = log[o],
           safe <= safe', \A g \in Groups : seen[g] \subseteq seen'[g],
           \A i \in 1 .. Len(cells') : cells'[i].kind = "rec" =>
                i \in 1 .. Len(cells) /\ cells'[i] = cells[i],
           \A g \in Groups : at'[g] = at[g] \/ at'[g] = None,
           \A g \in Groups : pos'[g] = None \/ (pos'[g] = pos[g] /\ n = Len(log))
    PROVE  InvSeen'
<1>0. /\ safe \in Nat /\ safe' \in Nat /\ Len(log) \in Nat /\ None = -1
      /\ Len(cells) \in Nat
      /\ \A g \in Groups : at[g] \in Nat \cup {None} /\ pos[g] \in Nat \cup {None}
  BY DEF Inv, TypeOK, Offsets, None
<1>1. ASSUME NEW i \in 1 .. Len(cells'), cells'[i].kind = "rec"
      PROVE  cells'[i].ev.off <= safe' /\ Processed(cells[i].ev.group, cells[i].ev.off)'
  <2>1. i \in 1 .. Len(cells) /\ cells'[i] = cells[i] /\ cells[i].kind = "rec"
    BY <1>1
  <2>2. cells[i].ev \in Commits
    BY <2>1 DEF Inv, InvFile
  <2> DEFINE g == cells[i].ev.group
             c == cells[i].ev.off
  <2>3. g \in Groups /\ c \in Nat
    BY <2>2, CommitFacts DEF Offsets
  <2>4. c <= safe /\ Processed(g, c)
    BY <2>1 DEF InvSeen
  <2>5. PICK h \in Groups, d \in Nat : h = g /\ d = c
    <3> HIDE DEF g, c
    <3> QED BY <2>3
  <2>6. d <= safe /\ Processed(h, d)
    BY <2>4, <2>5
  <2>7. Processed(h, d)'
    <3>1. d <= n
      BY <1>0, <2>6
    <3> QED BY <2>6, <3>1, ProcessedKept
  <2> QED BY <1>0, <2>1, <2>4, <2>3, <2>5, <2>7
<1>2. ASSUME NEW g \in Groups, at'[g] # None PROVE at'[g] <= safe' /\ Processed(g, at[g])'
  <2>1. at'[g] = at[g] /\ at[g] # None
    BY <1>2
  <2>2. PICK d \in Nat : d = at[g]
    BY <1>0, <2>1
  <2>3. d <= safe /\ Processed(g, d)
    BY <2>1, <2>2 DEF InvSeen
  <2>4. Processed(g, d)'
    <3>1. d <= n
      BY <1>0, <2>3
    <3> QED BY <2>3, <3>1, ProcessedKept
  <2> QED BY <1>0, <2>1, <2>2, <2>3, <2>4
<1>3. ASSUME NEW g \in Groups, pos'[g] # None PROVE Processed(g, pos[g])'
  <2>1. pos'[g] = pos[g] /\ n = Len(log) /\ pos[g] # None
    BY <1>3
  <2>2. PICK d \in Nat : d = pos[g]
    BY <1>0, <2>1
  <2>3. Processed(g, d)
    BY <2>1, <2>2 DEF InvSeen
  <2>4. d <= n
    BY <2>1, <2>3 DEF Processed
  <2>5. Processed(g, d)'
    BY <2>3, <2>4, ProcessedKept
  <2> QED BY <2>1, <2>2, <2>5
<1> QED BY <1>1, <1>2, <1>3 DEF InvSeen


(***************************************************************************)
(* The position that a scan finds is one that the group committed.         *)
(***************************************************************************)
LEMMA ReplaySeen ==
    ASSUME Inv, InvSeen, NEW g \in Groups, NEW s \in Seq(Cell),
           Len(s) <= Len(cells), \A i \in 1 .. Len(s) : s[i] = cells[i],
           Replay(s, g) # None
    PROVE  Replay(s, g) \in Offsets /\ Replay(s, g) <= safe /\ Processed(g, Replay(s, g))
<1>1. PICK n \in 0 .. Len(s) :
        /\ ScanStops(s, 0, n)
        /\ \/ Replay(s, g) = None /\ \A i \in 1 .. n : s[i].ev.group # g
           \/ \E i \in 1 .. n : /\ s[i].ev.group = g
                                /\ Replay(s, g) = s[i].ev.off
                                /\ \A j \in i + 1 .. n : s[j].ev.group # g
  BY ReplayFacts
<1>2. PICK i \in 1 .. n : s[i].ev.group = g /\ Replay(s, g) = s[i].ev.off
  BY <1>1
<1>3. i \in 1 .. Len(cells) /\ s[i] = cells[i] /\ s[i].kind = "rec"
  BY <1>1, SyncedFacts DEF ScanStops, ValidTo, Accepts
<1>4. cells[i].ev \in Commits
  BY <1>3 DEF Inv, InvFile
<1> QED BY <1>2, <1>3, <1>4, CommitFacts DEF InvSeen

LEMMA InvSeenNext ==
    ASSUME ~CommitAhead, Inv, InvSeen, Inv', [Next]_vars
    PROVE  InvSeen'
<1> USE DEF logVars, fileVars, memVars, obsVars
<1>0. /\ safe \in Nat /\ safe' \in Nat /\ Len(log) \in Nat /\ Len(log') \in Nat
      /\ safe <= Len(log)
      /\ log \in Seq(0 .. MaxEpoch) /\ None = -1
      /\ seen \in [Groups -> SUBSET (Offsets \X (0 .. MaxEpoch))]
      /\ at \in [Groups -> Offsets \cup {None}]
      /\ pos \in [Groups -> Offsets \cup {None}]
      /\ Offsets \subseteq Nat
  BY DEF Inv, TypeOK, Offsets, None
<1>1. CASE UNCHANGED <<log, safe, cells, at, pos, seen>>
  BY <1>0, <1>1, SeenKept
<1>2. CASE LogAppend
  <2>1. log' = log \o <<epoch>> /\ UNCHANGED <<safe, cells, at, pos, seen>>
    BY <1>2 DEF LogAppend
  <2>2. Len(log) <= Len(log') /\ \A o \in 1 .. Len(log) : log'[o] = log[o]
    BY <1>0, <2>1
  <2>3. \A g \in Groups : pos'[g] = pos[g] /\ at'[g] = at[g] /\ seen[g] \subseteq seen'[g]
    BY <2>1
  <2>4. /\ safe <= safe'
        /\ \A i \in 1 .. Len(cells') : i \in 1 .. Len(cells) /\ cells'[i] = cells[i]
    BY <1>0, <2>1
  <2> QED BY <1>0, <2>2, <2>3, <2>4, SeenKept
<1>3. CASE LogSync
  <2>1. safe' = Len(log) /\ UNCHANGED <<log, cells, at, pos, seen>>
    BY <1>3 DEF LogSync
  <2> QED BY <1>0, <2>1, SeenKept
<1>4. CASE OpenCommits
  <2>1. PICK n \in 0 .. Len(cells) : cells' = SubSeq(cells, 1, n)
    BY <1>4 DEF OpenCommits
  <2>2. UNCHANGED <<log, safe, pos, seen>> /\ at' = [g \in Groups |-> Replay(cells, g)]
    BY <1>4 DEF OpenCommits
  <2>3. ASSUME NEW i \in 1 .. Len(cells') PROVE i \in 1 .. Len(cells) /\ cells'[i] = cells[i]
    BY <2>1, SyncedFacts
  <2>4. ASSUME NEW g, NEW c PROVE Processed(g, c)' <=> Processed(g, c)
    BY <2>2 DEF Processed
  <2>5. \A i \in 1 .. Len(cells') : cells'[i].kind = "rec" =>
            cells'[i].ev.off <= safe' /\ Processed(cells[i].ev.group, cells[i].ev.off)'
    BY <2>2, <2>3 DEF InvSeen, Processed
  <2>6. \A g \in Groups : at'[g] # None => at'[g] <= safe' /\ Processed(g, at[g])'
    <3> SUFFICES ASSUME NEW g \in Groups, at'[g] # None
                 PROVE  at'[g] <= safe' /\ Processed(g, at[g])'
      OBVIOUS
    <3>1. at'[g] = Replay(cells, g)
      BY <2>2
    <3>2. Replay(cells, g) <= safe /\ Processed(g, Replay(cells, g))
      BY <3>1, ReplaySeen, SyncedFacts
    <3> QED BY <2>2, <3>1, <3>2 DEF Processed
  <2>7. \A g \in Groups : pos'[g] # None => Processed(g, pos[g])'
    BY <2>2 DEF InvSeen, Processed
  <2> QED BY <2>5, <2>6, <2>7 DEF InvSeen
<1>5. CASE CreateCommits
  <2>1. cells' = <<>> /\ UNCHANGED <<log, safe, at, pos, seen>>
    BY <1>5 DEF CreateCommits
  <2> QED BY <1>0, <2>1, SeenKept
<1>6. ASSUME NEW g \in Groups, Resume(g) PROVE InvSeen'
  <2>1. /\ pos' = [pos EXCEPT ![g] = IF at[g] = None THEN 0 ELSE at[g]]
        /\ UNCHANGED <<log, safe, cells, at, seen>>
    BY <1>6 DEF Resume
  <2>2. Processed(g, 0)
    BY <1>0 DEF Processed
  <2>3. ASSUME NEW h \in Groups, pos'[h] # None PROVE Processed(h, pos[h])'
    <3>1. CASE h = g
      BY <1>0, <2>1, <2>2, <3>1 DEF InvSeen, Processed
    <3>2. CASE h # g
      BY <1>0, <2>1, <2>3, <3>2 DEF InvSeen, Processed
    <3> QED BY <3>1, <3>2
  <2> QED BY <2>1, <2>3 DEF InvSeen, Processed
<1>7. ASSUME NEW g \in Groups, Consume(g) PROVE InvSeen'
  <2>1. /\ pos[g] \in 0 .. Len(log) - 1
        /\ seen' = [seen EXCEPT ![g] = @ \cup {<<pos[g], log[pos[g] + 1]>>}]
        /\ pos' = [pos EXCEPT ![g] = @ + 1]
        /\ UNCHANGED <<log, safe, cells, at>>
    BY <1>7 DEF Consume
  <2>2. \A h \in Groups : seen[h] \subseteq seen'[h]
    BY <1>0, <2>1
  <2>3. ASSUME NEW h \in Groups, NEW c, Processed(h, c) PROVE Processed(h, c)'
    BY <2>1, <2>2, <2>3 DEF Processed
  <2>4. ASSUME NEW h \in Groups, pos'[h] # None PROVE Processed(h, pos[h])'
    <3>1. CASE h = g
      <4>1. pos'[g] = pos[g] + 1 /\ <<pos[g], log[pos[g] + 1]>> \in seen'[g]
        BY <1>0, <2>1
      <4>2. Processed(g, pos[g])
        BY <1>0, <2>1 DEF InvSeen
      <4>3. ASSUME NEW o \in 0 .. pos'[g] - 1 PROVE <<o, log'[o + 1]>> \in seen'[g]
        <5>1. o = pos[g] \/ o \in 0 .. pos[g] - 1
          BY <2>1, <4>1
        <5> QED BY <2>1, <2>2, <4>1, <4>2, <5>1 DEF Processed
      <4>4. pos'[g] <= Len(log')
        BY <1>0, <2>1, <4>1
      <4> QED BY <3>1, <4>3, <4>4 DEF Processed
    <3>2. CASE h # g
      <4>1. pos'[h] = pos[h]
        BY <1>0, <2>1, <3>2
      <4>2. Processed(h, pos[h])
        BY <2>4, <4>1 DEF InvSeen
      <4> QED BY <2>1, <2>2, <4>1, <4>2 DEF Processed
    <3> QED BY <3>1, <3>2
  <2>5. \A i \in 1 .. Len(cells') : cells'[i].kind = "rec" =>
            cells'[i].ev.off <= safe' /\ Processed(cells[i].ev.group, cells[i].ev.off)'
    <3> SUFFICES ASSUME NEW i \in 1 .. Len(cells), cells[i].kind = "rec"
                 PROVE  /\ cells[i].ev.off <= safe
                        /\ Processed(cells[i].ev.group, cells[i].ev.off)'
      BY <2>1
    <3>1. cells[i].ev.group \in Groups
      BY CommitFacts DEF Inv, InvFile
    <3>2. cells[i].ev.off <= safe /\ Processed(cells[i].ev.group, cells[i].ev.off)
      BY DEF InvSeen
    <3> QED BY <2>1, <2>2, <3>1, <3>2 DEF Processed
  <2>6. ASSUME NEW h \in Groups, at'[h] # None PROVE at'[h] <= safe' /\ Processed(h, at[h])'
    BY <2>1, <2>2, <2>6 DEF InvSeen, Processed
  <2> QED BY <2>4, <2>5, <2>6 DEF InvSeen
<1>8. ASSUME NEW g \in Groups, NEW off \in Offsets, Commit(g, off) PROVE InvSeen'
  <2> DEFINE c == [group |-> g, off |-> off]
             r == Rec(next, c)
  <2>1. c \in Commits /\ c.group = g /\ c.off = off
    BY CommitFacts
  <2> HIDE DEF c
  <2>2. r \in Cell /\ r.ev = c
    BY <2>1, CommitFacts DEF Inv, TypeOK
  <2>3. cells' = cells \o <<r>> /\ UNCHANGED <<log, safe, at, pos, seen>>
    BY <1>8 DEF Commit, c
  <2>4. off <= safe /\ off <= pos[g]
    BY <1>8 DEF Commit, MayCommit
  <2> HIDE DEF r
  <2>5. /\ Len(cells') = Len(cells) + 1 /\ cells'[Len(cells) + 1] = r
        /\ \A i \in 1 .. Len(cells) : cells'[i] = cells[i]
    BY <2>2, <2>3, SyncedFacts
  <2>6. Processed(g, off)
    <3>0. off \in Nat /\ pos[g] \in Nat \cup {-1}
      BY <1>0
    <3>1. pos[g] # None /\ pos[g] \in Nat /\ off \in Nat
      BY <1>0, <2>4, <3>0
    <3>2. Processed(g, pos[g])
      BY <3>1 DEF InvSeen
    <3> QED BY <1>0, <2>4, <3>1, <3>2 DEF Processed
  <2>7. ASSUME NEW i \in 1 .. Len(cells'), cells'[i].kind = "rec"
        PROVE  cells'[i].ev.off <= safe' /\ Processed(cells[i].ev.group, cells[i].ev.off)'
    <3>1. CASE i = Len(cells) + 1
      <4>1. cells'[i].ev.group = g /\ cells'[i].ev.off = off
        BY <2>1, <2>2, <2>5, <3>1
      <4> QED BY <2>3, <2>4, <2>6, <4>1 DEF Processed
    <3>2. CASE i # Len(cells) + 1
      <4>1. i \in 1 .. Len(cells) /\ cells'[i] = cells[i]
        BY <2>5, <3>2, SyncedFacts
      <4> QED BY <2>3, <2>7, <4>1 DEF InvSeen, Processed
    <3> QED BY <3>1, <3>2
  <2>8. ASSUME NEW h \in Groups
        PROVE  /\ at'[h] # None => at'[h] <= safe' /\ Processed(h, at[h])'
               /\ pos'[h] # None => Processed(h, pos[h])'
    BY <2>3 DEF InvSeen, Processed
  <2> QED BY <2>7, <2>8 DEF InvSeen
<1>9. ASSUME NEW g \in Groups, NEW off \in Offsets, CommitAppendFails(g, off) PROVE InvSeen'
  <2>1. PICK tail \in {<<>>, <<Torn>>} : cells' = cells \o tail
    BY <1>9 DEF CommitAppendFails
  <2>2. UNCHANGED <<log, safe, at, pos, seen>>
    BY <1>9 DEF CommitAppendFails
  <2>3. ASSUME NEW i \in 1 .. Len(cells'), cells'[i].kind = "rec"
        PROVE  i \in 1 .. Len(cells) /\ cells'[i] = cells[i]
    <3>1. CASE tail = <<>>
      BY <2>1, <3>1, SyncedFacts
    <3>2. CASE tail = <<Torn>>
      <4>1. Torn \in Cell /\ Torn.kind # "rec" /\ cells' = cells \o <<Torn>>
        BY <2>1, <3>2, CommitFacts
      <4>2. cells'[Len(cells) + 1] = Torn /\ Len(cells') = Len(cells) + 1
        BY <4>1, SyncedFacts
      <4> QED BY <2>3, <4>1, <4>2, SyncedFacts
    <3> QED BY <3>1, <3>2
  <2>4. \A h \in Groups : pos'[h] = pos[h] /\ at'[h] = at[h] /\ seen[h] \subseteq seen'[h]
    BY <2>2
  <2>5. Len(log) <= Len(log') /\ safe <= safe' /\ \A o \in 1 .. Len(log) : log'[o] = log[o]
    BY <1>0, <2>2
  <2> QED BY <1>0, <2>3, <2>4, <2>5, SeenKept
<1>10. CASE CommitSync
  <2>1. at' = [at EXCEPT ![want.group] = want.off] /\ UNCHANGED <<log, safe, cells, pos, seen>>
    BY <1>10 DEF CommitSync
  <2>2. want \in Commits /\ cells # <<>> /\ cells[Len(cells)].ev = want
    BY <1>10 DEF CommitSync, Inv, InvMemory
  <2>3. cells[Len(cells)].kind = "rec" /\ Len(cells) \in 1 .. Len(cells)
    BY <1>10, <2>2, SyncedFacts DEF CommitSync, Inv, InvMemory, OnlyRecords
  <2>4. want.off <= safe /\ Processed(want.group, want.off)
    BY <2>2, <2>3 DEF InvSeen
  <2>5. ASSUME NEW h \in Groups, at'[h] # None PROVE at'[h] <= safe' /\ Processed(h, at[h])'
    <3>1. CASE h = want.group
      <4>1. at'[h] = want.off
        BY <1>0, <2>1, <3>1
      <4> QED BY <2>1, <2>4, <3>1, <4>1 DEF Processed
    <3>2. CASE h # want.group
      <4>1. at'[h] = at[h]
        BY <1>0, <2>1, <3>2
      <4> QED BY <2>1, <2>5, <4>1 DEF InvSeen, Processed
    <3> QED BY <3>1, <3>2
  <2>6. ASSUME NEW h \in Groups, pos'[h] # None PROVE Processed(h, pos[h])'
    BY <2>1, <2>6 DEF InvSeen, Processed
  <2>7. ASSUME NEW i \in 1 .. Len(cells'), cells'[i].kind = "rec"
        PROVE  cells'[i].ev.off <= safe' /\ Processed(cells[i].ev.group, cells[i].ev.off)'
    BY <2>1, <2>7 DEF InvSeen, Processed
  <2> QED BY <2>5, <2>6, <2>7 DEF InvSeen
<1>11. CASE Close \/ Kill
  <2>1. /\ UNCHANGED <<log, safe, cells, seen>>
        /\ at' = [g \in Groups |-> None] /\ pos' = [g \in Groups |-> None]
    BY <1>11 DEF Close, Kill, Forget
  <2> QED BY <1>0, <2>1, SeenKept
<1>12. CASE Crash \/ Extend \/ Tear
  <2>1. PICK left : Leaves(left) /\ PowerCut(left)
    BY <1>12, PowerCutLeaves DEF Inv
  <2>2. /\ UNCHANGED <<safe, seen>>
        /\ at' = [g \in Groups |-> None] /\ pos' = [g \in Groups |-> None]
    BY <2>1 DEF PowerCut, Forget
  <2>3. PICK n \in safe .. Len(log) : log' = SubSeq(log, 1, n)
    BY <2>1 DEF PowerCut
  <2>4. n \in Nat /\ n <= Len(log') /\ \A o \in 1 .. n : log'[o] = log[o]
    BY <1>0, <2>3
  <2>5. ASSUME NEW i \in 1 .. Len(cells'), cells'[i].kind = "rec"
        PROVE  i \in 1 .. Len(cells) /\ cells'[i] = cells[i]
    <3>1. CASE named
      <4>1. cells' = left /\ Len(left) \in Nat
        BY <2>1, <3>1 DEF PowerCut, Leaves
      <4>2. i <= Len(synced) \/ i \in Len(synced) + 1 .. Len(left)
        BY <4>1, SyncedFacts
      <4> QED BY <2>1, <2>5, <4>1, <4>2, SyncedFacts DEF Leaves
    <3>2. CASE ~named
      <4>1. cells' = <<>>
        BY <2>1, <3>2 DEF PowerCut
      <4> QED BY <4>1
    <3> QED BY <3>1, <3>2
  <2>6. \A g \in Groups : pos'[g] = None /\ at'[g] = None /\ seen[g] \subseteq seen'[g]
    BY <2>2
  <2>7. safe <= safe' /\ safe <= n
    BY <1>0, <2>2, <2>3
  <2> QED BY <2>4, <2>5, <2>6, <2>7, SeenKept
<1>13. CASE \/ Open \/ LogDirSync \/ SyncCommitsDir \/ SyncCommitsDirFails \/ CommitSyncFails
            \/ UNCHANGED vars
  <2>1. UNCHANGED <<log, safe, cells, at, pos, seen>>
    BY <1>13 DEF Open, LogDirSync, SyncCommitsDir, SyncCommitsDirFails, CommitSyncFails, vars
  <2> QED BY <1>1, <2>1
<1> QED BY <1>2, <1>3, <1>4, <1>5, <1>6, <1>7, <1>8, <1>9, <1>10, <1>11, <1>12, <1>13 DEF Next

(***************************************************************************)
(* A group has processed every record below the position it would resume   *)
(* from, after a restart or a power cut too, when consumers commit only    *)
(* offsets that a Sync of the log covered (docs/adopting.md, section 5).   *)
(***************************************************************************)
THEOREM DeliveryIsAtLeastOnce ==
    ASSUME ~CommitAhead
    PROVE  Spec => []AtLeastOnce
<1>1. Init => InvSeen
  BY DEF Init, InvSeen
<1>2. Inv /\ InvSeen /\ [Next]_vars => InvSeen'
  BY InvNext, InvSeenNext
<1>3. Inv /\ InvSeen => AtLeastOnce
  <2> SUFFICES ASSUME Inv, InvSeen, NEW g \in Groups,
                      NEW c \in {Replay(cells, g), Replay(synced, g)},
                      NEW o \in 0 .. c - 1, o < Len(log)
               PROVE  <<o, log[o + 1]>> \in seen[g]
    BY DEF AtLeastOnce
  <2>1. c # None => c \in Offsets /\ Processed(g, c)
    <3>1. CASE c = Replay(cells, g)
      BY <3>1, ReplaySeen, SyncedFacts
    <3>2. CASE c = Replay(synced, g)
      BY <3>2, ReplaySeen, SyncedFacts
    <3> QED BY <3>1, <3>2
  <2>2. c # None
    BY DEF None
  <2> QED BY <2>1, <2>2 DEF Processed
<1> QED BY <1>1, <1>2, <1>3, InvInit, InvNext, PTL DEF Spec

(***************************************************************************)
(* Under the same condition no group stands past the tail of the log, so   *)
(* Group.Reader never refuses the position it finds.                       *)
(***************************************************************************)
THEOREM ResumeIsPossible ==
    ASSUME ~CommitAhead
    PROVE  Spec => []ResumesInsideLog
<1>1. Init => InvSeen
  BY DEF Init, InvSeen
<1>2. Inv /\ InvSeen /\ [Next]_vars => InvSeen'
  BY InvNext, InvSeenNext
<1>3. Inv /\ InvSeen => ResumesInsideLog
  <2> SUFFICES ASSUME Inv, InvSeen, NEW g \in Groups PROVE at[g] <= Len(log)
    BY DEF ResumesInsideLog
  <2>1. CASE at[g] = None
    BY <2>1 DEF Inv, TypeOK, None
  <2>2. CASE at[g] # None
    BY <2>2 DEF InvSeen, Processed
  <2> QED BY <2>1, <2>2
<1> QED BY <1>1, <1>2, <1>3, InvInit, InvNext, PTL DEF Spec

=============================================================================
