-------------------------- MODULE RecordFileProofs --------------------------
(***************************************************************************)
(* Facts about files of records, for the proofs of every module that       *)
(* keeps its state in one: what a scan accepts, and what a power cut       *)
(* leaves.                                                                 *)
(***************************************************************************)
EXTENDS RecordFile, SequenceTheorems, WellFoundedInduction, TLAPS

(***************************************************************************)
(* Facts about files of records.                                           *)
(***************************************************************************)
LEMMA CellFacts ==
    /\ Torn \in Cell /\ Torn.kind # "rec"
    /\ Zeros \in Cell /\ Zeros.kind # "rec"
    /\ \A o \in Nat, e \in Events : Rec(o, e) \in Cell /\ Rec(o, e).kind = "rec"
                                    /\ Rec(o, e).off = o
BY DEF Torn, Zeros, Rec, Cell

(***************************************************************************)
(* A function on an initial segment of the naturals is a file.             *)
(***************************************************************************)
LEMMA FunctionIsFile ==
    ASSUME NEW n \in Nat, NEW f \in [1 .. n -> Cell]
    PROVE  f \in Seq(Cell) /\ Len(f) = n
BY SeqDef

(***************************************************************************)
(* The cells of two files one after the other.                             *)
(***************************************************************************)
LEMMA ConcatFacts ==
    ASSUME NEW s \in Seq(Cell), NEW t \in Seq(Cell)
    PROVE  /\ s \o t \in Seq(Cell)
           /\ Len(s \o t) = Len(s) + Len(t)
           /\ \A j \in 1 .. Len(s) : (s \o t)[j] = s[j]
           /\ \A j \in Len(s) + 1 .. Len(s) + Len(t) : (s \o t)[j] = t[j - Len(s)]
<1>1. Len(s) \in Nat /\ Len(t) \in Nat
  OBVIOUS
<1> QED BY <1>1, ConcatProperties

(***************************************************************************)
(* What was in the valid prefix of a file is in it after the file grew.    *)
(***************************************************************************)
LEMMA InFileGrows ==
    ASSUME NEW s \in Seq(Cell), NEW t \in Seq(Cell), NEW b, NEW r,
           Len(s) <= Len(t), \A j \in 1 .. Len(s) : t[j] = s[j],
           InFile(s, b, r)
    PROVE  InFile(t, b, r)
<1>1. PICK i \in 1 .. Len(s) : s[i] = r /\ ValidTo(s, b, i)
  BY DEF InFile
<1>2. ASSUME NEW j \in 1 .. i PROVE Accepts(t, b, j)
  <2>1. Accepts(s, b, j)
    BY <1>1 DEF ValidTo
  <2>2. t[j] = s[j] /\ (j # 1 => t[j - 1] = s[j - 1])
    OBVIOUS
  <2> QED BY <2>1, <2>2 DEF Accepts
<1>3. i \in 1 .. Len(t) /\ t[i] = r
  BY <1>1
<1> QED BY <1>2, <1>3 DEF InFile, ValidTo

(***************************************************************************)
(* Truncating a file to what its scan accepts keeps every record the scan  *)
(* returned.                                                               *)
(***************************************************************************)
LEMMA InFileTruncated ==
    ASSUME NEW s \in Seq(Cell), NEW b, NEW r, NEW n \in Nat,
           ScanStops(s, b, n), InFile(s, b, r)
    PROVE  InFile(SubSeq(s, 1, n), b, r)
<1>1. PICK i \in 1 .. Len(s) : s[i] = r /\ ValidTo(s, b, i)
  BY DEF InFile
<1>2. i <= n
  BY <1>1 DEF ScanStops, ValidTo
<1>3. n <= Len(s)
  BY DEF ScanStops
<1> DEFINE t == SubSeq(s, 1, n)
<1>4. Len(t) = n /\ \A j \in 1 .. n : t[j] = s[j]
  BY <1>3
<1>5. t[i] = r /\ ValidTo(t, b, i)
  <2> HIDE DEF t
  <2> QED BY <1>1, <1>2, <1>4 DEF ValidTo, Accepts
<1> QED
  <2> HIDE DEF t
  <2>1. InFile(t, b, r)
    BY <1>2, <1>4, <1>5 DEF InFile
  <2> QED BY <2>1 DEF t

(***************************************************************************)
(* In a positional file a prefix of whole records is a valid prefix.       *)
(***************************************************************************)
LEMMA RecordsAreValid ==
    ASSUME NEW s \in Seq(Cell), NEW b \in Nat, NEW n \in 0 .. Len(s),
           Positional(s, b), OnlyRecords(s, n)
    PROVE  ValidTo(s, b, n)
<1>1. ASSUME NEW i \in 1 .. n PROVE Accepts(s, b, i)
  <2>1. s[i].kind = "rec" /\ s[i].off = b + i - 1
    BY DEF Positional, OnlyRecords
  <2>2. i # 1 => s[i - 1].kind = "rec" /\ s[i - 1].off = b + i - 2
    BY DEF Positional, OnlyRecords
  <2> QED BY <2>1, <2>2 DEF Accepts
<1> QED BY <1>1 DEF ValidTo

(***************************************************************************)
(* What every shape of power cut keeps of a file: all that was synced,     *)
(* after it only whole records that were there, and no growth.             *)
(***************************************************************************)
Keeps(cells, synced, left) ==
    /\ left \in Seq(Cell)
    /\ Len(synced) <= Len(left)
    /\ Len(left) <= Len(cells) \/ Len(left) = Len(synced)
    /\ \A j \in 1 .. Len(synced) : left[j] = synced[j]
    /\ \A j \in Len(synced) + 1 .. Len(left) :
          left[j].kind = "rec" => j <= Len(cells) /\ left[j] = cells[j]

LEMMA CrashKeeps ==
    ASSUME NEW cells \in Seq(Cell), NEW synced \in Seq(Cell)
    PROVE  Keeps(cells, synced, synced)
BY DEF Keeps

LEMMA UnsyncedFacts ==
    ASSUME NEW cells \in Seq(Cell), NEW synced \in Seq(Cell)
    PROVE  /\ Unsynced(cells, synced) \in Seq(Cell)
           /\ Len(cells) <= Len(synced) => Len(Unsynced(cells, synced)) = 0
           /\ Len(cells) > Len(synced) =>
                Len(Unsynced(cells, synced)) = Len(cells) - Len(synced)
           /\ \A j \in 1 .. Len(Unsynced(cells, synced)) :
                Unsynced(cells, synced)[j] = cells[Len(synced) + j]
BY DEF Unsynced

(***************************************************************************)
(* A power cut that keeps the length of the file adds zeros only.          *)
(***************************************************************************)
LEMMA ExtendFacts ==
    ASSUME NEW cells \in Seq(Cell), NEW synced \in Seq(Cell)
    PROVE  /\ CrashExtend(cells, synced) \in Seq(Cell)
           /\ Len(synced) <= Len(CrashExtend(cells, synced))
           /\ \/ Len(CrashExtend(cells, synced)) <= Len(cells)
              \/ Len(CrashExtend(cells, synced)) = Len(synced)
           /\ \A j \in 1 .. Len(synced) : CrashExtend(cells, synced)[j] = synced[j]
           /\ \A j \in Len(synced) + 1 .. Len(CrashExtend(cells, synced)) :
                CrashExtend(cells, synced)[j] = Zeros
<1> DEFINE extra == Unsynced(cells, synced)
           zeros == [i \in DOMAIN extra |-> Zeros]
           left == synced \o zeros
<1>1. /\ extra \in Seq(Cell)
      /\ Len(cells) <= Len(synced) => Len(extra) = 0
      /\ Len(cells) > Len(synced) => Len(extra) = Len(cells) - Len(synced)
  BY UnsyncedFacts
<1> HIDE DEF extra
<1>2. zeros \in Seq(Cell) /\ Len(zeros) = Len(extra)
      /\ \A i \in 1 .. Len(extra) : zeros[i] = Zeros
  <2>1. Len(extra) \in Nat /\ DOMAIN extra = 1 .. Len(extra)
    BY <1>1
  <2>2. zeros \in [1 .. Len(extra) -> Cell]
    BY <2>1, CellFacts
  <2> QED BY <2>1, <2>2, FunctionIsFile
<1> HIDE DEF zeros
<1>3. /\ left \in Seq(Cell)
      /\ Len(left) = Len(synced) + Len(extra)
      /\ \A j \in 1 .. Len(synced) : left[j] = synced[j]
      /\ \A j \in Len(synced) + 1 .. Len(left) : left[j] = Zeros
  <2>1. Len(synced) \in Nat /\ Len(extra) \in Nat
    BY <1>1
  <2>2. /\ left \in Seq(Cell)
        /\ Len(left) = Len(synced) + Len(zeros)
        /\ \A j \in 1 .. Len(synced) : left[j] = synced[j]
        /\ \A j \in Len(synced) + 1 .. Len(synced) + Len(zeros) :
              left[j] = zeros[j - Len(synced)]
    BY <1>2, ConcatFacts
  <2> HIDE DEF left
  <2> QED BY <1>2, <2>1, <2>2
<1> HIDE DEF left
<1>4. /\ Len(synced) <= Len(left)
      /\ Len(left) <= Len(cells) \/ Len(left) = Len(synced)
  BY <1>1, <1>3
<1> QED BY <1>3, <1>4, Zenon DEF left, zeros, extra, CrashExtend

LEMMA ExtendKeeps ==
    ASSUME NEW cells \in Seq(Cell), NEW synced \in Seq(Cell)
    PROVE  Keeps(cells, synced, CrashExtend(cells, synced))
BY ExtendFacts, CellFacts DEF Keeps

(***************************************************************************)
(* A power cut that tears a file keeps what was synced, then cells of the  *)
(* file as it read, and perhaps half a record at the very end.             *)
(***************************************************************************)
TearsTo(cells, synced, left) ==
    /\ left \in Seq(Cell)
    /\ Len(synced) <= Len(left)
    /\ Len(left) <= Len(cells) \/ Len(left) = Len(synced)
    /\ \A j \in 1 .. Len(synced) : left[j] = synced[j]
    /\ \A j \in Len(synced) + 1 .. Len(left) :
          left[j] = cells[j] \/ (left[j] = Torn /\ j = Len(left))

LEMMA TornFacts ==
    ASSUME NEW cells \in Seq(Cell), NEW synced \in Seq(Cell),
           NEW k \in Nat, NEW half \in BOOLEAN
    PROVE  TearsTo(cells, synced, CrashTorn(cells, synced, k, half))
<1> DEFINE extra == Unsynced(cells, synced)
           kept == SubSeq(extra, 1, k)
           tail == IF half THEN <<Torn>> ELSE <<>>
<1>1. /\ extra \in Seq(Cell)
      /\ Len(cells) <= Len(synced) => Len(extra) = 0
      /\ Len(cells) > Len(synced) => Len(extra) = Len(cells) - Len(synced)
      /\ \A j \in 1 .. Len(extra) : extra[j] = cells[Len(synced) + j]
  BY UnsyncedFacts
<1> HIDE DEF extra
<1>2. CASE k < Len(extra)
  <2>1. kept \in Seq(Cell) /\ Len(kept) = k /\ \A j \in 1 .. k : kept[j] = extra[j]
    BY <1>1, <1>2
  <2>2. /\ tail \in Seq(Cell) /\ Len(tail) <= 1
        /\ \A j \in 1 .. Len(tail) : tail[j] = Torn
    BY CellFacts
  <2> DEFINE left == (synced \o kept) \o tail
  <2> HIDE DEF kept, tail
  <2>3. /\ left \in Seq(Cell)
        /\ Len(left) = Len(synced) + k + Len(tail)
        /\ \A j \in 1 .. Len(synced) : left[j] = synced[j]
        /\ \A j \in Len(synced) + 1 .. Len(synced) + k : left[j] = cells[j]
        /\ \A j \in Len(synced) + k + 1 .. Len(left) : left[j] = Torn
    <3>1. Len(synced) \in Nat /\ Len(extra) \in Nat /\ Len(tail) \in Nat
      BY <1>1, <2>2
    <3> DEFINE front == synced \o kept
    <3>2. /\ front \in Seq(Cell)
          /\ Len(front) = Len(synced) + Len(kept)
          /\ \A j \in 1 .. Len(synced) : front[j] = synced[j]
          /\ \A j \in Len(synced) + 1 .. Len(synced) + Len(kept) :
                front[j] = kept[j - Len(synced)]
      BY <2>1, ConcatFacts
    <3> HIDE DEF front
    <3>3. /\ front \o tail \in Seq(Cell)
          /\ Len(front \o tail) = Len(front) + Len(tail)
          /\ \A j \in 1 .. Len(front) : (front \o tail)[j] = front[j]
          /\ \A j \in Len(front) + 1 .. Len(front) + Len(tail) :
                (front \o tail)[j] = tail[j - Len(front)]
      BY <2>2, <3>2, ConcatFacts
    <3>4. front \o tail = left
      BY DEF front
    <3> HIDE DEF left
    <3>5. /\ left \in Seq(Cell)
          /\ Len(left) = Len(synced) + k + Len(tail)
          /\ \A j \in 1 .. Len(front) : left[j] = front[j]
          /\ \A j \in Len(front) + 1 .. Len(left) : left[j] = Torn
      BY <2>1, <2>2, <3>1, <3>2, <3>3, <3>4
    <3>6. \A j \in Len(synced) + 1 .. Len(synced) + k : front[j] = cells[j]
      <4> SUFFICES ASSUME NEW j \in Len(synced) + 1 .. Len(synced) + k
                   PROVE  front[j] = cells[j]
        OBVIOUS
      <4>1. j - Len(synced) \in 1 .. k /\ j - Len(synced) \in 1 .. Len(extra)
        BY <1>2, <3>1
      <4>2. front[j] = kept[j - Len(synced)]
        BY <2>1, <3>1, <3>2
      <4>3. kept[j - Len(synced)] = extra[j - Len(synced)]
        BY <2>1, <4>1
      <4>4. extra[j - Len(synced)] = cells[Len(synced) + (j - Len(synced))]
        BY <1>1, <4>1
      <4> QED BY <3>1, <4>2, <4>3, <4>4
    <3>7. Len(front) = Len(synced) + k /\ k \in Nat
      BY <2>1, <3>2
    <3>8. \A j \in 1 .. Len(synced) : left[j] = synced[j]
      BY <3>1, <3>2, <3>5, <3>7
    <3>9. \A j \in Len(synced) + 1 .. Len(synced) + k : left[j] = cells[j]
      BY <3>1, <3>5, <3>6, <3>7
    <3> QED BY <3>5, <3>7, <3>8, <3>9
  <2> HIDE DEF left
  <2>4. TearsTo(cells, synced, left)
    <3>1. Len(left) <= Len(cells) /\ Len(synced) <= Len(left)
      BY <1>1, <1>2, <2>2, <2>3
    <3>2. ASSUME NEW j \in Len(synced) + 1 .. Len(left)
          PROVE  left[j] = cells[j] \/ (left[j] = Torn /\ j = Len(left))
      <4>1. CASE j \in Len(synced) + 1 .. Len(synced) + k
        BY <2>3, <4>1
      <4>2. CASE j \notin Len(synced) + 1 .. Len(synced) + k
        <5>1. j \in Len(synced) + k + 1 .. Len(left) /\ j = Len(left)
          <6>1. Len(synced) \in Nat /\ Len(tail) \in Nat /\ Len(left) \in Nat
            BY <2>2, <2>3
          <6>2. Len(left) = Len(synced) + k + Len(tail) /\ Len(tail) <= 1
            BY <2>2, <2>3
          <6> QED BY <4>2, <6>1, <6>2
        <5> QED BY <2>3, <5>1
      <4> QED BY <4>1, <4>2
    <3> QED BY <2>3, <3>1, <3>2, Zenon DEF TearsTo
  <2> QED BY <1>2, <2>4 DEF left, kept, tail, extra, CrashTorn
<1>3. CASE ~(k < Len(extra))
  <2> DEFINE left == synced \o extra
  <2>1. /\ left \in Seq(Cell)
        /\ Len(left) = Len(synced) + Len(extra)
        /\ \A j \in 1 .. Len(synced) : left[j] = synced[j]
        /\ \A j \in Len(synced) + 1 .. Len(left) : left[j] = cells[j]
    BY <1>1
  <2> HIDE DEF left
  <2>2. TearsTo(cells, synced, left)
    BY <1>1, <2>1 DEF TearsTo
  <2> QED BY <1>3, <2>2 DEF left, extra, CrashTorn
<1> QED BY <1>2, <1>3

LEMMA TornKeeps ==
    ASSUME NEW cells \in Seq(Cell), NEW synced \in Seq(Cell),
           NEW k \in Nat, NEW half \in BOOLEAN
    PROVE  Keeps(cells, synced, CrashTorn(cells, synced, k, half))
<1> DEFINE left == CrashTorn(cells, synced, k, half)
<1>1. TearsTo(cells, synced, left)
  BY TornFacts
<1> HIDE DEF left
<1>2. Keeps(cells, synced, left)
  BY <1>1, CellFacts DEF TearsTo, Keeps
<1> QED BY <1>2 DEF left

(***************************************************************************)
(* Every set of numbers up to a bound has a smallest and a greatest one.   *)
(***************************************************************************)
LEMMA HasSmallest ==
    ASSUME NEW S, S \subseteq Nat, S # {}
    PROVE  \E m \in S : \A y \in S : m <= y
<1>1. PICK m \in S : \A y \in S : ~(<<y, m>> \in OpToRel(<, Nat))
  BY NatLessThanWellFounded, WFMin
<1>2. ASSUME NEW y \in S PROVE m <= y
  <2>1. y \in Nat /\ m \in Nat
    OBVIOUS
  <2>2. y < m => <<y, m>> \in OpToRel(<, Nat)
    BY <2>1 DEF OpToRel
  <2>3. ~(y < m)
    BY <1>1, <2>2, Zenon
  <2> QED BY <2>1, <2>3
<1> QED BY <1>2

LEMMA HasGreatest ==
    ASSUME NEW N \in Nat, NEW S, S \subseteq 0 .. N, S # {}
    PROVE  \E m \in S : \A y \in S : y <= m
<1> DEFINE T == {N - x : x \in S}
<1>1. T \subseteq Nat /\ T # {}
  <2>1. \A x \in S : N - x \in Nat
    OBVIOUS
  <2> QED BY <2>1
<1>2. PICK m \in T : \A y \in T : m <= y
  BY <1>1, HasSmallest
<1>3. PICK x \in S : m = N - x
  BY <1>2
<1>4. ASSUME NEW y \in S PROVE y <= x
  <2>1. N - y \in T
    OBVIOUS
  <2>2. m <= N - y
    BY <1>2, <2>1
  <2> HIDE DEF T
  <2> QED BY <1>3, <2>2
<1> QED BY <1>4

(***************************************************************************)
(* A set that holds zero and the successor of every number it holds, up to *)
(* a bound, holds every number up to it.                                   *)
(***************************************************************************)
LEMMA HoldsAll ==
    ASSUME NEW N \in Nat, NEW S, 0 \in S, \A n \in 0 .. N - 1 : n \in S => n + 1 \in S
    PROVE  \A n \in 0 .. N : n \in S
<1> SUFFICES ASSUME (0 .. N) \ S # {} PROVE FALSE
  OBVIOUS
<1>1. PICK m \in (0 .. N) \ S : \A y \in (0 .. N) \ S : m <= y
  <2>1. (0 .. N) \ S \subseteq Nat
    OBVIOUS
  <2> QED BY <2>1, HasSmallest
<1>2. m - 1 \in 0 .. N - 1 /\ m - 1 \in 0 .. N
  BY <1>1
<1>3. m - 1 \in S
  BY <1>1, <1>2
<1> QED BY <1>1, <1>2, <1>3

(***************************************************************************)
(* The scan of recovery stops somewhere, and only there.                   *)
(***************************************************************************)
LEMMA ScanExists ==
    ASSUME NEW s \in Seq(Cell), NEW b
    PROVE  \E n \in 0 .. Len(s) : ScanStops(s, b, n)
<1> DEFINE Bad == {i \in 1 .. Len(s) : ~Accepts(s, b, i)}
<1>1. CASE Bad = {}
  <2>1. ScanStops(s, b, Len(s))
    BY <1>1 DEF ScanStops, ValidTo
  <2> QED BY <2>1
<1>2. CASE Bad # {}
  <2>1. PICK m \in Bad : \A y \in Bad : m <= y
    <3>1. Bad \subseteq Nat
      OBVIOUS
    <3> HIDE DEF Bad
    <3> QED BY <1>2, <3>1, HasSmallest
  <2>2. m - 1 \in 0 .. Len(s) /\ (m - 1) + 1 = m
    OBVIOUS
  <2>3. ValidTo(s, b, m - 1)
    BY <2>1 DEF ValidTo
  <2>4. ScanStops(s, b, m - 1)
    BY <2>1, <2>2, <2>3 DEF ScanStops
  <2> QED BY <2>2, <2>4
<1> QED BY <1>1, <1>2

LEMMA ScanReaches ==
    ASSUME NEW s \in Seq(Cell), NEW b, NEW n \in Nat, NEW m \in 0 .. Len(s),
           ScanStops(s, b, n), ValidTo(s, b, m)
    PROVE  m <= n
BY DEF ScanStops, ValidTo
=============================================================================
