------------------------- MODULE SegmentedLogProofs -------------------------
(***************************************************************************)
(* Proofs about SegmentedLog, for every segment size, durability mode,     *)
(* bound and environment.                                                  *)
(***************************************************************************)
EXTENDS SegmentedLog, RecordFileProofs, FiniteSetTheorems

USE SegMaxAssumption, MaxOffsetAssumption

-----------------------------------------------------------------------------
LEMMA InvInit == Init => Inv
<1> SUFFICES ASSUME Init PROVE Inv
  OBVIOUS
<1>1. TypeOK
  <2>1. data \in [Offsets -> Seq(Cell)] /\ durable \in [Offsets -> Seq(Cell)]
    BY EmptySeq DEF Init
  <2>2. rest \in Seq(Events \cup {Invalid})
    BY EmptySeq DEF Init
  <2>3. sealed \in BOOLEAN /\ pc \in PCs
    BY DEF Init, PCs
  <2>4. /\ live = {} /\ durableDir = {} /\ bases = {} /\ acked = {}
        /\ active = 0 /\ next = 0 /\ size = 0 /\ sinceSync = 0 /\ countsFrom = 0
        /\ spoiled \in BOOLEAN
    BY DEF Init
  <2> QED BY <2>1, <2>2, <2>3, <2>4 DEF TypeOK, Offsets
<1>2. InvDisk
  BY DEF Init, InvDisk, InvFiles, InvDir, InvSealed
<1>3. InvClosed /\ InvOpen
  BY DEF Init, InvClosed, InvOpen
<1> QED BY <1>1, <1>2, <1>3 DEF Inv

(***************************************************************************)
(* A file left by a power cut is as well placed as the two it comes from.  *)
(***************************************************************************)
LEMMA KeepsPositional ==
    ASSUME NEW cells \in Seq(Cell), NEW synced \in Seq(Cell), NEW left,
           NEW b \in Nat, Keeps(cells, synced, left),
           Positional(cells, b), Positional(synced, b)
    PROVE  Positional(left, b)
<1> SUFFICES ASSUME NEW i \in 1 .. Len(left), left[i].kind = "rec"
             PROVE  left[i].off = b + i - 1
  BY DEF Positional
<1>1. Len(left) \in Nat /\ Len(synced) \in Nat /\ Len(cells) \in Nat
  BY DEF Keeps
<1>2. CASE i \in 1 .. Len(synced)
  BY <1>2 DEF Keeps, Positional
<1>3. CASE i \in Len(synced) + 1 .. Len(left)
  <2>1. i \in 1 .. Len(cells) /\ left[i] = cells[i]
    BY <1>1, <1>3 DEF Keeps
  <2> QED BY <2>1 DEF Positional
<1> QED BY <1>1, <1>2, <1>3

LEMMA KeepsSame ==
    ASSUME NEW cells \in Seq(Cell), NEW left, Keeps(cells, cells, left)
    PROVE  left = cells
<1>1. left \in Seq(Cell) /\ Len(left) = Len(cells)
      /\ \A j \in 1 .. Len(cells) : left[j] = cells[j]
  BY DEF Keeps
<1> QED BY <1>1, SeqEqual

(***************************************************************************)
(* A power cut, whatever its shape, leaves a disk that satisfies the       *)
(* invariant and a process with no log.                                    *)
(***************************************************************************)
LEMMA PowerCutInv ==
    ASSUME Inv, Forget, UNCHANGED <<durableDir, acked>>, live' = durableDir,
           spoiled' \in BOOLEAN,
           data' \in [Offsets -> Seq(Cell)],
           durable' \in [Offsets -> Seq(Cell)],
           \A b \in durableDir : durable'[b] = durable[b],
           \A b \in durableDir : Keeps(data[b], durable[b], data'[b])
    PROVE  Inv'
<1> USE DEF Inv
<1>1. TypeOK'
  <2>1. rest' \in Seq(Events \cup {Invalid})
    BY EmptySeq DEF Forget
  <2>2. sealed' \in BOOLEAN /\ pc' \in PCs
    BY DEF Forget, PCs
  <2>3. bases' = {} /\ active' = 0 /\ next' = 0 /\ size' = 0 /\ sinceSync' = 0 /\ countsFrom' = 0
    BY DEF Forget
  <2> QED BY <2>1, <2>2, <2>3 DEF TypeOK, Offsets
<1>2. \A b \in durableDir : /\ b \in live /\ b \in Nat /\ durable'[b] = durable[b]
                            /\ data[b] \in Seq(Cell) /\ durable[b] \in Seq(Cell)
  BY DEF InvDisk, InvDir, TypeOK, Offsets
<1>3. InvFiles'
  <2> SUFFICES ASSUME NEW b \in durableDir
               PROVE  /\ Positional(data'[b], b) /\ b + Len(data'[b]) <= MaxOffset
                      /\ Positional(durable'[b], b) /\ b + Len(durable'[b]) <= MaxOffset
    BY DEF InvFiles
  <2>1. /\ Positional(data[b], b) /\ b + Len(data[b]) <= MaxOffset
        /\ Positional(durable[b], b) /\ b + Len(durable[b]) <= MaxOffset
    BY <1>2 DEF InvDisk, InvFiles
  <2>2. Positional(data'[b], b)
    BY <1>2, <2>1, KeepsPositional
  <2>3. b + Len(data'[b]) <= MaxOffset
    <3>1. /\ data[b] \in Seq(Cell) /\ durable[b] \in Seq(Cell) /\ data'[b] \in Seq(Cell)
          /\ Len(data'[b]) <= Len(data[b]) \/ Len(data'[b]) = Len(durable[b])
      BY <1>2 DEF Keeps
    <3> QED BY <1>2, <2>1, <3>1
  <2> QED BY <1>2, <2>1, <2>2, <2>3
<1>4. InvDir'
  BY DEF InvDir
<1>5. InvSealed'
  <2> SUFFICES ASSUME NEW b \in durableDir, NEW c \in durableDir, b < c
               PROVE  /\ data'[b] = durable'[b]
                      /\ OnlyRecords(data'[b], Len(data'[b]))
                      /\ b + Len(data'[b]) <= c
                      /\ b + Len(data'[b]) \in durableDir
    BY DEF InvSealed
  <2>1. /\ data[b] = durable[b]
        /\ OnlyRecords(data[b], Len(data[b]))
        /\ b + Len(data[b]) <= c
        /\ b + Len(data[b]) \in live
    BY <1>2 DEF InvDisk, InvSealed
  <2>2. data'[b] = data[b]
    BY <1>2, <2>1, KeepsSame
  <2>3. b + Len(data[b]) \in durableDir
    <3>1. b + Len(data[b]) \in Nat /\ c \in Nat
      BY <1>2
    <3> QED BY <1>2, <2>1, <3>1 DEF InvDisk, InvDir
  <2> QED BY <1>2, <2>1, <2>2, <2>3
<1>6. InvClosed' /\ InvOpen'
  BY DEF InvClosed, InvOpen, Forget
<1> QED BY <1>1, <1>3, <1>4, <1>5, <1>6 DEF InvDisk

(***************************************************************************)
(* Stopping the process leaves its disk alone.                             *)
(***************************************************************************)
LEMMA ForgetInv ==
    ASSUME Inv, Forget, UNCHANGED <<disk, acked, spoiled>>
    PROVE  Inv'
<1> USE DEF Inv
<1>1. UNCHANGED <<live, durableDir, data, durable, acked, spoiled>>
  BY DEF disk
<1>2. TypeOK'
  <2>1. rest' \in Seq(Events \cup {Invalid})
    BY EmptySeq DEF Forget
  <2>2. sealed' \in BOOLEAN /\ pc' \in PCs
    BY DEF Forget, PCs
  <2>3. bases' = {} /\ active' = 0 /\ next' = 0 /\ size' = 0 /\ sinceSync' = 0 /\ countsFrom' = 0
    BY DEF Forget
  <2> QED BY <1>1, <2>1, <2>2, <2>3 DEF TypeOK, Offsets
<1>3. InvDisk'
  BY <1>1 DEF InvDisk, InvFiles, InvDir, InvSealed
<1>4. InvClosed' /\ InvOpen'
  BY DEF InvClosed, InvOpen, Forget
<1> QED BY <1>2, <1>3, <1>4

(***************************************************************************)
(* A step of an open log that writes nothing and ends at the caller or at  *)
(* the head of Append's loop.                                              *)
(***************************************************************************)
LEMMA QuietInv ==
    ASSUME Inv, bases # {}, UNCHANGED <<disk, bases, active, next, size, sealed, acked>>,
           UNCHANGED spoiled, countsFrom' \in {countsFrom, next},
           sinceSync' \in Nat, rest' \in Seq(Events \cup {Invalid}),
           next + Len(rest') <= MaxOffset, pc' \in {"idle", "append"}
    PROVE  Inv'
<1> USE DEF Inv
<1>1. UNCHANGED <<live, durableDir, data, durable, acked>>
  BY DEF disk
<1>2. TypeOK'
  BY <1>1 DEF TypeOK, PCs
<1>3. InvDisk'
  BY <1>1 DEF InvDisk, InvFiles, InvDir, InvSealed
<1>4. InvClosed'
  BY DEF InvClosed
<1>5. InvOpen'
  BY <1>1 DEF InvOpen, Full
<1> QED BY <1>2, <1>3, <1>4, <1>5

(***************************************************************************)
(* Returning to the caller empties the batch.                              *)
(***************************************************************************)
LEMMA ReturnFacts ==
    ASSUME Return
    PROVE  pc' = "idle" /\ rest' \in Seq(Events \cup {Invalid}) /\ Len(rest') = 0
BY EmptySeq DEF Return

(***************************************************************************)
(* A log is open wherever the process is not stopped or opening one.       *)
(***************************************************************************)
LEMMA OpenFacts ==
    ASSUME Inv, bases # {}
    PROVE  /\ active \in Nat /\ next \in Nat /\ size \in Nat /\ active \in live
           /\ next = active + size /\ next <= MaxOffset /\ next \in Offsets
           /\ active \in Offsets /\ Len(rest) \in Nat
           /\ data[active] \in Seq(Cell) /\ durable[active] \in Seq(Cell)
           /\ Len(data[active]) \in Nat /\ Len(durable[active]) \in Nat
<1>1. /\ active \in bases /\ bases \subseteq live
      /\ next = active + size /\ next + Len(rest) <= MaxOffset
  BY DEF Inv, InvOpen
<1>2. /\ active \in Offsets /\ next \in Nat /\ size \in Nat
      /\ data[active] \in Seq(Cell) /\ durable[active] \in Seq(Cell)
      /\ rest \in Seq(Events \cup {Invalid})
  BY DEF Inv, TypeOK
<1>3. Len(rest) \in Nat /\ Len(data[active]) \in Nat /\ Len(durable[active]) \in Nat
  BY <1>2
<1> QED BY <1>1, <1>2, <1>3 DEF Offsets

(***************************************************************************)
(* Syncing the active segment.                                             *)
(***************************************************************************)
LEMMA FileSyncDisk ==
    ASSUME Inv, bases # {}, UNCHANGED <<live, durableDir, data>>,
           durable' = [durable EXCEPT ![active] = data[active]]
    PROVE  InvDisk' /\ durable' \in [Offsets -> Seq(Cell)]
<1> USE DEF Inv
<1>1. active \in Offsets /\ active \in live /\ data[active] \in Seq(Cell)
  BY OpenFacts
<1>2. durable' \in [Offsets -> Seq(Cell)]
  BY <1>1 DEF TypeOK
<1>3. durable'[active] = data[active]
      /\ \A b \in live : b # active => durable'[b] = durable[b]
  BY <1>1 DEF TypeOK
<1>4. InvFiles'
  BY <1>1, <1>3 DEF InvDisk, InvFiles
<1>5. InvDir'
  BY DEF InvDisk, InvDir
<1>6. InvSealed'
  BY <1>3 DEF InvDisk, InvSealed
<1> QED BY <1>2, <1>4, <1>5, <1>6 DEF InvDisk

(***************************************************************************)
(* Appending cells t to the active segment of a log that may be appended   *)
(* to: whole records of t carry the offsets from next on.                  *)
(***************************************************************************)
LEMMA FileAppendDisk ==
    ASSUME Inv, bases # {}, ~sealed, UNCHANGED <<live, durableDir, durable>>,
           NEW t \in Seq(Cell), next + Len(t) <= MaxOffset,
           \A j \in 1 .. Len(t) : t[j].kind = "rec" => t[j].off = next + j - 1,
           data' = [data EXCEPT ![active] = data[active] \o t]
    PROVE  /\ InvDisk' /\ data' \in [Offsets -> Seq(Cell)]
           /\ Len(data'[active]) = size + Len(t)
           /\ \A j \in 1 .. size : data'[active][j] = data[active][j]
           /\ \A j \in size + 1 .. size + Len(t) : data'[active][j] = t[j - size]
           /\ \A b \in live : b # active => data'[b] = data[b]
<1> USE DEF Inv
<1> DEFINE u == data[active] \o t
<1>1. /\ active \in Offsets /\ active \in live /\ active \in Nat
      /\ next = active + size /\ size \in Nat
      /\ data[active] \in Seq(Cell) /\ Len(t) \in Nat
  BY OpenFacts
<1>2. Len(data[active]) = size
  BY DEF InvOpen
<1>3. /\ u \in Seq(Cell)
      /\ Len(u) = Len(data[active]) + Len(t)
      /\ \A j \in 1 .. Len(data[active]) : u[j] = data[active][j]
      /\ \A j \in Len(data[active]) + 1 .. Len(data[active]) + Len(t) :
            u[j] = t[j - Len(data[active])]
  BY <1>1, ConcatFacts
<1> HIDE DEF u
<1>4. data' \in [Offsets -> Seq(Cell)]
      /\ data'[active] = u /\ \A b \in live : b # active => data'[b] = data[b]
  BY <1>1, <1>3 DEF TypeOK, u
<1>5. Positional(u, active)
  <2> SUFFICES ASSUME NEW i \in 1 .. Len(u), u[i].kind = "rec"
               PROVE  u[i].off = active + i - 1
    BY DEF Positional
  <2>1. Positional(data[active], active)
    BY <1>1 DEF InvDisk, InvFiles
  <2>2. CASE i \in 1 .. size
    BY <1>2, <1>3, <2>1, <2>2 DEF Positional
  <2>3. CASE i \in size + 1 .. size + Len(t)
    <3>1. i - size \in 1 .. Len(t) /\ u[i] = t[i - size]
      BY <1>1, <1>2, <1>3, <2>3
    <3>2. t[i - size].off = next + (i - size) - 1
      BY <3>1
    <3> QED BY <1>1, <2>3, <3>1, <3>2
  <2> QED BY <1>1, <1>2, <1>3, <2>2, <2>3
<1>6. active + Len(u) <= MaxOffset
  BY <1>1, <1>2, <1>3
<1>7. InvFiles'
  BY <1>4, <1>5, <1>6 DEF InvDisk, InvFiles
<1>8. \A b \in live : b <= active
  BY DEF InvOpen
<1>9. InvSealed'
  <2> SUFFICES ASSUME NEW b \in live, NEW c \in live, b < c
               PROVE  /\ data'[b] = durable[b]
                      /\ OnlyRecords(data'[b], Len(data'[b]))
                      /\ b + Len(data'[b]) <= c
                      /\ b + Len(data'[b]) \in live
    BY DEF InvSealed
  <2>1. b \in Nat /\ c \in Nat /\ b # active
    BY <1>1, <1>8 DEF TypeOK, Offsets
  <2> QED BY <1>4, <2>1 DEF InvDisk, InvSealed
<1>10. InvDir'
  BY DEF InvDisk, InvDir
<1> QED BY <1>2, <1>3, <1>4, <1>7, <1>9, <1>10 DEF InvDisk

(***************************************************************************)
(* The records AppendAll writes.                                           *)
(***************************************************************************)
LEMMA StagedFacts ==
    ASSUME NEW first \in Nat, NEW events \in Seq(Events \cup {Invalid}),
           NEW n \in 0 .. Len(events), \A i \in 1 .. n : events[i] # Invalid
    PROVE  /\ Staged(first, events, n) \in Seq(Cell)
           /\ Len(Staged(first, events, n)) = n
           /\ \A i \in 1 .. n : /\ Staged(first, events, n)[i].kind = "rec"
                                /\ Staged(first, events, n)[i].off = first + i - 1
                                /\ Staged(first, events, n)[i].ev \in Events
<1> DEFINE f == Staged(first, events, n)
<1>1. \A i \in 1 .. n : first + i - 1 \in Nat /\ events[i] \in Events
  OBVIOUS
<1>2. f = [i \in 1 .. n |-> Rec(first + i - 1, events[i])]
  BY DEF Staged
<1> HIDE DEF f
<1>3. \A i \in 1 .. n : /\ f[i] \in Cell /\ f[i].kind = "rec"
                       /\ f[i].off = first + i - 1 /\ f[i].ev \in Events
  BY <1>1, <1>2 DEF Rec, Cell
<1>4. f \in [1 .. n -> Cell]
  BY <1>2, <1>3
<1>5. f \in Seq(Cell) /\ Len(f) = n
  BY <1>4, FunctionIsFile
<1> QED BY <1>3, <1>5 DEF f

-----------------------------------------------------------------------------
(***************************************************************************)
(* Every action preserves the invariant.                                   *)
(***************************************************************************)
LEMMA OpenEmptyInv == Inv /\ OpenEmpty => Inv'
<1> SUFFICES ASSUME Inv, OpenEmpty PROVE Inv'
  OBVIOUS
<1> USE DEF Inv
<1>1. /\ UNCHANGED <<live, durableDir, data, durable, acked, spoiled>>
      /\ UNCHANGED <<bases, active, next, size, sealed, sinceSync, rest, countsFrom>>
      /\ pc = "down" /\ pc' = "create" /\ live = {}
  BY DEF OpenEmpty, disk, memory
<1>2. bases = {}
  BY <1>1 DEF InvOpen
<1>3. TypeOK'
  BY <1>1 DEF TypeOK, PCs
<1>4. InvDisk'
  BY <1>1 DEF InvDisk, InvFiles, InvDir, InvSealed
<1>5. InvClosed' /\ InvOpen'
  BY <1>1, <1>2 DEF InvClosed, InvOpen
<1> QED BY <1>3, <1>4, <1>5

LEMMA OpenExistingInv == Inv /\ OpenExisting => Inv'
<1> SUFFICES ASSUME Inv, OpenExisting PROVE Inv'
  OBVIOUS
<1> USE DEF Inv
<1>0. PICK b \in live : \E n \in 0 .. Len(data[b]) :
        /\ \A c \in live : c <= b
        /\ ScanStops(data[b], b, n)
        /\ data' = [data EXCEPT ![b] = SubSeq(data[b], 1, n)]
        /\ active' = b
        /\ next' = NextAfter(data[b], b, n)
        /\ size' = n
  BY DEF OpenExisting, OpenNamed
<1>1. PICK n \in 0 .. Len(data[b]) :
        /\ \A c \in live : c <= b
        /\ ScanStops(data[b], b, n)
        /\ data' = [data EXCEPT ![b] = SubSeq(data[b], 1, n)]
        /\ active' = b
        /\ next' = NextAfter(data[b], b, n)
        /\ size' = n
  BY <1>0
<1>2. /\ pc = "down" /\ pc' = "idle" /\ bases' = live /\ ~sealed' /\ sealed' \in BOOLEAN
      /\ sinceSync' = 0 /\ UNCHANGED <<live, durableDir, durable, rest, acked, spoiled>>
      /\ countsFrom' = next'
  BY DEF OpenExisting, OpenNamed
<1>3. bases = {} /\ Len(rest) = 0
  BY <1>2 DEF InvOpen, InvClosed
<1> DEFINE u == SubSeq(data[b], 1, n)
<1>4. b \in Offsets /\ b \in Nat /\ data[b] \in Seq(Cell) /\ Len(data[b]) \in Nat /\ n \in Nat
  BY DEF TypeOK, Offsets
<1>5. u \in Seq(Cell) /\ Len(u) = n /\ \A i \in 1 .. n : u[i] = data[b][i]
  BY <1>1, <1>4, SubSeqProperties
<1> HIDE DEF u
<1>6. /\ data' \in [Offsets -> Seq(Cell)] /\ data'[b] = u
      /\ \A c \in live : c # b => data'[c] = data[c]
  BY <1>1, <1>4, <1>5 DEF TypeOK, u
<1>7. /\ Positional(data[b], b) /\ b + Len(data[b]) <= MaxOffset
  BY DEF InvDisk, InvFiles
<1>8. \A i \in 1 .. n : data[b][i].kind = "rec"
  BY <1>1 DEF ScanStops, ValidTo, Accepts
<1>9. next' = b + n
  <2>1. CASE n = 0
    BY <1>1, <1>4, <2>1 DEF NextAfter
  <2>2. CASE n # 0
    <3>1. data[b][n].off = b + n - 1
      <4>1. n \in 1 .. n /\ n \in 1 .. Len(data[b])
        BY <1>4, <2>2
      <4> QED BY <1>7, <1>8, <4>1 DEF Positional
    <3> QED BY <1>1, <1>4, <2>2, <3>1 DEF NextAfter
  <2> QED BY <2>1, <2>2
<1>10. TypeOK'
  <2>1. active' \in Offsets /\ next' \in Nat /\ size' \in Nat
    BY <1>1, <1>4, <1>9
  <2> QED BY <1>2, <1>6, <2>1 DEF TypeOK, PCs
<1>11. InvFiles'
  <2>0. n <= Len(data[b]) /\ b + Len(u) <= MaxOffset
    BY <1>4, <1>5, <1>7 DEF Offsets
  <2>1. Positional(u, b)
    <3>1. SUFFICES ASSUME NEW i \in 1 .. Len(u), u[i].kind = "rec"
                   PROVE  u[i].off = b + i - 1
      BY DEF Positional
    <3>2. i \in 1 .. Len(data[b]) /\ u[i] = data[b][i]
      BY <1>4, <1>5, <2>0
    <3> QED BY <1>7, <3>1, <3>2 DEF Positional
  <2> QED BY <1>2, <1>6, <2>0, <2>1 DEF InvDisk, InvFiles
<1>12. InvDir'
  BY <1>2 DEF InvDisk, InvDir
<1>13. InvSealed'
  <2> SUFFICES ASSUME NEW d \in live, NEW c \in live, d < c
               PROVE  /\ data'[d] = durable[d]
                      /\ OnlyRecords(data'[d], Len(data'[d]))
                      /\ d + Len(data'[d]) <= c
                      /\ d + Len(data'[d]) \in live
    BY <1>2 DEF InvSealed
  <2>1. d # b
    BY <1>1, <1>4 DEF TypeOK, Offsets
  <2> QED BY <1>6, <2>1 DEF InvDisk, InvSealed
<1>14. InvClosed'
  BY <1>2 DEF InvClosed
<1>15. InvOpen'
  <2>1. next' + Len(rest') <= MaxOffset
    BY <1>2, <1>3, <1>4, <1>7, <1>9
  <2>2. OnlyRecords(u, n)
    BY <1>5, <1>8 DEF OnlyRecords
  <2>3. active' = b /\ size' = n /\ \A c \in live : c <= b
    BY <1>1
  <2>4. active' \in bases' /\ bases' \subseteq live' /\ \A c \in bases' : c <= active'
    BY <1>2, <2>3
  <2>5. /\ next' = active' + size' /\ size' <= Len(data'[active'])
        /\ OnlyRecords(data'[active'], size') /\ Len(data'[active']) = size'
    BY <1>4, <1>5, <1>6, <1>9, <2>2, <2>3
  <2>6. live' \subseteq bases' /\ pc' = "idle"
    BY <1>2
  <2> QED BY <2>1, <2>4, <2>5, <2>6 DEF InvOpen
<1> QED BY <1>10, <1>11, <1>12, <1>13, <1>14, <1>15 DEF InvDisk

LEMMA AppendAllInv == Inv /\ AppendAll => Inv'
<1> SUFFICES ASSUME Inv, AppendAll PROVE Inv'
  OBVIOUS
<1> USE DEF Inv
<1>1. PICK n \in 1 .. Len(rest) :
        /\ Takes(n)
        /\ data' = [data EXCEPT ![active] = @ \o Staged(next, rest, n)]
        /\ next' = next + n
        /\ size' = size + n
        /\ sinceSync' = sinceSync + n
        /\ rest' = IF EncodeError(n) THEN <<>> ELSE SubSeq(rest, n + 1, Len(rest))
        /\ pc' = CASE EncodeError(n) -> "idle"
                   [] n = Len(rest) -> "sync"
                   [] OTHER -> "append"
  BY DEF AppendAll
<1>2. /\ pc = "append" /\ ~Full /\ ~sealed
      /\ UNCHANGED <<live, durableDir, durable, bases, active, sealed, countsFrom, acked, spoiled>>
  BY DEF AppendAll
<1>3. bases # {}
  BY <1>2 DEF InvClosed
<1>4. /\ active \in Nat /\ next \in Nat /\ size \in Nat /\ next = active + size
      /\ Len(rest) \in Nat /\ rest \in Seq(Events \cup {Invalid})
      /\ next + Len(rest) <= MaxOffset /\ n \in Nat
  BY <1>3, OpenFacts, SMTT(30) DEF InvOpen, TypeOK
<1> DEFINE t == Staged(next, rest, n)
<1>5. /\ t \in Seq(Cell) /\ Len(t) = n
      /\ \A i \in 1 .. n : t[i].kind = "rec" /\ t[i].off = next + i - 1
  <2>1. n \in 0 .. Len(rest) /\ \A i \in 1 .. n : rest[i] # Invalid
    BY <1>1 DEF Takes
  <2> QED BY <1>4, <2>1, StagedFacts, ZenonT(40)
<1> HIDE DEF t
<1>6. data' = [data EXCEPT ![active] = data[active] \o t]
  BY <1>1 DEF t
<1>7. /\ InvDisk' /\ data' \in [Offsets -> Seq(Cell)]
      /\ Len(data'[active]) = size + n
      /\ \A j \in 1 .. size : data'[active][j] = data[active][j]
      /\ \A j \in size + 1 .. size + n : data'[active][j] = t[j - size]
  <2>1. UNCHANGED <<live, durableDir, durable>> /\ next + Len(t) <= MaxOffset
    BY <1>2, <1>4, <1>5
  <2>2. \A j \in 1 .. Len(t) : t[j].kind = "rec" => t[j].off = next + j - 1
    BY <1>5
  <2>3. /\ InvDisk' /\ data' \in [Offsets -> Seq(Cell)]
        /\ Len(data'[active]) = size + Len(t)
        /\ \A j \in 1 .. size : data'[active][j] = data[active][j]
        /\ \A j \in size + 1 .. size + Len(t) : data'[active][j] = t[j - size]
    BY <1>2, <1>3, <1>5, <1>6, <2>1, <2>2, FileAppendDisk
  <2> QED BY <1>5, <2>3
<1>8. rest' \in Seq(Events \cup {Invalid}) /\ next' + Len(rest') <= MaxOffset
  <2>0. next' = next + n /\ n <= Len(rest)
    BY <1>1, <1>4
  <2>1. CASE EncodeError(n)
    <3>1. rest' \in Seq(Events \cup {Invalid}) /\ Len(rest') = 0
      BY <1>1, <2>1, EmptySeq
    <3> QED BY <1>4, <2>0, <3>1
  <2>2. CASE ~EncodeError(n)
    <3>1. rest' = SubSeq(rest, n + 1, Len(rest))
      BY <1>1, <2>2
    <3>2. rest' \in Seq(Events \cup {Invalid}) /\ Len(rest') = Len(rest) - n
      <4>1. \A i \in n + 1 .. Len(rest) : rest[i] \in Events \cup {Invalid}
        BY <1>4, <2>0
      <4> QED BY <1>4, <2>0, <3>1, <4>1, SubSeqProperties
    <3> QED BY <1>4, <2>0, <3>2
  <2> QED BY <2>1, <2>2
<1>9. pc' \in {"idle", "sync", "append"}
      /\ next' = next + n /\ size' = size + n /\ sinceSync' = sinceSync + n
  BY <1>1
<1>10. TypeOK'
  <2>1. next' \in Nat /\ size' \in Nat /\ sinceSync' \in Nat /\ pc' \in PCs
    BY <1>4, <1>9 DEF TypeOK, PCs
  <2> QED BY <1>2, <1>7, <1>8, <2>1 DEF TypeOK
<1>11. InvClosed'
  BY <1>2, <1>3 DEF InvClosed
<1>12. OnlyRecords(data'[active], size + n)
  <2> SUFFICES ASSUME NEW j \in 1 .. size + n PROVE data'[active][j].kind = "rec"
    BY DEF OnlyRecords
  <2>1. CASE j \in 1 .. size
    BY <1>3, <1>7, <2>1 DEF InvOpen, OnlyRecords
  <2>2. CASE j \in size + 1 .. size + n
    <3>1. j - size \in 1 .. n
      BY <1>4, <2>2
    <3> QED BY <1>5, <1>7, <2>2, <3>1
  <2> QED BY <1>4, <2>1, <2>2
<1>13. live \subseteq bases
  BY <1>2, <1>3 DEF InvOpen
<1>14. InvOpen'
  <2>1. active' \in bases' /\ bases' \subseteq live' /\ \A b \in bases' : b <= active'
    BY <1>2, <1>3 DEF InvOpen
  <2>2. /\ next' = active' + size' /\ size' <= Len(data'[active'])
        /\ OnlyRecords(data'[active'], size') /\ Len(data'[active']) = size'
    BY <1>2, <1>4, <1>7, <1>9, <1>12
  <2>3. live' \subseteq bases' /\ pc' \in {"idle", "sync", "append"}
    BY <1>2, <1>9, <1>13
  <2> QED BY <1>8, <2>1, <2>2, <2>3 DEF InvOpen
<1> QED BY <1>7, <1>10, <1>11, <1>14

(***************************************************************************)
(* The cells that a failed write of k whole records and a torn one adds.   *)
(***************************************************************************)
LEMMA FailedWriteFacts ==
    ASSUME NEW first \in Nat,
           NEW events \in Seq(Events \cup {Invalid}), NEW k \in 0 .. Len(events),
           \A i \in 1 .. k : events[i] # Invalid,
           NEW half \in 0 .. 1
    PROVE  /\ ShortWrite(first, events, k, half) \in Seq(Cell)
           /\ Len(ShortWrite(first, events, k, half)) <= k + 1
           /\ \A j \in 1 .. Len(ShortWrite(first, events, k, half)) :
                ShortWrite(first, events, k, half)[j].kind = "rec" =>
                    /\ ShortWrite(first, events, k, half)[j].off = first + j - 1
                    /\ ShortWrite(first, events, k, half)[j].ev \in Events
<1> DEFINE s == Staged(first, events, k)
           tail == [i \in 1 .. half |-> Torn]
           t == ShortWrite(first, events, k, half)
<1>0. /\ tail \in Seq(Cell) /\ Len(tail) \in 0 .. 1
      /\ \A j \in 1 .. Len(tail) : tail[j] = Torn
  <2>1. tail \in [1 .. half -> Cell] /\ half \in Nat
    BY CellFacts
  <2> QED BY <2>1, FunctionIsFile
<1>1. /\ s \in Seq(Cell) /\ Len(s) = k
      /\ \A i \in 1 .. k : s[i].kind = "rec" /\ s[i].off = first + i - 1 /\ s[i].ev \in Events
  BY StagedFacts
<1>2. t = s \o tail
  BY DEF ShortWrite
<1> HIDE DEF s, t, tail
<1>3. /\ t \in Seq(Cell) /\ Len(t) = Len(s) + Len(tail)
      /\ \A j \in 1 .. Len(s) : t[j] = s[j]
      /\ \A j \in Len(s) + 1 .. Len(s) + Len(tail) : t[j] = tail[j - Len(s)]
  BY <1>0, <1>1, <1>2, ConcatFacts
<1>4. Len(t) = k + Len(tail) /\ k \in Nat /\ Len(tail) \in Nat
  BY <1>0, <1>1, <1>3
<1>5. \A j \in 1 .. Len(t) :
        t[j].kind = "rec" => t[j].off = first + j - 1 /\ t[j].ev \in Events
  <2> SUFFICES ASSUME NEW j \in 1 .. Len(t), t[j].kind = "rec"
               PROVE  t[j].off = first + j - 1 /\ t[j].ev \in Events
    OBVIOUS
  <2>1. CASE j \in 1 .. k
    BY <1>1, <1>3, <2>1
  <2>2. CASE j \in k + 1 .. k + Len(tail)
    <3>1. j - k \in 1 .. Len(tail)
      BY <1>4, <2>2
    <3>2. t[j] = Torn
      BY <1>0, <1>1, <1>3, <2>2, <3>1
    <3> QED BY <3>2, CellFacts
  <2> QED BY <1>4, <2>1, <2>2
<1>6. Len(t) <= k + 1
  BY <1>0, <1>4
<1> QED BY <1>3, <1>5, <1>6, Zenon DEF t

LEMMA AppendFailsInv == Inv /\ AppendFails => Inv'
<1> SUFFICES ASSUME Inv, AppendFails PROVE Inv'
  OBVIOUS
<1> USE DEF Inv
<1>1. PICK n \in 1 .. Len(rest), k \in 0 .. Len(rest), half \in 0 .. 1 :
        /\ Takes(n)
        /\ k < n
        /\ data' = [data EXCEPT ![active] = @ \o ShortWrite(next, rest, k, half)]
  BY DEF AppendFails
<1>2. /\ pc = "append" /\ ~Full /\ ~sealed /\ sealed' = TRUE
      /\ UNCHANGED <<live, durableDir, durable, bases, active, next, size, sinceSync, countsFrom, acked>>
      /\ spoiled' = TRUE
  BY DEF AppendFails
<1>3. pc' = "idle" /\ rest' \in Seq(Events \cup {Invalid}) /\ Len(rest') = 0
  BY ReturnFacts DEF AppendFails
<1>4. bases # {}
  BY <1>2 DEF InvClosed
<1>5. /\ active \in Nat /\ next \in Nat /\ size \in Nat /\ next = active + size
      /\ Len(rest) \in Nat /\ rest \in Seq(Events \cup {Invalid})
      /\ next + Len(rest) <= MaxOffset /\ n \in Nat /\ k \in Nat /\ data[active] \in Seq(Cell)
  <2>1. /\ active \in Nat /\ next \in Nat /\ size \in Nat /\ next = active + size
        /\ Len(rest) \in Nat /\ data[active] \in Seq(Cell)
    BY <1>4, OpenFacts
  <2>2. rest \in Seq(Events \cup {Invalid}) /\ next + Len(rest) <= MaxOffset
    BY <1>4 DEF InvOpen, TypeOK
  <2> QED BY <2>1, <2>2
<1>7. \A i \in 1 .. k : rest[i] # Invalid
  BY <1>1, <1>5 DEF Takes
<1>8. k + 1 <= Len(rest)
  BY <1>1, <1>5
<1> DEFINE t == ShortWrite(next, rest, k, half)
<1>9. /\ t \in Seq(Cell) /\ Len(t) <= k + 1
      /\ \A j \in 1 .. Len(t) : t[j].kind = "rec" => t[j].off = next + j - 1
  <2>1. next \in Nat /\ rest \in Seq(Events \cup {Invalid}) /\ k \in 0 .. Len(rest)
    BY <1>5
  <2> QED BY <1>7, <2>1, FailedWriteFacts, ZenonT(40)
<1>10. data' = [data EXCEPT ![active] = data[active] \o t]
  BY <1>1, Zenon
<1> HIDE DEF t
<1>11. next + Len(t) <= MaxOffset /\ Len(t) \in Nat
  BY <1>5, <1>8, <1>9
<1>12. /\ InvDisk' /\ data' \in [Offsets -> Seq(Cell)]
       /\ Len(data'[active]) = size + Len(t)
       /\ \A j \in 1 .. size : data'[active][j] = data[active][j]
  BY <1>2, <1>4, <1>9, <1>10, <1>11, FileAppendDisk
<1>13. TypeOK'
  <2>1. sealed' \in BOOLEAN /\ spoiled' \in BOOLEAN /\ pc' \in PCs
    BY <1>2, <1>3 DEF PCs
  <2> QED BY <1>2, <1>3, <1>12, <2>1 DEF TypeOK
<1>14. InvClosed'
  BY <1>2, <1>4 DEF InvClosed
<1>15. InvOpen'
  <2>1. active' \in bases' /\ bases' \subseteq live' /\ \A b \in bases' : b <= active'
    BY <1>2, <1>4 DEF InvOpen
  <2>2. live' \subseteq bases'
    BY <1>2, <1>4 DEF InvOpen
  <2>3. /\ next' = active' + size' /\ size' <= Len(data'[active'])
        /\ OnlyRecords(data'[active'], size')
    <3>1. OnlyRecords(data[active], size)
      BY <1>4 DEF InvOpen
    <3>2. OnlyRecords(data'[active], size)
      BY <1>12, <3>1 DEF OnlyRecords
    <3>3. size <= Len(data'[active])
      BY <1>5, <1>11, <1>12
    <3> QED BY <1>2, <1>5, <3>2, <3>3
  <2>4. next' + Len(rest') <= MaxOffset
    BY <1>2, <1>3, <1>5
  <2>5. sealed' /\ ~Full'
    BY <1>2 DEF Full
  <2> QED BY <1>3, <2>1, <2>2, <2>3, <2>4, <2>5 DEF InvOpen
<1> QED BY <1>12, <1>13, <1>14, <1>15

LEMMA RollSyncInv == Inv /\ RollSync => Inv'
<1> SUFFICES ASSUME Inv, RollSync PROVE Inv'
  OBVIOUS
<1> USE DEF Inv
<1>1. /\ pc = "append" /\ Full /\ sealed' = TRUE /\ pc' = "create"
      /\ durable' = [durable EXCEPT ![active] = data[active]]
      /\ UNCHANGED <<live, durableDir, data, bases, active, next, size, sinceSync, rest, countsFrom,
                     acked, spoiled>>
  BY DEF RollSync, FileSync
<1>2. bases # {}
  BY <1>1 DEF InvClosed
<1>3. InvDisk' /\ durable' \in [Offsets -> Seq(Cell)]
  BY <1>1, <1>2, FileSyncDisk
<1>4. TypeOK'
  <2>1. sealed' \in BOOLEAN /\ pc' \in PCs
    BY <1>1 DEF PCs
  <2> QED BY <1>1, <1>3, <2>1 DEF TypeOK
<1>5. InvClosed'
  BY <1>1, <1>2 DEF InvClosed
<1>6. InvOpen'
  <2>1. durable'[active'] = data'[active'] /\ Full' /\ active \in Offsets
    BY <1>1, <1>2, OpenFacts DEF Full, TypeOK
  <2>2. next \in live \ bases => durable'[next] = durable[next]
    BY <1>1, <1>2, <2>1 DEF InvOpen, TypeOK
  <2> QED BY <1>1, <1>2, <2>1, <2>2 DEF InvOpen
<1> QED BY <1>3, <1>4, <1>5, <1>6

LEMMA SyncInv == Inv /\ Sync => Inv'
<1> SUFFICES ASSUME Inv, Sync PROVE Inv'
  OBVIOUS
<1> USE DEF Inv
<1>1. /\ pc \in {"idle", "sync"} /\ sinceSync' = 0 /\ acked' = acked \cup Appended
      /\ durable' = [durable EXCEPT ![active] = data[active]]
      /\ UNCHANGED <<live, durableDir, data, bases, active, next, size, sealed, countsFrom, spoiled>>
  BY DEF Sync, FileSync
<1>2. pc' = "idle" /\ rest' \in Seq(Events \cup {Invalid}) /\ Len(rest') = 0
  BY ReturnFacts DEF Sync, FileSync
<1>3. bases # {}
  BY <1>1 DEF InvClosed
<1>4. InvDisk' /\ durable' \in [Offsets -> Seq(Cell)]
  BY <1>1, <1>3, FileSyncDisk
<1>5. Appended \subseteq Cell
  <2>1. \A b \in bases : data[b] \in Seq(Cell)
    BY DEF TypeOK
  <2> QED BY <2>1, LenProperties DEF Appended, Range
<1>6. TypeOK'
  <2>1. acked' \subseteq Cell /\ sinceSync' \in Nat /\ pc' \in PCs
    BY <1>1, <1>2, <1>5 DEF TypeOK, PCs
  <2> QED BY <1>1, <1>2, <1>4, <2>1 DEF TypeOK
<1>7. InvClosed'
  BY <1>1, <1>3 DEF InvClosed
<1>8. InvOpen'
  <2>1. active \in Offsets /\ next \in Nat /\ next <= MaxOffset
    BY <1>3, OpenFacts
  <2>2. next' + Len(rest') <= MaxOffset
    BY <1>1, <1>2, <2>1
  <2>3. next \in live \ bases => durable'[next] = durable[next]
    BY <1>1, <1>3, <2>1 DEF InvOpen, TypeOK
  <2> QED BY <1>1, <1>2, <1>3, <2>2, <2>3 DEF InvOpen, Full
<1> QED BY <1>4, <1>6, <1>7, <1>8

(***************************************************************************)
(* The file that CreateSegment makes lies past every other.                *)
(***************************************************************************)
LEMMA CreateFacts ==
    ASSUME Inv, pc = "create", next \notin live
    PROVE  /\ next \in Offsets /\ next \in Nat
           /\ \A b \in live : b < next /\ data[b] = durable[b]
           /\ \A b \in live : /\ OnlyRecords(data[b], Len(data[b]))
                              /\ b + Len(data[b]) <= next
                              /\ b + Len(data[b]) \in live \cup {next}
<1> USE DEF Inv
<1>1. CASE bases = {}
  <2>1. live = {} /\ next = 0
    BY <1>1 DEF InvClosed
  <2> QED BY <2>1 DEF Offsets
<1>2. CASE bases # {}
  <2>1. /\ active \in Nat /\ next \in Nat /\ size \in Nat /\ active \in live
        /\ next = active + size /\ next \in Offsets /\ Len(data[active]) \in Nat
    BY <1>2, OpenFacts
  <2>2. Full /\ durable[active] = data[active] /\ Len(data[active]) = size
        /\ OnlyRecords(data[active], size)
    BY <1>2 DEF InvOpen
  <2>3. \A b \in live : b <= active /\ b \in Nat
    BY <1>2 DEF InvOpen, TypeOK, Offsets
  <2>4. active < next
    BY <2>1, <2>2 DEF Full
  <2> SUFFICES ASSUME NEW b \in live
               PROVE  /\ b < next /\ data[b] = durable[b]
                      /\ OnlyRecords(data[b], Len(data[b]))
                      /\ b + Len(data[b]) <= next
                      /\ b + Len(data[b]) \in live \cup {next}
    BY <2>1
  <2>5. b < next
    BY <2>1, <2>3, <2>4
  <2>6. CASE b = active
    BY <2>1, <2>2, <2>5, <2>6
  <2>7. CASE b # active
    <3>1. b < active
      BY <2>1, <2>3, <2>7
    <3>2. /\ data[b] = durable[b]
          /\ OnlyRecords(data[b], Len(data[b]))
          /\ b + Len(data[b]) <= active
          /\ b + Len(data[b]) \in live
      BY <2>1, <3>1 DEF InvDisk, InvSealed
    <3>3. b + Len(data[b]) \in Nat
      BY <2>3, <3>2
    <3> QED BY <2>1, <2>4, <2>5, <3>2, <3>3
  <2> QED BY <2>6, <2>7
<1> QED BY <1>1, <1>2

LEMMA CreateSegmentInv == Inv /\ CreateSegment => Inv'
<1> SUFFICES ASSUME Inv, CreateSegment PROVE Inv'
  OBVIOUS
<1> USE DEF Inv
<1>1. /\ pc = "create" /\ next \notin live /\ live' = live \cup {next} /\ pc' = "dirsync"
      /\ UNCHANGED <<durableDir, bases, active, next, size, sealed, sinceSync, rest, countsFrom,
                     acked, spoiled>>
  BY DEF CreateSegment, FileCreate, memory
<1>2. /\ next \in Offsets /\ next \in Nat
      /\ \A b \in live : b < next /\ data[b] = durable[b]
      /\ \A b \in live : /\ OnlyRecords(data[b], Len(data[b]))
                         /\ b + Len(data[b]) <= next
                         /\ b + Len(data[b]) \in live \cup {next}
  BY <1>1, CreateFacts
<1>3. /\ data' \in [Offsets -> Seq(Cell)] /\ durable' \in [Offsets -> Seq(Cell)]
      /\ Len(data'[next]) = 0 /\ Len(durable'[next]) = 0
      /\ \A b \in live : data'[b] = data[b] /\ durable'[b] = durable[b]
  <2> DEFINE none == <<>>
  <2>1. none \in Seq(Cell) /\ Len(none) = 0
    BY EmptySeq
  <2>2. data' = [data EXCEPT ![next] = none] /\ durable' = [durable EXCEPT ![next] = none]
    BY DEF CreateSegment, FileCreate
  <2> HIDE DEF none
  <2> QED BY <1>1, <1>2, <2>1, <2>2 DEF TypeOK
<1>4. TypeOK'
  <2>1. live' \subseteq Offsets /\ pc' \in PCs
    BY <1>1, <1>2 DEF TypeOK, PCs
  <2> QED BY <1>1, <1>3, <2>1 DEF TypeOK
<1>5. InvFiles'
  <2>1. /\ Positional(data'[next], next) /\ next + Len(data'[next]) <= MaxOffset
        /\ Positional(durable'[next], next) /\ next + Len(durable'[next]) <= MaxOffset
    BY <1>2, <1>3 DEF Positional, Offsets
  <2> QED BY <1>1, <1>3, <2>1 DEF InvDisk, InvFiles
<1>6. InvDir'
  BY <1>1, <1>2 DEF InvDisk, InvDir
<1>7. InvSealed'
  <2> SUFFICES ASSUME NEW b \in live \cup {next}, NEW c \in live \cup {next}, b < c
               PROVE  /\ data'[b] = durable'[b]
                      /\ OnlyRecords(data'[b], Len(data'[b]))
                      /\ b + Len(data'[b]) <= c
                      /\ b + Len(data'[b]) \in live \cup {next}
    BY <1>1 DEF InvSealed
  <2>1. b \in live
    <3>1. \A d \in live : d \in Nat
      BY DEF TypeOK, Offsets
    <3> QED BY <1>2, <3>1
  <2>2. c \in live => b + Len(data[b]) <= c
    BY <2>1 DEF InvDisk, InvSealed
  <2> QED BY <1>2, <1>3, <2>1, <2>2
<1>8. InvClosed'
  <2> SUFFICES ASSUME bases = {} PROVE InvClosed'
    BY <1>1 DEF InvClosed
  <2>1. live = {} /\ active = 0 /\ next = 0 /\ size = 0 /\ ~sealed /\ Len(rest) = 0
    BY <1>1 DEF InvClosed
  <2>2. live' = {0} /\ Len(data'[0]) = 0 /\ Len(durable'[0]) = 0
    BY <1>1, <1>3, <2>1
  <2> QED BY <1>1, <2>1, <2>2 DEF InvClosed
<1>9. InvOpen'
  <2> SUFFICES ASSUME bases # {} PROVE InvOpen'
    BY <1>1 DEF InvOpen
  <2>1. active \in live /\ next \notin bases
    BY <1>1, OpenFacts DEF InvOpen
  <2>2. active' \in bases' /\ bases' \subseteq live' /\ \A b \in bases' : b <= active'
    BY <1>1 DEF InvOpen
  <2>3. live' \subseteq bases' \cup {next'} /\ next' \in live' \ bases'
    BY <1>1, <2>1 DEF InvOpen
  <2>4. next' = active' + size' /\ next' + Len(rest') <= MaxOffset
    BY <1>1 DEF InvOpen
  <2>5. sealed' /\ Full'
    BY <1>1 DEF InvOpen, Full
  <2>6. size' <= Len(data'[active']) /\ OnlyRecords(data'[active'], size')
        /\ Len(data'[active']) = size' /\ durable'[active'] = data'[active']
    BY <1>1, <1>3, <2>1 DEF InvOpen
  <2>7. Len(data'[next']) = 0 /\ Len(durable'[next']) = 0
    BY <1>1, <1>3
  <2> QED BY <1>1, <2>2, <2>3, <2>4, <2>5, <2>6, <2>7 DEF InvOpen
<1> QED BY <1>4, <1>5, <1>6, <1>7, <1>8, <1>9 DEF InvDisk

LEMMA SyncDirInv == Inv /\ SyncDir => Inv'
<1> SUFFICES ASSUME Inv, SyncDir PROVE Inv'
  OBVIOUS
<1> USE DEF Inv
<1>1. /\ pc = "dirsync" /\ durableDir' = live /\ bases' = bases \cup {next}
      /\ active' = next /\ size' = 0 /\ sealed' = FALSE /\ sinceSync' = 0
      /\ pc' \in {"idle", "append"}
      /\ UNCHANGED <<live, data, durable, next, rest, countsFrom, acked, spoiled>>
  BY DEF SyncDir, DirSync
<1>2. /\ next \in live /\ live \subseteq bases \cup {next} /\ bases \subseteq live
      /\ \A b \in bases : b <= next
      /\ Len(data[next]) = 0 /\ next + Len(rest) <= MaxOffset
  <2>1. CASE bases = {}
    <3>1. live = {0} /\ next = 0 /\ Len(data[0]) = 0 /\ Len(rest) = 0
      BY <1>1, <2>1 DEF InvClosed
    <3> QED BY <2>1, <3>1
  <2>2. CASE bases # {}
    <3>1. next = active + size /\ active \in Nat /\ size \in Nat
      BY <2>2, OpenFacts
    <3>2. next \in live \ bases /\ \A b \in bases : b <= active
      BY <1>1, <2>2 DEF InvOpen
    <3>3. \A b \in bases : b <= next
      BY <3>1, <3>2 DEF TypeOK, Offsets
    <3> QED BY <2>2, <3>2, <3>3 DEF InvOpen
  <2> QED BY <2>1, <2>2
<1>3. next \in Offsets /\ next \in Nat
  BY <1>2 DEF TypeOK, Offsets
<1>4. TypeOK'
  <2>1. sealed' \in BOOLEAN /\ pc' \in PCs
    BY <1>1 DEF PCs
  <2> QED BY <1>1, <1>3, <2>1 DEF TypeOK
<1>5. InvDisk'
  BY <1>1 DEF InvDisk, InvFiles, InvDir, InvSealed
<1>6. InvClosed'
  BY <1>1 DEF InvClosed
<1>7. InvOpen'
  <2>1. active' \in bases' /\ bases' \subseteq live' /\ live' \subseteq bases'
        /\ \A b \in bases' : b <= active'
    BY <1>1, <1>2, <1>3
  <2>2. next' = active' + size' /\ next' + Len(rest') <= MaxOffset
    BY <1>1, <1>2, <1>3
  <2>3. size' <= Len(data'[active']) /\ OnlyRecords(data'[active'], size')
        /\ Len(data'[active']) = size'
    BY <1>1, <1>2 DEF OnlyRecords
  <2> QED BY <1>1, <2>1, <2>2, <2>3 DEF InvOpen
<1> QED BY <1>4, <1>5, <1>6, <1>7

(***************************************************************************)
(* A failed creation and a failed sync of the directory: an Open gives no  *)
(* log, an Append returns.                                                 *)
(***************************************************************************)
DirFails ==
    /\ IF bases = {}
       THEN Forget
       ELSE Return /\ UNCHANGED <<bases, active, next, size, sealed, sinceSync, countsFrom>>
    /\ UNCHANGED <<disk, acked, spoiled>>

LEMMA DirFailsInv == Inv /\ DirFails => Inv'
<1> SUFFICES ASSUME Inv, DirFails PROVE Inv'
  OBVIOUS
<1>1. CASE bases = {}
  BY <1>1, ForgetInv DEF DirFails
<1>2. CASE bases # {}
  <2>1. /\ Return
        /\ UNCHANGED <<bases, active, next, size, sealed, sinceSync, countsFrom, disk, acked, spoiled>>
    BY <1>2 DEF DirFails
  <2>2. pc' = "idle" /\ rest' \in Seq(Events \cup {Invalid}) /\ Len(rest') = 0
    BY <2>1, ReturnFacts
  <2>3. next + Len(rest') <= MaxOffset
    BY <1>2, <2>2, OpenFacts
  <2>4. sinceSync' \in Nat
    BY <2>1 DEF Inv, TypeOK
  <2> QED BY <1>2, <2>1, <2>2, <2>3, <2>4, QuietInv
<1> QED BY <1>1, <1>2

(***************************************************************************)
(* The steps that end at the caller and change neither disk nor segment.   *)
(***************************************************************************)
LEMMA ReturnInv ==
    ASSUME Inv, pc \in {"append", "sync"} \/ bases # {}, Return,
           UNCHANGED <<disk, bases, active, next, size, sealed, sinceSync, acked, spoiled>>,
           countsFrom' \in {countsFrom, next}
    PROVE  Inv'
<1>1. bases # {}
  BY DEF Inv, InvClosed
<1>2. pc' = "idle" /\ rest' \in Seq(Events \cup {Invalid}) /\ Len(rest') = 0
  BY ReturnFacts
<1>3. next + Len(rest') <= MaxOffset
  BY <1>1, <1>2, OpenFacts
<1>4. sinceSync' \in Nat
  BY DEF Inv, TypeOK
<1> QED BY <1>1, <1>2, <1>3, <1>4, QuietInv

LEMMA LogAppendInv ==
    ASSUME Inv, NEW events \in Batches, LogAppend(events)
    PROVE  Inv'
<1>1. /\ pc = "idle" /\ next + Len(events) <= MaxOffset /\ rest' = events /\ pc' = "append"
      /\ UNCHANGED <<disk, bases, active, next, size, sealed, sinceSync, countsFrom, acked, spoiled>>
  BY DEF LogAppend
<1>2. bases # {}
  BY <1>1 DEF Inv, InvClosed
<1>3. events \in Seq(Events \cup {Invalid})
  <2> DEFINE S == IF "invalid" \in Env THEN Events \cup {Invalid} ELSE Events
  <2>1. S \subseteq Events \cup {Invalid}
    OBVIOUS
  <2>2. events \in UNION {[1 .. m -> S] : m \in 0 .. MaxBatch}
    BY DEF Batches, BoundedSeq, SeqOf
  <2> HIDE DEF S
  <2>3. PICK m \in 0 .. MaxBatch : events \in [1 .. m -> S]
    BY <2>2
  <2>4. events \in [1 .. m -> Events \cup {Invalid}] /\ m \in Nat
    BY <2>1, <2>3, MaxBatchAssumption
  <2> QED BY <2>4, SeqDef
<1>4. sinceSync' \in Nat
  BY <1>1 DEF Inv, TypeOK
<1> QED BY <1>1, <1>2, <1>3, <1>4, QuietInv

(***************************************************************************)
(* What the three shapes of a power cut have in common.                    *)
(***************************************************************************)
PowerCutLeaves ==
    /\ Forget /\ UNCHANGED <<durableDir, acked>> /\ live' = durableDir
    /\ spoiled' \in BOOLEAN
    /\ data' \in [Offsets -> Seq(Cell)]
    /\ durable' \in [Offsets -> Seq(Cell)]
    /\ \A b \in durableDir : durable'[b] = durable[b]
    /\ \A b \in durableDir : Keeps(data[b], durable[b], data'[b])

LEMMA PowerCutFacts ==
    ASSUME TypeOK, NEW f \in [Offsets -> Seq(Cell)],
           \A b \in durableDir : Keeps(data[b], durable[b], f[b]),
           Forget, UNCHANGED <<durableDir, acked>>, live' = durableDir,
           spoiled' \in BOOLEAN, NEW none \in Seq(Cell),
           data' = [b \in Offsets |-> IF b \in durableDir THEN f[b] ELSE none],
           durable' = [b \in Offsets |-> IF b \in durableDir THEN durable[b] ELSE none]
    PROVE  PowerCutLeaves
<1>1. durableDir \subseteq Offsets /\ durable \in [Offsets -> Seq(Cell)]
  BY DEF TypeOK
<1>2. data' \in [Offsets -> Seq(Cell)] /\ durable' \in [Offsets -> Seq(Cell)]
  BY <1>1
<1>3. \A b \in durableDir : durable'[b] = durable[b] /\ data'[b] = f[b]
  BY <1>1
<1> QED BY <1>2, <1>3 DEF PowerCutLeaves

LEMMA CrashLeaves == Inv /\ Crash => PowerCutLeaves
<1> SUFFICES ASSUME TypeOK, Crash PROVE PowerCutLeaves
  BY DEF Inv
<1> DEFINE none == <<>>
<1>1. none \in Seq(Cell)
  BY EmptySeq
<1>2. /\ Forget /\ UNCHANGED <<durableDir, acked>> /\ live' = durableDir
      /\ spoiled' \in BOOLEAN
      /\ data' = [b \in Offsets |-> IF b \in durableDir THEN durable[b] ELSE none]
      /\ durable' = [b \in Offsets |-> IF b \in durableDir THEN durable[b] ELSE none]
  BY DEF Crash, PowerCut, TypeOK
<1> HIDE DEF none
<1>3. \A b \in durableDir : Keeps(data[b], durable[b], durable[b])
  <2>1. \A b \in durableDir : data[b] \in Seq(Cell) /\ durable[b] \in Seq(Cell)
    BY DEF TypeOK
  <2> QED BY <2>1, CrashKeeps
<1>4. durable \in [Offsets -> Seq(Cell)]
  BY DEF TypeOK
<1> QED BY <1>1, <1>2, <1>3, <1>4, PowerCutFacts, Zenon

LEMMA ExtendLeaves == Inv /\ Extend => PowerCutLeaves
<1> SUFFICES ASSUME TypeOK, Extend PROVE PowerCutLeaves
  BY DEF Inv
<1> DEFINE none == <<>>
           f == [b \in Offsets |-> CrashExtend(data[b], durable[b])]
<1>1. none \in Seq(Cell)
  BY EmptySeq
<1>2. /\ Forget /\ UNCHANGED <<durableDir, acked>> /\ live' = durableDir
      /\ spoiled' \in BOOLEAN
      /\ data' = [b \in Offsets |->
                    IF b \in durableDir THEN CrashExtend(data[b], durable[b]) ELSE none]
      /\ durable' = [b \in Offsets |-> IF b \in durableDir THEN durable[b] ELSE none]
  BY DEF Extend, PowerCut
<1> HIDE DEF none
<1>3. \A b \in Offsets : Keeps(data[b], durable[b], f[b]) /\ f[b] \in Seq(Cell)
  <2>1. \A b \in Offsets : data[b] \in Seq(Cell) /\ durable[b] \in Seq(Cell)
    BY DEF TypeOK
  <2>2. \A b \in Offsets : Keeps(data[b], durable[b], CrashExtend(data[b], durable[b]))
    BY <2>1, ExtendKeeps
  <2> QED BY <2>2 DEF Keeps
<1>4. data' = [b \in Offsets |-> IF b \in durableDir THEN f[b] ELSE none]
  BY <1>2
<1>5. f \in [Offsets -> Seq(Cell)]
  BY <1>3
<1> HIDE DEF f
<1>6. \A b \in durableDir : Keeps(data[b], durable[b], f[b])
  BY <1>3 DEF TypeOK
<1> QED BY <1>1, <1>2, <1>4, <1>5, <1>6, PowerCutFacts, Zenon

LEMMA TearLeaves == Inv /\ Tear => PowerCutLeaves
<1> SUFFICES ASSUME TypeOK, Tear PROVE PowerCutLeaves
  BY DEF Inv
<1>0. PICK k \in 0 .. MaxOffset, half \in BOOLEAN :
        PowerCut(LAMBDA cells, synced : CrashTorn(cells, synced, k, half))
  BY DEF Tear
<1> DEFINE none == <<>>
           f == [b \in Offsets |-> CrashTorn(data[b], durable[b], k, half)]
<1>1. none \in Seq(Cell)
  BY EmptySeq
<1>2. /\ Forget /\ UNCHANGED <<durableDir, acked>> /\ live' = durableDir
      /\ spoiled' \in BOOLEAN
      /\ data' = [b \in Offsets |->
                    IF b \in durableDir THEN CrashTorn(data[b], durable[b], k, half) ELSE none]
      /\ durable' = [b \in Offsets |-> IF b \in durableDir THEN durable[b] ELSE none]
  <2>1. spoiled' \in BOOLEAN
    BY DEF Tear, TypeOK
  <2> QED BY <1>0, <2>1 DEF PowerCut
<1> HIDE DEF none
<1>3. \A b \in Offsets : Keeps(data[b], durable[b], f[b]) /\ f[b] \in Seq(Cell)
  <2>1. \A b \in Offsets : data[b] \in Seq(Cell) /\ durable[b] \in Seq(Cell)
    BY DEF TypeOK
  <2>2. k \in Nat
    OBVIOUS
  <2>3. \A b \in Offsets : Keeps(data[b], durable[b], CrashTorn(data[b], durable[b], k, half))
    BY <2>1, <2>2, TornKeeps, Zenon
  <2> QED BY <2>3 DEF Keeps
<1>4. data' = [b \in Offsets |-> IF b \in durableDir THEN f[b] ELSE none]
  BY <1>2
<1>5. f \in [Offsets -> Seq(Cell)]
  BY <1>3
<1> HIDE DEF f
<1>6. \A b \in durableDir : Keeps(data[b], durable[b], f[b])
  BY <1>3 DEF TypeOK
<1> QED BY <1>1, <1>2, <1>4, <1>5, <1>6, PowerCutFacts, Zenon

-----------------------------------------------------------------------------
(***************************************************************************)
(* The invariant is inductive: one step per action.                        *)
(***************************************************************************)
LEMMA InvNext == Inv /\ [Next]_vars => Inv'
<1> SUFFICES ASSUME Inv, [Next]_vars PROVE Inv'
  OBVIOUS
<1>1. CASE OpenEmpty
  BY <1>1, OpenEmptyInv
<1>2. CASE OpenExisting
  BY <1>2, OpenExistingInv
<1>3. ASSUME NEW events \in Batches, LogAppend(events) PROVE Inv'
  BY <1>3, LogAppendInv
<1>4. CASE AppendAll
  BY <1>4, AppendAllInv
<1>5. CASE AppendRefused
  BY <1>5, ReturnInv DEF AppendRefused
<1>6. CASE AppendFails
  BY <1>6, AppendFailsInv
<1>7. CASE RollSync
  BY <1>7, RollSyncInv
<1>8. CASE RollSyncFails
  BY <1>8, ReturnInv DEF RollSyncFails
<1>9. CASE CreateSegment
  BY <1>9, CreateSegmentInv
<1>10. CASE CreateExists
  <2>1. bases # {}
    BY <1>10 DEF CreateExists, Inv, InvClosed
  <2> QED BY <1>10, <2>1, ReturnInv DEF CreateExists
<1>11. CASE SyncDir
  BY <1>11, SyncDirInv
<1>12. CASE SyncDirFails \/ CreateFails
  <2>1. DirFails
    BY <1>12 DEF SyncDirFails, CreateFails, DirFails
  <2> QED BY <2>1, DirFailsInv
<1>13. CASE Sync
  BY <1>13, SyncInv
<1>14. CASE SyncFails
  BY <1>14, ReturnInv DEF SyncFails
<1>15. CASE SkipSync
  BY <1>15, ReturnInv DEF SkipSync
<1>16. CASE Close
  BY <1>16, ForgetInv DEF Close
<1>17. CASE Kill
  BY <1>17, ForgetInv DEF Kill
<1>18. CASE Crash \/ Extend \/ Tear
  <2>1. PowerCutLeaves
    BY <1>18, CrashLeaves, ExtendLeaves, TearLeaves
  <2> QED BY <2>1, PowerCutInv DEF PowerCutLeaves
<1>19. CASE UNCHANGED vars
  BY <1>19 DEF vars, disk, memory, Inv, TypeOK, InvDisk, InvFiles, InvDir, InvSealed,
               InvClosed, InvOpen, Full
<1> QED
  BY <1>1, <1>2, <1>3, <1>4, <1>5, <1>6, <1>7, <1>8, <1>9, <1>10, <1>11, <1>12, <1>13,
     <1>14, <1>15, <1>16, <1>17, <1>18, <1>19 DEF Next

(***************************************************************************)
(* The inductive invariant holds of every run of the log, in every mode    *)
(* and under every mix of faults, restarts over names that are not durable *)
(* included.                                                               *)
(***************************************************************************)
THEOREM InvHolds == Spec => []Inv
BY InvInit, InvNext, PTL DEF Spec

(***************************************************************************)
(* Every variable of the log and its disk keeps its type: offsets and      *)
(* sizes stay within the bounds the code's counters have here.             *)
(***************************************************************************)
THEOREM TypeCorrect == Spec => []TypeOK
<1>1. Inv => TypeOK
  BY DEF Inv
<1> QED BY <1>1, InvHolds, PTL

(***************************************************************************)
(* Sealed means durable (log.go, roll): every segment that has a successor *)
(* is synced, holds exactly the records of its own offsets and adjoins the *)
(* next one, whatever failed or crashed before.                            *)
(***************************************************************************)
THEOREM SealedIsDurable == Spec => []SealedDurable
<1>1. Inv => SealedDurable
  <2> SUFFICES ASSUME Inv, NEW b \in live, NEW c \in live, b < c
               PROVE  /\ data[b] = durable[b]
                      /\ \A i \in DOMAIN data[b] :
                            data[b][i].kind = "rec" /\ data[b][i].off = b + i - 1
                      /\ b + Len(data[b]) \in live
    BY DEF SealedDurable
  <2>1. /\ data[b] = durable[b] /\ OnlyRecords(data[b], Len(data[b]))
        /\ b + Len(data[b]) \in live
    BY DEF Inv, InvDisk, InvSealed
  <2>2. Positional(data[b], b) /\ data[b] \in Seq(Cell)
    BY DEF Inv, InvDisk, InvFiles, TypeOK
  <2>3. DOMAIN data[b] = 1 .. Len(data[b])
    BY <2>2
  <2> QED BY <2>1, <2>2, <2>3 DEF Positional, OnlyRecords
<1> QED BY <1>1, InvHolds, PTL

-----------------------------------------------------------------------------
(***************************************************************************)
(* The records of an open log lie in the valid prefixes of its files.      *)
(***************************************************************************)
LEMMA AppendedInFile ==
    ASSUME Inv, bases # {}, NEW r \in Appended
    PROVE  \E b \in bases : /\ InFile(data[b], b, r)
                            /\ b # active => data[b] = durable[b]
<1> USE DEF Inv
<1>1. PICK b \in bases : r \in Range(data[b])
  BY DEF Appended
<1>2. b \in live /\ b \in Nat /\ data[b] \in Seq(Cell) /\ Len(data[b]) \in Nat
      /\ Positional(data[b], b)
  <2>1. b \in live
    BY DEF InvOpen
  <2>2. b \in Nat /\ data[b] \in Seq(Cell)
    BY <2>1 DEF TypeOK, Offsets
  <2>3. Positional(data[b], b)
    BY <2>1 DEF InvDisk, InvFiles
  <2> QED BY <2>1, <2>2, <2>3
<1>3. PICK i \in 1 .. Len(data[b]) : r = data[b][i]
  BY <1>1, <1>2 DEF Range
<1>4. r.kind = "rec" /\ r.off < next /\ r.off = b + i - 1
  BY <1>2, <1>3 DEF Appended, Positional
<1>5. OnlyRecords(data[b], i) /\ (b # active => data[b] = durable[b])
  <2>1. /\ active \in live /\ active \in Nat /\ size \in Nat /\ next = active + size
        /\ b <= active /\ OnlyRecords(data[active], size)
    BY OpenFacts DEF InvOpen
  <2>2. CASE b = active
    <3>1. i <= size
      BY <1>2, <1>4, <2>1, <2>2
    <3> QED BY <2>1, <2>2, <3>1 DEF OnlyRecords
  <2>3. CASE b # active
    <3>1. b < active
      BY <1>2, <2>1, <2>3
    <3>2. data[b] = durable[b] /\ OnlyRecords(data[b], Len(data[b]))
      BY <1>2, <2>1, <3>1 DEF InvDisk, InvSealed
    <3> QED BY <1>2, <3>2 DEF OnlyRecords
  <2> QED BY <2>2, <2>3
<1>6. i \in 0 .. Len(data[b])
  BY <1>2
<1>7. ValidTo(data[b], b, i)
  BY <1>2, <1>5, <1>6, RecordsAreValid
<1>8. InFile(data[b], b, r)
  BY <1>3, <1>7 DEF InFile
<1> QED BY <1>5, <1>8

(***************************************************************************)
(* What the two outcomes of a write to the active segment have in common:  *)
(* the file grows by t.                                                    *)
(***************************************************************************)
Grows(t) ==
    /\ bases # {} /\ ~sealed
    /\ UNCHANGED <<live, durableDir, durable, bases, active, acked>>
    /\ next + Len(t) <= MaxOffset /\ next' \in Nat /\ next <= next'
    /\ \A j \in 1 .. Len(t) :
          t[j].kind = "rec" => t[j].off = next + j - 1 /\ t[j].ev \in Events
    /\ data' = [data EXCEPT ![active] = data[active] \o t]

LEMMA AppendAllGrows ==
    ASSUME Inv, AppendAll
    PROVE  \E t \in Seq(Cell) : Grows(t)
<1>1. PICK n \in 1 .. Len(rest) :
        /\ Takes(n) /\ next' = next + n
        /\ data' = [data EXCEPT ![active] = @ \o Staged(next, rest, n)]
  BY DEF AppendAll
<1>2. /\ pc = "append" /\ ~sealed
      /\ UNCHANGED <<live, durableDir, durable, bases, active, acked>>
  BY DEF AppendAll
<1>3. bases # {}
  BY <1>2 DEF Inv, InvClosed
<1>4. /\ next \in Nat /\ rest \in Seq(Events \cup {Invalid}) /\ Len(rest) \in Nat
      /\ next + Len(rest) <= MaxOffset /\ n \in 0 .. Len(rest)
      /\ \A i \in 1 .. n : rest[i] # Invalid
  BY <1>1, <1>3, OpenFacts DEF Inv, InvOpen, TypeOK, Takes
<1> DEFINE t == Staged(next, rest, n)
<1>5. /\ t \in Seq(Cell) /\ Len(t) = n
      /\ \A i \in 1 .. n : t[i].kind = "rec" /\ t[i].off = next + i - 1 /\ t[i].ev \in Events
  BY <1>4, StagedFacts, ZenonT(40)
<1>6. data' = [data EXCEPT ![active] = data[active] \o t]
  BY <1>1, Zenon
<1> HIDE DEF t
<1>7. /\ next + Len(t) <= MaxOffset /\ next' \in Nat /\ next <= next'
      /\ \A j \in 1 .. Len(t) :
            t[j].kind = "rec" => t[j].off = next + j - 1 /\ t[j].ev \in Events
  BY <1>1, <1>4, <1>5
<1>8. Grows(t)
  BY <1>2, <1>3, <1>6, <1>7 DEF Grows
<1> QED BY <1>5, <1>8

LEMMA AppendFailsGrows ==
    ASSUME Inv, AppendFails
    PROVE  \E t \in Seq(Cell) : Grows(t)
<1>1. PICK n \in 1 .. Len(rest), k \in 0 .. Len(rest), half \in 0 .. 1 :
        /\ Takes(n) /\ k < n
        /\ data' = [data EXCEPT ![active] = @ \o ShortWrite(next, rest, k, half)]
  BY DEF AppendFails
<1>2. /\ pc = "append" /\ ~sealed
      /\ UNCHANGED <<live, durableDir, durable, bases, active, next, acked>>
  BY DEF AppendFails
<1>3. bases # {}
  BY <1>2 DEF Inv, InvClosed
<1>4. /\ next \in Nat /\ rest \in Seq(Events \cup {Invalid}) /\ Len(rest) \in Nat
      /\ next + Len(rest) <= MaxOffset /\ k \in 0 .. Len(rest)
  BY <1>3, OpenFacts DEF Inv, InvOpen, TypeOK
<1>5. k + 1 <= Len(rest) /\ \A i \in 1 .. k : rest[i] # Invalid
  BY <1>1, <1>4 DEF Takes
<1> DEFINE t == ShortWrite(next, rest, k, half)
<1>6. /\ t \in Seq(Cell) /\ Len(t) <= k + 1
      /\ \A j \in 1 .. Len(t) :
            t[j].kind = "rec" => t[j].off = next + j - 1 /\ t[j].ev \in Events
  BY <1>4, <1>5, FailedWriteFacts, ZenonT(40)
<1>7. data' = [data EXCEPT ![active] = data[active] \o t]
  BY <1>1, Zenon
<1> HIDE DEF t
<1>8. next + Len(t) <= MaxOffset /\ next' \in Nat /\ next <= next'
  BY <1>2, <1>4, <1>5, <1>6
<1>9. Grows(t)
  BY <1>2, <1>3, <1>6, <1>7, <1>8 DEF Grows
<1> QED BY <1>6, <1>9

(***************************************************************************)
(* Growing the active file keeps the acknowledged records.                 *)
(***************************************************************************)
LEMMA FileAppendAcked ==
    ASSUME Inv, InvAcked, bases # {}, ~sealed,
           UNCHANGED <<live, durableDir, durable, bases, acked>>,
           NEW t \in Seq(Cell), next + Len(t) <= MaxOffset,
           \A j \in 1 .. Len(t) : t[j].kind = "rec" => t[j].off = next + j - 1,
           data' = [data EXCEPT ![active] = data[active] \o t]
    PROVE  InvAcked'
<1>1. /\ data' \in [Offsets -> Seq(Cell)]
      /\ Len(data'[active]) = size + Len(t)
      /\ \A j \in 1 .. size : data'[active][j] = data[active][j]
      /\ \A b \in live : b # active => data'[b] = data[b]
  BY FileAppendDisk
<1>2. /\ active \in Offsets /\ size \in Nat /\ data[active] \in Seq(Cell) /\ Len(t) \in Nat
  BY OpenFacts
<1>3. Len(data[active]) = size
  BY DEF Inv, InvOpen
<1> SUFFICES ASSUME NEW r \in acked
             PROVE  \E b \in durableDir : InFile(data'[b], b, r) /\ InFile(durable[b], b, r)
  BY DEF InvAcked
<1>4. PICK b \in durableDir : InFile(data[b], b, r) /\ InFile(durable[b], b, r)
  BY DEF InvAcked
<1>5. CASE b = active
  <2>1. data'[active] \in Seq(Cell) /\ Len(data[active]) <= Len(data'[active])
    BY <1>1, <1>2, <1>3
  <2>2. \A j \in 1 .. Len(data[active]) : data'[active][j] = data[active][j]
    BY <1>1, <1>3
  <2>3. InFile(data'[active], active, r)
    BY <1>2, <1>4, <1>5, <2>1, <2>2, InFileGrows
  <2> QED BY <1>4, <1>5, <2>3
<1>6. CASE b # active
  <2>1. b \in live
    BY DEF Inv, InvDisk, InvDir
  <2> QED BY <1>1, <1>4, <1>6, <2>1
<1> QED BY <1>5, <1>6

(***************************************************************************)
(* Syncing the active file keeps the acknowledged records, and covers      *)
(* those the log holds.                                                    *)
(***************************************************************************)
LEMMA FileSyncAcked ==
    ASSUME Inv, InvAcked, bases # {}, UNCHANGED <<live, durableDir, data, bases>>,
           durable' = [durable EXCEPT ![active] = data[active]],
           acked' \subseteq acked \cup Appended
    PROVE  InvAcked'
<1>1. active \in Offsets
  BY OpenFacts
<1>2. durable'[active] = data[active] /\ \A b \in live : b # active => durable'[b] = durable[b]
  BY <1>1 DEF Inv, TypeOK
<1>3. durableDir \subseteq live /\ bases \subseteq durableDir
  BY DEF Inv, InvDisk, InvDir, InvAcked
<1>4. ASSUME NEW r \in acked
      PROVE  \E b \in durableDir : InFile(data[b], b, r) /\ InFile(durable'[b], b, r)
  <2>1. PICK b \in durableDir : InFile(data[b], b, r) /\ InFile(durable[b], b, r)
    BY DEF InvAcked
  <2> QED BY <1>2, <1>3, <2>1
<1>5. ASSUME NEW r \in Appended
      PROVE  \E b \in durableDir : InFile(data[b], b, r) /\ InFile(durable'[b], b, r)
  <2>1. PICK b \in bases : InFile(data[b], b, r) /\ (b # active => data[b] = durable[b])
    BY AppendedInFile
  <2> QED BY <1>2, <1>3, <2>1
<1> QED BY <1>3, <1>4, <1>5 DEF InvAcked

LEMMA OpenExistingAcked ==
    ASSUME Inv, InvAcked, OpenExisting, "orphan" \notin Env
    PROVE  InvAcked'
<1>1. /\ live = durableDir /\ bases' = live /\ UNCHANGED <<durableDir, durable, acked>>
  BY DEF OpenExisting, Orphaned
<1>2. PICK b \in live : \E n \in 0 .. Len(data[b]) :
        /\ ScanStops(data[b], b, n)
        /\ data' = [data EXCEPT ![b] = SubSeq(data[b], 1, n)]
  BY DEF OpenExisting, OpenNamed
<1>3. PICK n \in 0 .. Len(data[b]) :
        /\ ScanStops(data[b], b, n)
        /\ data' = [data EXCEPT ![b] = SubSeq(data[b], 1, n)]
  BY <1>2
<1> DEFINE u == SubSeq(data[b], 1, n)
<1>4. b \in Offsets /\ data[b] \in Seq(Cell) /\ n \in Nat /\ data \in [Offsets -> Seq(Cell)]
  BY DEF Inv, TypeOK
<1>5. ASSUME NEW r, InFile(data[b], b, r) PROVE InFile(u, b, r)
  BY <1>3, <1>4, <1>5, InFileTruncated, Zenon
<1>6. data' = [data EXCEPT ![b] = u]
  BY <1>3
<1> HIDE DEF u
<1>7. data'[b] = u /\ \A c \in live : c # b => data'[c] = data[c]
  BY <1>4, <1>6 DEF Inv, TypeOK
<1> SUFFICES ASSUME NEW r \in acked
             PROVE  \E c \in durableDir : InFile(data'[c], c, r) /\ InFile(durable[c], c, r)
  BY <1>1 DEF InvAcked
<1>8. PICK c \in durableDir : InFile(data[c], c, r) /\ InFile(durable[c], c, r)
  BY DEF InvAcked
<1>9. InFile(data'[c], c, r)
  BY <1>1, <1>5, <1>7, <1>8
<1> QED BY <1>8, <1>9

LEMMA PowerCutAcked ==
    ASSUME Inv, InvAcked, PowerCutLeaves
    PROVE  InvAcked'
<1>1. /\ bases' = {} /\ UNCHANGED <<durableDir, acked>>
      /\ \A b \in durableDir : durable'[b] = durable[b]
      /\ \A b \in durableDir : Keeps(data[b], durable[b], data'[b])
  BY DEF PowerCutLeaves, Forget
<1> SUFFICES ASSUME NEW r \in acked
             PROVE  \E b \in durableDir : InFile(data'[b], b, r) /\ InFile(durable'[b], b, r)
  BY <1>1 DEF InvAcked
<1>2. PICK b \in durableDir : InFile(data[b], b, r) /\ InFile(durable[b], b, r)
  BY DEF InvAcked
<1>3. durable[b] \in Seq(Cell)
  BY DEF Inv, TypeOK
<1>4. /\ data'[b] \in Seq(Cell) /\ Len(durable[b]) <= Len(data'[b])
      /\ \A j \in 1 .. Len(durable[b]) : data'[b][j] = durable[b][j]
  BY <1>1 DEF Keeps
<1>5. InFile(data'[b], b, r)
  BY <1>2, <1>3, <1>4, InFileGrows
<1> QED BY <1>1, <1>2, <1>5

(***************************************************************************)
(* A step that leaves the disk and the acknowledgements alone.             *)
(***************************************************************************)
LEMMA QuietAcked ==
    ASSUME InvAcked, UNCHANGED <<disk, acked>>, bases' \subseteq bases
    PROVE  InvAcked'
<1>1. UNCHANGED <<durableDir, data, durable, acked>>
  BY DEF disk
<1> QED BY <1>1 DEF InvAcked

(***************************************************************************)
(* Where no log is opened over a name that is not durable, the second      *)
(* invariant is inductive too.                                             *)
(***************************************************************************)
LEMMA InvAckedNext ==
    ASSUME Inv, InvAcked, [Next]_vars, "orphan" \notin Env
    PROVE  InvAcked'
<1>1. CASE OpenExisting
  BY <1>1, OpenExistingAcked
<1>2. CASE AppendAll \/ AppendFails
  <2>1. PICK t \in Seq(Cell) : Grows(t)
    BY <1>2, AppendAllGrows, AppendFailsGrows
  <2> QED BY <2>1, FileAppendAcked DEF Grows
<1>3. CASE RollSync
  <2>1. bases # {}
    BY <1>3 DEF RollSync, Inv, InvClosed
  <2> QED BY <1>3, <2>1, FileSyncAcked DEF RollSync, FileSync
<1>4. CASE Sync
  <2>1. bases # {}
    BY <1>4 DEF Sync, Inv, InvClosed
  <2> QED BY <1>4, <2>1, FileSyncAcked DEF Sync, FileSync
<1>5. CASE CreateSegment
  <2>1. /\ next \notin live /\ UNCHANGED <<durableDir, bases, acked>>
        /\ durableDir \subseteq live
    BY <1>5 DEF CreateSegment, FileCreate, memory, Inv, InvDisk, InvDir
  <2>2. \A b \in durableDir : data'[b] = data[b] /\ durable'[b] = durable[b]
    BY <1>5, <2>1 DEF CreateSegment, FileCreate, Inv, TypeOK
  <2> QED BY <2>1, <2>2 DEF InvAcked
<1>6. CASE SyncDir
  <2>1. /\ durableDir' = live /\ bases' = bases \cup {next} /\ UNCHANGED <<data, durable, acked>>
        /\ durableDir \subseteq live /\ pc = "dirsync"
    BY <1>6 DEF SyncDir, DirSync, Inv, InvDisk, InvDir
  <2>2. next \in live
    BY <2>1 DEF Inv, InvClosed, InvOpen
  <2> QED BY <2>1, <2>2 DEF InvAcked
<1>7. CASE Crash \/ Extend \/ Tear
  <2>1. PowerCutLeaves
    BY <1>7, CrashLeaves, ExtendLeaves, TearLeaves
  <2> QED BY <2>1, PowerCutAcked
<1>8. CASE Close \/ Kill
  BY <1>8, QuietAcked DEF Close, Kill, Forget
<1>9. CASE SyncDirFails \/ CreateFails
  BY <1>9, QuietAcked DEF SyncDirFails, CreateFails, Forget
<1>10. ASSUME NEW events \in Batches, LogAppend(events) PROVE InvAcked'
  BY <1>10, QuietAcked DEF LogAppend
<1>11. CASE OpenEmpty \/ UNCHANGED vars
  BY <1>11, QuietAcked DEF OpenEmpty, vars, memory
<1>12. CASE AppendRefused \/ RollSyncFails \/ CreateExists \/ SyncFails \/ SkipSync
  BY <1>12, QuietAcked DEF AppendRefused, RollSyncFails, CreateExists, SyncFails, SkipSync
<1> QED
  BY <1>1, <1>2, <1>3, <1>4, <1>5, <1>6, <1>7, <1>8, <1>9, <1>10, <1>11, <1>12
  DEF Next

(***************************************************************************)
(* Sync keeps its word (log.go: "Sync makes everything appended so far     *)
(* durable"): every record a returned Sync covered is recovered after a    *)
(* power cut at any later instant, for every segment size, mode and mix of *)
(* faults, provided no log is opened over a segment name that was never    *)
(* made durable.  Without that proviso the code does not keep it.          *)
(***************************************************************************)
THEOREM AckedIsDurable ==
    ASSUME "orphan" \notin Env
    PROVE  Spec => []AckedDurable
<1>1. Init => InvAcked
  BY DEF Init, InvAcked
<1>2. Inv /\ InvAcked /\ [Next]_vars => InvAcked'
  BY InvAckedNext
<1>3. InvAcked => AckedDurable
  BY DEF InvAcked, AckedDurable, Recovered
<1> QED BY <1>1, <1>2, <1>3, InvHolds, PTL DEF Spec

-----------------------------------------------------------------------------
(***************************************************************************)
(* What the log reads back.  For the disk and the acknowledgements the     *)
(* steps of the log come in seven shapes.                                  *)
(***************************************************************************)
Syncs ==
    /\ bases # {}
    /\ UNCHANGED <<live, durableDir, data, bases, active, next>>
    /\ durable' = [durable EXCEPT ![active] = data[active]]
    /\ acked' = acked \/ acked' = acked \cup Appended

Quiet ==
    /\ UNCHANGED <<live, durableDir, data, durable, acked>>
    /\ bases' = {} \/ (bases' = bases /\ next' = next)

LEMMA Shapes ==
    ASSUME Inv, [Next]_vars
    PROVE  \/ \E t \in Seq(Cell) : Grows(t)
           \/ OpenExisting
           \/ Syncs
           \/ CreateSegment
           \/ SyncDir
           \/ PowerCutLeaves
           \/ Quiet
<1>1. CASE AppendAll \/ AppendFails
  BY <1>1, AppendAllGrows, AppendFailsGrows
<1>2. CASE RollSync \/ Sync
  <2>1. bases # {}
    BY <1>2 DEF RollSync, Sync, Inv, InvClosed
  <2>2. Syncs
    BY <1>2, <2>1 DEF RollSync, Sync, FileSync, Syncs
  <2> QED BY <2>2
<1>3. CASE Crash \/ Extend \/ Tear
  BY <1>3, CrashLeaves, ExtendLeaves, TearLeaves
<1>4. CASE Close \/ Kill
  <2>1. Quiet
    BY <1>4 DEF Close, Kill, Forget, Quiet, disk
  <2> QED BY <2>1
<1>5. CASE SyncDirFails \/ CreateFails
  <2>1. Quiet
    BY <1>5 DEF SyncDirFails, CreateFails, Forget, Quiet, disk
  <2> QED BY <2>1
<1>6. ASSUME NEW events \in Batches, LogAppend(events) PROVE Quiet
  BY <1>6 DEF LogAppend, Quiet, disk
<1>7. CASE OpenEmpty \/ UNCHANGED vars
  <2>1. Quiet
    BY <1>7 DEF OpenEmpty, vars, memory, Quiet, disk
  <2> QED BY <2>1
<1>8. CASE AppendRefused \/ RollSyncFails \/ CreateExists \/ SyncFails \/ SkipSync
  <2>1. Quiet
    BY <1>8 DEF AppendRefused, RollSyncFails, CreateExists, SyncFails, SkipSync, Quiet, disk
  <2> QED BY <2>1
<1> QED BY <1>1, <1>2, <1>3, <1>4, <1>5, <1>6, <1>7, <1>8 DEF Next

(***************************************************************************)
(* What Open reads and cuts.                                               *)
(***************************************************************************)
LEMMA OpenExistingFacts ==
    ASSUME Inv, OpenExisting
    PROVE  \E b \in live, n \in Nat :
             /\ \A c \in live : c <= b
             /\ b \in Nat /\ data[b] \in Seq(Cell) /\ n \in 0 .. Len(data[b])
             /\ ScanStops(data[b], b, n)
             /\ OnlyRecords(data[b], n)
             /\ active' = b /\ next' = b + n /\ size' = n
             /\ data'[b] \in Seq(Cell) /\ Len(data'[b]) = n
             /\ \A j \in 1 .. n : data'[b][j] = data[b][j]
             /\ \A c \in live : c # b => data'[c] = data[c]
             /\ UNCHANGED <<live, durableDir, durable, acked>> /\ bases' = live
<1>1. PICK b \in live : (\A c \in live : c <= b) /\ active' = b /\ OpenNamed(b)
  BY DEF OpenExisting
<1>2. PICK n \in 0 .. Len(data[b]) :
        /\ ScanStops(data[b], b, n)
        /\ data' = [data EXCEPT ![b] = SubSeq(data[b], 1, n)]
        /\ next' = NextAfter(data[b], b, n) /\ size' = n
  BY <1>1 DEF OpenNamed
<1>3. /\ b \in Offsets /\ b \in Nat /\ data[b] \in Seq(Cell) /\ n \in Nat
      /\ Positional(data[b], b) /\ data \in [Offsets -> Seq(Cell)] /\ live \subseteq Offsets
  BY SMTT(30) DEF Inv, InvDisk, InvFiles, TypeOK, Offsets
<1>4. OnlyRecords(data[b], n)
  BY <1>2 DEF ScanStops, ValidTo, Accepts, OnlyRecords
<1>5. next' = b + n
  <2>1. n > 0 => data[b][n].off = b + n - 1
    BY <1>3, <1>4 DEF OnlyRecords, Positional
  <2> QED BY <1>2, <1>3, <2>1 DEF NextAfter
<1> DEFINE u == SubSeq(data[b], 1, n)
<1>6. u \in Seq(Cell) /\ Len(u) = n /\ \A j \in 1 .. n : u[j] = data[b][j]
  BY <1>3
<1>7. data' = [data EXCEPT ![b] = u]
  BY <1>2
<1> HIDE DEF u
<1>8. data'[b] = u /\ \A c \in live : c # b => data'[c] = data[c]
  BY <1>3, <1>7
<1>9. UNCHANGED <<live, durableDir, durable, acked>> /\ bases' = live
  BY DEF OpenExisting
<1> QED BY <1>1, <1>2, <1>3, <1>4, <1>5, <1>6, <1>8, <1>9

(***************************************************************************)
(* What creating a segment changes.                                        *)
(***************************************************************************)
LEMMA CreateStep ==
    ASSUME Inv, CreateSegment
    PROVE  /\ next \notin live /\ live' = live \cup {next} /\ next \in Nat
           /\ Len(data'[next]) = 0 /\ Len(durable'[next]) = 0
           /\ \A b \in live : data'[b] = data[b] /\ durable'[b] = durable[b]
           /\ UNCHANGED <<durableDir, bases, next, active, acked>>
<1>1. /\ pc = "create" /\ next \notin live /\ live' = live \cup {next}
      /\ data' = [data EXCEPT ![next] = <<>>]
      /\ durable' = [durable EXCEPT ![next] = <<>>]
      /\ UNCHANGED <<durableDir, bases, next, active, acked>>
  BY DEF CreateSegment, FileCreate, memory
<1>2. next \in Offsets
  <2>1. CASE bases = {}
    BY <2>1, MaxOffsetAssumption DEF Inv, InvClosed, Offsets
  <2>2. CASE bases # {}
    BY <2>2, OpenFacts
  <2> QED BY <2>1, <2>2
<1>3. live \subseteq Offsets /\ data \in [Offsets -> Seq(Cell)] /\ durable \in [Offsets -> Seq(Cell)]
  BY DEF Inv, TypeOK
<1>4. data'[next] = <<>> /\ durable'[next] = <<>>
  BY <1>1, <1>2, <1>3
<1>5. \A b \in live : data'[b] = data[b] /\ durable'[b] = durable[b]
  BY <1>1, <1>3
<1> QED BY <1>1, <1>2, <1>4, <1>5 DEF Offsets

LEMMA GrowsFacts ==
    ASSUME Inv, NEW t \in Seq(Cell), Grows(t)
    PROVE  /\ active \in live /\ Len(t) \in Nat /\ size \in Nat
           /\ data[active] \in Seq(Cell) /\ Len(data[active]) = size
           /\ data'[active] \in Seq(Cell) /\ Len(data'[active]) = size + Len(t)
           /\ \A j \in 1 .. size : data'[active][j] = data[active][j]
           /\ \A j \in size + 1 .. size + Len(t) : data'[active][j] = t[j - size]
           /\ \A b \in live : b # active => data'[b] = data[b]
           /\ \A b \in live : b <= active
<1>1. /\ active \in live /\ size \in Nat /\ data[active] \in Seq(Cell) /\ active \in Offsets
      /\ active \in Nat
  BY OpenFacts DEF Grows
<1>2. Len(data[active]) = size
  BY DEF Grows, Inv, InvOpen
<1>3. /\ bases # {} /\ ~sealed /\ UNCHANGED <<live, durableDir, durable>>
      /\ next + Len(t) <= MaxOffset
      /\ \A j \in 1 .. Len(t) : t[j].kind = "rec" => t[j].off = next + j - 1
      /\ data' = [data EXCEPT ![active] = data[active] \o t]
  BY DEF Grows
<1>4. /\ data' \in [Offsets -> Seq(Cell)]
      /\ Len(data'[active]) = size + Len(t)
      /\ \A j \in 1 .. size : data'[active][j] = data[active][j]
      /\ \A j \in size + 1 .. size + Len(t) : data'[active][j] = t[j - size]
      /\ \A b \in live : b # active => data'[b] = data[b]
  BY <1>3, FileAppendDisk
<1>5. \A b \in live : b <= active
  BY <1>1, <1>3 DEF Inv, InvOpen
<1>6. data'[active] \in Seq(Cell) /\ Len(t) \in Nat
  BY <1>1, <1>4
<1> QED BY <1>1, <1>2, <1>4, <1>5, <1>6, Zenon

(***************************************************************************)
(* The segments stay a chain from offset 0.                                *)
(***************************************************************************)
LEMMA InvChainNext ==
    ASSUME Inv, InvChain, [Next]_vars
    PROVE  InvChain'
<1>0. \A b \in live : b \in Nat /\ data[b] \in Seq(Cell)
  BY DEF Inv, TypeOK, Offsets
<1>1. ASSUME NEW t \in Seq(Cell), Grows(t) PROVE InvChain'
  <2>1. UNCHANGED live
    BY <1>1 DEF Grows
  <2>2. \A b \in live : b \in Nat /\ Len(data[b]) \in Nat /\ Len(data'[b]) >= Len(data[b])
    <3>1. /\ Len(t) \in Nat /\ size \in Nat /\ Len(data[active]) = size
          /\ Len(data'[active]) = size + Len(t)
          /\ \A b \in live : b # active => data'[b] = data[b]
      BY <1>1, GrowsFacts
    <3> SUFFICES ASSUME NEW b \in live
                 PROVE  b \in Nat /\ Len(data[b]) \in Nat /\ Len(data'[b]) >= Len(data[b])
      OBVIOUS
    <3>2. b \in Nat /\ Len(data[b]) \in Nat
      BY <1>0
    <3>3. Len(data'[b]) >= Len(data[b])
      BY <3>1, <3>2
    <3> QED BY <3>2, <3>3
  <2> QED BY <2>1, <2>2 DEF InvChain
<1>2. CASE OpenExisting
  <2>1. PICK b \in live : (\A c \in live : c <= b) /\ (\A c \in live : c # b => data'[c] = data[c])
                          /\ UNCHANGED live
    BY <1>2, OpenExistingFacts
  <2>2. ASSUME NEW c \in live, NEW d \in live, c < d PROVE Len(data'[c]) > 0
    <3>1. c # b
      BY <1>0, <2>1, <2>2
    <3> QED BY <2>1, <2>2, <3>1 DEF InvChain
  <2> QED BY <2>1, <2>2 DEF InvChain
<1>3. CASE CreateSegment
  <2>1. /\ next \notin live /\ live' = live \cup {next} /\ next \in Nat
        /\ \A b \in live : data'[b] = data[b]
    BY <1>3, CreateStep
  <2>2. CASE bases = {}
    <3>1. live = {} /\ next = 0
      BY <1>3, <2>2 DEF CreateSegment, Inv, InvClosed
    <3> QED BY <2>1, <3>1 DEF InvChain
  <2>3. CASE bases # {}
    <3>1. /\ active \in live /\ size \in Nat /\ next = active + size /\ active \in Nat
      BY <2>3, OpenFacts
    <3>2. size > 0 /\ Len(data[active]) = size /\ \A b \in live : b <= active
      BY <1>3, <2>1, <2>3, SegMaxAssumption, <3>1 DEF CreateSegment, Inv, InvOpen, Full
    <3>3. ASSUME NEW b \in live PROVE Len(data[b]) > 0
      <4>1. CASE b = active
        BY <3>2, <4>1
      <4>2. CASE b # active
        <5>1. b < active
          BY <1>0, <3>1, <3>2, <4>2
        <5> QED BY <3>1, <5>1 DEF InvChain
      <4> QED BY <4>1, <4>2
    <3>4. 0 \in live'
      BY <2>1, <3>1 DEF InvChain
    <3>5. ASSUME NEW b \in live', NEW c \in live', b < c PROVE Len(data'[b]) > 0
      <4>1. b # next
        <5>1. \A d \in live : d <= next
          BY <1>0, <3>1, <3>2
        <5> QED BY <1>0, <2>1, <3>5, <5>1
      <4> QED BY <2>1, <3>3, <4>1
    <3> QED BY <3>4, <3>5 DEF InvChain
  <2> QED BY <2>2, <2>3
<1>4. CASE PowerCutLeaves
  <2>1. /\ live' = durableDir /\ durableDir \subseteq live
        /\ \A b \in durableDir : Keeps(data[b], durable[b], data'[b])
    BY <1>4 DEF PowerCutLeaves, Inv, InvDisk, InvDir
  <2>2. durableDir # {} => 0 \in durableDir
    <3> SUFFICES ASSUME NEW c \in durableDir, 0 \notin durableDir PROVE FALSE
      OBVIOUS
    <3>1. 0 \in live \ durableDir
      BY <2>1 DEF InvChain
    <3>2. c < 0
      BY <3>1 DEF Inv, InvDisk, InvDir
    <3> QED BY <1>0, <2>1, <3>2
  <2>3. ASSUME NEW b \in durableDir, NEW c \in durableDir, b < c PROVE Len(data'[b]) > 0
    <3>1. data[b] = durable[b] /\ Len(data[b]) > 0
      BY <2>1, <2>3 DEF Inv, InvDisk, InvSealed, InvChain
    <3>2. data'[b] = data[b]
      BY <1>0, <2>1, <3>1, KeepsSame
    <3> QED BY <3>1, <3>2
  <2> QED BY <2>1, <2>2, <2>3 DEF InvChain
<1>5. CASE Syncs \/ SyncDir \/ Quiet
  <2>1. UNCHANGED <<live, data>>
    BY <1>5 DEF Syncs, SyncDir, Quiet
  <2> QED BY <2>1 DEF InvChain
<1> QED BY <1>1, <1>2, <1>3, <1>4, <1>5, Shapes

(***************************************************************************)
(* Files keep reading as they were synced.                                 *)
(***************************************************************************)
LEMMA InvRecordsNext ==
    ASSUME Inv, InvRecords, [Next]_vars
    PROVE  InvRecords'
<1>0. \A b \in live : /\ b \in Nat /\ data[b] \in Seq(Cell) /\ durable[b] \in Seq(Cell)
                      /\ Len(data[b]) \in Nat /\ Len(durable[b]) \in Nat
  BY DEF Inv, TypeOK, Offsets
<1>1. ASSUME NEW t \in Seq(Cell), Grows(t) PROVE InvRecords'
  <2>1. UNCHANGED <<live, durable>>
    BY <1>1 DEF Grows
  <2>2. /\ active \in live /\ Len(t) \in Nat /\ size \in Nat
        /\ Len(data[active]) = size
        /\ Len(data'[active]) = size + Len(t)
        /\ \A j \in 1 .. size : data'[active][j] = data[active][j]
        /\ \A j \in size + 1 .. size + Len(t) : data'[active][j] = t[j - size]
        /\ \A b \in live : b # active => data'[b] = data[b]
    BY <1>1, GrowsFacts
  <2>3. ASSUME NEW i \in 1 .. size + Len(t), data'[active][i].kind = "rec"
        PROVE  data'[active][i].ev \in Events
    <3>1. CASE i \in 1 .. size
      BY <2>2, <2>3, <3>1 DEF InvRecords
    <3>2. CASE i \in size + 1 .. size + Len(t)
      <4>1. i - size \in 1 .. Len(t) /\ data'[active][i] = t[i - size]
        BY <2>2, <3>2
      <4> QED BY <1>1, <2>3, <4>1 DEF Grows
    <3> QED BY <2>2, <3>1, <3>2
  <2>4. ASSUME NEW i \in 1 .. Len(durable[active]), OnlyRecords(durable[active], i)
        PROVE  i <= size + Len(t) /\ data'[active][i] = durable[active][i]
    <3>1. i <= size /\ data[active][i] = durable[active][i]
      BY <2>2, <2>4 DEF InvRecords
    <3> QED BY <2>2, <3>1
  <2> SUFFICES ASSUME NEW b \in live
               PROVE  /\ \A i \in 1 .. Len(data'[b]) :
                           data'[b][i].kind = "rec" => data'[b][i].ev \in Events
                      /\ \A i \in 1 .. Len(durable[b]) :
                           /\ durable[b][i].kind = "rec" => durable[b][i].ev \in Events
                           /\ OnlyRecords(durable[b], i) =>
                                i <= Len(data'[b]) /\ data'[b][i] = durable[b][i]
    BY <2>1 DEF InvRecords
  <2>5. CASE b = active
    BY <2>2, <2>3, <2>4, <2>5 DEF InvRecords
  <2>6. CASE b # active
    BY <2>2, <2>6 DEF InvRecords
  <2> QED BY <2>5, <2>6
<1>2. CASE OpenExisting
  <2>1. PICK b \in live, n \in Nat :
             /\ n \in 0 .. Len(data[b])
             /\ ScanStops(data[b], b, n)
             /\ Len(data'[b]) = n
             /\ \A j \in 1 .. n : data'[b][j] = data[b][j]
             /\ \A c \in live : c # b => data'[c] = data[c]
             /\ UNCHANGED <<live, durable>>
    BY <1>2, OpenExistingFacts
  <2>2. Positional(data[b], b)
    BY DEF Inv, InvDisk, InvFiles
  <2>3. ASSUME NEW i \in 1 .. Len(durable[b]), OnlyRecords(durable[b], i)
        PROVE  i <= n /\ data[b][i] = durable[b][i]
    <3>1. ASSUME NEW j \in 1 .. i PROVE j <= Len(data[b]) /\ data[b][j].kind = "rec"
      <4>1. j \in 1 .. Len(durable[b]) /\ OnlyRecords(durable[b], j)
        BY <1>0, <2>3 DEF OnlyRecords
      <4>2. j <= Len(data[b]) /\ data[b][j] = durable[b][j]
        BY <4>1 DEF InvRecords
      <4>3. durable[b][j].kind = "rec"
        BY <2>3 DEF OnlyRecords
      <4> QED BY <4>2, <4>3
    <3>2. i \in 0 .. Len(data[b]) /\ OnlyRecords(data[b], i)
      BY <1>0, <3>1 DEF OnlyRecords
    <3>3. ValidTo(data[b], b, i)
      BY <1>0, <2>2, <3>2, RecordsAreValid
    <3>4. i <= n
      BY <1>0, <2>1, <3>2, <3>3, ScanReaches
    <3> QED BY <2>3, <3>4 DEF InvRecords
  <2>4. \A i \in 1 .. n : i \in 1 .. Len(data[b])
    BY <1>0, <2>1
  <2> SUFFICES ASSUME NEW c \in live
               PROVE  /\ \A i \in 1 .. Len(data'[c]) :
                           data'[c][i].kind = "rec" => data'[c][i].ev \in Events
                      /\ \A i \in 1 .. Len(durable[c]) :
                           /\ durable[c][i].kind = "rec" => durable[c][i].ev \in Events
                           /\ OnlyRecords(durable[c], i) =>
                                i <= Len(data'[c]) /\ data'[c][i] = durable[c][i]
    BY <2>1 DEF InvRecords
  <2>5. CASE c = b
    BY <2>1, <2>3, <2>4, <2>5 DEF InvRecords
  <2>6. CASE c # b
    BY <2>1, <2>6 DEF InvRecords
  <2> QED BY <2>5, <2>6
<1>3. CASE CreateSegment
  <2>1. /\ live' = live \cup {next}
        /\ Len(data'[next]) = 0 /\ Len(durable'[next]) = 0
        /\ \A b \in live : data'[b] = data[b] /\ durable'[b] = durable[b]
    BY <1>3, CreateStep
  <2>2. \A i \in 1 .. 0 : FALSE
    OBVIOUS
  <2> QED BY <2>1, <2>2 DEF InvRecords
<1>4. CASE PowerCutLeaves
  <2>1. /\ live' = durableDir /\ durableDir \subseteq live
        /\ \A b \in durableDir : durable'[b] = durable[b]
        /\ \A b \in durableDir : Keeps(data[b], durable[b], data'[b])
    BY <1>4 DEF PowerCutLeaves, Inv, InvDisk, InvDir
  <2> SUFFICES ASSUME NEW b \in durableDir
               PROVE  /\ \A i \in 1 .. Len(data'[b]) :
                           data'[b][i].kind = "rec" => data'[b][i].ev \in Events
                      /\ \A i \in 1 .. Len(durable[b]) :
                           /\ durable[b][i].kind = "rec" => durable[b][i].ev \in Events
                           /\ OnlyRecords(durable[b], i) =>
                                i <= Len(data'[b]) /\ data'[b][i] = durable[b][i]
    BY <2>1 DEF InvRecords
  <2>2. /\ Len(data'[b]) \in Nat /\ Len(durable[b]) \in Nat /\ Len(data[b]) \in Nat
        /\ Len(durable[b]) <= Len(data'[b])
        /\ \A j \in 1 .. Len(durable[b]) : data'[b][j] = durable[b][j]
        /\ \A j \in Len(durable[b]) + 1 .. Len(data'[b]) :
             data'[b][j].kind = "rec" => j <= Len(data[b]) /\ data'[b][j] = data[b][j]
    BY <1>0, <2>1 DEF Keeps
  <2>3. ASSUME NEW i \in 1 .. Len(data'[b]), data'[b][i].kind = "rec"
        PROVE  data'[b][i].ev \in Events
    <3>1. CASE i \in 1 .. Len(durable[b])
      BY <2>1, <2>2, <2>3, <3>1 DEF InvRecords
    <3>2. CASE i \in Len(durable[b]) + 1 .. Len(data'[b])
      <4>1. i \in 1 .. Len(data[b]) /\ data'[b][i] = data[b][i]
        BY <2>2, <2>3, <3>2
      <4> QED BY <2>1, <2>3, <4>1 DEF InvRecords
    <3> QED BY <2>2, <3>1, <3>2
  <2> QED BY <2>1, <2>2, <2>3 DEF InvRecords
<1>5. CASE Syncs
  <2>1. active \in Offsets /\ durable \in [Offsets -> Seq(Cell)] /\ live \subseteq Offsets
    BY <1>5, OpenFacts DEF Syncs, Inv, TypeOK
  <2>2. /\ UNCHANGED <<live, data>> /\ durable'[active] = data[active]
        /\ \A b \in live : b # active => durable'[b] = durable[b]
    BY <1>5, <2>1 DEF Syncs
  <2>3. \A b \in live : \A i \in 1 .. Len(data[b]) : i <= Len(data[b])
    BY <1>0
  <2> QED BY <2>2, <2>3 DEF InvRecords
<1>6. CASE SyncDir \/ Quiet
  <2>1. UNCHANGED <<live, data, durable>>
    BY <1>6 DEF SyncDir, Quiet
  <2> QED BY <2>1 DEF InvRecords
<1> QED BY <1>1, <1>2, <1>3, <1>4, <1>5, <1>6, Shapes

-----------------------------------------------------------------------------
(***************************************************************************)
(* Where the records of the log are: cell i of segment b is read, and      *)
(* holds the record at offset b + i - 1, when it and all before it are     *)
(* whole.                                                                  *)
(***************************************************************************)
Scanned(b, i) == b \in live /\ i \in 1 .. Len(data[b]) /\ OnlyRecords(data[b], i)

(***************************************************************************)
(* The last segment and where its scan stops.                              *)
(***************************************************************************)
LEMMA LastSegment ==
    ASSUME Inv, live # {}
    PROVE  /\ Max(live) \in live /\ \A c \in live : c <= Max(live)
           /\ ScannedLen(Max(live)) \in 0 .. Len(data[Max(live)])
           /\ ScanStops(data[Max(live)], Max(live), ScannedLen(Max(live)))
<1>0. live \subseteq 0 .. MaxOffset
  BY DEF Inv, TypeOK, Offsets
<1>1. \E m \in live : \A y \in live : m >= y
  <2>1. PICK m \in live : \A y \in live : y <= m
    BY <1>0, HasGreatest, MaxOffsetAssumption
  <2>2. \A y \in live : m >= y
    BY <1>0, <2>1
  <2> QED BY <2>2
<1> DEFINE m == Max(live)
<1>2. m \in live /\ \A y \in live : m >= y
  BY <1>1 DEF Max
<1> HIDE DEF m
<1>3. data[m] \in Seq(Cell) /\ \A y \in live : y <= m
  BY <1>0, <1>2 DEF Inv, TypeOK
<1>4. \E n \in 0 .. Len(data[m]) : ScanStops(data[m], m, n)
  BY <1>3, ScanExists
<1>5. ScannedLen(m) \in 0 .. Len(data[m]) /\ ScanStops(data[m], m, ScannedLen(m))
  BY <1>4 DEF ScannedLen
<1> QED BY <1>2, <1>3, <1>5 DEF m

LEMMA ScannedBelowEnd ==
    ASSUME Inv, NEW b, NEW i, Scanned(b, i)
    PROVE  /\ LogEnd \in Nat /\ b + i - 1 \in 0 .. LogEnd - 1
           /\ EventAt(b + i - 1) = data[b][i].ev
<1> DEFINE m == Max(live)
           n == ScannedLen(m)
<1>1. b \in live /\ i \in 1 .. Len(data[b]) /\ OnlyRecords(data[b], i)
  BY DEF Scanned
<1>2. /\ m \in live /\ \A c \in live : c <= m
      /\ n \in 0 .. Len(data[m])
      /\ ScanStops(data[m], m, n)
  BY <1>1, LastSegment
<1>3. LogEnd = m + n
  BY <1>1 DEF LogEnd
<1> HIDE DEF m, n
<1>4. \A c \in live : c \in Nat /\ data[c] \in Seq(Cell) /\ Positional(data[c], c)
  BY DEF Inv, TypeOK, Offsets, InvDisk, InvFiles
<1>5. \A c \in live : b < c => b + Len(data[b]) <= c
  BY <1>1 DEF Inv, InvDisk, InvSealed
<1>6. b \in Nat /\ m \in Nat /\ n \in Nat /\ i \in Nat /\ Len(data[b]) \in Nat /\ b <= m
  BY <1>1, <1>2, <1>4
<1>7. b + i - 1 < m + n
  <2>1. CASE b = m
    <3>1. i \in 0 .. Len(data[m]) /\ ValidTo(data[m], m, i)
      BY <1>1, <1>4, <1>6, <2>1, RecordsAreValid
    <3>2. i <= n
      BY <1>2, <1>4, <1>6, <3>1, ScanReaches
    <3> QED BY <1>6, <2>1, <3>2
  <2>2. CASE b < m
    BY <1>1, <1>2, <1>5, <1>6, <2>2
  <2> QED BY <1>6, <2>1, <2>2
<1> DEFINE o == b + i - 1
           S == {c \in live : c <= o}
<1>8. b \in S /\ \A c \in S : b >= c
  <2>1. o \in Nat /\ b <= o /\ o < b + Len(data[b])
    BY <1>1, <1>6
  <2>2. ASSUME NEW c \in live, c <= o PROVE b >= c
    <3>1. c \in Nat
      BY <1>4
    <3>2. ~(b < c)
      BY <1>5, <1>6, <2>1, <2>2, <3>1
    <3> QED BY <1>6, <3>1, <3>2
  <2> QED BY <1>1, <2>1, <2>2
<1>9. Max(S) = b
  <2>1. /\ S \subseteq live
    OBVIOUS
  <2> HIDE DEF S
  <2>2. PICK x : x = Max(S)
    OBVIOUS
  <2>3. x \in S /\ \A c \in S : x >= c
    BY <1>8, <2>2 DEF Max
  <2>4. x \in Nat /\ x >= b /\ b >= x
    BY <1>4, <1>8, <2>1, <2>3
  <2>5. x = b
    BY <1>6, <2>4
  <2> QED BY <2>2, <2>5
<1>10. EventAt(o) = data[b][i].ev
  <2>1. o - b < Len(data[b]) /\ o - b + 1 = i
    BY <1>1, <1>6
  <2>2. EventAt(o) = IF o - Max(S) < Len(data[Max(S)]) THEN data[Max(S)][o - Max(S) + 1].ev
                     ELSE Invalid
    BY DEF EventAt
  <2> HIDE DEF o, S
  <2> QED BY <1>9, <2>1, <2>2
<1> QED BY <1>1, <1>3, <1>6, <1>7, <1>10

LEMMA OffsetsAreScanned ==
    ASSUME Inv, InvChain, NEW o \in 0 .. LogEnd - 1
    PROVE  LogEnd \in Nat /\ \E b \in live, i \in Nat : Scanned(b, i) /\ o = b + i - 1
<1>1. live # {}
  BY DEF LogEnd
<1> DEFINE m == Max(live)
           n == ScannedLen(m)
<1>2. /\ m \in live /\ \A c \in live : c <= m
      /\ n \in 0 .. Len(data[m])
      /\ ScanStops(data[m], m, n)
  BY <1>1, LastSegment
<1>3. LogEnd = m + n
  BY <1>1 DEF LogEnd
<1> HIDE DEF m, n
<1>4. \A c \in live : c \in Nat /\ data[c] \in Seq(Cell) /\ Len(data[c]) \in Nat
  BY DEF Inv, TypeOK, Offsets
<1>5. LogEnd \in Nat /\ m \in Nat /\ n \in Nat /\ o \in Nat /\ o < m + n
  BY <1>2, <1>3, <1>4
<1> DEFINE S == {c \in live : c <= o}
<1>6. S \subseteq 0 .. o /\ S # {}
  BY <1>1, <1>4, <1>5 DEF InvChain
<1>7. PICK b \in S : \A c \in S : c <= b
  <2> HIDE DEF S
  <2> QED BY <1>5, <1>6, HasGreatest
<1>8. b \in live /\ b \in Nat /\ b <= o
  BY <1>4, <1>7
<1> DEFINE i == o - b + 1
<1>9. i \in Nat /\ i >= 1 /\ o = b + i - 1
  BY <1>5, <1>8
<1>10. i <= Len(data[b]) /\ OnlyRecords(data[b], i)
  <2>1. CASE b = m
    <3>1. OnlyRecords(data[m], n)
      BY <1>2 DEF ScanStops, ValidTo, Accepts, OnlyRecords
    <3>2. i <= n
      BY <1>5, <1>8, <2>1
    <3> QED BY <1>2, <1>5, <1>9, <2>1, <3>1, <3>2 DEF OnlyRecords
  <2>2. CASE b # m
    <3>1. b < m
      BY <1>2, <1>5, <1>8, <2>2
    <3>2. /\ OnlyRecords(data[b], Len(data[b])) /\ b + Len(data[b]) \in live
          /\ Len(data[b]) > 0
      BY <1>2, <1>8, <3>1 DEF Inv, InvDisk, InvSealed, InvChain
    <3>3. ~(b + Len(data[b]) <= o)
      BY <1>4, <1>7, <1>8, <3>2
    <3>4. i <= Len(data[b])
      BY <1>4, <1>5, <1>8, <3>3
    <3> QED BY <1>9, <3>2, <3>4 DEF OnlyRecords
  <2> QED BY <2>1, <2>2
<1>11. Scanned(b, i)
  <2>1. i \in 1 .. Len(data[b])
    BY <1>4, <1>8, <1>9, <1>10
  <2> QED BY <1>8, <1>10, <2>1 DEF Scanned
<1> QED BY <1>5, <1>8, <1>9, <1>11

LEMMA LogEndFacts ==
    ASSUME Inv
    PROVE  LogEnd \in Nat
<1>1. CASE live = {}
  BY <1>1 DEF LogEnd
<1>2. CASE live # {}
  <2>1. PICK m \in live : m = Max(live) /\ ScannedLen(m) \in 0 .. Len(data[m])
    BY <1>2, LastSegment
  <2>2. m \in Nat /\ Len(data[m]) \in Nat
    BY DEF Inv, TypeOK, Offsets
  <2>3. LogEnd = m + ScannedLen(m)
    BY <1>2, <2>1 DEF LogEnd
  <2> QED BY <2>1, <2>2, <2>3
<1> QED BY <1>1, <1>2

(***************************************************************************)
(* The same as one formula about a state, for use before and after a step. *)
(***************************************************************************)
Places ==
    /\ LogEnd \in Nat
    /\ \A b, i : Scanned(b, i) =>
          b + i - 1 \in 0 .. LogEnd - 1 /\ EventAt(b + i - 1) = data[b][i].ev
    /\ \A o \in 0 .. LogEnd - 1 : \E b, i : Scanned(b, i) /\ o = b + i - 1

LEMMA PlacesHold == Inv /\ InvChain => Places
<1> SUFFICES ASSUME Inv, InvChain PROVE Places
  OBVIOUS
<1>1. LogEnd \in Nat
  BY LogEndFacts
<1>2. \A b, i : Scanned(b, i) =>
          b + i - 1 \in 0 .. LogEnd - 1 /\ EventAt(b + i - 1) = data[b][i].ev
  BY ScannedBelowEnd
<1>3. \A o \in 0 .. LogEnd - 1 : \E b, i : Scanned(b, i) /\ o = b + i - 1
  BY OffsetsAreScanned
<1> QED BY <1>1, <1>2, <1>3 DEF Places

LEMMA PlacesHoldNext == Inv' /\ InvChain' => Places'
BY PlacesHold, PTL

-----------------------------------------------------------------------------
(***************************************************************************)
(* A record in the valid prefix of a file is at a place that is read.      *)
(***************************************************************************)
LEMMA InFileScanned ==
    ASSUME Inv, NEW b \in live, NEW r, InFile(data[b], b, r)
    PROVE  \E i \in 1 .. Len(data[b]) :
             Scanned(b, i) /\ data[b][i] = r /\ r.kind = "rec" /\ r.off = b + i - 1
<1>1. PICK i \in 1 .. Len(data[b]) : data[b][i] = r /\ ValidTo(data[b], b, i)
  BY DEF InFile
<1>2. data[b] \in Seq(Cell) /\ Positional(data[b], b) /\ b \in Nat
  BY DEF Inv, TypeOK, Offsets, InvDisk, InvFiles
<1>3. OnlyRecords(data[b], i)
  BY <1>1 DEF ValidTo, Accepts, OnlyRecords
<1>4. r.kind = "rec" /\ r.off = b + i - 1
  BY <1>1, <1>2, <1>3 DEF OnlyRecords, Positional
<1> QED BY <1>1, <1>3, <1>4 DEF Scanned

(***************************************************************************)
(* A place below next is read, and nothing else is read at its offset.     *)
(***************************************************************************)
LEMMA ReadAtPlace ==
    ASSUME Inv, bases # {}, NEW b, NEW i, Scanned(b, i), b + i - 1 < next
    PROVE  /\ data[b][i].off = b + i - 1
           /\ Read(b + i - 1, data[b][i])
           /\ data[b][i] \in Appended
           /\ \A r : Read(b + i - 1, r) => r = data[b][i]
<1>1. b \in live /\ i \in 1 .. Len(data[b]) /\ OnlyRecords(data[b], i)
  BY DEF Scanned
<1>2. /\ data[b] \in Seq(Cell) /\ Positional(data[b], b) /\ b \in Nat
      /\ Len(data[b]) \in Nat
  <2>1. data[b] \in Seq(Cell) /\ b \in Nat
    BY <1>1 DEF Inv, TypeOK, Offsets
  <2>2. Positional(data[b], b)
    BY <1>1 DEF Inv, InvDisk, InvFiles
  <2> QED BY <2>1, <2>2
<1>3. bases \subseteq live /\ \A c \in bases : c \in Nat
  <2>1. bases \subseteq live
    BY DEF Inv, InvOpen
  <2>2. \A c \in live : c \in Nat
    BY DEF Inv, TypeOK, Offsets
  <2> QED BY <2>1, <2>2
<1>4. b \in bases
  <2>1. live \subseteq bases \cup {next} /\ (next \in live \ bases => Len(data[next]) = 0)
    BY DEF Inv, InvOpen
  <2> QED BY <1>1, <1>2, <2>1
<1> DEFINE x == data[b][i]
           o == b + i - 1
<1>5. x.kind = "rec" /\ x.off = o
  BY <1>1, <1>2 DEF OnlyRecords, Positional
<1>6. InFile(data[b], b, x)
  <2>1. i \in 0 .. Len(data[b])
    BY <1>1, <1>2
  <2>2. ValidTo(data[b], b, i)
    BY <1>1, <1>2, <2>1, RecordsAreValid
  <2> QED BY <1>1, <2>2 DEF InFile
<1>7. b <= o /\ \A c \in bases : c <= o => c <= b
  <2>1. b <= o /\ o < b + Len(data[b]) /\ o \in Nat
    BY <1>1, <1>2
  <2> SUFFICES ASSUME NEW c \in bases, c <= o, b < c PROVE FALSE
    BY <1>2, <1>3, <2>1
  <2>2. b + Len(data[b]) <= c
    BY <1>1, <1>3 DEF Inv, InvDisk, InvSealed
  <2> QED BY <1>2, <1>3, <2>1, <2>2
<1>8. Read(o, x)
  BY <1>4, <1>5, <1>6, <1>7 DEF Read
<1>9. x \in Appended
  <2>1. x \in Range(data[b])
    BY <1>1, <1>2 DEF Range
  <2> QED BY <1>4, <1>5, <2>1 DEF Appended
<1>10. ASSUME NEW r, Read(o, r) PROVE r = x
  <2>1. PICK c \in bases : /\ c <= o /\ (\A d \in bases : d <= o => d <= c)
                           /\ InFile(data[c], c, r) /\ r.off = o
    BY <1>10 DEF Read
  <2>2. c <= b /\ b <= c
    BY <1>4, <1>7, <2>1
  <2>3. c = b
    BY <1>2, <1>3, <2>2
  <2>4. PICK j \in 1 .. Len(data[b]) : data[b][j] = r /\ r.off = b + j - 1
    BY <1>1, <2>1, <2>3, InFileScanned
  <2>5. j = i
    BY <1>1, <1>2, <2>1, <2>4
  <2> QED BY <2>4, <2>5
<1> HIDE DEF x
<1> QED BY <1>5, <1>8, <1>9, <1>10 DEF x

(***************************************************************************)
(* An open log counts no offset that its files do not hold.                *)
(***************************************************************************)
LEMMA NextBelowEnd ==
    ASSUME Inv, bases # {}
    PROVE  next <= LogEnd
<1>1. /\ active \in live /\ active \in Nat /\ size \in Nat /\ next = active + size
      /\ Len(data[active]) \in Nat
  BY OpenFacts
<1>2. size <= Len(data[active]) /\ OnlyRecords(data[active], size)
  BY DEF Inv, InvOpen
<1>3. LogEnd \in Nat
  BY LogEndFacts
<1>4. CASE size = 0
  <2>1. PICK m \in live : m = Max(live) /\ (\A c \in live : c <= m)
                          /\ ScannedLen(m) \in 0 .. Len(data[m])
    BY <1>1, LastSegment
  <2>2. m \in Nat /\ Len(data[m]) \in Nat
    BY DEF Inv, TypeOK, Offsets
  <2>3. LogEnd = m + ScannedLen(m)
    BY <1>1, <2>1 DEF LogEnd
  <2>4. active <= m
    BY <1>1, <2>1
  <2> QED BY <1>1, <1>4, <2>1, <2>2, <2>3, <2>4
<1>5. CASE size # 0
  <2>1. Scanned(active, size)
    BY <1>1, <1>2, <1>5 DEF Scanned
  <2>2. active + size - 1 \in 0 .. LogEnd - 1
    BY <2>1, ScannedBelowEnd
  <2> QED BY <1>1, <1>3, <2>2
<1> QED BY <1>4, <1>5

(***************************************************************************)
(* Every offset below next is at a place.                                  *)
(***************************************************************************)
LEMMA NextIsScanned ==
    ASSUME Inv, InvChain, bases # {}, NEW o \in 0 .. next - 1
    PROVE  \E b \in live, i \in Nat : Scanned(b, i) /\ o = b + i - 1
<1>1. next <= LogEnd /\ LogEnd \in Nat /\ next \in Nat
  BY NextBelowEnd, LogEndFacts, OpenFacts
<1>2. o \in 0 .. LogEnd - 1
  BY <1>1
<1> QED BY <1>2, OffsetsAreScanned

(***************************************************************************)
(* What the log counts, and what was acknowledged, reads back.             *)
(***************************************************************************)
LEMMA AppendedReads ==
    ASSUME Inv, bases # {}, NEW r \in Appended
    PROVE  r.off \in 0 .. next - 1 /\ Read(r.off, r)
<1>1. PICK b \in bases : InFile(data[b], b, r)
  BY AppendedInFile
<1>2. b \in live /\ b \in Nat /\ next \in Nat /\ r.off < next
  <2>1. b \in live
    BY DEF Inv, InvOpen
  <2>2. b \in Nat /\ next \in Nat
    BY <2>1 DEF Inv, TypeOK, Offsets
  <2>3. r.off < next
    BY DEF Appended
  <2> QED BY <2>1, <2>2, <2>3
<1>3. PICK i \in 1 .. Len(data[b]) : Scanned(b, i) /\ data[b][i] = r /\ r.off = b + i - 1
  BY <1>1, <1>2, InFileScanned
<1>4. Read(b + i - 1, data[b][i])
  BY <1>2, <1>3, ReadAtPlace
<1> QED BY <1>2, <1>3, <1>4

LEMMA AckedReads ==
    ASSUME Inv, InvAcked, InvPromise, bases # {}, NEW r \in acked
    PROVE  r.off \in 0 .. next - 1 /\ Read(r.off, r) /\ r \in Appended
<1>1. PICK b \in durableDir : InFile(data[b], b, r)
  BY DEF InvAcked
<1>2. b \in live /\ b \in Nat /\ next \in Nat /\ r.off < next
  <2>1. b \in live
    BY DEF Inv, InvDisk, InvDir
  <2>2. b \in Nat /\ next \in Nat
    BY <2>1 DEF Inv, TypeOK, Offsets
  <2>3. r.off < next
    BY DEF InvPromise
  <2> QED BY <2>1, <2>2, <2>3
<1>3. PICK i \in 1 .. Len(data[b]) : Scanned(b, i) /\ data[b][i] = r /\ r.off = b + i - 1
  BY <1>1, <1>2, InFileScanned
<1>4. Read(b + i - 1, data[b][i]) /\ data[b][i] \in Appended
  BY <1>2, <1>3, ReadAtPlace
<1> QED BY <1>2, <1>3, <1>4

LEMMA OneReading ==
    ASSUME Inv, InvChain, bases # {}, NEW o \in 0 .. next - 1
    PROVE  \E x \in Appended : x.off = o /\ Read(o, x) /\ \A r : Read(o, r) => r = x
<1>1. PICK b \in live, i \in Nat : Scanned(b, i) /\ o = b + i - 1
  BY NextIsScanned
<1>2. next \in Nat
  BY OpenFacts
<1>3. b + i - 1 < next
  BY <1>1, <1>2
<1>4. /\ data[b][i].off = b + i - 1
      /\ Read(b + i - 1, data[b][i])
      /\ data[b][i] \in Appended
      /\ \A r : Read(b + i - 1, r) => r = data[b][i]
  BY <1>1, <1>3, ReadAtPlace
<1> QED BY <1>1, <1>4

LEMMA ReadsBackHolds == Inv /\ InvChain /\ InvAcked /\ InvPromise => ReadsBack
<1> SUFFICES ASSUME Inv, InvChain, InvAcked, InvPromise, bases # {}
             PROVE  /\ \A o \in 0 .. next - 1 : Cardinality({r \in Appended : Read(o, r)}) = 1
                    /\ \A r \in acked : r.off < next /\ Read(r.off, r)
  BY DEF ReadsBack
<1>1. ASSUME NEW o \in 0 .. next - 1 PROVE Cardinality({r \in Appended : Read(o, r)}) = 1
  <2>1. PICK x \in Appended : Read(o, x) /\ \A r : Read(o, r) => r = x
    BY OneReading
  <2>2. {r \in Appended : Read(o, r)} = {x}
    BY <2>1
  <2> QED BY <2>2, FS_Singleton
<1>2. ASSUME NEW r \in acked PROVE r.off < next /\ Read(r.off, r)
  <2>1. r.off \in 0 .. next - 1 /\ Read(r.off, r) /\ next \in Nat
    BY AckedReads, OpenFacts
  <2> QED BY <2>1
<1> QED BY <1>1, <1>2

(***************************************************************************)
(* The acknowledged records stay a prefix of the log.                      *)
(***************************************************************************)
LEMMA InvPromiseNext ==
    ASSUME Inv, InvChain, InvAcked, InvPromise, [Next]_vars
    PROVE  InvPromise'
<1>0. \A r \in acked : r.off \in Nat
  BY DEF Inv, TypeOK, Cell
<1>1. ASSUME NEW t \in Seq(Cell), Grows(t) PROVE InvPromise'
  <2>1. UNCHANGED <<bases, acked>> /\ next \in Nat /\ next' \in Nat /\ next <= next'
    BY <1>1, OpenFacts DEF Grows
  <2>2. bases # {} => \A r \in acked : r.off < next'
    BY <1>0, <2>1 DEF InvPromise
  <2> QED BY <2>1, <2>2 DEF InvPromise
<1>2. CASE OpenExisting
  <2>1. PICK b \in live, n \in Nat :
             /\ \A c \in live : c <= b
             /\ b \in Nat /\ data[b] \in Seq(Cell) /\ n \in 0 .. Len(data[b])
             /\ ScanStops(data[b], b, n)
             /\ next' = b + n
             /\ UNCHANGED acked
    BY <1>2, OpenExistingFacts
  <2>2. ASSUME NEW r \in acked PROVE r.off < next'
    <3>1. PICK c \in durableDir : InFile(data[c], c, r)
      BY DEF InvAcked
    <3>2. c \in live /\ c \in Nat /\ Len(data[c]) \in Nat
      BY DEF Inv, InvDisk, InvDir, TypeOK, Offsets
    <3>3. PICK i \in 1 .. Len(data[c]) :
            Scanned(c, i) /\ data[c][i] = r /\ r.off = c + i - 1
      BY <3>1, <3>2, InFileScanned
    <3>4. CASE c = b
      <4>1. i \in 0 .. Len(data[b]) /\ OnlyRecords(data[b], i) /\ Positional(data[b], b)
        BY <3>2, <3>3, <3>4 DEF Scanned, Inv, InvDisk, InvFiles
      <4>2. ValidTo(data[b], b, i)
        BY <2>1, <4>1, RecordsAreValid
      <4>3. i <= n
        BY <2>1, <4>1, <4>2, ScanReaches
      <4> QED BY <2>1, <3>2, <3>3, <3>4, <4>3
    <3>5. CASE c # b
      <4>1. c < b
        BY <2>1, <3>2, <3>5
      <4>2. c + Len(data[c]) <= b
        BY <3>2, <4>1 DEF Inv, InvDisk, InvSealed
      <4> QED BY <2>1, <3>2, <3>3, <4>2
    <3> QED BY <3>4, <3>5
  <2> QED BY <2>1, <2>2 DEF InvPromise
<1>3. CASE Syncs
  <2>1. bases # {} /\ UNCHANGED <<bases, next>> /\ (acked' = acked \/ acked' = acked \cup Appended)
    BY <1>3 DEF Syncs
  <2>2. CASE acked' = acked
    BY <2>1, <2>2 DEF InvPromise
  <2>3. CASE acked' = acked \cup Appended
    <3>1. next \in 0 .. MaxOffset /\ next \in Nat
      BY <2>1, OpenFacts DEF Offsets
    <3>2. ASSUME NEW r \in acked' PROVE r.off \in 0 .. next - 1 /\ Read(r.off, r)
      BY <2>1, <2>3, AckedReads, AppendedReads
    <3>3. ASSUME NEW r \in acked', NEW s \in acked', r.off = s.off PROVE r = s
      <4>1. r.off \in 0 .. next - 1 /\ Read(r.off, r) /\ Read(r.off, s)
        BY <3>2, <3>3
      <4>2. PICK x : \A z : Read(r.off, z) => z = x
        BY <2>1, <4>1, OneReading
      <4> QED BY <4>1, <4>2
    <3>4. \A o \in 0 .. next - 1 : \E r \in acked' : r.off = o
      BY <2>1, <2>3, OneReading
    <3>5. \A r \in acked' : r.off < next
      BY <3>1, <3>2
    <3> QED BY <2>1, <3>1, <3>3, <3>4, <3>5 DEF InvPromise
  <2> QED BY <2>1, <2>2, <2>3
<1>4. CASE CreateSegment
  <2>1. UNCHANGED <<bases, next, acked>>
    BY <1>4, CreateStep
  <2> QED BY <2>1 DEF InvPromise
<1>5. CASE SyncDir
  <2>1. UNCHANGED <<next, acked>> /\ pc = "dirsync"
    BY <1>5 DEF SyncDir
  <2>2. CASE bases # {}
    BY <2>1, <2>2 DEF InvPromise
  <2>3. CASE bases = {}
    <3>1. live = {0} /\ Len(data[0]) = 0
      BY <2>1, <2>3 DEF Inv, InvClosed
    <3>2. acked = {}
      <4> SUFFICES ASSUME NEW r \in acked PROVE FALSE
        OBVIOUS
      <4>1. PICK c \in durableDir : InFile(data[c], c, r)
        BY DEF InvAcked
      <4>2. c = 0
        BY <3>1 DEF Inv, InvDisk, InvDir
      <4> QED BY <3>1, <4>1, <4>2 DEF InFile
    <3> QED BY <2>1, <3>2 DEF InvPromise
  <2> QED BY <2>2, <2>3
<1>6. CASE PowerCutLeaves
  <2>1. bases' = {} /\ UNCHANGED acked
    BY <1>6 DEF PowerCutLeaves, Forget
  <2> QED BY <2>1 DEF InvPromise
<1>7. CASE Quiet
  <2>1. UNCHANGED acked /\ (bases' = {} \/ (bases' = bases /\ next' = next))
    BY <1>7 DEF Quiet
  <2> QED BY <2>1 DEF InvPromise
<1> QED BY <1>1, <1>2, <1>3, <1>4, <1>5, <1>6, <1>7, Shapes

(***************************************************************************)
(* The strengthening from which both what the log reads back and its       *)
(* refinement follow.                                                      *)
(***************************************************************************)
InvAll == Inv /\ InvChain /\ InvRecords /\ InvAcked /\ InvPromise

LEMMA InvAllInit == Init => InvAll
<1> SUFFICES ASSUME Init PROVE InvAll
  OBVIOUS
<1>1. live = {} /\ bases = {} /\ acked = {}
  BY DEF Init
<1>2. InvPromise
  <2>1. 0 \in 0 .. MaxOffset /\ \A o \in 0 .. 0 - 1 : FALSE
    BY MaxOffsetAssumption
  <2> QED BY <1>1, <2>1 DEF InvPromise
<1> QED BY <1>1, <1>2, InvInit DEF InvAll, InvChain, InvRecords, InvAcked

LEMMA InvAllNext ==
    ASSUME InvAll, [Next]_vars, "orphan" \notin Env
    PROVE  InvAll'
BY InvNext, InvChainNext, InvRecordsNext, InvAckedNext, InvPromiseNext DEF InvAll

(***************************************************************************)
(* What an open log claims to hold it holds (log.go, Read): every offset   *)
(* below next reads back as exactly one record, and every acknowledged     *)
(* offset as the record that was acknowledged, after any sequence of       *)
(* crashes, failed writes, truncations, rolls and reopenings, provided no  *)
(* log is opened over a segment name that was never made durable.          *)
(***************************************************************************)
THEOREM LogReadsBack ==
    ASSUME "orphan" \notin Env
    PROVE  Spec => []ReadsBack
<1>1. InvAll /\ [Next]_vars => InvAll'
  BY InvAllNext
<1>2. InvAll => ReadsBack
  BY ReadsBackHolds DEF InvAll
<1> QED BY <1>1, <1>2, InvAllInit, PTL DEF Spec

-----------------------------------------------------------------------------
(***************************************************************************)
(* The abstract log as a sequence.                                         *)
(***************************************************************************)
ReadsAsLog ==
    /\ AbstractLog \in Seq(Events)
    /\ Len(AbstractLog) = LogEnd
    /\ \A i \in 1 .. LogEnd : AbstractLog[i] = EventAt(i - 1)

LEMMA AbstractLogFacts == Inv /\ InvChain /\ InvRecords => ReadsAsLog
<1> SUFFICES ASSUME Inv, InvChain, InvRecords PROVE ReadsAsLog
  OBVIOUS
<1>1. LogEnd \in Nat
  BY LogEndFacts
<1>2. ASSUME NEW j \in 1 .. LogEnd PROVE EventAt(j - 1) \in Events
  <2>1. j - 1 \in 0 .. LogEnd - 1
    BY <1>1
  <2>2. PICK b \in live, i \in Nat : Scanned(b, i) /\ j - 1 = b + i - 1
    BY <2>1, OffsetsAreScanned
  <2>3. EventAt(b + i - 1) = data[b][i].ev
    BY <2>2, ScannedBelowEnd
  <2>4. data[b][i].ev \in Events
    BY <2>2 DEF Scanned, OnlyRecords, InvRecords
  <2> QED BY <2>2, <2>3, <2>4
<1> DEFINE f == AbstractLog
<1>3. f = [i \in 1 .. LogEnd |-> EventAt(i - 1)]
  BY DEF AbstractLog
<1> HIDE DEF f
<1>4. f \in [1 .. LogEnd -> Events]
  BY <1>2, <1>3
<1>5. f \in Seq(Events) /\ Len(f) = LogEnd
  BY <1>1, <1>4, SeqDef
<1>6. \A i \in 1 .. LogEnd : f[i] = EventAt(i - 1)
  BY <1>3
<1> QED BY <1>5, <1>6 DEF f, ReadsAsLog

LEMMA AbstractLogFactsNext == Inv' /\ InvChain' /\ InvRecords' => ReadsAsLog'
BY AbstractLogFacts, PTL

(***************************************************************************)
(* The acknowledged prefix as a sequence.                                  *)
(***************************************************************************)
ReadsAsPromise ==
    \E k \in Nat :
        /\ AbstractPromised \in Seq(Events \cup {Invalid})
        /\ Len(AbstractPromised) = k
        /\ \A r \in acked : r.off < k
        /\ \A o \in 0 .. k - 1 : \E r \in acked : r.off = o
        /\ \A r \in acked : AbstractPromised[r.off + 1] = r.ev

LEMMA AbstractPromisedFacts == Inv /\ InvPromise => ReadsAsPromise
<1> SUFFICES ASSUME Inv, InvPromise PROVE ReadsAsPromise
  OBVIOUS
<1>1. PICK k \in 0 .. MaxOffset :
        /\ \A r \in acked : r.off < k
        /\ \A o \in 0 .. k - 1 : \E r \in acked : r.off = o
  BY DEF InvPromise
<1>2. k \in Nat /\ \A r, s \in acked : r.off = s.off => r = s
  BY MaxOffsetAssumption DEF InvPromise
<1>3. \A r \in acked : r.off \in 0 .. k - 1 /\ r.ev \in Events \cup {Invalid}
  BY <1>1, <1>2 DEF Inv, TypeOK, Cell
<1>4. Cardinality(acked) = k
  <2> DEFINE f == [r \in acked |-> r.off]
             T == 0 .. k - 1
  <2>1. f \in [acked -> T] /\ (\A r, s \in acked : f[r] = f[s] => r = s)
        /\ (\A o \in T : \E r \in acked : f[r] = o)
    BY <1>1, <1>2, <1>3
  <2>2. IsFiniteSet(T) /\ Cardinality(T) = k
    <3>1. 0 \in Int /\ k - 1 \in Int
      BY <1>2
    <3>2. IsFiniteSet(T) /\ Cardinality(T) = IF 0 > k - 1 THEN 0 ELSE (k - 1) - 0 + 1
      BY <3>1, FS_Interval
    <3> HIDE DEF T
    <3> QED BY <1>2, <3>2
  <2> HIDE DEF f, T
  <2>3. f \in Injection(acked, T) /\ f \in Surjection(acked, T)
    BY <2>1 DEF Injection, Surjection, IsInjective
  <2>4. Cardinality(acked) = Cardinality(T)
    BY <2>2, <2>3, FS_Injection
  <2> QED BY <2>2, <2>4
<1> DEFINE p == AbstractPromised
           at(i) == CHOOSE r \in acked : r.off = i - 1
<1>5. p = [i \in 1 .. k |-> at(i).ev]
  BY <1>4 DEF AbstractPromised
<1>6. ASSUME NEW i \in 1 .. k PROVE at(i) \in acked /\ at(i).off = i - 1
  <2>1. i - 1 \in 0 .. k - 1
    BY <1>2
  <2>2. \E r \in acked : r.off = i - 1
    BY <1>1, <2>1
  <2> QED BY <2>2
<1> HIDE DEF p, at
<1>7. p \in [1 .. k -> Events \cup {Invalid}]
  BY <1>3, <1>5, <1>6
<1>8. p \in Seq(Events \cup {Invalid}) /\ Len(p) = k
  BY <1>2, <1>7, SeqDef
<1>9. ASSUME NEW r \in acked PROVE p[r.off + 1] = r.ev
  <2>1. r.off + 1 \in 1 .. k /\ (r.off + 1) - 1 = r.off
    BY <1>2, <1>3
  <2>2. at(r.off + 1) = r
    BY <1>2, <1>6, <2>1
  <2> QED BY <1>5, <2>1, <2>2
<1> QED BY <1>1, <1>2, <1>8, <1>9 DEF p, ReadsAsPromise

LEMMA AbstractPromisedFactsNext == Inv' /\ InvPromise' => ReadsAsPromise'
BY AbstractPromisedFacts, PTL

(***************************************************************************)
(* A step that leaves every place as it is keeps the log; one that makes   *)
(* no new place keeps what is left of it.                                  *)
(***************************************************************************)
LEMMA LogKept ==
    ASSUME Places, Places',
           \A b, i : Scanned(b, i) => Scanned(b, i)' /\ data'[b][i] = data[b][i]
    PROVE  LogEnd <= LogEnd' /\ \A o \in 0 .. LogEnd - 1 : EventAt(o)' = EventAt(o)
<1>1. ASSUME NEW o \in 0 .. LogEnd - 1 PROVE o \in 0 .. LogEnd' - 1 /\ EventAt(o)' = EventAt(o)
  <2>1. PICK b, i : Scanned(b, i) /\ o = b + i - 1
    BY DEF Places
  <2>2. EventAt(b + i - 1) = data[b][i].ev
    BY <2>1 DEF Places
  <2>3. Scanned(b, i)' /\ data'[b][i] = data[b][i]
    BY <2>1
  <2>4. b + i - 1 \in 0 .. LogEnd' - 1 /\ EventAt(b + i - 1)' = data'[b][i].ev
    BY <2>3 DEF Places
  <2> QED BY <2>1, <2>2, <2>3, <2>4
<1>2. LogEnd \in Nat /\ LogEnd' \in Nat
  BY DEF Places
<1>3. LogEnd <= LogEnd'
  <2>1. PICK m, n \in Nat : m = LogEnd /\ n = LogEnd'
    BY <1>2
  <2>2. \A o \in 0 .. m - 1 : o \in 0 .. n - 1
    BY <1>1, <2>1
  <2>3. m # 0 => m - 1 \in 0 .. n - 1
    BY <2>2
  <2>4. m <= n
    BY <2>3
  <2> QED BY <2>1, <2>4, Zenon
<1> QED BY <1>1, <1>3

LEMMA LogLost ==
    ASSUME Places, Places',
           \A b, i : Scanned(b, i)' => Scanned(b, i) /\ data'[b][i] = data[b][i]
    PROVE  LogEnd' <= LogEnd /\ \A o \in 0 .. LogEnd' - 1 : EventAt(o)' = EventAt(o)
<1>1. ASSUME NEW o \in 0 .. LogEnd' - 1 PROVE o \in 0 .. LogEnd - 1 /\ EventAt(o)' = EventAt(o)
  <2>1. PICK b, i : Scanned(b, i)' /\ o = b + i - 1
    BY DEF Places
  <2>2. EventAt(b + i - 1)' = data'[b][i].ev
    BY <2>1 DEF Places
  <2>3. Scanned(b, i) /\ data'[b][i] = data[b][i]
    BY <2>1
  <2>4. b + i - 1 \in 0 .. LogEnd - 1 /\ EventAt(b + i - 1) = data[b][i].ev
    BY <2>3 DEF Places
  <2> QED BY <2>1, <2>2, <2>3, <2>4
<1>2. LogEnd \in Nat /\ LogEnd' \in Nat
  BY DEF Places
<1>3. LogEnd' <= LogEnd
  <2>1. PICK m, n \in Nat : m = LogEnd' /\ n = LogEnd
    BY <1>2
  <2>2. \A o \in 0 .. m - 1 : o \in 0 .. n - 1
    BY <1>1, <2>1
  <2>3. m # 0 => m - 1 \in 0 .. n - 1
    BY <2>2
  <2>4. m <= n
    BY <2>3
  <2> QED BY <2>1, <2>4, Zenon
<1> QED BY <1>1, <1>3

(***************************************************************************)
(* What each shape of step does to the places.                             *)
(***************************************************************************)
KeepsPlaces == \A b, i : Scanned(b, i) => Scanned(b, i)' /\ data'[b][i] = data[b][i]

MakesNoPlace == \A b, i : Scanned(b, i)' => Scanned(b, i) /\ data'[b][i] = data[b][i]

LEMMA GrowsKeepsPlaces ==
    ASSUME Inv, NEW t \in Seq(Cell), Grows(t)
    PROVE  KeepsPlaces
<1> SUFFICES ASSUME NEW b, NEW i, Scanned(b, i)
             PROVE  Scanned(b, i)' /\ data'[b][i] = data[b][i]
  BY DEF KeepsPlaces
<1>1. b \in live /\ i \in 1 .. Len(data[b]) /\ OnlyRecords(data[b], i) /\ live' = live
  BY DEF Scanned, Grows
<1>2. /\ Len(t) \in Nat /\ size \in Nat /\ Len(data[active]) = size
      /\ Len(data'[active]) = size + Len(t)
      /\ \A j \in 1 .. size : data'[active][j] = data[active][j]
      /\ \A c \in live : c # active => data'[c] = data[c]
  BY GrowsFacts
<1>3. CASE b # active
  BY <1>1, <1>2, <1>3 DEF Scanned
<1>4. CASE b = active
  <2>1. i \in 1 .. size /\ i \in 1 .. size + Len(t) /\ \A j \in 1 .. i : j \in 1 .. size
    BY <1>1, <1>2, <1>4
  <2>2. OnlyRecords(data'[active], i)
    BY <1>1, <1>2, <1>4, <2>1 DEF OnlyRecords
  <2> QED BY <1>1, <1>2, <1>4, <2>1, <2>2 DEF Scanned
<1> QED BY <1>3, <1>4

LEMMA OpenKeepsPlaces ==
    ASSUME Inv, OpenExisting
    PROVE  KeepsPlaces /\ MakesNoPlace
<1>1. PICK b \in live, n \in Nat :
             /\ b \in Nat /\ data[b] \in Seq(Cell) /\ n \in 0 .. Len(data[b])
             /\ ScanStops(data[b], b, n)
             /\ Len(data'[b]) = n
             /\ \A j \in 1 .. n : data'[b][j] = data[b][j]
             /\ \A c \in live : c # b => data'[c] = data[c]
             /\ UNCHANGED live
  BY OpenExistingFacts
<1>2. \A i \in 1 .. Len(data[b]) : OnlyRecords(data[b], i) => i \in 1 .. n
  <2> SUFFICES ASSUME NEW i \in 1 .. Len(data[b]), OnlyRecords(data[b], i) PROVE i \in 1 .. n
    OBVIOUS
  <2>1. Positional(data[b], b) /\ i \in 0 .. Len(data[b])
    BY <1>1 DEF Inv, InvDisk, InvFiles
  <2>2. ValidTo(data[b], b, i)
    BY <1>1, <2>1, RecordsAreValid
  <2>3. i <= n
    BY <1>1, <2>1, <2>2, ScanReaches
  <2> QED BY <2>3
<1>3. \A i \in 1 .. n : /\ i \in 1 .. Len(data[b])
                        /\ OnlyRecords(data[b], i) <=> OnlyRecords(data'[b], i)
  <2> SUFFICES ASSUME NEW i \in 1 .. n
               PROVE  /\ i \in 1 .. Len(data[b])
                      /\ OnlyRecords(data[b], i) <=> OnlyRecords(data'[b], i)
    OBVIOUS
  <2>1. i \in 1 .. Len(data[b]) /\ \A j \in 1 .. i : data'[b][j] = data[b][j]
    BY <1>1
  <2> QED BY <2>1 DEF OnlyRecords
<1>4. KeepsPlaces
  <2> SUFFICES ASSUME NEW c, NEW i, Scanned(c, i)
               PROVE  Scanned(c, i)' /\ data'[c][i] = data[c][i]
    BY DEF KeepsPlaces
  <2>1. CASE c = b
    BY <1>1, <1>2, <1>3, <2>1 DEF Scanned
  <2>2. CASE c # b
    BY <1>1, <2>2 DEF Scanned
  <2> QED BY <2>1, <2>2
<1>5. MakesNoPlace
  <2> SUFFICES ASSUME NEW c, NEW i, Scanned(c, i)'
               PROVE  Scanned(c, i) /\ data'[c][i] = data[c][i]
    BY DEF MakesNoPlace
  <2>1. CASE c = b
    BY <1>1, <1>3, <2>1 DEF Scanned
  <2>2. CASE c # b
    BY <1>1, <2>2 DEF Scanned
  <2> QED BY <2>1, <2>2
<1> QED BY <1>4, <1>5

LEMMA CreateKeepsPlaces ==
    ASSUME Inv, CreateSegment
    PROVE  KeepsPlaces /\ MakesNoPlace
<1>1. /\ live' = live \cup {next} /\ Len(data'[next]) = 0
      /\ \A b \in live : data'[b] = data[b]
  BY CreateStep
<1>2. \A i : i \notin 1 .. 0
  OBVIOUS
<1>3. KeepsPlaces
  BY <1>1 DEF KeepsPlaces, Scanned
<1>4. MakesNoPlace
  <2> SUFFICES ASSUME NEW c, NEW i, Scanned(c, i)'
               PROVE  Scanned(c, i) /\ data'[c][i] = data[c][i]
    BY DEF MakesNoPlace
  <2>1. c \in live' /\ i \in 1 .. Len(data'[c]) /\ OnlyRecords(data'[c], i)
    BY DEF Scanned
  <2>2. c \in live
    BY <1>1, <1>2, <2>1
  <2> QED BY <1>1, <2>1, <2>2 DEF Scanned
<1> QED BY <1>3, <1>4

LEMMA SameKeepsPlaces ==
    ASSUME UNCHANGED <<live, data>>
    PROVE  KeepsPlaces /\ MakesNoPlace
BY DEF KeepsPlaces, MakesNoPlace, Scanned

LEMMA PowerCutMakesNoPlace ==
    ASSUME Inv, InvRecords, PowerCutLeaves
    PROVE  MakesNoPlace
<1> SUFFICES ASSUME NEW b, NEW i, Scanned(b, i)'
             PROVE  Scanned(b, i) /\ data'[b][i] = data[b][i]
  BY DEF MakesNoPlace
<1>1. /\ b \in durableDir /\ b \in live /\ i \in 1 .. Len(data'[b])
      /\ OnlyRecords(data'[b], i)
      /\ Keeps(data[b], durable[b], data'[b])
      /\ data[b] \in Seq(Cell) /\ durable[b] \in Seq(Cell)
  BY DEF Scanned, PowerCutLeaves, Inv, InvDisk, InvDir, TypeOK
<1>2. /\ Len(data'[b]) \in Nat /\ Len(durable[b]) \in Nat /\ Len(data[b]) \in Nat
      /\ \A j \in 1 .. Len(durable[b]) : data'[b][j] = durable[b][j]
      /\ \A j \in Len(durable[b]) + 1 .. Len(data'[b]) :
           data'[b][j].kind = "rec" => j <= Len(data[b]) /\ data'[b][j] = data[b][j]
  BY <1>1 DEF Keeps
<1>3. ASSUME NEW j \in 1 .. i PROVE j \in 1 .. Len(data[b]) /\ data'[b][j] = data[b][j]
  <2>0. data'[b][j].kind = "rec"
    BY <1>1 DEF OnlyRecords
  <2>1. CASE j \in 1 .. Len(durable[b])
    <3>1. OnlyRecords(durable[b], j)
      <4> SUFFICES ASSUME NEW h \in 1 .. j PROVE durable[b][h].kind = "rec"
        BY DEF OnlyRecords
      <4>1. h \in 1 .. i /\ h \in 1 .. Len(durable[b])
        BY <1>1, <1>2, <2>1
      <4> QED BY <1>1, <1>2, <4>1 DEF OnlyRecords
    <3>2. j <= Len(data[b]) /\ data[b][j] = durable[b][j]
      BY <1>1, <2>1, <3>1 DEF InvRecords
    <3> QED BY <1>2, <2>1, <3>2
  <2>2. CASE j \in Len(durable[b]) + 1 .. Len(data'[b])
    BY <1>2, <2>0, <2>2
  <2> QED BY <1>1, <1>2, <2>1, <2>2
<1>4. i \in 1 .. i
  BY <1>1
<1>5. OnlyRecords(data[b], i)
  BY <1>1, <1>3 DEF OnlyRecords
<1> QED BY <1>1, <1>3, <1>4, <1>5 DEF Scanned

(***************************************************************************)
(* The acknowledged records are at places.                                 *)
(***************************************************************************)
AckedAtPlaces == \A r \in acked : \E b, i : Scanned(b, i) /\ r.off = b + i - 1

LEMMA AckedScanned == Inv /\ InvAcked => AckedAtPlaces
<1> SUFFICES ASSUME Inv, InvAcked, NEW r \in acked
             PROVE  \E b, i : Scanned(b, i) /\ r.off = b + i - 1
  BY DEF AckedAtPlaces
<1>1. PICK b \in durableDir : InFile(data[b], b, r)
  BY DEF InvAcked
<1>2. b \in live
  BY DEF Inv, InvDisk, InvDir
<1> QED BY <1>1, <1>2, InFileScanned

LEMMA AckedScannedNext == Inv' /\ InvAcked' => AckedAtPlaces'
BY AckedScanned, PTL

-----------------------------------------------------------------------------
(***************************************************************************)
(* Every step of the log is a step of the abstract log, or none.           *)
(***************************************************************************)
LEMMA SameLog ==
    ASSUME Places, Places', ReadsAsLog, ReadsAsLog', KeepsPlaces, MakesNoPlace
    PROVE  AbstractLog' = AbstractLog
<1>1. LogEnd <= LogEnd' /\ \A o \in 0 .. LogEnd - 1 : EventAt(o)' = EventAt(o)
  BY LogKept DEF KeepsPlaces
<1>2. LogEnd' <= LogEnd
  BY LogLost DEF MakesNoPlace
<1>3. PICK m, n \in Nat : m = LogEnd /\ n = LogEnd'
  BY DEF Places
<1>4. PICK f, g \in Seq(Events) : f = AbstractLog /\ g = AbstractLog'
  BY DEF ReadsAsLog
<1>5. m <= n /\ n <= m
  BY <1>1, <1>2, <1>3, Zenon
<1>6. m = n
  BY <1>5
<1>7. Len(f) = m /\ Len(g) = n
  BY <1>3, <1>4 DEF ReadsAsLog
<1>8. ASSUME NEW i \in 1 .. m PROVE f[i] = g[i]
  <2>1. i - 1 \in 0 .. m - 1
    OBVIOUS
  <2>2. EventAt(i - 1)' = EventAt(i - 1)
    BY <1>1, <1>3, <2>1
  <2>3. f[i] = EventAt(i - 1)
    BY <1>3, <1>4 DEF ReadsAsLog
  <2>4. g[i] = EventAt(i - 1)'
    BY <1>3, <1>4, <1>6 DEF ReadsAsLog
  <2> QED BY <2>2, <2>3, <2>4
<1>9. f = g
  BY <1>6, <1>7, <1>8, SeqEqual
<1> QED BY <1>4, <1>9

LEMMA GrowsExtends ==
    ASSUME Places, Places', ReadsAsLog, ReadsAsLog', KeepsPlaces, UNCHANGED acked
    PROVE  Abstract!Extend \/ UNCHANGED <<AbstractLog, AbstractPromised>>
<1>1. LogEnd <= LogEnd' /\ \A o \in 0 .. LogEnd - 1 : EventAt(o)' = EventAt(o)
  BY LogKept DEF KeepsPlaces
<1>2. AbstractPromised' = AbstractPromised
  BY DEF AbstractPromised
<1>3. PICK m, n \in Nat : m = LogEnd /\ n = LogEnd'
  BY DEF Places
<1>4. PICK f, g \in Seq(Events) : f = AbstractLog /\ g = AbstractLog'
  BY DEF ReadsAsLog
<1>5. m <= n
  BY <1>1, <1>3, Zenon
<1>6. Len(f) = m /\ Len(g) = n
  BY <1>3, <1>4 DEF ReadsAsLog
<1>7. ASSUME NEW i \in 1 .. m PROVE f[i] = g[i]
  <2>1. i - 1 \in 0 .. m - 1 /\ i \in 1 .. n
    BY <1>5
  <2>2. EventAt(i - 1)' = EventAt(i - 1)
    BY <1>1, <1>3, <2>1
  <2>3. f[i] = EventAt(i - 1)
    BY <1>3, <1>4 DEF ReadsAsLog
  <2>4. g[i] = EventAt(i - 1)'
    BY <1>3, <1>4, <2>1 DEF ReadsAsLog
  <2> QED BY <2>2, <2>3, <2>4
<1>8. CASE m = n
  <2>1. f = g
    BY <1>6, <1>7, <1>8, SeqEqual
  <2> QED BY <1>2, <1>4, <2>1
<1>9. CASE m < n
  <2>1. SubSeq(g, 1, m) = f
    <3>1. /\ SubSeq(g, 1, m) \in Seq(Events) /\ Len(SubSeq(g, 1, m)) = m
          /\ \A i \in 1 .. m : SubSeq(g, 1, m)[i] = g[i]
      BY <1>6, <1>9
    <3> QED BY <1>6, <1>7, <3>1, SeqEqual
  <2>2. Abstract!Extend
    BY <1>2, <1>4, <1>6, <1>9, <2>1 DEF Abstract!Extend
  <2> QED BY <2>2
<1> QED BY <1>5, <1>8, <1>9

LEMMA PowerCutLoses ==
    ASSUME Places, Places', ReadsAsLog, ReadsAsLog', MakesNoPlace,
           ReadsAsPromise, AckedAtPlaces', UNCHANGED acked
    PROVE  Abstract!Lose
<1>1. LogEnd' <= LogEnd /\ \A o \in 0 .. LogEnd' - 1 : EventAt(o)' = EventAt(o)
  BY LogLost DEF MakesNoPlace
<1>2. AbstractPromised' = AbstractPromised
  BY DEF AbstractPromised
<1>3. PICK m, n \in Nat : m = LogEnd' /\ n = LogEnd
  BY DEF Places
<1>4. PICK f, g \in Seq(Events) : f = AbstractLog' /\ g = AbstractLog
  BY DEF ReadsAsLog
<1>5. m <= n
  BY <1>1, <1>3, Zenon
<1>6. Len(f) = m /\ Len(g) = n
  BY <1>3, <1>4 DEF ReadsAsLog
<1>7. ASSUME NEW i \in 1 .. m PROVE f[i] = g[i]
  <2>1. i - 1 \in 0 .. m - 1 /\ i \in 1 .. n
    BY <1>5
  <2>2. EventAt(i - 1)' = EventAt(i - 1)
    BY <1>1, <1>3, <2>1
  <2>3. f[i] = EventAt(i - 1)'
    BY <1>3, <1>4 DEF ReadsAsLog
  <2>4. g[i] = EventAt(i - 1)
    BY <1>3, <1>4, <2>1 DEF ReadsAsLog
  <2> QED BY <2>2, <2>3, <2>4
<1>8. f = SubSeq(g, 1, m)
  <2>1. /\ SubSeq(g, 1, m) \in Seq(Events) /\ Len(SubSeq(g, 1, m)) = m
        /\ \A i \in 1 .. m : SubSeq(g, 1, m)[i] = g[i]
    BY <1>5, <1>6
  <2> QED BY <1>6, <1>7, <2>1, SeqEqual
<1>9. PICK k \in Nat : /\ Len(AbstractPromised) = k
                       /\ \A o \in 0 .. k - 1 : \E r \in acked : r.off = o
  BY DEF ReadsAsPromise
<1>10. k <= m
  <2> SUFFICES ASSUME k > 0 PROVE k <= m
    OBVIOUS
  <2>1. k - 1 \in 0 .. k - 1
    OBVIOUS
  <2>2. PICK r \in acked : r.off = k - 1
    BY <1>9, <2>1
  <2>3. PICK b, i : Scanned(b, i)' /\ r.off = b + i - 1
    BY DEF AckedAtPlaces
  <2>4. b + i - 1 \in 0 .. m - 1
    BY <1>3, <2>3 DEF Places
  <2> QED BY <2>2, <2>3, <2>4
<1>11. m \in k .. n
  BY <1>5, <1>10
<1>12. m \in Len(AbstractPromised) .. Len(AbstractLog)
  BY <1>4, <1>6, <1>9, <1>11
<1>13. AbstractLog' = SubSeq(AbstractLog, 1, m)
  BY <1>4, <1>8
<1> QED BY <1>2, <1>12, <1>13 DEF Abstract!Lose

LEMMA SyncAcknowledges ==
    ASSUME Inv, InvChain, InvAcked, InvPromise, Places, ReadsAsLog, ReadsAsPromise,
           ReadsAsPromise', bases # {}, acked' = acked \cup Appended,
           AbstractLog' = AbstractLog
    PROVE  Abstract!Acknowledge
<1>1. next \in Nat /\ next <= LogEnd /\ LogEnd \in Nat
  BY OpenFacts, NextBelowEnd, LogEndFacts
<1>2. PICK k \in Nat : /\ Len(AbstractPromised) = k
                       /\ \A o \in 0 .. k - 1 : \E r \in acked : r.off = o
  BY DEF ReadsAsPromise
<1>3. PICK n \in Nat : /\ AbstractPromised' \in Seq(Events \cup {Invalid})
                       /\ Len(AbstractPromised') = n
                       /\ \A r \in acked' : r.off < n
                       /\ \A o \in 0 .. n - 1 : \E r \in acked' : r.off = o
                       /\ \A r \in acked' : AbstractPromised'[r.off + 1] = r.ev
  BY DEF ReadsAsPromise
<1>4. ASSUME NEW r \in acked' PROVE r.off \in 0 .. next - 1 /\ Read(r.off, r)
  BY AckedReads, AppendedReads
<1>5. n = next
  <2>1. ~(next < n)
    <3> SUFFICES ASSUME next < n PROVE FALSE
      OBVIOUS
    <3>1. next \in 0 .. n - 1
      BY <1>1
    <3>2. PICK r \in acked' : r.off = next
      BY <1>3, <3>1
    <3>3. next \in 0 .. next - 1
      BY <1>4, <3>2
    <3> QED BY <1>1, <3>3
  <2>2. ~(n < next)
    <3> SUFFICES ASSUME n < next PROVE FALSE
      OBVIOUS
    <3>1. n \in 0 .. next - 1
      BY <1>1
    <3>2. PICK x \in Appended : x.off = n
      BY <3>1, OneReading
    <3>3. n < n
      BY <1>3, <3>2
    <3> QED BY <3>3
  <2> QED BY <1>1, <2>1, <2>2
<1>6. k <= next
  <2> SUFFICES ASSUME k > 0 PROVE k <= next
    BY <1>1
  <2>1. k - 1 \in 0 .. k - 1
    OBVIOUS
  <2>2. PICK r \in acked : r.off = k - 1
    BY <1>2, <2>1
  <2>3. k - 1 < next
    BY <2>2 DEF InvPromise
  <2> QED BY <1>1, <2>3
<1>7. PICK f \in Seq(Events) : /\ f = AbstractLog /\ Len(f) = LogEnd
                               /\ \A i \in 1 .. LogEnd : f[i] = EventAt(i - 1)
  BY DEF ReadsAsLog
<1>8. PICK p \in Seq(Events \cup {Invalid}) :
        /\ p = AbstractPromised' /\ Len(p) = next
        /\ \A r \in acked' : p[r.off + 1] = r.ev
  BY <1>3, <1>5
<1>9. ASSUME NEW i \in 1 .. next PROVE p[i] = f[i]
  <2>1. i - 1 \in 0 .. next - 1 /\ i - 1 + 1 = i /\ i \in 1 .. LogEnd
    BY <1>1
  <2>2. PICK r \in acked' : r.off = i - 1
    BY <1>3, <1>5, <2>1
  <2>3. p[i] = r.ev
    BY <1>8, <2>1, <2>2
  <2>4. PICK b \in live, j \in Nat : Scanned(b, j) /\ i - 1 = b + j - 1
    BY <2>1, NextIsScanned
  <2>5. b + j - 1 < next
    BY <1>1, <2>1, <2>4
  <2>6. \A s : Read(b + j - 1, s) => s = data[b][j]
    BY <2>4, <2>5, ReadAtPlace
  <2>7. r = data[b][j]
    BY <1>4, <2>2, <2>4, <2>6
  <2>8. EventAt(i - 1) = data[b][j].ev
    BY <2>4, ScannedBelowEnd
  <2> QED BY <1>7, <2>1, <2>3, <2>7, <2>8
<1>10. p = SubSeq(f, 1, next)
  <2>1. /\ SubSeq(f, 1, next) \in Seq(Events) /\ Len(SubSeq(f, 1, next)) = next
        /\ \A i \in 1 .. next : SubSeq(f, 1, next)[i] = f[i]
    BY <1>1, <1>7
  <2>2. SubSeq(f, 1, next) \in Seq(Events \cup {Invalid})
    BY <1>1, <1>7
  <2> QED BY <1>8, <1>9, <2>1, <2>2, SeqEqual
<1>11. next \in k .. LogEnd
  BY <1>1, <1>6
<1>12. next \in Len(AbstractPromised) .. Len(AbstractLog)
  BY <1>2, <1>7, <1>11
<1>13. AbstractPromised' = SubSeq(AbstractLog, 1, next)
  BY <1>7, <1>8, <1>10
<1> QED BY <1>12, <1>13 DEF Abstract!Acknowledge

LEMMA StepRefines ==
    ASSUME InvAll, InvAll', [Next]_vars
    PROVE  [Abstract!Next]_<<AbstractLog, AbstractPromised>>
<1> USE DEF InvAll
<1>1. Places /\ Places'
  BY PlacesHold, PlacesHoldNext
<1>2. ReadsAsLog /\ ReadsAsLog'
  BY AbstractLogFacts, AbstractLogFactsNext
<1>3. ReadsAsPromise /\ ReadsAsPromise'
  BY AbstractPromisedFacts, AbstractPromisedFactsNext
<1>4. AckedAtPlaces'
  BY AckedScannedNext
<1>5. ASSUME NEW t \in Seq(Cell), Grows(t)
      PROVE  Abstract!Extend \/ UNCHANGED <<AbstractLog, AbstractPromised>>
  <2>1. KeepsPlaces /\ UNCHANGED acked
    BY <1>5, GrowsKeepsPlaces DEF Grows
  <2> QED BY <1>1, <1>2, <2>1, GrowsExtends
<1>6. CASE OpenExisting \/ CreateSegment \/ SyncDir \/ Quiet
  <2>1. KeepsPlaces /\ MakesNoPlace
    <3>1. SyncDir \/ Quiet => UNCHANGED <<live, data>>
      BY DEF SyncDir, Quiet
    <3> QED BY <1>6, <3>1, OpenKeepsPlaces, CreateKeepsPlaces, SameKeepsPlaces
  <2>2. UNCHANGED acked
    BY <1>6, CreateStep DEF OpenExisting, SyncDir, Quiet
  <2>3. AbstractLog' = AbstractLog
    BY <1>1, <1>2, <2>1, SameLog
  <2>4. AbstractPromised' = AbstractPromised
    BY <2>2 DEF AbstractPromised
  <2> QED BY <2>3, <2>4
<1>7. CASE Syncs
  <2>1. AbstractLog' = AbstractLog
    <3>1. KeepsPlaces /\ MakesNoPlace
      BY <1>7, SameKeepsPlaces DEF Syncs
    <3> QED BY <1>1, <1>2, <3>1, SameLog
  <2>2. CASE acked' = acked
    <3>1. AbstractPromised' = AbstractPromised
      BY <2>2 DEF AbstractPromised
    <3> QED BY <2>1, <3>1
  <2>3. CASE acked' = acked \cup Appended
    <3>1. bases # {}
      BY <1>7 DEF Syncs
    <3>2. Abstract!Acknowledge
      BY <1>1, <1>2, <1>3, <2>1, <2>3, <3>1, SyncAcknowledges
    <3> QED BY <3>2 DEF Abstract!Next
  <2> QED BY <1>7, <2>2, <2>3 DEF Syncs
<1>8. CASE PowerCutLeaves
  <2>1. MakesNoPlace /\ UNCHANGED acked
    BY <1>8, PowerCutMakesNoPlace DEF PowerCutLeaves
  <2>2. Abstract!Lose
    BY <1>1, <1>2, <1>3, <1>4, <2>1, PowerCutLoses
  <2> QED BY <2>2 DEF Abstract!Next
<1> QED BY <1>5, <1>6, <1>7, <1>8, Shapes DEF Abstract!Next

(***************************************************************************)
(* The segmented log on its disk implements the abstract durable log, for  *)
(* every segment size, mode and mix of faults, provided no log is opened   *)
(* over a segment name that was never made durable: a write extends what   *)
(* the files hold, a Sync acknowledges a longer prefix of it, a power cut  *)
(* loses a suffix that was not acknowledged, and rolls, truncations and    *)
(* reopenings change nothing the caller can see.                           *)
(***************************************************************************)
THEOREM LogImplementsDurableLog ==
    ASSUME "orphan" \notin Env
    PROVE  Spec => ImplementsDurableLog
<1>1. Init => Abstract!Init
  <2> SUFFICES ASSUME Init PROVE AbstractLog = <<>> /\ AbstractPromised = <<>>
    BY DEF Abstract!Init
  <2>1. live = {} /\ acked = {}
    BY DEF Init
  <2>2. LogEnd = 0 /\ Cardinality(acked) = 0
    BY <2>1, FS_EmptySet DEF LogEnd
  <2>3. 1 .. 0 = {}
    OBVIOUS
  <2> QED BY <2>2, <2>3 DEF AbstractLog, AbstractPromised
<1>2. InvAll /\ [Next]_vars => InvAll'
  BY InvAllNext
<1>3. InvAll /\ InvAll' /\ [Next]_vars => [Abstract!Next]_<<AbstractLog, AbstractPromised>>
  BY StepRefines
<1> QED BY <1>1, <1>2, <1>3, InvAllInit, PTL DEF Spec, ImplementsDurableLog, Abstract!Spec

(***************************************************************************)
(* The promise of the abstract log, in the form its steps preserve.        *)
(***************************************************************************)
LEMMA PrefixFacts ==
    ASSUME NEW s \in Seq(Events), NEW n \in 0 .. Len(s)
    PROVE  /\ SubSeq(s, 1, n) \in Seq(Events)
           /\ Len(SubSeq(s, 1, n)) = n
           /\ \A i \in 1 .. n : SubSeq(s, 1, n)[i] = s[i]
OBVIOUS

LEMMA SameReading ==
    ASSUME NEW s \in Seq(Events), NEW t \in Seq(Events), Len(s) = Len(t),
           \A i \in 1 .. Len(s) : s[i] = t[i]
    PROVE  s = t
OBVIOUS

Prefixed(l, p) ==
    /\ l \in Seq(Events) /\ p \in Seq(Events)
    /\ Len(p) <= Len(l)
    /\ \A i \in 1 .. Len(p) : p[i] = l[i]

LEMMA PrefixedStep ==
    ASSUME Prefixed(AbstractLog, AbstractPromised), Abstract!Next
    PROVE  Prefixed(AbstractLog', AbstractPromised')
<1> DEFINE l == AbstractLog  p == AbstractPromised
<1>1. /\ l \in Seq(Events) /\ p \in Seq(Events) /\ Len(p) <= Len(l)
      /\ \A i \in 1 .. Len(p) : p[i] = l[i]
  BY DEF Prefixed
<1>2. CASE Abstract!Extend
  <2>0. /\ l' \in Seq(Events) /\ Len(l') > Len(l) /\ SubSeq(l', 1, Len(l)) = l /\ p' = p
    BY <1>2 DEF Abstract!Extend
  <2> HIDE DEF l, p
  <2>1. \A i \in 1 .. Len(l) : l'[i] = l[i]
    <3>1. TAKE i \in 1 .. Len(l)
    <3>2. SubSeq(l', 1, Len(l))[i] = l'[i]
      BY <1>1, <2>0
    <3> QED BY <2>0, <3>2
  <2> QED BY <1>1, <2>0, <2>1 DEF Prefixed, l, p
<1>3. CASE Abstract!Acknowledge
  <2>1. PICK n \in Len(p) .. Len(l) : p' = SubSeq(l, 1, n) /\ l' = l
    BY <1>3 DEF Abstract!Acknowledge
  <2> HIDE DEF l, p
  <2> QED BY <1>1, <2>1, PrefixFacts DEF Prefixed, l, p
<1>4. CASE Abstract!Lose
  <2>1. PICK n \in Len(p) .. Len(l) : l' = SubSeq(l, 1, n) /\ p' = p
    BY <1>4 DEF Abstract!Lose
  <2> HIDE DEF l, p
  <2> QED BY <1>1, <2>1, PrefixFacts DEF Prefixed, l, p
<1> QED BY <1>2, <1>3, <1>4 DEF Abstract!Next

(***************************************************************************)
(* The specification the log is measured against keeps the promise log.go  *)
(* makes of Sync: no failure removes or changes an acknowledged event.     *)
(***************************************************************************)
THEOREM PromiseKept == Abstract!Spec => []Abstract!Honoured
<1> DEFINE Kept == Prefixed(AbstractLog, AbstractPromised)
<1>1. Abstract!Init => Kept
  BY DEF Abstract!Init, Prefixed
<1>2. Kept /\ [Abstract!Next]_<<AbstractLog, AbstractPromised>> => Kept'
  BY PrefixedStep DEF Prefixed
<1>3. Kept => Abstract!Honoured
  BY PrefixFacts, SameReading DEF Prefixed, Abstract!Honoured
<1> QED BY <1>1, <1>2, <1>3, PTL DEF Abstract!Spec

(***************************************************************************)
(* So the segmented log keeps the promise of log.go: at every instant,     *)
(* what its files hold begins with exactly the events that Sync            *)
(* acknowledged, in their order.                                           *)
(***************************************************************************)
THEOREM PromiseHolds ==
    ASSUME "orphan" \notin Env
    PROVE  Spec => []Abstract!Honoured
BY LogImplementsDurableLog, PromiseKept, PTL DEF ImplementsDurableLog

-----------------------------------------------------------------------------
(***************************************************************************)
(* Batch mode, on a log whose events encode.                               *)
(***************************************************************************)
CountingEnv == EnvEvents \ {"orphan", "invalid"}

LEMMA BatchRecordsType == BatchRecords \in Nat
BY SyncRecordsAssumption, DefaultSyncRecordsAssumption DEF BatchRecords

(***************************************************************************)
(* What the process remembers of an empty batch and of a closed log.       *)
(***************************************************************************)
LEMMA EmptyRest ==
    ASSUME rest' = <<>>
    PROVE  Len(rest') = 0 /\ \A i \in 1 .. Len(rest') : rest'[i] # Invalid
BY EmptySeq

LEMMA ForgetBatch ==
    ASSUME Forget
    PROVE  InvBatch'
BY EmptyRest DEF Forget, InvBatch

LEMMA OpenExistingBatch ==
    ASSUME Inv, InvBatch, OpenExisting, BatchRecords > 0
    PROVE  InvBatch'
<1>1. Inv'
  BY OpenExistingInv
<1>2. /\ pc' = "idle" /\ sinceSync' = 0 /\ rest' = rest /\ countsFrom' = next' /\ bases' = live
  BY DEF OpenExisting
<1>3. PICK b \in live, n \in Nat : active' = b /\ size' = n
  BY OpenExistingFacts
<1>4. b \in Nat /\ bases' # {}
  BY <1>2 DEF Inv, TypeOK, Offsets
<1>5. countsFrom' = b + n
  <2>1. next' = active' + size'
    BY <1>1, <1>4 DEF Inv, InvOpen
  <2> QED BY <1>2, <1>3, <2>1
<1>6. b + n - 0 <= b + n
  BY <1>4
<1>7. active' + size' - sinceSync' <= countsFrom'
  BY <1>2, <1>3, <1>5, <1>6
<1> QED BY <1>2, <1>7 DEF InvBatch

LEMMA AppendAllBatch ==
    ASSUME Inv, InvBatch, AppendAll
    PROVE  InvBatch'
<1>1. PICK n \in 1 .. Len(rest) :
        /\ Takes(n)
        /\ size' = size + n
        /\ sinceSync' = sinceSync + n
        /\ rest' = IF EncodeError(n) THEN <<>> ELSE SubSeq(rest, n + 1, Len(rest))
        /\ pc' = CASE EncodeError(n) -> "idle"
                   [] n = Len(rest) -> "sync"
                   [] OTHER -> "append"
  BY DEF AppendAll
<1>2. /\ pc = "append" /\ UNCHANGED <<durable, bases, active, countsFrom>>
  BY DEF AppendAll
<1>3. bases # {}
  BY <1>2 DEF Inv, InvClosed
<1>4. /\ size \in Nat /\ sinceSync \in Nat /\ rest \in Seq(Events \cup {Invalid})
      /\ Len(rest) \in Nat /\ n \in Nat
  BY DEF Inv, TypeOK
<1>5. \A i \in 1 .. Len(rest) : rest[i] # Invalid
  BY DEF InvBatch
<1>6. n < Len(rest) => size + n = SegMax
  <2> SUFFICES ASSUME n < Len(rest) PROVE size + n = SegMax
    OBVIOUS
  <2>1. n + 1 \in 1 .. Len(rest)
    BY <1>4
  <2>2. rest[n + 1] # Invalid
    BY <1>5, <2>1
  <2> QED BY <1>1, <2>2 DEF Takes
<1>7. ~EncodeError(n)
  BY <1>4, <1>6, SegMaxAssumption DEF EncodeError
<1>8. rest' = SubSeq(rest, n + 1, Len(rest)) /\ pc' = IF n = Len(rest) THEN "sync" ELSE "append"
  BY <1>1, <1>7
<1>9. Len(rest') = Len(rest) - n /\ \A i \in 1 .. Len(rest) - n : rest'[i] = rest[n + i]
  <2>1. n + 1 \in 1 .. Len(rest) + 1 /\ Len(rest) \in n .. Len(rest)
    BY <1>1, <1>4
  <2>2. /\ Len(SubSeq(rest, n + 1, Len(rest))) = Len(rest) - n
        /\ \A i \in 1 .. Len(rest) - n : SubSeq(rest, n + 1, Len(rest))[i] = rest[n + i]
    BY <1>4, <2>1
  <2> QED BY <1>8, <2>2
<1>10. \A i \in 1 .. Len(rest') : rest'[i] # Invalid
  <2> SUFFICES ASSUME NEW i \in 1 .. Len(rest) - n PROVE rest'[i] # Invalid
    BY <1>9
  <2>1. n + i \in 1 .. Len(rest)
    BY <1>4
  <2>2. rest'[i] = rest[n + i]
    BY <1>9
  <2> QED BY <1>5, <2>1, <2>2
<1>11. ASSUME NEW i \in 1 .. size' - sinceSync', ~(active' + size' - sinceSync' <= countsFrom')
       PROVE  i <= Len(durable'[active']) /\ durable'[active'][i] = data'[active'][i]
  <2>0. ~(active + size - sinceSync <= countsFrom)
    <3>1. active \in Nat /\ countsFrom \in Nat
      BY DEF Inv, TypeOK, Offsets
    <3> QED BY <1>1, <1>2, <1>4, <1>11, <3>1
  <2>1. i \in 1 .. size - sinceSync /\ i \in 1 .. size
    BY <1>1, <1>4
  <2>2. data'[active][i] = data[active][i]
    BY <2>1, AppendAllGrows, GrowsFacts
  <2> QED BY <1>2, <1>3, <2>0, <2>1, <2>2 DEF InvBatch
<1>12. pc' = "append" => Len(rest') > 0 /\ Full'
  BY <1>1, <1>4, <1>6, <1>8, <1>9, SegMaxAssumption DEF Full
<1>13. pc' # "idle"
  BY <1>8
<1> QED BY <1>2, <1>3, <1>10, <1>11, <1>12, <1>13 DEF InvBatch

LEMMA AppendFailsBatch ==
    ASSUME Inv, InvBatch, AppendFails
    PROVE  InvBatch'
<1>1. /\ pc = "append" /\ ~Full /\ pc' = "idle" /\ rest' = <<>>
      /\ UNCHANGED <<durable, bases, active, next, size, sinceSync, countsFrom>>
  BY DEF AppendFails, Return
<1>2. bases # {} /\ size \in Nat /\ sinceSync \in Nat
  BY <1>1 DEF Inv, InvClosed, TypeOK
<1>3. ASSUME NEW i \in 1 .. size - sinceSync, ~(active + size - sinceSync <= countsFrom)
      PROVE  i <= Len(durable[active]) /\ durable[active][i] = data'[active][i]
  <2>1. i \in 1 .. size
    BY <1>2
  <2>2. data'[active][i] = data[active][i]
    BY <2>1, AppendFailsGrows, GrowsFacts
  <2> QED BY <1>2, <1>3, <2>2 DEF InvBatch
<1>4. sinceSync < BatchRecords \/ countsFrom' = next'
  BY <1>1, <1>2 DEF InvBatch
<1> QED BY <1>1, <1>2, <1>3, <1>4, EmptyRest DEF InvBatch

(***************************************************************************)
(* A sync of the active segment leaves nothing of it unsynced.             *)
(***************************************************************************)
LEMMA SyncBatch ==
    ASSUME Inv, InvBatch, RollSync \/ Sync, BatchRecords > 0
    PROVE  InvBatch'
<1>1. bases # {}
  BY DEF RollSync, Sync, Inv, InvClosed
<1>2. /\ UNCHANGED <<data, bases, active, size>>
      /\ durable' = [durable EXCEPT ![active] = data[active]]
      /\ \/ pc' = "create" /\ rest' = rest /\ sinceSync' = sinceSync
         \/ pc' = "idle" /\ rest' = <<>> /\ sinceSync' = 0
  BY DEF RollSync, Sync, FileSync, Return
<1>3. active \in Offsets /\ size \in Nat /\ sinceSync \in Nat /\ size <= Len(data[active])
      /\ Len(data[active]) \in Nat
  BY <1>1, OpenFacts DEF Inv, InvOpen, TypeOK
<1>4. durable'[active] = data[active]
  BY <1>2, <1>3 DEF Inv, TypeOK
<1>5. \A i \in 1 .. size' - sinceSync' : i <= Len(data[active])
  BY <1>2, <1>3
<1>6. \A i \in 1 .. Len(rest') : rest'[i] # Invalid
  BY <1>2, EmptyRest DEF InvBatch
<1>7. pc' = "idle" => sinceSync' < BatchRecords
  BY <1>2
<1>8. pc' # "append"
  BY <1>2
<1> QED BY <1>1, <1>2, <1>4, <1>5, <1>6, <1>7, <1>8 DEF InvBatch

LEMMA CreateBatch ==
    ASSUME Inv, InvBatch, CreateSegment
    PROVE  InvBatch'
<1>1. /\ live' = live \cup {next} /\ next \notin live
      /\ Len(data'[next]) = 0
      /\ \A b \in live : data'[b] = data[b] /\ durable'[b] = durable[b]
      /\ UNCHANGED <<bases, active>>
  BY CreateStep
<1>2. pc' = "dirsync" /\ UNCHANGED <<size, sinceSync, rest, countsFrom>>
  BY DEF CreateSegment, memory
<1>3. CASE bases # {}
  <2>1. active \in live
    BY <1>3, OpenFacts
  <2> QED BY <1>1, <1>2, <1>3, <2>1 DEF InvBatch
<1>4. CASE bases = {}
  <2>1. \A i : i \notin 1 .. 0
    OBVIOUS
  <2> QED BY <1>1, <1>2, <1>4, <2>1 DEF InvBatch
<1> QED BY <1>3, <1>4

LEMMA SyncDirBatch ==
    ASSUME Inv, InvBatch, SyncDir, BatchRecords > 0
    PROVE  InvBatch'
<1>1. /\ bases' = bases \cup {next} /\ active' = next /\ size' = 0 /\ sinceSync' = 0
      /\ pc' = (IF rest = <<>> THEN "idle" ELSE "append")
      /\ UNCHANGED <<live, data, durable, next, rest>>
  BY DEF SyncDir
<1>2. bases' # {}
  BY <1>1
<1>3. \A i \in 1 .. size' - sinceSync' : FALSE
  BY <1>1
<1>4. pc' = "append" => Len(rest') > 0
  <2>1. rest \in Seq(Events \cup {Invalid})
    BY DEF Inv, TypeOK
  <2>2. rest # <<>> => Len(rest) > 0
    BY <2>1, EmptySeq
  <2> QED BY <1>1, <2>2
<1>5. sinceSync' < BatchRecords
  BY <1>1
<1> QED BY <1>1, <1>2, <1>3, <1>4, <1>5 DEF InvBatch

(***************************************************************************)
(* A sync that fails is reported, and nothing before it is counted.        *)
(***************************************************************************)
LEMMA SyncFailsBatch ==
    ASSUME Inv, InvBatch, RollSyncFails \/ SyncFails
    PROVE  InvBatch'
<1>1. /\ pc' = "idle" /\ rest' = <<>> /\ countsFrom' = next'
      /\ UNCHANGED <<live, data, durable, bases, active, next, size, sinceSync>>
  BY DEF RollSyncFails, SyncFails, Return, disk
<1>2. bases # {} => active + size - sinceSync <= next
  <2> SUFFICES ASSUME bases # {} PROVE active + size - sinceSync <= next
    OBVIOUS
  <2>1. /\ active \in Nat /\ size \in Nat /\ sinceSync \in Nat /\ next = active + size
    BY OpenFacts DEF Inv, InvOpen, TypeOK
  <2> QED BY <2>1
<1> QED BY <1>1, <1>2, EmptyRest DEF InvBatch

(***************************************************************************)
(* A step that leaves the disk and the counters alone.                     *)
(***************************************************************************)
LEMMA QuietBatch ==
    ASSUME InvBatch, UNCHANGED <<live, data, durable, bases, active, size, sinceSync, countsFrom>>,
           \A i \in 1 .. Len(rest') : rest'[i] # Invalid,
           bases # {} /\ pc' = "idle" =>
               \/ sinceSync < BatchRecords \/ countsFrom = next'
               \/ Full /\ durable[active] = data[active],
           bases # {} /\ pc' = "append" =>
               Len(rest') > 0 /\ (~Full => sinceSync < BatchRecords \/ countsFrom = next')
    PROVE  InvBatch'
BY DEF InvBatch, Full

LEMMA InvBatchNext ==
    ASSUME Inv, InvBatch, [Next]_vars, Mode = "batch", BatchRecords > 0, Env \subseteq CountingEnv
    PROVE  InvBatch'
<1>0. "invalid" \notin Env
  BY DEF CountingEnv
<1>1. CASE OpenExisting
  BY <1>1, OpenExistingBatch
<1>2. CASE AppendAll
  BY <1>2, AppendAllBatch
<1>3. CASE AppendFails
  BY <1>3, AppendFailsBatch
<1>4. CASE RollSync \/ Sync
  BY <1>4, SyncBatch
<1>5. CASE CreateSegment
  BY <1>5, CreateBatch
<1>6. CASE SyncDir
  BY <1>6, SyncDirBatch
<1>7. CASE Crash \/ Extend \/ Tear \/ Close \/ Kill
  <2>1. Forget
    BY <1>7 DEF Crash, Extend, Tear, PowerCut, Close, Kill
  <2> QED BY <2>1, ForgetBatch
<1>8. CASE OpenEmpty
  <2>1. UNCHANGED <<live, data, durable, bases, active, size, sinceSync, countsFrom, rest>> /\ pc' = "create"
    BY <1>8 DEF OpenEmpty, disk, memory
  <2> QED BY <2>1, QuietBatch DEF InvBatch
<1>9. ASSUME NEW events \in Batches, LogAppend(events) PROVE InvBatch'
  <2>1. /\ pc = "idle" /\ pc' = "append" /\ rest' = events
        /\ UNCHANGED <<live, data, durable, bases, active, next, size, sinceSync, countsFrom>>
    BY <1>9 DEF LogAppend, disk
  <2>2. events \in UNION {[1 .. m -> Events] : m \in 0 .. MaxBatch} /\ events # <<>>
    BY <1>0 DEF Batches, BoundedSeq, SeqOf
  <2>3. PICK m \in 0 .. MaxBatch : events \in [1 .. m -> Events]
    BY <2>2
  <2>4. events \in Seq(Events) /\ Len(events) = m /\ m \in Nat
    BY <2>3, MaxBatchAssumption, SeqDef
  <2>5. Len(events) > 0
    BY <2>2, <2>4, EmptySeq
  <2>6. \A i \in 1 .. Len(events) : events[i] # Invalid
    BY <2>4, InvalidAssumption
  <2>7. bases # {} /\ ~Full => sinceSync < BatchRecords \/ countsFrom = next'
    BY <2>1 DEF InvBatch
  <2> QED BY <2>1, <2>5, <2>6, <2>7, QuietBatch
<1>10. CASE AppendRefused
  <2>1. /\ pc = "append" /\ ~Full /\ pc' = "idle" /\ rest' = <<>>
        /\ UNCHANGED <<live, data, durable, bases, active, next, size, sinceSync, countsFrom>>
    BY <1>10 DEF AppendRefused, Return, disk
  <2>2. bases # {} => sinceSync < BatchRecords \/ countsFrom = next'
    BY <2>1 DEF InvBatch
  <2> QED BY <2>1, <2>2, EmptyRest, QuietBatch
<1>11. CASE CreateExists
  <2>1. /\ pc = "create" /\ pc' = "idle" /\ rest' = <<>>
        /\ UNCHANGED <<live, data, durable, bases, active, size, sinceSync, countsFrom>>
    BY <1>11 DEF CreateExists, Return, disk
  <2>2. bases # {} => Full /\ durable[active] = data[active]
    BY <2>1 DEF Inv, InvOpen
  <2> QED BY <2>1, <2>2, EmptyRest, QuietBatch
<1>12. CASE SyncDirFails \/ CreateFails
  <2>1. pc \in {"create", "dirsync"} /\ DirFails
    BY <1>12 DEF SyncDirFails, CreateFails, DirFails
  <2>2. CASE bases = {}
    BY <2>1, <2>2, ForgetBatch DEF DirFails
  <2>3. CASE bases # {}
    <3>1. pc' = "idle" /\ rest' = <<>>
          /\ UNCHANGED <<live, data, durable, bases, active, size, sinceSync, countsFrom>>
      BY <2>1, <2>3 DEF DirFails, Return, disk
    <3>2. Full /\ durable[active] = data[active]
      BY <2>1, <2>3 DEF Inv, InvOpen
    <3> QED BY <3>1, <3>2, EmptyRest, QuietBatch
  <2> QED BY <2>2, <2>3
<1>13. CASE SkipSync
  <2>1. /\ ~MustSync /\ pc' = "idle" /\ rest' = <<>>
        /\ UNCHANGED <<live, data, durable, bases, active, size, sinceSync, countsFrom>>
    BY <1>13 DEF SkipSync, Return, disk
  <2>2. sinceSync \in Nat
    BY DEF Inv, TypeOK
  <2>3. sinceSync < BatchRecords
    BY <2>1, <2>2, BatchRecordsType DEF MustSync
  <2> QED BY <2>1, <2>3, EmptyRest, QuietBatch
<1>14. CASE RollSyncFails \/ SyncFails
  BY <1>14, SyncFailsBatch
<1>15. CASE UNCHANGED vars
  <2>1. UNCHANGED <<live, data, durable, bases, active, next, size, sinceSync, countsFrom, rest, pc>>
    BY <1>15 DEF vars, disk, memory
  <2> QED BY <2>1 DEF InvBatch, Full
<1> QED
  BY <1>1, <1>2, <1>3, <1>4, <1>5, <1>6, <1>7, <1>8, <1>9, <1>10, <1>11, <1>12, <1>13,
     <1>14, <1>15 DEF Next

(***************************************************************************)
(* A counted record that a power cut would lose lies beyond the part of    *)
(* the last segment that is synced.                                        *)
(***************************************************************************)
LEMMA LostIsLast ==
    ASSUME Inv, InvAcked, InvBatch, bases # {}, NEW r \in LostByCrash
    PROVE  /\ r.off \in (next - sinceSync) .. (next - 1)
           /\ durable[active] # data[active]
           /\ r = data[active][r.off - active + 1]
<1>1. r \in Appended /\ ~Recovered(durableDir, durable, r)
  BY DEF LostByCrash
<1>2. PICK b \in bases : InFile(data[b], b, r) /\ (b # active => data[b] = durable[b])
  BY <1>1, AppendedInFile
<1>3. \A c \in bases : ~InFile(durable[c], c, r)
  BY <1>1 DEF Recovered, InvAcked
<1>4. b = active
  BY <1>2, <1>3
<1>5. /\ active \in live /\ active \in Nat /\ next \in Nat /\ size \in Nat
      /\ next = active + size /\ Len(data[active]) \in Nat
      /\ durable[active] \in Seq(Cell) /\ sinceSync \in Nat
      /\ countsFrom \in Nat /\ countsFrom <= r.off
  BY OpenFacts DEF Inv, TypeOK, LostByCrash
<1>6. PICK i \in 1 .. Len(data[active]) :
        /\ Scanned(active, i) /\ data[active][i] = r /\ r.kind = "rec"
        /\ r.off = active + i - 1
  BY <1>2, <1>4, <1>5, InFileScanned, SMTT(30)
<1>7. r.off < next
  BY <1>1 DEF Appended
<1>8. ~(i <= size - sinceSync)
  <2> SUFFICES ASSUME i <= size - sinceSync PROVE FALSE
    OBVIOUS
  <2>1. \A j \in 1 .. i : j <= Len(durable[active]) /\ durable[active][j] = data[active][j]
    <3>0. ~(active + size - sinceSync <= countsFrom)
      BY <1>5, <1>6
    <3>1. \A j \in 1 .. size - sinceSync :
            j <= Len(durable[active]) /\ durable[active][j] = data[active][j]
      BY <3>0 DEF InvBatch
    <3>2. \A j \in 1 .. i : j \in 1 .. size - sinceSync
      BY <1>5, <1>6
    <3> QED BY <3>1, <3>2
  <2>2. i \in 1 .. Len(durable[active]) /\ i \in 0 .. Len(durable[active])
        /\ durable[active][i] = r
    <3>1. i \in 1 .. i /\ Len(durable[active]) \in Nat
      BY <1>5, <1>6
    <3>2. i <= Len(durable[active]) /\ durable[active][i] = r
      BY <1>6, <2>1, <3>1
    <3> QED BY <3>1, <3>2
  <2>3. OnlyRecords(durable[active], i)
    BY <1>6, <2>1 DEF OnlyRecords, Scanned
  <2>4. Positional(durable[active], active)
    BY <1>5 DEF Inv, InvDisk, InvFiles
  <2>5. ValidTo(durable[active], active, i)
    BY <1>5, <2>2, <2>3, <2>4, RecordsAreValid
  <2>6. InFile(durable[active], active, r)
    BY <2>2, <2>5 DEF InFile
  <2> QED BY <1>2, <1>3, <1>4, <2>6
<1>9. r.off \in (next - sinceSync) .. (next - 1) /\ r.off - active + 1 = i
  BY <1>5, <1>6, <1>7, <1>8
<1>10. durable[active] # data[active]
  BY <1>2, <1>3, <1>4
<1> QED BY <1>6, <1>9, <1>10

LEMMA BatchHolds ==
    ASSUME Inv, InvAcked, InvBatch, BatchRecords > 0
    PROVE  BatchSyncsOnTime
<1> SUFFICES ASSUME pc = "idle" PROVE Cardinality(LostByCrash) < BatchRecords
  BY DEF BatchSyncsOnTime
<1>1. bases # {} /\ sinceSync \in Nat /\ next \in Nat /\ active \in Nat
  BY OpenFacts DEF Inv, InvClosed, TypeOK
<1>2. CASE countsFrom = next \/ (Full /\ durable[active] = data[active])
  <2>1. \A r \in LostByCrash : r.off >= countsFrom
    BY DEF LostByCrash
  <2>2. LostByCrash = {}
    <3> SUFFICES ASSUME NEW r \in LostByCrash PROVE FALSE
      OBVIOUS
    <3>1. /\ r.off \in (next - sinceSync) .. (next - 1)
          /\ durable[active] # data[active]
      BY <1>1, LostIsLast
    <3>2. r.off < next
      BY <1>1, <3>1
    <3> QED BY <1>1, <1>2, <2>1, <3>1, <3>2
  <2> QED BY <2>2, FS_EmptySet
<1>3. CASE sinceSync < BatchRecords
  <2> DEFINE T == (next - sinceSync) .. (next - 1)
             L == LostByCrash
             f == [r \in L |-> r.off]
  <2>1. \A r \in L : r.off \in T /\ r = data[active][r.off - active + 1]
    BY <1>1, LostIsLast
  <2>2. IsFiniteSet(T) /\ Cardinality(T) = sinceSync
    <3>1. next - sinceSync \in Int /\ next - 1 \in Int
      BY <1>1
    <3>2. /\ IsFiniteSet(T)
          /\ Cardinality(T) = IF next - sinceSync > next - 1 THEN 0
                              ELSE (next - 1) - (next - sinceSync) + 1
      BY <3>1, FS_Interval
    <3> HIDE DEF T
    <3> QED BY <1>1, <3>2
  <2> HIDE DEF T, L
  <2>3. f \in [L -> T] /\ \A r, s \in L : f[r] = f[s] => r = s
    BY <2>1
  <2> HIDE DEF f
  <2>4. f \in Injection(L, T)
    BY <2>3 DEF Injection, IsInjective
  <2>5. IsFiniteSet(L) /\ Cardinality(L) <= Cardinality(T)
    BY <2>2, <2>4, FS_Injection
  <2>6. Cardinality(L) \in Nat
    BY <2>5, FS_CardinalityType
  <2>7. Cardinality(L) < BatchRecords
    BY <1>1, <1>3, <2>2, <2>5, <2>6, BatchRecordsType
  <2> QED BY <2>7 DEF L
<1> QED BY <1>1, <1>2, <1>3 DEF InvBatch

(***************************************************************************)
(* Batch mode bounds what a power cut takes (log.go: batch syncs every     *)
(* SyncRecords appends, or DefaultSyncRecords when nothing is set):        *)
(* whenever the log waits for its caller, fewer than that many of the      *)
(* records appended since it was opened or since a sync last failed are    *)
(* not yet durable, through rolls, failed writes, syncs and creations,     *)
(* power cuts of every shape and reopenings.  What a reopened log finds    *)
(* unsynced in its file is not counted, for Open starts the count at 0; a  *)
(* batch that does not encode returns without a durability decision, which *)
(* breaks it.                                                              *)
(***************************************************************************)
THEOREM BatchIsSyncedOnTime ==
    ASSUME Mode = "batch", BatchRecords > 0, Env \subseteq CountingEnv
    PROVE  Spec => []BatchSyncsOnTime
<1> DEFINE All == Inv /\ InvAcked /\ InvBatch
<1>0. "orphan" \notin Env
  BY DEF CountingEnv
<1>1. Init => All
  <2> SUFFICES ASSUME Init PROVE All
    OBVIOUS
  <2>1. live = {} /\ bases = {} /\ acked = {} /\ rest = <<>>
    BY DEF Init
  <2>2. \A i \in 1 .. Len(rest) : rest[i] # Invalid
    BY <2>1, EmptySeq
  <2> QED BY <2>1, <2>2, InvInit DEF InvAcked, InvBatch
<1>2. All /\ [Next]_vars => All'
  BY <1>0, InvNext, InvAckedNext, InvBatchNext
<1>3. All => BatchSyncsOnTime
  BY BatchHolds
<1> HIDE DEF All
<1> QED BY <1>1, <1>2, <1>3, PTL DEF Spec
-----------------------------------------------------------------------------
(***************************************************************************)
(* What recovery reports, where no write fails and no cut zeroes the end   *)
(* of a file.                                                              *)
(***************************************************************************)
LEMMA AppendAllTail ==
    ASSUME Inv, InvTail, AppendAll, ~spoiled
    PROVE  InvTail'
<1>1. PICK n \in 1 .. Len(rest) :
        /\ Takes(n)
        /\ data' = [data EXCEPT ![active] = data[active] \o Staged(next, rest, n)]
  BY DEF AppendAll
<1>2. /\ pc = "append" /\ ~sealed /\ UNCHANGED <<live, durableDir, durable, bases, sealed>>
  BY DEF AppendAll
<1>3. bases # {}
  BY <1>2 DEF Inv, InvClosed
<1>4. /\ next \in Nat /\ rest \in Seq(Events \cup {Invalid}) /\ n \in 0 .. Len(rest)
      /\ next + n <= MaxOffset /\ n \in Nat
  BY <1>3 DEF Inv, InvOpen, TypeOK
<1> DEFINE t == Staged(next, rest, n)
<1>5. /\ t \in Seq(Cell) /\ Len(t) = n
      /\ \A i \in 1 .. n : t[i].kind = "rec" /\ t[i].off = next + i - 1
  <2>1. \A i \in 1 .. n : rest[i] # Invalid
    BY <1>1 DEF Takes
  <2> HIDE DEF t
  <2>2. /\ t \in Seq(Cell) /\ Len(t) = n
        /\ \A i \in 1 .. n : t[i].kind = "rec" /\ t[i].off = next + i - 1 /\ t[i].ev \in Events
    BY <1>4, <2>1, StagedFacts, ZenonT(40) DEF t
  <2> QED BY <2>2
<1>6. data' = [data EXCEPT ![active] = data[active] \o t]
  BY <1>1
<1> HIDE DEF t
<1>7. /\ Len(data'[active]) = size + n
      /\ \A j \in 1 .. size : data'[active][j] = data[active][j]
      /\ \A j \in size + 1 .. size + n : data'[active][j] = t[j - size]
      /\ \A b \in live : b # active => data'[b] = data[b]
  BY <1>2, <1>3, <1>4, <1>5, <1>6, FileAppendDisk
<1>8. OnlyRecords(data[active], size) /\ size \in Nat
  BY <1>3 DEF Inv, InvOpen, TypeOK
<1>9. ASSUME NEW i \in 1 .. Len(data'[active]) PROVE data'[active][i].kind = "rec"
  <2>1. CASE i \in 1 .. size
    BY <1>7, <1>8, <2>1 DEF OnlyRecords
  <2>2. CASE i \in size + 1 .. size + n
    <3>1. i - size \in 1 .. n
      BY <1>4, <1>8, <2>2
    <3> QED BY <1>5, <1>7, <2>2, <3>1
  <2> QED BY <1>4, <1>7, <1>8, <2>1, <2>2
<1> QED BY <1>2, <1>7, <1>9 DEF InvTail

(***************************************************************************)
(* A segment that was not left half written is synced as whole records.    *)
(***************************************************************************)
LEMMA SyncTail ==
    ASSUME Inv, InvTail, RollSync \/ Sync, ~spoiled
    PROVE  InvTail'
<1>1. bases # {}
  BY DEF RollSync, Sync, Inv, InvClosed
<1>2. /\ UNCHANGED <<live, data, bases, active, size>>
      /\ durable' = [durable EXCEPT ![active] = data[active]]
      /\ sealed' = sealed \/ Full
  BY DEF RollSync, Sync, FileSync
<1>3. active \in Offsets /\ live \subseteq Offsets /\ durable \in [Offsets -> Seq(Cell)]
  BY <1>1, OpenFacts DEF Inv, TypeOK
<1>4. durable'[active] = data[active] /\ \A b \in live : b # active => durable'[b] = durable[b]
  BY <1>2, <1>3
<1>5. ~sealed \/ Full
  BY <1>1 DEF InvTail
<1>6. OnlyRecords(data[active], Len(data[active]))
  BY <1>1, <1>5 DEF Inv, InvOpen
<1>7. sealed' => Full'
  BY <1>1, <1>2, <1>5 DEF InvTail, Full
<1> QED BY <1>2, <1>4, <1>6, <1>7 DEF InvTail

LEMMA OpenExistingTail ==
    ASSUME Inv, InvTail, OpenExisting, ~spoiled
    PROVE  InvTail'
<1>1. PICK b \in live, n \in Nat :
             /\ OnlyRecords(data[b], n)
             /\ Len(data'[b]) = n
             /\ \A j \in 1 .. n : data'[b][j] = data[b][j]
             /\ \A c \in live : c # b => data'[c] = data[c]
             /\ UNCHANGED <<live, durable>>
  BY OpenExistingFacts
<1>2. ~sealed'
  BY DEF OpenExisting
<1>3. \A i \in 1 .. Len(data'[b]) : data'[b][i].kind = "rec"
  BY <1>1 DEF OnlyRecords
<1> QED BY <1>1, <1>2, <1>3 DEF InvTail

LEMMA CreateTail ==
    ASSUME Inv, InvTail, CreateSegment, ~spoiled
    PROVE  InvTail'
<1>1. /\ live' = live \cup {next}
      /\ Len(data'[next]) = 0 /\ Len(durable'[next]) = 0
      /\ \A b \in live : data'[b] = data[b] /\ durable'[b] = durable[b]
      /\ UNCHANGED bases
  BY CreateStep
<1>2. UNCHANGED <<size, sealed>>
  BY DEF CreateSegment, memory
<1>3. \A i : i \notin 1 .. 0
  OBVIOUS
<1> QED BY <1>1, <1>2, <1>3 DEF InvTail, OnlyRecords, Full

LEMMA PowerCutTail ==
    ASSUME Inv, InvTail, Crash \/ Tear, ~spoiled
    PROVE  InvTail'
<1>1. PowerCutLeaves
  BY CrashLeaves, TearLeaves
<1>2. /\ bases' = {} /\ live' = durableDir /\ durableDir \subseteq live
      /\ live \subseteq Offsets /\ \A b \in durableDir : durable'[b] = durable[b]
  BY <1>1 DEF PowerCutLeaves, Forget, Inv, InvDisk, InvDir, TypeOK
<1>3. ASSUME NEW b \in durableDir, NEW i \in 1 .. Len(data'[b])
      PROVE  data'[b][i].kind = "rec" \/ (data'[b][i].kind = "torn" /\ i = Len(data'[b]))
  <2>1. data[b] \in Seq(Cell) /\ durable[b] \in Seq(Cell) /\ b \in Offsets /\ b \in live
    BY <1>2 DEF Inv, TypeOK
  <2>2. /\ OnlyRecords(durable[b], Len(durable[b]))
        /\ \A j \in 1 .. Len(data[b]) :
              data[b][j].kind = "rec" \/ (data[b][j].kind = "torn" /\ j = Len(data[b]))
    BY <2>1 DEF InvTail
  <2>3. CASE Crash
    <3>1. data'[b] = durable[b]
      BY <1>2, <2>1, <2>3 DEF Crash, PowerCut
    <3> QED BY <1>3, <2>2, <3>1 DEF OnlyRecords
  <2>4. CASE Tear
    <3>1. PICK k \in 0 .. MaxOffset, half \in BOOLEAN :
            PowerCut(LAMBDA cells, synced : CrashTorn(cells, synced, k, half))
      BY <2>4 DEF Tear
    <3>2. data'[b] = CrashTorn(data[b], durable[b], k, half) /\ k \in Nat
      BY <2>1, <3>1 DEF PowerCut
    <3> DEFINE left == data'[b]
    <3>3. TearsTo(data[b], durable[b], left)
      BY <2>1, <3>2, TornFacts
    <3>4. i \in 1 .. Len(left)
      BY <1>3
    <3> HIDE DEF left
    <3>5. Len(left) \in Nat /\ Len(durable[b]) \in Nat /\ Len(data[b]) \in Nat
      BY <2>1, <3>3 DEF TearsTo
    <3>6. CASE i \in 1 .. Len(durable[b])
      <4>1. left[i].kind = "rec"
        BY <2>2, <3>3, <3>6 DEF TearsTo, OnlyRecords
      <4> QED BY <4>1 DEF left
    <3>7. CASE i \in Len(durable[b]) + 1 .. Len(left)
      <4>1. i \in 1 .. Len(data[b]) /\ Len(left) <= Len(data[b])
        BY <3>3, <3>5, <3>7 DEF TearsTo
      <4>2. left[i] = data[b][i] \/ (left[i] = Torn /\ i = Len(left))
        BY <3>3, <3>7 DEF TearsTo
      <4>3. i = Len(data[b]) => i = Len(left)
        BY <3>4, <3>5, <4>1
      <4>4. left[i].kind = "rec" \/ (left[i].kind = "torn" /\ i = Len(left))
        BY <2>2, <4>1, <4>2, <4>3 DEF Torn
      <4> QED BY <4>4 DEF left
    <3> QED BY <3>4, <3>5, <3>6, <3>7
  <2> QED BY <2>3, <2>4
<1> QED BY <1>2, <1>3 DEF InvTail

LEMMA InvTailNext ==
    ASSUME Inv, InvTail, [Next]_vars
    PROVE  InvTail'
<1> SUFFICES ASSUME ~spoiled' PROVE InvTail'
  BY DEF InvTail
<1>0. ~spoiled
  BY DEF Next, vars, disk, memory, OpenEmpty, OpenExisting, LogAppend, AppendAll, AppendRefused,
         AppendFails, RollSync, RollSyncFails, CreateSegment, CreateExists, CreateFails, SyncDir,
         SyncDirFails, Sync, SyncFails, SkipSync, Close, Kill, Crash, Extend, Tear
<1>1. CASE AppendAll
  BY <1>0, <1>1, AppendAllTail
<1>2. CASE RollSync \/ Sync
  BY <1>0, <1>2, SyncTail
<1>3. CASE OpenExisting
  BY <1>0, <1>3, OpenExistingTail
<1>4. CASE CreateSegment
  BY <1>0, <1>4, CreateTail
<1>5. CASE Crash \/ Tear
  BY <1>0, <1>5, PowerCutTail
<1>6. CASE SyncDir
  <2>1. UNCHANGED <<live, data, durable>> /\ ~sealed'
    BY <1>6 DEF SyncDir
  <2> QED BY <1>0, <2>1 DEF InvTail
<1>7. CASE Close \/ Kill \/ SyncDirFails \/ CreateFails
  <2>1. /\ UNCHANGED <<live, data, durable>>
        /\ bases' = {} \/ UNCHANGED <<bases, size, sealed>>
    BY <1>7 DEF Close, Kill, SyncDirFails, CreateFails, Forget, disk
  <2> QED BY <1>0, <2>1 DEF InvTail, Full
<1>8. ASSUME NEW events \in Batches, LogAppend(events) PROVE InvTail'
  BY <1>0, <1>8 DEF LogAppend, disk, InvTail, Full
<1>9. CASE OpenEmpty \/ UNCHANGED vars
  BY <1>0, <1>9 DEF OpenEmpty, vars, disk, memory, InvTail, Full
<1>10. CASE AppendRefused \/ RollSyncFails \/ CreateExists \/ SyncFails \/ SkipSync
  <2>1. UNCHANGED <<live, data, durable, bases, size, sealed>>
    BY <1>10 DEF AppendRefused, RollSyncFails, CreateExists, SyncFails, SkipSync, disk
  <2> QED BY <1>0, <2>1 DEF InvTail, Full
<1>11. ~AppendFails /\ ~Extend
  BY DEF AppendFails, Extend
<1> QED BY <1>0, <1>1, <1>2, <1>3, <1>4, <1>5, <1>6, <1>7, <1>8, <1>9, <1>10, <1>11 DEF Next

(***************************************************************************)
(* The scan of such a file stops at its end, or at a half record that is   *)
(* its last cell.                                                          *)
(***************************************************************************)
LEMMA ScanOfTail ==
    ASSUME Inv, InvTail, ~spoiled, NEW b \in live, NEW n \in Nat, ScanStops(data[b], b, n)
    PROVE  /\ Len(data[b]) \in Nat
           /\ \/ n = Len(data[b])
              \/ n + 1 = Len(data[b]) /\ data[b][n + 1].kind = "torn"
<1>1. /\ data[b] \in Seq(Cell) /\ b \in Nat /\ Len(data[b]) \in Nat /\ n \in 0 .. Len(data[b])
      /\ Positional(data[b], b)
  BY SMTT(30) DEF Inv, TypeOK, Offsets, InvDisk, InvFiles, ScanStops
<1>2. CASE n < Len(data[b])
  <2>1. n + 1 \in 1 .. Len(data[b]) /\ ~Accepts(data[b], b, n + 1) /\ OnlyRecords(data[b], n)
    BY <1>1, <1>2 DEF ScanStops, ValidTo, Accepts, OnlyRecords
  <2>2. data[b][n + 1].kind # "rec"
    <3> SUFFICES ASSUME data[b][n + 1].kind = "rec" PROVE FALSE
      OBVIOUS
    <3>1. OnlyRecords(data[b], n + 1)
      BY <1>1, <2>1 DEF OnlyRecords
    <3>2. ValidTo(data[b], b, n + 1)
      BY <1>1, <2>1, <3>1, RecordsAreValid
    <3> QED BY <1>1, <2>1, <3>2 DEF ValidTo
  <2> QED BY <1>1, <2>1, <2>2 DEF InvTail
<1> QED BY <1>1, <1>2

LEMMA TailHolds == Spec => [](Inv /\ InvTail)
<1> DEFINE All == Inv /\ InvTail
<1>1. Init => All
  BY InvInit DEF Init, InvTail
<1>2. All /\ [Next]_vars => All'
  BY InvNext, InvTailNext
<1>3. All => Inv /\ InvTail
  OBVIOUS
<1> HIDE DEF All
<1> QED BY <1>1, <1>2, <1>3, PTL DEF Spec

(***************************************************************************)
(* Recovery never calls a tail corrupt, in any mode and under any mix of   *)
(* restarts, deaths, power cuts that revert or tear a file, and failed     *)
(* syncs, as long as no write has failed and no cut has zeroed a file:     *)
(* what Open meets at the end of the last segment is at most half a        *)
(* record, which the scan of recovery.go reports as torn.  A failed write  *)
(* breaks it: half a record that was synced may be written over and come   *)
(* back in front of other records.                                         *)
(***************************************************************************)
THEOREM NeverFalselyCorrupt == Spec => []NoFalseCorruption
<1>1. Inv /\ InvTail => NoFalseCorruption
  <2> SUFFICES ASSUME Inv, InvTail, ~spoiled, NEW b \in live, NEW n \in 0 .. MaxOffset + 1,
                      ScanStops(data[b], b, n)
               PROVE  "corrupt" \notin Verdicts(data[b], n)
    BY DEF NoFalseCorruption
  <2>1. n \in Nat
    BY MaxOffsetAssumption
  <2>2. /\ Len(data[b]) \in Nat
        /\ \/ n = Len(data[b])
           \/ n + 1 = Len(data[b]) /\ data[b][n + 1].kind = "torn"
    BY <2>1, ScanOfTail
  <2>3. CASE n = Len(data[b])
    BY <2>3 DEF Verdicts
  <2>4. CASE n + 1 = Len(data[b]) /\ data[b][n + 1].kind = "torn"
    <3>1. n # Len(data[b]) /\ n < Len(data[b])
      BY <2>1, <2>2, <2>4
    <3>2. Verdicts(data[b], n) = {"torn"}
      BY <2>4, <3>1 DEF Verdicts
    <3> QED BY <3>2
  <2> QED BY <2>2, <2>3, <2>4
<1> QED BY <1>1, TailHolds, PTL

(***************************************************************************)
(* Recovery discards at most the largest write that can have been in       *)
(* flight (recovery.go:17-19, harness/check.go:41), in every mode and for  *)
(* every size of segment and batch: as long as no write has failed and no  *)
(* cut has zeroed a file, it cuts the one record that was cut short and    *)
(* nothing else, however many whole records were not synced.               *)
(***************************************************************************)
THEOREM DiscardsAtMostOneRecord == Spec => []DiscardsOneRecord
<1>1. Inv /\ InvTail => DiscardsOneRecord
  <2> SUFFICES ASSUME Inv, InvTail, ~spoiled, NEW b \in live, NEW n \in 0 .. MaxOffset + 1,
                      ScanStops(data[b], b, n)
               PROVE  Len(data[b]) - n <= 1
    BY DEF DiscardsOneRecord
  <2>1. n \in Nat
    BY MaxOffsetAssumption
  <2>2. Len(data[b]) \in Nat /\ (n = Len(data[b]) \/ n + 1 = Len(data[b]))
    BY <2>1, ScanOfTail
  <2> QED BY <2>1, <2>2
<1> QED BY <1>1, TailHolds, PTL

=============================================================================
