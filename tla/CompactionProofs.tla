-------------------------- MODULE CompactionProofs --------------------------
(***************************************************************************)
(* Proofs about Compaction, for every set of keys and every bound: nothing *)
(* acknowledged is lost, compaction is invisible, and a cursor neither     *)
(* reads a file that was replaced nor skips a record.                      *)
(*                                                                         *)
(* They assume callers that compact only offsets at which a segment begins *)
(* (~AnyOffset), as Log.CompactAll does.                                   *)
(***************************************************************************)
EXTENDS Compaction, TLAPS

(***************************************************************************)
(* Only the facts about sets of numbers are used of it.                    *)
(***************************************************************************)
Numbers == INSTANCE RecordFileProofs WITH Events <- {}, Invalid <- 0

-----------------------------------------------------------------------------
(***************************************************************************)
(* The inductive invariant, in named parts.                                *)
(***************************************************************************)
Sorted(file) == \A p, q \in 1 .. Len(file) : p < q => file[p].off < file[q].off

(***************************************************************************)
(* A segment that a later one follows.                                     *)
(***************************************************************************)
Sealed(b) == \E c \in Offsets : c > b /\ live[c] # NoNode

(***************************************************************************)
(* The names.  A name is durable from the moment it is bound, and only the *)
(* swap of a sealed segment may be ahead of the directory.                 *)
(***************************************************************************)
InvNames ==
    /\ live[0] # NoNode
    /\ \A b \in Offsets :
        /\ live[b] \in {NoNode, Written(b), Compacted(b)}
        /\ durableDir[b] \in {NoNode, Written(b), Compacted(b)}
        /\ durableDir[b] = NoNode <=> live[b] = NoNode
        /\ durableDir[b] = Compacted(b) => live[b] = Compacted(b)
        /\ live[b] = Compacted(b) => Sealed(b)

(***************************************************************************)
(* The file the log wrote for a segment: in order and within the segment.  *)
(* Once it is sealed, it is wholly synced and the next segment begins      *)
(* after its last record.                                                  *)
(***************************************************************************)
InvWritten ==
    \A b \in Offsets : live[b] # NoNode =>
        /\ Sorted(data[Written(b)])
        /\ \A p \in 1 .. Len(durable[Written(b)]) :
            p \in 1 .. Len(data[Written(b)]) /\ durable[Written(b)][p] = data[Written(b)][p]
        /\ \A r \in Range(data[Written(b)]) :
            b <= r.off /\ r.off < MaxOffset /\ \A c \in b + 1 .. r.off : live[c] = NoNode
        /\ Sealed(b) =>
            /\ durable[Written(b)] = data[Written(b)] /\ data[Written(b)] # <<>>
            /\ live[Last(data[Written(b)]).off + 1] # NoNode

(***************************************************************************)
(* The file that replaced it holds its survivors, durably.                 *)
(***************************************************************************)
InvCompacted ==
    \A b \in Offsets : live[b] = Compacted(b) =>
        /\ durable[Compacted(b)] = data[Compacted(b)]
        /\ Sorted(data[Compacted(b)])
        /\ Range(data[Compacted(b)]) = Survivors(data[Written(b)])

InvAcked ==
    \A r \in acked : \E b \in Offsets : live[b] # NoNode /\ r \in Range(durable[Written(b)])

(***************************************************************************)
(* What the process remembers.                                             *)
(***************************************************************************)
InvBases ==
    pc # "down" =>
        /\ bases = {b \in Offsets : live[b] # NoNode}
        /\ \A b \in bases :
            /\ b <= next
            /\ \A r \in Range(data[Written(b)]) : r.off < next
            /\ ~Sealed(b) => next = IF data[Written(b)] = <<>>
                                    THEN b ELSE Last(data[Written(b)]).off + 1

InvCache ==
    \A b \in Offsets :
        /\ cache[b] \in {NoNode, Written(b), Compacted(b)}
        /\ cache[b] # NoNode => Sealed(b) /\ live[b] # NoNode
        /\ cache[b] = Compacted(b) => live[b] = Compacted(b)

(***************************************************************************)
(* The compaction in progress reads the file the log wrote, through a      *)
(* cached handle, and fills its own in order.                              *)
(***************************************************************************)
Busy == {"stale", "create", "copy", "rename", "swapsync"}

InvJob ==
    pc \in Busy =>
        /\ job.base \in Offsets /\ live[job.base] # NoNode /\ Sealed(job.base)
        /\ job.src = Written(job.base) /\ cache[job.base] = Written(job.base)
        /\ pc = "copy" =>
            /\ Range(data[Tmp(job.base)]) \subseteq Survivors(data[job.src])
            /\ \A r \in Range(data[Tmp(job.base)]), s \in Uncopied : r.off < s.off
        /\ pc = "rename" =>
            /\ Range(data[Tmp(job.base)]) = Survivors(data[job.src])
            /\ durable[Tmp(job.base)] = data[Tmp(job.base)]
        /\ pc \in {"copy", "rename"} => Sorted(data[Tmp(job.base)])
        /\ pc = "swapsync" => live[job.base] = Compacted(job.base)

InvClosed ==
    \A i \in closed : \E b \in Offsets :
        i = Written(b) /\ live[b] = Compacted(b) /\ cache[b] # Written(b)

(***************************************************************************)
(* The cursor.  As long as no compaction has replaced a file since it last *)
(* resolved its segment, it stands in the file that the segment's handle   *)
(* still has, between the records below its offset and the others.         *)
(***************************************************************************)
Between(file, p, off) ==
    /\ p \in 1 .. Len(file) + 1
    /\ \A q \in 1 .. Len(file) :
        (q < p => file[q].off < off) /\ (p <= q => off <= file[q].off)

InvReader ==
    /\ reader \in [seg : Inodes \cup {NoNode}, pos : Nat, next : Offsets, generation : Nat,
                   from : Offsets, open : BOOLEAN]
    /\ reader.open => pc # "down" /\ reader.next <= next /\ reader.generation <= generation
    /\ reader.open /\ reader.seg # NoNode /\ reader.generation = generation =>
        \E b \in bases :
            /\ reader.seg = Handle(b) /\ b <= reader.next
            /\ Between(data[reader.seg], reader.pos, reader.next)

InvDisk == InvNames /\ InvWritten /\ InvCompacted /\ InvAcked
InvLog == InvBases /\ InvCache /\ InvJob /\ InvClosed
Inv == TypeOK /\ InvDisk /\ InvLog /\ InvReader /\ NothingSkipped

-----------------------------------------------------------------------------
USE CompactionBoundsAssumption

(***************************************************************************)
(* Facts about inodes, files and survivors.                                *)
(***************************************************************************)
LEMMA NodeFacts ==
    ASSUME NEW b \in Offsets, NEW c \in Offsets
    PROVE  /\ Written(b) \in Inodes /\ Compacted(b) \in Inodes /\ Tmp(b) \in Inodes
           /\ NoNode \notin Inodes
           /\ Written(b) # NoNode /\ Compacted(b) # NoNode /\ Tmp(b) # NoNode
           /\ Written(b) = Written(c) <=> b = c
           /\ Compacted(b) = Compacted(c) <=> b = c
           /\ Tmp(b) = Tmp(c) <=> b = c
           /\ Written(b) # Compacted(c) /\ Written(b) # Tmp(c)
           /\ Compacted(b) # Tmp(c)
BY DEF Written, Compacted, Tmp, NoNode, Inodes

LEMMA RangeFacts ==
    ASSUME NEW S, NEW file \in Seq(S)
    PROVE  /\ Range(file) = {file[p] : p \in 1 .. Len(file)}
           /\ Range(file) \subseteq S
           /\ file = <<>> <=> Range(file) = {}
           /\ file # <<>> => Len(file) \in 1 .. Len(file) /\ Last(file) = file[Len(file)]
                             /\ Last(file) \in Range(file)
<1>1. DOMAIN file = 1 .. Len(file) /\ Len(file) \in Nat
  OBVIOUS
<1>2. Range(file) = {file[p] : p \in 1 .. Len(file)} /\ Range(file) \subseteq S
  BY <1>1 DEF Range
<1>3. file = <<>> => Range(file) = {}
  BY DEF Range
<1>4. file # <<>> => Len(file) \in 1 .. Len(file)
  BY <1>1
<1> QED BY <1>2, <1>3, <1>4 DEF Last

LEMMA LastIsGreatest ==
    ASSUME NEW file \in Seq(Records), Sorted(file), file # <<>>, NEW r \in Range(file)
    PROVE  r.off <= Last(file).off /\ Last(file).off \in Offsets
<1>1. PICK p \in 1 .. Len(file) : r = file[p]
  BY RangeFacts
<1>2. Len(file) \in 1 .. Len(file) /\ Last(file) = file[Len(file)]
  BY RangeFacts
<1>3. file[p] \in Records /\ file[Len(file)] \in Records
  BY <1>1, <1>2
<1>4. file[p].off \in Nat /\ file[Len(file)].off \in Offsets
  BY <1>3 DEF Records, Offsets
<1>5. p = Len(file) \/ p < Len(file)
  BY <1>1, <1>2
<1> QED BY <1>1, <1>2, <1>4, <1>5 DEF Sorted, Offsets

LEMMA AppendFacts ==
    ASSUME NEW file \in Seq(Records), NEW r \in Records, NEW longer, longer = file \o <<r>>
    PROVE  /\ longer \in Seq(Records) /\ Len(longer) = Len(file) + 1 /\ longer # <<>>
           /\ longer[Len(file) + 1] = r /\ Last(longer) = r
           /\ \A p \in 1 .. Len(file) : longer[p] = file[p]
           /\ Range(longer) = Range(file) \cup {r}
<1>1. /\ longer \in Seq(Records) /\ Len(longer) = Len(file) + 1 /\ Len(file) \in Nat
      /\ longer[Len(file) + 1] = r
      /\ \A p \in 1 .. Len(file) : longer[p] = file[p]
  OBVIOUS
<1>2. longer # <<>>
  BY <1>1
<1>3. Last(longer) = r
  BY <1>1 DEF Last
<1>4. Range(longer) = Range(file) \cup {r}
  <2>0. /\ Range(longer) = {longer[p] : p \in 1 .. Len(longer)}
        /\ Range(file) = {file[p] : p \in 1 .. Len(file)}
    <3>1. DOMAIN longer = 1 .. Len(longer) /\ DOMAIN file = 1 .. Len(file)
      BY <1>1
    <3> QED BY <3>1 DEF Range
  <2>1. ASSUME NEW x \in Range(longer) PROVE x \in Range(file) \cup {r}
    <3>1. PICK p \in 1 .. Len(longer) : x = longer[p]
      BY <2>0
    <3>2. p \in 1 .. Len(file) \/ p = Len(file) + 1
      BY <1>1
    <3> QED BY <1>1, <2>0, <3>1, <3>2
  <2>2. ASSUME NEW x \in Range(file) PROVE x \in Range(longer)
    <3>1. PICK p \in 1 .. Len(file) : x = file[p]
      BY <2>0
    <3>2. p \in 1 .. Len(longer) /\ x = longer[p]
      BY <1>1, <3>1
    <3> QED BY <2>0, <3>2
  <2>3. r \in Range(longer)
    <3>1. Len(file) + 1 \in 1 .. Len(longer)
      BY <1>1
    <3> QED BY <1>1, <2>0, <3>1
  <2> QED BY <2>1, <2>2, <2>3
<1> QED BY <1>1, <1>2, <1>3, <1>4

LEMMA AppendSorted ==
    ASSUME NEW file \in Seq(Records), NEW r \in Records, Sorted(file),
           \A s \in Range(file) : s.off < r.off
    PROVE  Sorted(file \o <<r>>)
<1> DEFINE longer == file \o <<r>>
<1>1. /\ Len(longer) = Len(file) + 1 /\ Len(file) \in Nat /\ longer[Len(file) + 1] = r
      /\ \A p \in 1 .. Len(file) : longer[p] = file[p]
  BY AppendFacts
<1> HIDE DEF longer
<1>2. ASSUME NEW p \in 1 .. Len(longer), NEW q \in 1 .. Len(longer), p < q
      PROVE  longer[p].off < longer[q].off
  <2>1. p \in 1 .. Len(file) /\ longer[p] = file[p]
    BY <1>1, <1>2
  <2>2. CASE q = Len(file) + 1
    <3>1. file[p] \in Range(file)
      BY <2>1, RangeFacts
    <3> QED BY <1>1, <2>1, <2>2, <3>1
  <2>3. CASE q # Len(file) + 1
    <3>1. q \in 1 .. Len(file) /\ longer[q] = file[q]
      BY <1>1, <2>3
    <3> QED BY <1>2, <2>1, <3>1 DEF Sorted
  <2> QED BY <2>2, <2>3
<1> QED BY <1>2 DEF Sorted, longer

(***************************************************************************)
(* Every record of a file has a survivor of its key at or after it.        *)
(***************************************************************************)
LEMMA SurvivorExists ==
    ASSUME NEW file \in Seq(Records), NEW r \in Range(file)
    PROVE  \E s \in Survivors(file) : s.key = r.key /\ r.off <= s.off
<1> DEFINE S == {s \in Range(file) : s.key = r.key}
           D == {s.off : s \in S}
<1>0. Range(file) \subseteq Records
  BY RangeFacts
<1>1. D \subseteq 0 .. MaxOffset /\ D # {}
  BY <1>0 DEF Records, Offsets
<1>2. \E m \in D : \A y \in D : y <= m
  <2> HIDE DEF D
  <2> QED BY <1>1, Numbers!HasGreatest
<1>3. PICK s \in S : \A t \in S : t.off <= s.off
  BY <1>2
<1>4. s \in Survivors(file)
  BY <1>3 DEF Survivors
<1> QED BY <1>3, <1>4

LEMMA SurvivorFacts ==
    ASSUME NEW file \in Seq(Records)
    PROVE  /\ Survivors(file) \subseteq Range(file)
           /\ Survivors(file) \subseteq Records
           /\ file # <<>> => Survivors(file) # {}
           /\ \A g \in Seq(Records) : Range(g) = Survivors(file) => Survivors(g) = Range(g)
<1>1. Survivors(file) \subseteq Range(file)
  BY DEF Survivors
<1>2. file # <<>> => Survivors(file) # {}
  BY RangeFacts, SurvivorExists
<1>3. \A g \in Seq(Records) : Range(g) = Survivors(file) => Survivors(g) = Range(g)
  BY <1>1 DEF Survivors
<1> QED BY <1>1, <1>2, <1>3, RangeFacts


-----------------------------------------------------------------------------
(***************************************************************************)
(* What the invariant says of the files, the active segment and the        *)
(* handles.                                                                *)
(***************************************************************************)
LEMMA FileTypes ==
    ASSUME TypeOK, NEW b \in Offsets
    PROVE  /\ data[Written(b)] \in Seq(Records) /\ durable[Written(b)] \in Seq(Records)
           /\ data[Compacted(b)] \in Seq(Records) /\ durable[Compacted(b)] \in Seq(Records)
           /\ data[Tmp(b)] \in Seq(Records) /\ durable[Tmp(b)] \in Seq(Records)
<1>1. Written(b) \in Inodes /\ Compacted(b) \in Inodes /\ Tmp(b) \in Inodes
  BY NodeFacts
<1>2. data \in [Inodes -> Seq(Records)] /\ durable \in [Inodes -> Seq(Records)]
  BY DEF TypeOK
<1> QED BY <1>1, <1>2

LEMMA ActiveFacts ==
    ASSUME TypeOK, InvNames, InvBases, pc # "down"
    PROVE  /\ active \in bases /\ active \in Offsets /\ live[active] = Written(active)
           /\ ~Sealed(active) /\ active <= next
           /\ \A b \in bases : b \in Offsets /\ live[b] # NoNode /\ b <= active
           /\ \A b \in bases : b # active => Sealed(b) /\ b < active
           /\ \A b \in Offsets : live[b] # NoNode => b \in bases
           /\ \A b \in Offsets : Sealed(b) => b < active
<1>1. bases = {b \in Offsets : live[b] # NoNode}
  BY DEF InvBases
<1>2. bases \subseteq 0 .. MaxOffset /\ bases # {}
  <2>1. 0 \in Offsets
    BY DEF Offsets
  <2> QED BY <1>1, <2>1 DEF Offsets, InvNames
<1>3. \E m \in bases : \A y \in bases : y <= m
  BY <1>2, Numbers!HasGreatest
<1>4. active \in bases /\ \A y \in bases : y <= active
  <2>1. \E m \in bases : \A y \in bases : m >= y
    BY <1>2, <1>3
  <2>2. active \in bases /\ \A y \in bases : active >= y
    BY <2>1 DEF active, Max
  <2> QED BY <1>2, <2>2
<1>5. active \in Offsets /\ active \in Int /\ live[active] # NoNode
  BY <1>1, <1>4 DEF Offsets
<1>6. \A b \in Offsets : Sealed(b) => b < active
  <2> SUFFICES ASSUME NEW b \in Offsets, Sealed(b) PROVE b < active
    OBVIOUS
  <2>1. PICK c \in Offsets : c > b /\ live[c] # NoNode
    BY DEF Sealed
  <2>2. c \in bases
    BY <1>1, <2>1
  <2> QED BY <1>4, <1>5, <2>1, <2>2 DEF Offsets
<1>7. ~Sealed(active)
  BY <1>5, <1>6
<1>8. live[active] = Written(active)
  BY <1>5, <1>7 DEF InvNames
<1>9. \A b \in bases : b # active => Sealed(b) /\ b < active
  BY <1>1, <1>2, <1>4, <1>5 DEF Sealed
<1>10. active <= next
  BY <1>4 DEF InvBases
<1> QED BY <1>1, <1>4, <1>5, <1>6, <1>7, <1>8, <1>9, <1>10

LEMMA HandleFacts ==
    ASSUME TypeOK, InvNames, InvWritten, InvCompacted, InvBases, InvCache, pc # "down",
           NEW b \in bases
    PROVE  /\ Handle(b) \in {Written(b), Compacted(b)}
           /\ Handle(b) = Compacted(b) => live[b] = Compacted(b)
           /\ b = active => Handle(b) = Written(b)
           /\ Handle(b) \in Inodes /\ Handle(b) # NoNode
           /\ data[Handle(b)] \in Seq(Records) /\ Sorted(data[Handle(b)])
           /\ Range(data[Handle(b)]) \subseteq Range(data[Written(b)])
           /\ Range(data[live[b]]) \subseteq Range(data[Handle(b)])
           /\ b # active => data[Handle(b)] # <<>>
<1>1. b \in Offsets /\ live[b] # NoNode /\ (b # active => Sealed(b)) /\ live[active] = Written(active)
  BY ActiveFacts
<1>2. Handle(b) \in {Written(b), Compacted(b)} /\ (Handle(b) = Compacted(b) => live[b] = Compacted(b))
  BY <1>1 DEF Handle, InvNames, InvCache
<1>3. b = active => Handle(b) = Written(b)
  BY <1>1 DEF Handle
<1>4. Handle(b) \in Inodes /\ Handle(b) # NoNode
  BY <1>1, <1>2, NodeFacts
<1>5. data[Written(b)] \in Seq(Records) /\ data[Compacted(b)] \in Seq(Records)
  BY <1>1, FileTypes
<1>6. CASE Handle(b) = Written(b)
  <2>1. live[b] = Compacted(b) => Range(data[live[b]]) \subseteq Range(data[Written(b)])
    BY <1>1, <1>5, SurvivorFacts DEF InvCompacted
  <2>2. Range(data[live[b]]) \subseteq Range(data[Written(b)])
    BY <1>1, <2>1 DEF InvNames
  <2> QED BY <1>1, <1>2, <1>3, <1>4, <1>5, <1>6, <2>2 DEF InvWritten
<1>7. CASE Handle(b) = Compacted(b)
  <2>1. live[b] = Compacted(b) /\ Range(data[Compacted(b)]) = Survivors(data[Written(b)])
        /\ Sorted(data[Compacted(b)])
    BY <1>1, <1>2, <1>7 DEF InvCompacted
  <2>2. Range(data[Compacted(b)]) \subseteq Range(data[Written(b)])
    BY <1>5, <2>1, SurvivorFacts
  <2>3. b # active => data[Compacted(b)] # <<>>
    <3>1. b # active => data[Written(b)] # <<>>
      BY <1>1 DEF InvWritten
    <3> QED BY <1>5, <2>1, <3>1, SurvivorFacts, RangeFacts
  <2> QED BY <1>2, <1>3, <1>4, <1>5, <1>7, <2>1, <2>2, <2>3
<1> QED BY <1>2, <1>6, <1>7

LEMMA HoldsFacts ==
    ASSUME NEW r
    PROVE  r \in Holds(live, data) <=>
            \E b \in Offsets : live[b] # NoNode /\ r \in Range(data[live[b]])
BY DEF Holds

(***************************************************************************)
(* A step that leaves the segments' files alone.                           *)
(***************************************************************************)
SameFiles ==
    \A b \in Offsets :
        /\ data'[Written(b)] = data[Written(b)] /\ durable'[Written(b)] = durable[Written(b)]
        /\ data'[Compacted(b)] = data[Compacted(b)] /\ durable'[Compacted(b)] = durable[Compacted(b)]

LEMMA DiskKept ==
    ASSUME InvDisk, SameFiles, UNCHANGED <<live, durableDir, acked>>
    PROVE  InvDisk'
<1>1. InvNames'
  BY DEF InvDisk, InvNames, Sealed
<1>2. InvWritten'
  BY DEF InvDisk, InvWritten, SameFiles, Sealed
<1>3. InvCompacted'
  BY DEF InvDisk, InvCompacted, SameFiles
<1>4. InvAcked'
  BY DEF InvDisk, InvAcked, SameFiles
<1> QED BY <1>1, <1>2, <1>3, <1>4 DEF InvDisk

(***************************************************************************)
(* Opening handles changes none: segmentFor caches what it returns.        *)
(***************************************************************************)
LEMMA OpenedFacts ==
    ASSUME Inv, pc # "down", UNCHANGED <<live, bases>>,
           cache' = cache \/ \E B \in SUBSET bases : cache' = Opened(B)
    PROVE  /\ \A b \in bases : Handle(b)' = Handle(b)
           /\ InvCache'
           /\ \A b \in Offsets : cache'[b] = cache[b] \/ (cache[b] = NoNode /\ cache'[b] = live[b])
           /\ cache' \in [Offsets -> Inodes \cup {NoNode}]
<1> USE DEF Inv, InvDisk, InvLog
<1>1. \A b \in Offsets :
        cache'[b] = cache[b] \/ (b \in bases /\ b # active /\ cache'[b] = Handle(b))
  BY DEF Opened
<1>2. active' = active
  BY DEF active
<1>3. \A b \in bases : b \in Offsets
  BY ActiveFacts
<1>4. ASSUME NEW b \in bases PROVE Handle(b)' = Handle(b)
  <2>1. b \in Offsets /\ live[b] # NoNode
    BY ActiveFacts
  <2>2. CASE cache'[b] = cache[b]
    BY <1>2, <2>2 DEF Handle
  <2>3. CASE b # active /\ cache'[b] = Handle(b)
    <3>1. cache'[b] # NoNode
      BY <2>1, <2>3 DEF Handle
    <3> QED BY <1>2, <2>3, <3>1 DEF Handle
  <2> QED BY <1>1, <2>1, <2>2, <2>3
<1>5. \A b \in Offsets : cache'[b] = cache[b] \/ (cache[b] = NoNode /\ cache'[b] = live[b])
  BY <1>1 DEF Handle
<1>6. ASSUME NEW b \in Offsets
      PROVE  /\ cache'[b] \in {NoNode, Written(b), Compacted(b)}
             /\ cache'[b] # NoNode => Sealed(b)' /\ live'[b] # NoNode
             /\ cache'[b] = Compacted(b) => live'[b] = Compacted(b)
  <2>1. CASE cache'[b] = cache[b]
    BY <2>1 DEF InvCache, Sealed
  <2>2. CASE b \in bases /\ b # active /\ cache'[b] = Handle(b)
    <3>1. Sealed(b) /\ live[b] # NoNode
      BY <2>2, ActiveFacts
    <3>2. Handle(b) \in {Written(b), Compacted(b)} /\ (Handle(b) = Compacted(b) => live[b] = Compacted(b))
      BY <2>2, HandleFacts
    <3> QED BY <2>2, <3>1, <3>2 DEF Sealed
  <2> QED BY <1>1, <2>1, <2>2
<1>7. InvCache'
  BY <1>6 DEF InvCache
<1>8. cache' \in [Offsets -> Inodes \cup {NoNode}]
  <2>1. CASE cache' = cache
    BY <2>1 DEF TypeOK
  <2>2. CASE \E B \in SUBSET bases : cache' = Opened(B)
    <3>1. PICK B \in SUBSET bases : cache' = Opened(B)
      BY <2>2
    <3>2. \A b \in Offsets : (IF b \in B \ {active} THEN Handle(b) ELSE cache[b]) \in Inodes \cup {NoNode}
      <4>1. \A b \in bases : Handle(b) \in Inodes
        BY HandleFacts
      <4> QED BY <4>1 DEF TypeOK
    <3> QED BY <3>1, <3>2 DEF Opened
  <2> QED BY <2>1, <2>2
<1> QED BY <1>4, <1>5, <1>7, <1>8

-----------------------------------------------------------------------------
(***************************************************************************)
(* What a step keeps that leaves the segments' files, their names and the  *)
(* log's view of them alone, but for opening handles.                      *)
(***************************************************************************)
Quiet ==
    /\ SameFiles
    /\ UNCHANGED <<live, durableDir, bases, next, closed, generation, acked>>
    /\ cache' = cache \/ \E B \in SUBSET bases : cache' = Opened(B)

LEMMA QuietFacts ==
    ASSUME Inv, pc # "down", pc' # "down", Quiet
    PROVE  /\ InvDisk' /\ InvBases' /\ InvCache' /\ InvClosed'
           /\ \A b \in Offsets : Sealed(b)' <=> Sealed(b)
           /\ \A b \in bases : Handle(b)' = Handle(b) /\ data'[Handle(b)] = data[Handle(b)]
           /\ Holds(live, data)' = Holds(live, data)
           /\ cache' \in [Offsets -> Inodes \cup {NoNode}]
<1> USE DEF Inv, InvDisk, InvLog
<1>1. InvDisk'
  BY DiskKept DEF Quiet
<1>2. /\ \A b \in bases : Handle(b)' = Handle(b)
      /\ InvCache'
      /\ \A b \in Offsets : cache'[b] = cache[b] \/ (cache[b] = NoNode /\ cache'[b] = live[b])
      /\ cache' \in [Offsets -> Inodes \cup {NoNode}]
  BY OpenedFacts DEF Quiet
<1>3. \A b \in Offsets : Sealed(b)' <=> Sealed(b)
  BY DEF Quiet, Sealed
<1>4. InvBases'
  <2>1. \A b \in bases : b \in Offsets
    BY ActiveFacts
  <2> QED BY <1>3, <2>1 DEF InvBases, Quiet, SameFiles
<1>5. InvClosed'
  <2> SUFFICES ASSUME NEW i \in closed
               PROVE  \E b \in Offsets : i = Written(b) /\ live[b] = Compacted(b) /\ cache'[b] # Written(b)
    BY DEF InvClosed, Quiet
  <2>1. PICK b \in Offsets : i = Written(b) /\ live[b] = Compacted(b) /\ cache[b] # Written(b)
    BY DEF InvClosed
  <2> QED BY <1>2, <2>1, NodeFacts
<1>6. ASSUME NEW b \in bases PROVE data'[Handle(b)] = data[Handle(b)]
  <2>1. b \in Offsets
    BY ActiveFacts
  <2>2. Handle(b) \in {Written(b), Compacted(b)}
    BY HandleFacts
  <2> QED BY <2>1, <2>2 DEF Quiet, SameFiles
<1>7. Holds(live, data)' = Holds(live, data)
  <2>1. \A b \in Offsets : live[b] # NoNode => data'[live[b]] = data[live[b]]
    BY DEF InvNames, Quiet, SameFiles
  <2> QED BY <2>1 DEF Holds, Quiet
<1> QED BY <1>1, <1>2, <1>3, <1>4, <1>5, <1>6, <1>7

LEMMA ReaderKept ==
    ASSUME Inv, pc # "down", pc' # "down", Quiet, UNCHANGED <<reader, got>>
    PROVE  InvReader' /\ NothingSkipped'
<1> USE DEF Inv
<1>1. /\ \A b \in bases : Handle(b)' = Handle(b) /\ data'[Handle(b)] = data[Handle(b)]
      /\ Holds(live, data)' = Holds(live, data)
  BY QuietFacts
<1>2. InvReader'
  BY <1>1 DEF InvReader, Quiet, Between
<1>3. NothingSkipped'
  BY <1>1 DEF NothingSkipped
<1> QED BY <1>2, <1>3

(***************************************************************************)
(* The steps of a compaction before its rename.                            *)
(***************************************************************************)
LEMMA BaseForBase ==
    ASSUME TypeOK, NEW b \in bases
    PROVE  BaseFor(b) = b
<1>1. bases \subseteq Int
  BY DEF TypeOK, Offsets
<1> QED BY <1>1 DEF BaseFor, Max

LEMMA CompactInv ==
    ASSUME Inv, ~AnyOffset, NEW b \in Offsets, Compact(b)
    PROVE  Inv'
<1> USE DEF Inv, InvDisk, InvLog
<1>0. pc = "idle" /\ pc' \in {"idle", "stale"} /\ b \in bases /\ b < active /\ BaseFor(b) = b
  BY BaseForBase DEF Compact
<1>1. cache' = Opened({b})
  BY <1>0 DEF Compact
<1>2. Quiet
  BY <1>0, <1>1 DEF Compact, Quiet, SameFiles, disk
<1>3. /\ InvDisk' /\ InvBases' /\ InvCache' /\ InvClosed'
      /\ cache' \in [Offsets -> Inodes \cup {NoNode}]
      /\ \A x \in Offsets : Sealed(x)' <=> Sealed(x)
  BY <1>0, <1>2, QuietFacts
<1>4. InvReader' /\ NothingSkipped'
  BY <1>0, <1>2, ReaderKept DEF Compact
<1>5. TypeOK'
  BY <1>0, <1>3 DEF Compact, TypeOK, disk
<1>6. InvJob'
  <2>1. CASE pc' = "idle"
    BY <2>1 DEF InvJob, Busy
  <2>2. CASE pc' = "stale"
    <3>1. Survivors(data[Handle(b)]) # Range(data[Handle(b)]) /\ job' = [base |-> b, src |-> Handle(b)]
      BY <1>0, <2>2 DEF Compact
    <3>2. live[b] # NoNode /\ Sealed(b) /\ b # active
      <4>1. active \in Int
        BY <1>0, ActiveFacts DEF Offsets
      <4>2. b # active
        BY <1>0, <4>1 DEF Offsets
      <4> QED BY <1>0, <4>2, ActiveFacts
    <3>3. Handle(b) = Written(b)
      <4>1. Handle(b) \in {Written(b), Compacted(b)} /\ (Handle(b) = Compacted(b) => live[b] = Compacted(b))
        BY <1>0, HandleFacts
      <4>2. live[b] = Compacted(b) => Survivors(data[Compacted(b)]) = Range(data[Compacted(b)])
        BY FileTypes, SurvivorFacts DEF InvCompacted
      <4> QED BY <3>1, <4>1, <4>2
    <3>4. cache'[b] = Written(b)
      BY <1>1, <3>2, <3>3 DEF Opened
    <3> QED BY <1>3, <2>2, <3>1, <3>2, <3>3, <3>4, <1>2 DEF InvJob, Quiet
  <2> QED BY <1>0, <2>1, <2>2
<1> QED BY <1>3, <1>4, <1>5, <1>6

LEMMA JobFacts ==
    ASSUME Inv, pc \in Busy
    PROVE  /\ job.base \in Offsets /\ live[job.base] # NoNode /\ Sealed(job.base)
           /\ job.src = Written(job.base) /\ cache[job.base] = Written(job.base)
           /\ pc # "down"
           /\ Tmp(job.base) \in Inodes /\ data[Tmp(job.base)] \in Seq(Records)
           /\ data[job.src] \in Seq(Records) /\ Sorted(data[job.src])
<1>1. /\ job.base \in Offsets /\ live[job.base] # NoNode /\ Sealed(job.base)
      /\ job.src = Written(job.base) /\ cache[job.base] = Written(job.base)
  BY DEF Inv, InvLog, InvJob
<1>2. pc # "down"
  BY DEF Busy
<1>3. Tmp(job.base) \in Inodes /\ data[Tmp(job.base)] \in Seq(Records) /\ data[job.src] \in Seq(Records)
  BY <1>1, NodeFacts, FileTypes DEF Inv
<1>4. Sorted(data[job.src])
  BY <1>1 DEF Inv, InvDisk, InvWritten
<1> QED BY <1>1, <1>2, <1>3, <1>4

LEMMA RemoveStaleInv ==
    ASSUME Inv, RemoveStale
    PROVE  Inv'
<1> USE DEF Inv, InvDisk, InvLog
<1>0. pc \in Busy /\ pc # "down" /\ pc' # "down"
  BY DEF RemoveStale, Busy
<1>2. Quiet
  BY DEF RemoveStale, Quiet, SameFiles, memory
<1>3. /\ InvDisk' /\ InvBases' /\ InvCache' /\ InvClosed'
      /\ \A x \in Offsets : Sealed(x)' <=> Sealed(x)
  BY <1>0, <1>2, QuietFacts
<1>4. InvReader' /\ NothingSkipped'
  BY <1>0, <1>2, ReaderKept DEF RemoveStale
<1>5. TypeOK'
  BY DEF RemoveStale, TypeOK, memory
<1>6. InvJob'
  BY <1>0, <1>3, JobFacts DEF InvJob, RemoveStale, memory
<1> QED BY <1>3, <1>4, <1>5, <1>6

LEMMA EmptyFile == <<>> \in Seq(Records) /\ Range(<<>>) = {} /\ Sorted(<<>>)
BY DEF Range, Sorted

(***************************************************************************)
(* Writing to the temporary file leaves the segments' files alone.         *)
(***************************************************************************)
LEMMA TmpFacts ==
    ASSUME NEW b \in Offsets
    PROVE  /\ Tmp(b) \in Inodes
           /\ \A c \in Offsets : /\ Written(c) \in Inodes /\ Written(c) # Tmp(b)
                               /\ Compacted(c) \in Inodes /\ Compacted(c) # Tmp(b)
BY NodeFacts

LEMMA CreateTmpInv ==
    ASSUME Inv, CreateTmp
    PROVE  Inv'
<1> USE DEF Inv, InvDisk, InvLog
<1>0. pc \in Busy /\ pc # "down" /\ pc' = "copy"
  BY DEF CreateTmp, Busy
<1>1. /\ data' \in [Inodes -> Seq(Records)] /\ durable' \in [Inodes -> Seq(Records)]
      /\ data'[Tmp(job.base)] = <<>>
      /\ SameFiles
  <2>0. /\ Tmp(job.base) \in Inodes
        /\ \A c \in Offsets : /\ Written(c) \in Inodes /\ Written(c) # Tmp(job.base)
                            /\ Compacted(c) \in Inodes /\ Compacted(c) # Tmp(job.base)
    BY <1>0, JobFacts, TmpFacts
  <2> DEFINE none == <<>>
  <2>1. job.base \in Offsets /\ none \in Seq(Records)
        /\ data \in [Inodes -> Seq(Records)] /\ durable \in [Inodes -> Seq(Records)]
    BY <1>0, JobFacts DEF TypeOK
  <2>2. /\ data' = [data EXCEPT ![Tmp(job.base)] = none]
        /\ durable' = [durable EXCEPT ![Tmp(job.base)] = none]
    BY DEF CreateTmp
  <2> HIDE DEF none
  <2>3. data' \in [Inodes -> Seq(Records)] /\ data'[Tmp(job.base)] = none
        /\ \A c \in Offsets : data'[Written(c)] = data[Written(c)] /\ data'[Compacted(c)] = data[Compacted(c)]
    BY <2>0, <2>1, <2>2
  <2>4. durable' \in [Inodes -> Seq(Records)]
        /\ \A c \in Offsets : durable'[Written(c)] = durable[Written(c)] /\ durable'[Compacted(c)] = durable[Compacted(c)]
    BY <2>0, <2>1, <2>2
  <2> QED BY <2>3, <2>4 DEF SameFiles, none
<1>2. Quiet
  BY <1>1 DEF CreateTmp, Quiet, memory
<1>3. /\ InvDisk' /\ InvBases' /\ InvCache' /\ InvClosed'
      /\ \A x \in Offsets : Sealed(x)' <=> Sealed(x)
  BY <1>0, <1>2, QuietFacts
<1>4. InvReader' /\ NothingSkipped'
  BY <1>0, <1>2, ReaderKept DEF CreateTmp
<1>5. TypeOK'
  <2>1. strays' \subseteq Offsets
    BY <1>0, JobFacts DEF CreateTmp, TypeOK
  <2> QED BY <1>0, <1>1, <2>1 DEF CreateTmp, TypeOK, memory
<1>6. InvJob'
  <2>1. /\ job.base \in Offsets /\ live[job.base] # NoNode /\ Sealed(job.base)
        /\ job.src = Written(job.base) /\ cache[job.base] = Written(job.base)
    BY <1>0, JobFacts
  <2>2. job' = job /\ live' = live /\ cache' = cache
    BY DEF CreateTmp, memory
  <2>3. Range(data'[Tmp(job.base)]) = {} /\ Sorted(data'[Tmp(job.base)])
    BY <1>1, EmptyFile
  <2> QED BY <1>0, <1>3, <2>1, <2>2, <2>3 DEF InvJob
<1> QED BY <1>3, <1>4, <1>5, <1>6

(***************************************************************************)
(* In a file in order, records have different offsets.                     *)
(***************************************************************************)
LEMMA SortedDistinct ==
    ASSUME NEW file \in Seq(Records), Sorted(file), NEW r \in Range(file), NEW s \in Range(file),
           r.off = s.off
    PROVE  r = s
<1>1. PICK p \in 1 .. Len(file) : r = file[p]
  BY RangeFacts
<1>2. PICK q \in 1 .. Len(file) : s = file[q]
  BY RangeFacts
<1>3. file[p].off \in Nat /\ file[q].off \in Nat
  <2>1. file[p] \in Records /\ file[q] \in Records
    OBVIOUS
  <2> QED BY <2>1 DEF Records, Offsets
<1>4. ~(p < q) /\ ~(q < p)
  BY <1>1, <1>2, <1>3 DEF Sorted
<1>5. p = q
  BY <1>4
<1> QED BY <1>1, <1>2, <1>5

LEMMA CopyRecordInv ==
    ASSUME Inv, CopyRecord
    PROVE  Inv'
<1> USE DEF Inv, InvDisk, InvLog
<1>0. pc = "copy" /\ pc \in Busy /\ pc # "down" /\ pc' = "copy"
  BY DEF CopyRecord, Busy
<1> DEFINE t == data[Tmp(job.base)]
           src == data[job.src]
<1>a. PICK r \in Uncopied :
        /\ \A s \in Uncopied : r.off <= s.off
        /\ data' = [data EXCEPT ![Tmp(job.base)] = t \o <<r>>]
  BY DEF CopyRecord
<1>b. /\ job.base \in Offsets /\ live[job.base] # NoNode /\ Sealed(job.base)
      /\ job.src = Written(job.base) /\ cache[job.base] = Written(job.base)
      /\ t \in Seq(Records) /\ src \in Seq(Records) /\ Sorted(src)
      /\ data \in [Inodes -> Seq(Records)]
  BY <1>0, JobFacts DEF TypeOK
<1>c. /\ Range(t) \subseteq Survivors(src) /\ Sorted(t)
      /\ \A x \in Range(t), s \in Uncopied : x.off < s.off
      /\ Uncopied = Survivors(src) \ Range(t)
  BY <1>0 DEF InvJob, Uncopied
<1>d. r \in Records /\ Survivors(src) \subseteq Range(src) /\ Survivors(src) \subseteq Records
  BY <1>b, <1>c, SurvivorFacts
<1> DEFINE longer == t \o <<r>>
<1>g. data' = [data EXCEPT ![Tmp(job.base)] = longer] /\ longer = t \o <<r>>
  BY <1>a
<1> HIDE DEF t, src, longer
<1>e. longer \in Seq(Records) /\ Range(longer) = Range(t) \cup {r}
  <2>1. t \in Seq(Records) /\ r \in Records /\ longer = t \o <<r>>
    BY <1>b, <1>d, <1>g
  <2>2. longer \in Seq(Records)
    BY <2>1, AppendFacts
  <2>3. Range(longer) = Range(t) \cup {r}
    BY <2>1, AppendFacts
  <2> QED BY <2>2, <2>3
<1>f. Sorted(longer)
  BY <1>g, <1>b, <1>c, <1>d, AppendSorted
<1>1. /\ data' \in [Inodes -> Seq(Records)] /\ durable' \in [Inodes -> Seq(Records)]
      /\ data'[Tmp(job.base)] = longer
      /\ data'[job.src] = src
      /\ SameFiles
  <2>0. /\ Tmp(job.base) \in Inodes
        /\ \A c \in Offsets : /\ Written(c) \in Inodes /\ Written(c) # Tmp(job.base)
                            /\ Compacted(c) \in Inodes /\ Compacted(c) # Tmp(job.base)
    BY <1>0, JobFacts, TmpFacts
  <2>1. /\ data' \in [Inodes -> Seq(Records)] /\ data'[Tmp(job.base)] = longer
        /\ \A c \in Offsets : data'[Written(c)] = data[Written(c)] /\ data'[Compacted(c)] = data[Compacted(c)]
    BY <2>0, <1>g, <1>b, <1>e
  <2>2. durable' = durable
    BY DEF CopyRecord
  <2> QED BY <1>b, <2>1, <2>2 DEF SameFiles, TypeOK, src
<1>2. Quiet
  BY <1>1 DEF CopyRecord, Quiet, memory
<1>3. /\ InvDisk' /\ InvBases' /\ InvCache' /\ InvClosed'
      /\ \A x \in Offsets : Sealed(x)' <=> Sealed(x)
  BY <1>0, <1>2, QuietFacts
<1>4. InvReader' /\ NothingSkipped'
  BY <1>0, <1>2, ReaderKept DEF CopyRecord
<1>5. TypeOK'
  BY <1>0, <1>1 DEF CopyRecord, TypeOK, memory
<1>6. InvJob'
  <2>2. job' = job /\ live' = live /\ cache' = cache
    BY DEF CopyRecord, memory
  <2>3. Uncopied' = Survivors(src) \ (Range(t) \cup {r})
    BY <1>1, <1>e, <2>2 DEF Uncopied
  <2>4. Range(data'[Tmp(job.base)]) \subseteq Survivors(src)
    <3>1. r \in Survivors(src)
      BY <1>c
    <3>2. Range(data'[Tmp(job.base)]) = Range(t) \cup {r}
      BY <1>1, <1>e
    <3> QED BY <1>c, <3>1, <3>2
  <2>5. ASSUME NEW x \in Range(t) \cup {r}, NEW s \in Survivors(src) \ (Range(t) \cup {r})
        PROVE  x.off < s.off
    <3>1. s \in Uncopied /\ s \in Range(src) /\ s # r /\ r \in Range(src)
      BY <1>c, <1>d, <2>5
    <3>2. CASE x \in Range(t)
      BY <1>c, <3>1, <3>2
    <3>3. CASE x = r
      <4>1. r.off <= s.off
        BY <1>a, <3>1
      <4>2. r.off # s.off
        BY <1>b, <3>1, SortedDistinct
      <4>3. r.off \in Int /\ s.off \in Int
        BY <1>d, <2>5 DEF Records, Offsets
      <4> QED BY <3>3, <4>1, <4>2, <4>3
    <3> QED BY <3>2, <3>3
  <2>6. \A x \in Range(data'[Tmp(job.base)]), s \in Uncopied' : x.off < s.off
    BY <1>1, <1>e, <2>3, <2>5
  <2> QED BY <1>0, <1>1, <1>3, <1>b, <1>f, <2>2, <2>4, <2>6 DEF InvJob
<1> QED BY <1>3, <1>4, <1>5, <1>6

LEMMA SyncTmpInv ==
    ASSUME Inv, SyncTmp
    PROVE  Inv'
<1> USE DEF Inv, InvDisk, InvLog
<1>0. pc = "copy" /\ pc \in Busy /\ pc # "down" /\ pc' = "rename"
  BY DEF SyncTmp, Busy
<1>1. /\ durable' \in [Inodes -> Seq(Records)]
      /\ durable'[Tmp(job.base)] = data[Tmp(job.base)]
      /\ SameFiles
  <2>0. /\ Tmp(job.base) \in Inodes
        /\ \A c \in Offsets : /\ Written(c) \in Inodes /\ Written(c) # Tmp(job.base)
                            /\ Compacted(c) \in Inodes /\ Compacted(c) # Tmp(job.base)
    BY <1>0, JobFacts, TmpFacts
  <2>1. job.base \in Offsets /\ data[Tmp(job.base)] \in Seq(Records) /\ durable \in [Inodes -> Seq(Records)]
    BY <1>0, JobFacts DEF TypeOK
  <2>2. durable' = [durable EXCEPT ![Tmp(job.base)] = data[Tmp(job.base)]] /\ data' = data
    BY DEF SyncTmp
  <2>3. /\ durable' \in [Inodes -> Seq(Records)] /\ durable'[Tmp(job.base)] = data[Tmp(job.base)]
        /\ \A c \in Offsets : durable'[Written(c)] = durable[Written(c)] /\ durable'[Compacted(c)] = durable[Compacted(c)]
    BY <2>0, <2>1, <2>2
  <2> QED BY <2>2, <2>3 DEF SameFiles
<1>2. Quiet
  BY <1>1 DEF SyncTmp, Quiet, memory
<1>3. /\ InvDisk' /\ InvBases' /\ InvCache' /\ InvClosed'
      /\ \A x \in Offsets : Sealed(x)' <=> Sealed(x)
  BY <1>0, <1>2, QuietFacts
<1>4. InvReader' /\ NothingSkipped'
  BY <1>0, <1>2, ReaderKept DEF SyncTmp
<1>5. TypeOK'
  BY <1>0, <1>1 DEF SyncTmp, TypeOK, memory
<1>6. InvJob'
  <2>1. /\ job.base \in Offsets /\ live[job.base] # NoNode /\ Sealed(job.base)
        /\ job.src = Written(job.base) /\ cache[job.base] = Written(job.base)
    BY <1>0, JobFacts
  <2>2. job' = job /\ live' = live /\ cache' = cache /\ data' = data
    BY DEF SyncTmp, memory
  <2>3. Range(data[Tmp(job.base)]) = Survivors(data[job.src]) /\ Sorted(data[Tmp(job.base)])
    BY <1>0 DEF InvJob, SyncTmp, Copied, Uncopied
  <2> QED BY <1>0, <1>1, <1>3, <2>1, <2>2, <2>3 DEF InvJob
<1> QED BY <1>3, <1>4, <1>5, <1>6

(***************************************************************************)
(* The ways a compaction ends without replacing a file, and NewReader.     *)
(***************************************************************************)
LEMMA FailsInv ==
    ASSUME Inv, SwapSyncFails \/ CompactFails
    PROVE  Inv'
<1> USE DEF Inv, InvDisk, InvLog
<1>0. pc \in Busy /\ pc # "down" /\ pc' = "idle"
  BY DEF SwapSyncFails, CompactFails, Busy
<1>2. Quiet
  BY DEF SwapSyncFails, CompactFails, Quiet, SameFiles, memory, disk
<1>3. InvDisk' /\ InvBases' /\ InvCache' /\ InvClosed'
  BY <1>0, <1>2, QuietFacts
<1>4. InvReader' /\ NothingSkipped'
  BY <1>0, <1>2, ReaderKept DEF SwapSyncFails, CompactFails
<1>5. TypeOK'
  BY <1>0 DEF SwapSyncFails, CompactFails, TypeOK, memory, disk
<1>6. InvJob'
  BY <1>0 DEF InvJob, Busy
<1> QED BY <1>3, <1>4, <1>5, <1>6

LEMMA NewReaderInv ==
    ASSUME Inv, NEW from \in Offsets, NewReader(from)
    PROVE  Inv'
<1> USE DEF Inv, InvDisk, InvLog
<1>0. pc = "idle" /\ pc' = "idle"
  BY DEF NewReader
<1>1. reader' = [seg |-> NoNode, pos |-> 0, next |-> from, generation |-> generation,
                 from |-> from, open |-> TRUE]
  BY DEF NewReader, NoReader
<1>2. Quiet
  BY DEF NewReader, Quiet, SameFiles, memory, disk
<1>3. InvDisk' /\ InvBases' /\ InvCache' /\ InvClosed'
  BY <1>0, <1>2, QuietFacts
<1>4. InvReader'
  <2>1. generation' = generation /\ next' = next /\ generation \in Nat /\ from <= next
    BY DEF NewReader, memory, TypeOK
  <2> QED BY <1>0, <1>1, <2>1 DEF InvReader
<1>5. NothingSkipped'
  <2> SUFFICES ASSUME NEW r \in Holds(live, data), from <= r.off, r.off < from
               PROVE  FALSE
    BY <1>1, <1>0, <1>2, QuietFacts DEF NothingSkipped
  <2>1. PICK b \in Offsets : live[b] # NoNode /\ r \in Range(data[live[b]])
    BY HoldsFacts
  <2>2. data[live[b]] \in Seq(Records)
    BY <2>1 DEF TypeOK
  <2>3. r \in Records
    BY <2>1, <2>2, RangeFacts
  <2> QED BY <2>3 DEF Records, Offsets
<1>6. TypeOK'
  <2>1. reader'.next \in Offsets /\ reader'.seg \in Inodes \cup {NoNode}
    BY <1>1
  <2> QED BY <2>1 DEF NewReader, TypeOK, memory, disk
<1>7. InvJob'
  BY <1>0 DEF InvJob, Busy
<1> QED BY <1>3, <1>4, <1>5, <1>6, <1>7

-----------------------------------------------------------------------------
(***************************************************************************)
(* The steps that write.                                                   *)
(***************************************************************************)
LEMMA MaxIs ==
    ASSUME NEW S \in SUBSET Int, NEW m \in S, \A x \in S : m >= x
    PROVE  Max(S) = m
<1>1. Max(S) \in S /\ \A x \in S : Max(S) >= x
  BY DEF Max
<1>2. Max(S) >= m /\ m >= Max(S) /\ Max(S) \in Int
  BY <1>1
<1> QED BY <1>2

LEMMA RecordFacts ==
    ASSUME Inv
    PROVE  /\ \A b \in Offsets : live[b] # NoNode => live[b] \in Inodes
           /\ \A r \in Holds(live, data) : r \in Records
<1>1. \A b \in Offsets : live[b] # NoNode => live[b] \in Inodes
  BY DEF Inv, TypeOK
<1>2. ASSUME NEW r \in Holds(live, data) PROVE r \in Records
  <2>1. PICK b \in Offsets : live[b] # NoNode /\ r \in Range(data[live[b]])
    BY HoldsFacts
  <2>2. data[live[b]] \in Seq(Records)
    BY <1>1, <2>1 DEF Inv, TypeOK
  <2> QED BY <2>1, <2>2, RangeFacts
<1> QED BY <1>1, <1>2

LEMMA Append1Inv ==
    ASSUME Inv, NEW k \in Keys, Append1(k)
    PROVE  Inv'
<1> USE DEF Inv, InvDisk, InvLog
<1> DEFINE a == active
           file == data[Written(a)]
           r == [off |-> next, key |-> k]
           longer == file \o <<r>>
<1>0. pc = "idle" /\ pc' = "idle" /\ next' = next + 1 /\ next < MaxOffset
  BY DEF Append1
<1>1. /\ a \in bases /\ a \in Offsets /\ live[a] = Written(a) /\ ~Sealed(a) /\ a <= next
      /\ \A b \in bases : b \in Offsets /\ live[b] # NoNode /\ b <= a
      /\ \A b \in bases : b # a => Sealed(b) /\ b < a
      /\ \A b \in Offsets : live[b] # NoNode => b \in bases
  BY <1>0, ActiveFacts
<1>2. next \in Offsets /\ next' \in Offsets /\ r \in Records /\ r.off = next
  BY <1>0 DEF TypeOK, Offsets, Records
<1>3. data' = [data EXCEPT ![Written(a)] = longer] /\ longer = file \o <<r>>
  BY <1>1 DEF Append1
<1>4. UNCHANGED <<live, durableDir, strays, durable, pc, bases, cache, closed, generation, job, reader, got, acked>>
  BY DEF Append1
<1>5. file \in Seq(Records) /\ Sorted(file) /\ \A s \in Range(file) : s.off < next
  BY <1>0, <1>1, FileTypes DEF InvWritten, InvBases
<1> HIDE DEF longer, r, file, a
<1>6. /\ longer \in Seq(Records) /\ Len(longer) = Len(file) + 1 /\ longer # <<>>
      /\ longer[Len(file) + 1] = r /\ Last(longer) = r
      /\ \A p \in 1 .. Len(file) : longer[p] = file[p]
      /\ Range(longer) = Range(file) \cup {r} /\ Len(file) \in Nat
  <2>1. Len(file) \in Nat
    BY <1>5
  <2>2. longer \in Seq(Records) /\ Len(longer) = Len(file) + 1 /\ longer # <<>>
    BY <1>2, <1>3, <1>5, AppendFacts
  <2>3. longer[Len(file) + 1] = r /\ Last(longer) = r
    BY <1>2, <1>3, <1>5, AppendFacts
  <2>4. \A p \in 1 .. Len(file) : longer[p] = file[p]
    BY <1>2, <1>3, <1>5, AppendFacts
  <2>5. Range(longer) = Range(file) \cup {r}
    BY <1>2, <1>3, <1>5, AppendFacts
  <2> QED BY <2>1, <2>2, <2>3, <2>4, <2>5
<1>7. Sorted(longer)
  BY <1>2, <1>3, <1>5, AppendSorted
<1>8. /\ data' \in [Inodes -> Seq(Records)] /\ data'[Written(a)] = longer
      /\ \A b \in Offsets : b # a => data'[Written(b)] = data[Written(b)]
      /\ \A b \in Offsets : data'[Compacted(b)] = data[Compacted(b)]
  <2>1. Written(a) \in Inodes /\ data \in [Inodes -> Seq(Records)]
    BY <1>1, NodeFacts DEF TypeOK
  <2>2. /\ \A b \in Offsets : Written(b) \in Inodes /\ (b # a => Written(b) # Written(a))
        /\ \A b \in Offsets : Compacted(b) \in Inodes /\ Compacted(b) # Written(a)
    BY <1>1, NodeFacts
  <2> QED BY <1>3, <1>6, <2>1, <2>2
<1>9. \A b \in Offsets : Sealed(b)' <=> Sealed(b)
  BY <1>4 DEF Sealed
<1>10. InvNames'
  BY <1>4, <1>9 DEF InvNames
<1>11. InvWritten'
  <2> SUFFICES ASSUME NEW b \in Offsets, live[b] # NoNode
      PROVE  /\ Sorted(data'[Written(b)])
             /\ \A p \in 1 .. Len(durable[Written(b)]) :
                 p \in 1 .. Len(data'[Written(b)]) /\ durable[Written(b)][p] = data'[Written(b)][p]
             /\ \A s \in Range(data'[Written(b)]) :
                 b <= s.off /\ s.off < MaxOffset /\ \A c \in b + 1 .. s.off : live[c] = NoNode
             /\ Sealed(b) => /\ durable[Written(b)] = data'[Written(b)] /\ data'[Written(b)] # <<>>
                             /\ live[Last(data'[Written(b)]).off + 1] # NoNode
    BY <1>4, <1>9 DEF InvWritten
  <2>1. CASE b # a
    BY <1>8, <2>1 DEF InvWritten
  <2>2. CASE b = a
    <3>1. \A p \in 1 .. Len(durable[Written(a)]) :
            p \in 1 .. Len(file) /\ durable[Written(a)][p] = file[p]
      BY <1>1, <2>2 DEF InvWritten, file
    <3>2. \A p \in 1 .. Len(durable[Written(a)]) :
            p \in 1 .. Len(longer) /\ durable[Written(a)][p] = longer[p]
      BY <1>6, <3>1
    <3>3. \A c \in a + 1 .. next : live[c] = NoNode
      BY <1>1, <1>2 DEF Offsets
    <3>4. ASSUME NEW s \in Range(longer)
          PROVE  a <= s.off /\ s.off < MaxOffset /\ \A c \in a + 1 .. s.off : live[c] = NoNode
      <4>1. CASE s \in Range(file)
        BY <1>1, <4>1 DEF InvWritten, file
      <4>2. CASE s = r
        BY <1>0, <1>1, <1>2, <3>3, <4>2
      <4> QED BY <1>6, <4>1, <4>2
    <3> QED BY <1>1, <1>7, <1>8, <2>2, <3>2, <3>4
  <2> QED BY <2>1, <2>2
<1>12. InvCompacted'
  <2>1. \A b \in Offsets : live[b] = Compacted(b) => b # a
    BY <1>1, NodeFacts
  <2> QED BY <1>4, <1>8, <2>1 DEF InvCompacted
<1>13. InvAcked'
  BY <1>4 DEF InvAcked
<1>14. InvBases'
  <2>1. ASSUME NEW b \in bases
        PROVE  /\ b <= next' /\ \A s \in Range(data'[Written(b)]) : s.off < next'
               /\ ~Sealed(b) => next' = IF data'[Written(b)] = <<>>
                                        THEN b ELSE Last(data'[Written(b)]).off + 1
    <3>1. b \in Offsets /\ b <= next /\ \A s \in Range(data[Written(b)]) : s.off < next
      BY <1>0, <1>1 DEF InvBases
    <3>2. CASE b # a
      <4>1. data[Written(b)] \in Seq(Records) /\ Range(data[Written(b)]) \subseteq Records
        BY <3>1, FileTypes, RangeFacts
      <4>2. \A s \in Range(data[Written(b)]) : s.off \in Int
        BY <4>1 DEF Records, Offsets
      <4> QED BY <1>0, <1>1, <1>2, <1>8, <3>1, <3>2, <4>2 DEF Offsets
    <3>3. CASE b = a
      <4>1. Range(file) \subseteq Records
        BY <1>5, RangeFacts
      <4>2. \A s \in Range(longer) : s.off < next'
        BY <1>0, <1>2, <1>5, <1>6, <4>1 DEF Records, Offsets
      <4>3. next' = IF longer = <<>> THEN b ELSE Last(longer).off + 1
        BY <1>0, <1>2, <1>6
      <4> QED BY <1>0, <1>2, <1>8, <3>1, <3>3, <4>2, <4>3 DEF Offsets
    <3> QED BY <3>2, <3>3
  <2> QED BY <1>4, <1>9, <2>1 DEF InvBases
<1>15. InvCache' /\ InvClosed'
  BY <1>4, <1>9 DEF InvCache, InvClosed
<1>16. InvJob'
  BY <1>0 DEF InvJob, Busy
<1>17. \A b \in bases : Handle(b)' = Handle(b)
  BY <1>4 DEF Handle, active
<1>18. InvReader'
  <2>1. reader.open => reader.next <= next'
    BY <1>0, <1>2 DEF InvReader, Offsets
  <2>2. ASSUME NEW b \in bases, reader.open, reader.seg = Handle(b), b <= reader.next,
               Between(data[reader.seg], reader.pos, reader.next)
        PROVE  Between(data'[reader.seg], reader.pos, reader.next)
    <3>1. b \in Offsets /\ Handle(b) \in {Written(b), Compacted(b)} /\ (b = a => Handle(b) = Written(b))
      BY <1>0, <1>1, HandleFacts DEF a
    <3>2. CASE b # a
      BY <1>8, <2>2, <3>1, <3>2
    <3>3. CASE b = a
      <4>1. Between(file, reader.pos, reader.next)
        BY <2>2, <3>1, <3>3 DEF file
      <4>2. reader.next <= next /\ reader.next \in Int /\ next \in Int /\ reader.pos \in Nat
        BY <1>2, <2>2 DEF InvReader, Offsets
      <4>3. reader.pos \in 1 .. Len(longer) + 1
        BY <1>6, <4>1 DEF Between
      <4>4. ASSUME NEW q \in 1 .. Len(longer)
            PROVE  (q < reader.pos => longer[q].off < reader.next)
                   /\ (reader.pos <= q => reader.next <= longer[q].off)
        <5>1. CASE q \in 1 .. Len(file)
          BY <1>6, <4>1, <5>1 DEF Between
        <5>2. CASE q = Len(file) + 1
          BY <1>2, <1>6, <4>1, <4>2, <5>2 DEF Between
        <5> QED BY <1>6, <5>1, <5>2
      <4>5. Between(longer, reader.pos, reader.next)
        BY <4>3, <4>4 DEF Between
      <4> QED BY <1>8, <2>2, <3>1, <3>3, <4>5
    <3> QED BY <3>2, <3>3
  <2> QED BY <1>0, <1>4, <1>17, <2>1, <2>2 DEF InvReader
<1>19. NothingSkipped'
  <2> SUFFICES ASSUME reader.open, NEW s \in Holds(live', data'), reader.from <= s.off, s.off < reader.next
               PROVE  s \in got
    BY <1>4 DEF NothingSkipped
  <2>1. PICK b \in Offsets : live[b] # NoNode /\ s \in Range(data'[live[b]])
    BY <1>4 DEF Holds
  <2>2. live[b] \in {Written(b), Compacted(b)} /\ (b = a => live[b] = Written(a))
    BY <1>1, <2>1 DEF InvNames
  <2>3. s \in Range(data[live[b]]) \/ s = r
    <3>1. CASE b # a
      BY <1>8, <2>1, <2>2, <3>1
    <3>2. CASE b = a
      BY <1>6, <1>8, <2>1, <2>2, <3>2 DEF file
    <3> QED BY <3>1, <3>2
  <2>4. s # r
    BY <1>2 DEF InvReader, Offsets
  <2>5. s \in Holds(live, data)
    BY <2>1, <2>3, <2>4, HoldsFacts
  <2> QED BY <2>5 DEF NothingSkipped
<1>20. TypeOK'
  BY <1>0, <1>2, <1>4, <1>8 DEF TypeOK
<1> QED BY <1>10, <1>11, <1>12, <1>13, <1>14, <1>15, <1>16, <1>18, <1>19, <1>20

LEMMA AppendRollsInv ==
    ASSUME Inv, NEW k \in Keys, AppendRolls(k)
    PROVE  Inv'
<1> USE DEF Inv, InvDisk, InvLog
<1>n. PICK n : n = next
  OBVIOUS
<1>a. PICK a : a = active
  OBVIOUS
<1> DEFINE file == data[Written(a)]
           r == [off |-> n, key |-> k]
           new == <<r>>
           none == <<>>
<1>0. pc = "idle" /\ pc' = "idle" /\ next' = n + 1 /\ n < MaxOffset
  BY <1>n DEF AppendRolls
<1>1. /\ a \in bases /\ a \in Offsets /\ live[a] = Written(a) /\ ~Sealed(a) /\ a <= n
      /\ \A b \in bases : b \in Offsets /\ live[b] # NoNode /\ b <= a
      /\ \A b \in bases : b # a => Sealed(b) /\ b < a
      /\ \A b \in Offsets : live[b] # NoNode => b \in bases
      /\ \A b \in Offsets : Sealed(b) => b < a
  BY <1>0, <1>n, <1>a, ActiveFacts
<1>2. n \in Offsets /\ next' \in Offsets /\ r \in Records /\ r.off = n
  BY <1>0, <1>n DEF TypeOK, Offsets, Records
<1>3. /\ data' = [data EXCEPT ![Written(n)] = new]
      /\ durable' = [durable EXCEPT ![Written(a)] = file, ![Written(n)] = none]
      /\ live' = [live EXCEPT ![n] = Written(n)]
      /\ cache' = [cache EXCEPT ![a] = Written(a)]
      /\ durableDir' = live' /\ bases' = bases \cup {n}
      /\ Len(file) >= SegMax
  BY <1>1, <1>n, <1>a DEF AppendRolls
<1>4. UNCHANGED <<strays, pc, closed, generation, job, reader, got, acked>>
  BY DEF AppendRolls
<1>5. /\ file \in Seq(Records) /\ Sorted(file) /\ file # <<>>
      /\ \A s \in Range(file) : s.off < n
      /\ n = Last(file).off + 1
  <2>1. file \in Seq(Records) /\ Sorted(file) /\ \A s \in Range(file) : s.off < n
    BY <1>0, <1>1, <1>n, FileTypes DEF InvWritten, InvBases
  <2>2. file # <<>>
    BY <1>3
  <2>3. n = IF file = <<>> THEN a ELSE Last(file).off + 1
    BY <1>0, <1>1, <1>n DEF InvBases
  <2> QED BY <2>1, <2>2, <2>3
<1>6. a < n
  <2>1. Last(file) \in Range(file)
    BY <1>5, RangeFacts
  <2>2. a <= Last(file).off
    BY <1>1, <2>1 DEF InvWritten
  <2>3. Last(file).off \in Int
    BY <1>5, <2>1, LastIsGreatest DEF Offsets
  <2> QED BY <1>1, <1>2, <1>5, <2>2, <2>3 DEF Offsets
<1>7. /\ new \in Seq(Records) /\ new # <<>> /\ Sorted(new) /\ Range(new) = {r} /\ Last(new) = r
      /\ none \in Seq(Records) /\ none = <<>> /\ Len(none) = 0 /\ Len(new) = 1 /\ new[1] = r
  <2>1. new \in Seq(Records) /\ new # <<>> /\ Len(new) = 1 /\ new[1] = r /\ none \in Seq(Records) /\ Len(none) = 0
    BY <1>2
  <2>2. Sorted(new)
    BY <2>1 DEF Sorted
  <2>3. Range(new) = {r}
    BY <2>1 DEF Range
  <2> QED BY <2>1, <2>2, <2>3 DEF Last
<1> HIDE DEF file, r, new, none
<1>8. n \notin bases /\ live[n] = NoNode /\ \A b \in bases : b # n /\ b < n
  <2>1. \A b \in bases : b < n
    BY <1>1, <1>2, <1>6 DEF Offsets
  <2> QED BY <1>1, <1>2, <2>1 DEF Offsets
<1>9. /\ \A b \in Offsets : Written(b) \in Inodes /\ Compacted(b) \in Inodes
      /\ \A b \in Offsets : (b # a => Written(b) # Written(a)) /\ (b # n => Written(b) # Written(n))
      /\ \A b \in Offsets : Compacted(b) # Written(a) /\ Compacted(b) # Written(n)
      /\ Written(n) # NoNode /\ Written(a) # NoNode
  BY <1>1, <1>2, NodeFacts
<1>10. /\ data' \in [Inodes -> Seq(Records)] /\ data'[Written(n)] = new
       /\ \A b \in Offsets : b # n => data'[Written(b)] = data[Written(b)]
       /\ \A b \in Offsets : data'[Compacted(b)] = data[Compacted(b)]
  <2>1. data \in [Inodes -> Seq(Records)]
    BY DEF TypeOK
  <2> QED BY <1>2, <1>3, <1>7, <1>9, <2>1
<1>11. /\ durable' \in [Inodes -> Seq(Records)] /\ durable'[Written(n)] = none
       /\ durable'[Written(a)] = file
       /\ \A b \in Offsets : b # n /\ b # a => durable'[Written(b)] = durable[Written(b)]
       /\ \A b \in Offsets : durable'[Compacted(b)] = durable[Compacted(b)]
  <2>1. durable \in [Inodes -> Seq(Records)]
    BY DEF TypeOK
  <2>2. a # n
    BY <1>1, <1>8
  <2> QED BY <1>1, <1>2, <1>3, <1>5, <1>7, <1>9, <2>1, <2>2
<1>12. /\ live' \in [Offsets -> Inodes \cup {NoNode}] /\ live'[n] = Written(n)
       /\ \A b \in Offsets : b # n => live'[b] = live[b]
       /\ durableDir' = live'
  <2>1. live \in [Offsets -> Inodes \cup {NoNode}]
    BY DEF TypeOK
  <2> QED BY <1>2, <1>3, <1>9, <2>1
<1>13. /\ cache' \in [Offsets -> Inodes \cup {NoNode}] /\ cache'[a] = Written(a)
       /\ \A b \in Offsets : b # a => cache'[b] = cache[b]
  <2>1. cache \in [Offsets -> Inodes \cup {NoNode}]
    BY DEF TypeOK
  <2> QED BY <1>1, <1>3, <1>9, <2>1
<1>14. /\ \A b \in Offsets : Sealed(b) => Sealed(b)'
       /\ \A b \in bases : Sealed(b)'
       /\ ~Sealed(n)'
       /\ \A b \in Offsets : live'[b] # NoNode <=> b \in bases \/ b = n
  <2>1. \A b \in Offsets : live'[b] # NoNode <=> b \in bases \/ b = n
    BY <1>1, <1>8, <1>9, <1>12
  <2>2. \A b \in Offsets : Sealed(b) => Sealed(b)'
    BY <1>1, <2>1 DEF Sealed
  <2>3. \A b \in bases : Sealed(b)'
    BY <1>1, <1>2, <1>8, <2>1 DEF Sealed, Offsets
  <2>4. ~Sealed(n)'
    BY <1>2, <1>8, <2>1 DEF Sealed, Offsets
  <2> QED BY <2>1, <2>2, <2>3, <2>4
<1>15. InvNames'
  <2>1. 0 \in Offsets /\ live'[0] # NoNode
    <3>1. 0 \in Offsets
      BY DEF Offsets
    <3> QED BY <3>1, <1>1, <1>14 DEF InvNames
  <2> QED BY <1>9, <1>12, <1>14, <2>1 DEF InvNames
<1>16. \A b \in bases : \A s \in Range(data[Written(b)]) : s.off \in Int /\ s.off < n
  <2> SUFFICES ASSUME NEW b \in bases PROVE \A s \in Range(data[Written(b)]) : s.off \in Int /\ s.off < n
    OBVIOUS
  <2>1. b \in Offsets /\ \A s \in Range(data[Written(b)]) : s.off < n
    BY <1>0, <1>1, <1>n DEF InvBases
  <2>2. data[Written(b)] \in Seq(Records) /\ Range(data[Written(b)]) \subseteq Records
    BY <2>1, FileTypes, RangeFacts
  <2> QED BY <2>1, <2>2 DEF Records, Offsets
<1>17. InvWritten'
  <2> SUFFICES ASSUME NEW b \in Offsets, live'[b] # NoNode
      PROVE  /\ Sorted(data'[Written(b)])
             /\ \A p \in 1 .. Len(durable'[Written(b)]) :
                 p \in 1 .. Len(data'[Written(b)]) /\ durable'[Written(b)][p] = data'[Written(b)][p]
             /\ \A s \in Range(data'[Written(b)]) :
                 b <= s.off /\ s.off < MaxOffset /\ \A c \in b + 1 .. s.off : live'[c] = NoNode
             /\ Sealed(b)' => /\ durable'[Written(b)] = data'[Written(b)] /\ data'[Written(b)] # <<>>
                              /\ live'[Last(data'[Written(b)]).off + 1] # NoNode
    BY DEF InvWritten
  <2>1. CASE b = n
    <3>1. \A s \in Range(new) : b <= s.off /\ s.off < MaxOffset /\ \A c \in b + 1 .. s.off : live'[c] = NoNode
      BY <1>n, <1>0, <1>2, <1>7, <2>1 DEF Offsets
    <3> QED BY <1>7, <1>10, <1>11, <1>14, <2>1, <3>1
  <2>2. CASE b # n
    <3>1. b \in bases /\ live[b] # NoNode /\ data'[Written(b)] = data[Written(b)]
      BY <1>1, <1>10, <1>14, <2>2
    <3>2. \A s \in Range(data[Written(b)]) :
            b <= s.off /\ s.off < MaxOffset /\ \A c \in b + 1 .. s.off : live'[c] = NoNode
      <4> SUFFICES ASSUME NEW s \in Range(data[Written(b)])
                   PROVE  b <= s.off /\ s.off < MaxOffset /\ \A c \in b + 1 .. s.off : live'[c] = NoNode
        OBVIOUS
      <4>1. b <= s.off /\ s.off < MaxOffset /\ \A c \in b + 1 .. s.off : live[c] = NoNode
        BY <3>1 DEF InvWritten
      <4>2. \A c \in b + 1 .. s.off : c \in Offsets /\ c # n
        BY <1>2, <1>16, <3>1, <4>1 DEF Offsets
      <4> QED BY <1>12, <4>1, <4>2
    <3>3. CASE b = a
      <4>1. Last(file).off + 1 = n
        BY <1>5
      <4>2. data'[Written(b)] = file /\ durable'[Written(b)] = file
        BY <1>11, <3>1, <3>3 DEF file
      <4>3. Sorted(file) /\ file # <<>> /\ live'[n] # NoNode
        BY <1>5, <1>9, <1>12
      <4> QED BY <3>1, <3>2, <4>1, <4>2, <4>3
    <3>4. CASE b # a
      <4>1. Sealed(b) /\ durable'[Written(b)] = durable[Written(b)]
        BY <1>1, <1>11, <2>2, <3>1, <3>4
      <4>2. /\ Sorted(data[Written(b)]) /\ durable[Written(b)] = data[Written(b)] /\ data[Written(b)] # <<>>
            /\ live[Last(data[Written(b)]).off + 1] # NoNode
        BY <3>1, <4>1 DEF InvWritten
      <4>3. Last(data[Written(b)]).off + 1 \in Offsets /\ Last(data[Written(b)]).off + 1 # n
        <5>1. data[Written(b)] \in Seq(Records)
          BY FileTypes
        <5>2. Last(data[Written(b)]) \in Range(data[Written(b)])
          BY <4>2, <5>1, RangeFacts
        <5>3. Last(data[Written(b)]).off \in Offsets /\ Last(data[Written(b)]).off < MaxOffset
          BY <3>2, <4>2, <5>1, <5>2, LastIsGreatest
        <5>4. Last(data[Written(b)]).off + 1 \in Offsets
          BY <5>3 DEF Offsets
        <5> QED BY <1>8, <4>2, <5>4
      <4>4. live'[Last(data[Written(b)]).off + 1] # NoNode
        BY <1>12, <4>2, <4>3
      <4> QED BY <3>1, <3>2, <4>1, <4>2, <4>4
    <3> QED BY <3>3, <3>4
  <2> QED BY <2>1, <2>2
<1>18. InvCompacted'
  <2>1. \A b \in Offsets : live'[b] = Compacted(b) => b # n /\ b # a /\ live[b] = Compacted(b)
    BY <1>1, <1>8, <1>9, <1>12
  <2> QED BY <1>10, <1>11, <2>1 DEF InvCompacted
<1>19. InvAcked'
  <2> SUFFICES ASSUME NEW s \in acked
               PROVE  \E b \in Offsets : live'[b] # NoNode /\ s \in Range(durable'[Written(b)])
    BY <1>4 DEF InvAcked
  <2>1. PICK b \in Offsets : live[b] # NoNode /\ s \in Range(durable[Written(b)])
    BY DEF InvAcked
  <2>2. b # n /\ live'[b] # NoNode
    BY <1>8, <1>12, <2>1
  <2>3. CASE b # a
    BY <1>11, <2>1, <2>2, <2>3
  <2>4. CASE b = a
    <3>1. durable[Written(a)] \in Seq(Records)
      BY <1>1, FileTypes
    <3>2. PICK p \in 1 .. Len(durable[Written(a)]) : s = durable[Written(a)][p]
      BY <2>1, <2>4, <3>1, RangeFacts
    <3>3. p \in 1 .. Len(file) /\ s = file[p]
      BY <1>1, <3>2 DEF InvWritten, file
    <3>4. s \in Range(file)
      BY <1>5, <3>3, RangeFacts
    <3> QED BY <1>11, <2>2, <2>4, <3>4
  <2> QED BY <2>3, <2>4
<1>20. InvBases'
  <2>1. bases' = {b \in Offsets : live'[b] # NoNode}
    BY <1>1, <1>2, <1>3, <1>14
  <2>2. ASSUME NEW b \in bases'
        PROVE  /\ b <= next' /\ \A s \in Range(data'[Written(b)]) : s.off < next'
               /\ ~Sealed(b)' => next' = IF data'[Written(b)] = <<>>
                                         THEN b ELSE Last(data'[Written(b)]).off + 1
    <3>1. CASE b = n
      BY <1>0, <1>2, <1>7, <1>10, <3>1 DEF Offsets
    <3>2. CASE b # n
      <4>1. b \in bases /\ b \in Offsets /\ b < n /\ Sealed(b)' /\ data'[Written(b)] = data[Written(b)]
        BY <1>1, <1>3, <1>8, <1>10, <1>14, <3>2
      <4> QED BY <1>0, <1>2, <1>16, <4>1 DEF Offsets
    <3> QED BY <3>1, <3>2
  <2> QED BY <2>1, <2>2 DEF InvBases
<1>21. InvCache'
  <2> SUFFICES ASSUME NEW b \in Offsets
               PROVE  /\ cache'[b] \in {NoNode, Written(b), Compacted(b)}
                      /\ cache'[b] # NoNode => Sealed(b)' /\ live'[b] # NoNode
                      /\ cache'[b] = Compacted(b) => live'[b] = Compacted(b)
    BY DEF InvCache
  <2>1. CASE b = a
    BY <1>1, <1>9, <1>13, <1>14, <2>1
  <2>2. CASE b # a
    <3>1. cache'[b] # NoNode => b # n
      BY <1>8, <1>13, <2>2 DEF InvCache
    <3>2. /\ cache[b] \in {NoNode, Written(b), Compacted(b)}
          /\ cache[b] # NoNode => Sealed(b) /\ live[b] # NoNode
          /\ cache[b] = Compacted(b) => live[b] = Compacted(b)
      BY DEF InvCache
    <3>3. cache'[b] = cache[b] /\ (b # n => live'[b] = live[b]) /\ (Sealed(b) => Sealed(b)')
      BY <1>12, <1>13, <1>14, <2>2
    <3>4. Compacted(b) # NoNode
      BY NodeFacts
    <3> QED BY <3>1, <3>2, <3>3, <3>4
  <2> QED BY <2>1, <2>2
<1>22. InvClosed'
  <2>1. \A b \in Offsets : live[b] = Compacted(b) => b # n /\ b # a
    <3>1. Compacted(n) # NoNode
      BY <1>2, NodeFacts
    <3> QED BY <1>1, <1>8, <1>9, <3>1
  <2> QED BY <1>4, <1>12, <1>13, <2>1 DEF InvClosed
<1>23. InvJob'
  BY <1>0 DEF InvJob, Busy
<1>24. active' = n
  <2>1. n \in bases' /\ bases' \subseteq Int /\ \A b \in bases' : n >= b
    BY <1>1, <1>2, <1>3, <1>8 DEF Offsets
  <2> QED BY <2>1, MaxIs DEF active
<1>25. ASSUME NEW b \in bases PROVE Handle(b)' = Handle(b) /\ data'[Handle(b)] = data[Handle(b)]
  <2>1. b \in Offsets /\ b # n /\ live'[b] = live[b]
    BY <1>1, <1>8, <1>12
  <2>2. Handle(b) \in {Written(b), Compacted(b)}
    BY <1>0, HandleFacts
  <2>3. data'[Handle(b)] = data[Handle(b)]
    BY <1>10, <2>1, <2>2
  <2>4. CASE b # a
    BY <1>13, <1>24, <1>a, <2>1, <2>3, <2>4 DEF Handle
  <2>5. CASE b = a
    <3>1. Handle(b) = Written(a)
      BY <1>1, <1>a, <2>5 DEF Handle
    <3>2. Handle(b)' = cache'[a]
      BY <1>9, <1>13, <1>24, <2>1, <2>5 DEF Handle
    <3> QED BY <1>13, <2>3, <3>1, <3>2
  <2> QED BY <2>4, <2>5
<1>26. InvReader'
  <2>1. reader.open => reader.next <= next'
    BY <1>n, <1>0, <1>2 DEF InvReader, Offsets
  <2>2. bases \subseteq bases'
    BY <1>3
  <2> QED BY <1>0, <1>4, <1>25, <2>1, <2>2 DEF InvReader
<1>27. NothingSkipped'
  <2> SUFFICES ASSUME reader.open, NEW s \in Holds(live', data'), reader.from <= s.off, s.off < reader.next
               PROVE  s \in got
    BY <1>4 DEF NothingSkipped
  <2>1. PICK b \in Offsets : live'[b] # NoNode /\ s \in Range(data'[live'[b]])
    BY DEF Holds
  <2>2. CASE b = n
    <3>1. s.off = n
      BY <1>2, <1>7, <1>10, <1>12, <2>1, <2>2
    <3> QED BY <1>n, <1>2, <3>1 DEF InvReader, Offsets
  <2>3. CASE b # n
    <3>1. live[b] # NoNode /\ live'[b] = live[b] /\ live[b] \in {Written(b), Compacted(b)}
      BY <1>12, <2>1, <2>3 DEF InvNames
    <3>2. data'[live[b]] = data[live[b]]
      BY <1>10, <2>3, <3>1
    <3>3. s \in Holds(live, data)
      BY <2>1, <3>1, <3>2, HoldsFacts
    <3> QED BY <3>3 DEF NothingSkipped
  <2> QED BY <2>2, <2>3
<1>28. TypeOK'
  <2>1. bases' \subseteq Offsets
    BY <1>1, <1>2, <1>3
  <2> QED BY <1>0, <1>2, <1>4, <1>10, <1>11, <1>12, <1>13, <2>1 DEF TypeOK
<1> QED BY <1>15, <1>17, <1>18, <1>19, <1>20, <1>21, <1>22, <1>23, <1>26, <1>27, <1>28

LEMMA SyncInv ==
    ASSUME Inv, Sync
    PROVE  Inv'
<1> USE DEF Inv, InvDisk, InvLog
<1>a. PICK a : a = active
  OBVIOUS
<1>0. pc = "idle" /\ pc' = "idle"
  BY DEF Sync
<1>1. /\ a \in bases /\ a \in Offsets /\ live[a] = Written(a) /\ ~Sealed(a)
      /\ \A b \in bases : b # a => Sealed(b)
      /\ \A b \in Offsets : live[b] # NoNode => b \in bases
  BY <1>0, <1>a, ActiveFacts
<1>2. durable' = [durable EXCEPT ![Written(a)] = data[Written(a)]] /\ acked' = acked \cup Holds(live, data)
  BY <1>1, <1>a DEF Sync
<1>3. UNCHANGED <<live, durableDir, strays, data, pc, bases, next, cache, closed, generation, job, reader, got>>
  BY DEF Sync, memory
<1>4. /\ durable' \in [Inodes -> Seq(Records)] /\ durable'[Written(a)] = data[Written(a)]
      /\ \A b \in Offsets : b # a => durable'[Written(b)] = durable[Written(b)]
      /\ \A b \in Offsets : durable'[Compacted(b)] = durable[Compacted(b)]
  <2>1. durable \in [Inodes -> Seq(Records)] /\ data[Written(a)] \in Seq(Records)
    BY <1>1, FileTypes DEF TypeOK
  <2>2. /\ Written(a) \in Inodes
        /\ \A b \in Offsets : Written(b) \in Inodes /\ (b # a => Written(b) # Written(a))
        /\ \A b \in Offsets : Compacted(b) \in Inodes /\ Compacted(b) # Written(a)
    BY <1>1, NodeFacts
  <2> QED BY <1>2, <2>1, <2>2
<1>5. \A b \in Offsets : Sealed(b)' <=> Sealed(b)
  BY <1>3 DEF Sealed
<1>6. InvNames'
  BY <1>3, <1>5 DEF InvNames
<1>7. InvWritten'
  <2>1. ASSUME NEW b \in Offsets, live[b] # NoNode, b = a
        PROVE  \A p \in 1 .. Len(durable'[Written(b)]) :
                 p \in 1 .. Len(data[Written(b)]) /\ durable'[Written(b)][p] = data[Written(b)][p]
    BY <1>4, <2>1
  <2> QED BY <1>1, <1>3, <1>4, <1>5, <2>1 DEF InvWritten
<1>8. InvCompacted'
  BY <1>3, <1>4 DEF InvCompacted
<1>9. InvAcked'
  <2> SUFFICES ASSUME NEW r \in acked'
               PROVE  \E b \in Offsets : live[b] # NoNode /\ r \in Range(durable'[Written(b)])
    BY <1>3 DEF InvAcked
  <2>1. PICK b \in Offsets : live[b] # NoNode /\ r \in Range(data[Written(b)])
    <3>1. CASE r \in acked
      <4>1. PICK b \in Offsets : live[b] # NoNode /\ r \in Range(durable[Written(b)])
        BY <3>1 DEF InvAcked
      <4>2. durable[Written(b)] \in Seq(Records) /\ data[Written(b)] \in Seq(Records)
        BY FileTypes
      <4>3. PICK p \in 1 .. Len(durable[Written(b)]) : r = durable[Written(b)][p]
        BY <4>1, <4>2, RangeFacts
      <4>4. p \in 1 .. Len(data[Written(b)]) /\ r = data[Written(b)][p]
        BY <4>1, <4>3 DEF InvWritten
      <4> QED BY <4>1, <4>2, <4>4, RangeFacts
    <3>2. CASE r \in Holds(live, data)
      <4>1. PICK b \in Offsets : live[b] # NoNode /\ r \in Range(data[live[b]])
        BY <3>2, HoldsFacts
      <4>2. live[b] \in {Written(b), Compacted(b)}
        BY <4>1 DEF InvNames
      <4>3. CASE live[b] = Compacted(b)
        <5>1. data[Written(b)] \in Seq(Records)
          BY FileTypes
        <5> QED BY <4>1, <4>3, <5>1, SurvivorFacts DEF InvCompacted
      <4> QED BY <4>1, <4>2, <4>3
    <3> QED BY <1>2, <3>1, <3>2
  <2>2. durable'[Written(b)] = data[Written(b)]
    BY <1>1, <1>4, <2>1 DEF InvWritten
  <2> QED BY <2>1, <2>2
<1>10. InvBases'
  <2>1. \A b \in bases : b \in Offsets
    BY DEF TypeOK
  <2> QED BY <1>3, <1>5, <2>1 DEF InvBases
<1>11. InvCache' /\ InvClosed'
  BY <1>3, <1>5 DEF InvCache, InvClosed
<1>12. InvJob'
  BY <1>0 DEF InvJob, Busy
<1>13. InvReader' /\ NothingSkipped'
  BY <1>3 DEF InvReader, NothingSkipped, Handle, active
<1>14. TypeOK'
  <2>1. acked' \subseteq Records
    BY <1>2, RecordFacts DEF TypeOK
  <2> QED BY <1>3, <1>4, <2>1 DEF TypeOK
<1> QED BY <1>6, <1>7, <1>8, <1>9, <1>10, <1>11, <1>12, <1>13, <1>14

(***************************************************************************)
(* Rename replaces what a process that starts will read and leaves the     *)
(* handle this one reads.                                                  *)
(***************************************************************************)
LEMMA RenameFacts ==
    ASSUME Inv, Rename, NEW b, b = job.base
    PROVE  /\ b \in Offsets /\ live[b] # NoNode
           /\ live' \in [Offsets -> Inodes \cup {NoNode}] /\ live'[b] = Compacted(b)
           /\ \A c \in Offsets : c # b => live'[c] = live[c]
           /\ \A c \in Offsets : live'[c] # NoNode <=> live[c] # NoNode
           /\ \A c \in Offsets : Sealed(c)' <=> Sealed(c)
           /\ data' \in [Inodes -> Seq(Records)] /\ durable' \in [Inodes -> Seq(Records)]
           /\ data'[Compacted(b)] = durable'[Compacted(b)]
           /\ Range(data'[Compacted(b)]) = Survivors(data[Written(b)])
           /\ Sorted(data'[Compacted(b)])
           /\ \A c \in Offsets : data'[Written(c)] = data[Written(c)] /\ durable'[Written(c)] = durable[Written(c)]
           /\ \A c \in Offsets : c # b => /\ data'[Compacted(c)] = data[Compacted(c)]
                                          /\ durable'[Compacted(c)] = durable[Compacted(c)]
<1>0. pc = "rename" /\ pc \in Busy
  BY DEF Rename, Busy
<1>1. b \in Offsets /\ live[b] # NoNode /\ job.src = Written(b)
  BY <1>0, JobFacts
<1>2. /\ live \in [Offsets -> Inodes \cup {NoNode}]
      /\ data \in [Inodes -> Seq(Records)] /\ durable \in [Inodes -> Seq(Records)]
  BY DEF Inv, TypeOK
<1>3. /\ Range(data[Tmp(b)]) = Survivors(data[Written(b)]) /\ durable[Tmp(b)] = data[Tmp(b)]
      /\ Sorted(data[Tmp(b)])
  BY <1>0, <1>1 DEF Inv, InvLog, InvJob
<1> DEFINE none == <<>>
<1>4. /\ live' = [live EXCEPT ![b] = Compacted(b)]
      /\ data' = [data EXCEPT ![Compacted(b)] = data[Tmp(b)], ![Tmp(b)] = none]
      /\ durable' = [durable EXCEPT ![Compacted(b)] = durable[Tmp(b)], ![Tmp(b)] = none]
  BY DEF Rename
<1>5. none \in Seq(Records)
  OBVIOUS
<1> HIDE DEF none
<1>6. /\ Tmp(b) \in Inodes /\ Compacted(b) \in Inodes /\ Compacted(b) # Tmp(b) /\ Compacted(b) # NoNode
      /\ \A c \in Offsets : /\ Written(c) \in Inodes /\ Written(c) # Tmp(b) /\ Written(c) # Compacted(b)
                            /\ Compacted(c) \in Inodes /\ Compacted(c) # Tmp(b)
                            /\ c # b => Compacted(c) # Compacted(b)
  BY <1>1, NodeFacts
<1>7. /\ live' \in [Offsets -> Inodes \cup {NoNode}] /\ live'[b] = Compacted(b)
      /\ \A c \in Offsets : c # b => live'[c] = live[c]
  BY <1>1, <1>2, <1>4, <1>6
<1>8. \A c \in Offsets : live'[c] # NoNode <=> live[c] # NoNode
  BY <1>1, <1>6, <1>7
<1>9. \A c \in Offsets : Sealed(c)' <=> Sealed(c)
  BY <1>8 DEF Sealed
<1>10. /\ data' \in [Inodes -> Seq(Records)] /\ data'[Compacted(b)] = data[Tmp(b)]
       /\ \A c \in Offsets : data'[Written(c)] = data[Written(c)]
       /\ \A c \in Offsets : c # b => data'[Compacted(c)] = data[Compacted(c)]
  BY <1>2, <1>4, <1>5, <1>6
<1>11. /\ durable' \in [Inodes -> Seq(Records)] /\ durable'[Compacted(b)] = durable[Tmp(b)]
       /\ \A c \in Offsets : durable'[Written(c)] = durable[Written(c)]
       /\ \A c \in Offsets : c # b => durable'[Compacted(c)] = durable[Compacted(c)]
  BY <1>2, <1>4, <1>5, <1>6
<1> QED BY <1>1, <1>3, <1>7, <1>8, <1>9, <1>10, <1>11

LEMMA RenameHolds ==
    ASSUME Inv, Rename, NEW s \in Holds(live', data')
    PROVE  s \in Holds(live, data)
<1>b. PICK b : b = job.base
  OBVIOUS
<1>1. PICK c \in Offsets : live'[c] # NoNode /\ s \in Range(data'[live'[c]])
  BY DEF Holds
<1>2. live[c] # NoNode /\ live[c] \in {Written(c), Compacted(c)}
  BY <1>b, <1>1, RenameFacts DEF Inv, InvDisk, InvNames
<1>3. CASE c = b
  <2>1. s \in Survivors(data[Written(b)])
    BY <1>b, <1>1, <1>3, RenameFacts
  <2>2. data[Written(b)] \in Seq(Records)
    BY <1>3, FileTypes DEF Inv
  <2>3. s \in Range(data[live[b]])
    <3>1. CASE live[b] = Written(b)
      BY <2>1, <2>2, <3>1, SurvivorFacts
    <3>2. CASE live[b] = Compacted(b)
      BY <1>3, <2>1, <3>2 DEF Inv, InvDisk, InvCompacted
    <3> QED BY <1>2, <1>3, <3>1, <3>2
  <2> QED BY <1>2, <1>3, <2>3, HoldsFacts
<1>4. CASE c # b
  <2>1. live'[c] = live[c]
    BY <1>b, <1>4, RenameFacts
  <2>2. data'[live[c]] = data[live[c]]
    BY <1>b, <1>2, <1>4, RenameFacts
  <2> QED BY <1>1, <1>2, <2>1, <2>2, HoldsFacts
<1> QED BY <1>3, <1>4

LEMMA RenameInv ==
    ASSUME Inv, Rename
    PROVE  Inv'
<1> USE DEF Inv, InvDisk, InvLog
<1>b. PICK b : b = job.base
  OBVIOUS
<1>0. pc = "rename" /\ pc \in Busy /\ pc # "down" /\ pc' = "swapsync"
  BY DEF Rename, Busy
<1>1. UNCHANGED <<durableDir, bases, next, cache, closed, generation, job, reader, got, acked>>
  BY DEF Rename, memory
<1>2. /\ b \in Offsets /\ live[b] # NoNode
      /\ live' \in [Offsets -> Inodes \cup {NoNode}] /\ live'[b] = Compacted(b)
      /\ \A c \in Offsets : c # b => live'[c] = live[c]
      /\ \A c \in Offsets : live'[c] # NoNode <=> live[c] # NoNode
      /\ \A c \in Offsets : Sealed(c)' <=> Sealed(c)
  BY <1>b, RenameFacts
<1>3. /\ data' \in [Inodes -> Seq(Records)] /\ durable' \in [Inodes -> Seq(Records)]
      /\ data'[Compacted(b)] = durable'[Compacted(b)]
      /\ Range(data'[Compacted(b)]) = Survivors(data[Written(b)])
      /\ Sorted(data'[Compacted(b)])
      /\ \A c \in Offsets : data'[Written(c)] = data[Written(c)] /\ durable'[Written(c)] = durable[Written(c)]
      /\ \A c \in Offsets : c # b => /\ data'[Compacted(c)] = data[Compacted(c)]
                                     /\ durable'[Compacted(c)] = durable[Compacted(c)]
  BY <1>b, RenameFacts
<1>4. job.src = Written(b) /\ cache[b] = Written(b) /\ Sealed(b)
  BY <1>0, <1>b, JobFacts
<1>5. InvNames'
  <2>1. 0 \in Offsets /\ live'[0] # NoNode
    BY <1>2 DEF InvNames, Offsets
  <2>2. ASSUME NEW c \in Offsets
        PROVE  /\ live'[c] \in {NoNode, Written(c), Compacted(c)}
               /\ durableDir[c] \in {NoNode, Written(c), Compacted(c)}
               /\ durableDir[c] = NoNode <=> live'[c] = NoNode
               /\ durableDir[c] = Compacted(c) => live'[c] = Compacted(c)
               /\ live'[c] = Compacted(c) => Sealed(c)
    BY <1>2, <1>4 DEF InvNames
  <2> QED BY <1>1, <1>2, <2>1, <2>2 DEF InvNames
<1>6. InvWritten'
  <2> SUFFICES ASSUME NEW c \in Offsets, live'[c] # NoNode
      PROVE  /\ Sorted(data'[Written(c)])
             /\ \A p \in 1 .. Len(durable'[Written(c)]) :
                 p \in 1 .. Len(data'[Written(c)]) /\ durable'[Written(c)][p] = data'[Written(c)][p]
             /\ \A s \in Range(data'[Written(c)]) :
                 c <= s.off /\ s.off < MaxOffset /\ \A d \in c + 1 .. s.off : live'[d] = NoNode
             /\ Sealed(c)' => /\ durable'[Written(c)] = data'[Written(c)] /\ data'[Written(c)] # <<>>
                              /\ live'[Last(data'[Written(c)]).off + 1] # NoNode
    BY DEF InvWritten
  <2>0. /\ live[c] # NoNode /\ (Sealed(c)' <=> Sealed(c))
        /\ data'[Written(c)] = data[Written(c)] /\ durable'[Written(c)] = durable[Written(c)]
    BY <1>2, <1>3
  <2>1. data[Written(c)] \in Seq(Records) /\ Sorted(data[Written(c)])
    BY <2>0, FileTypes DEF InvWritten
  <2>2. ASSUME NEW s \in Range(data[Written(c)])
        PROVE  c <= s.off /\ s.off < MaxOffset /\ s.off \in Offsets /\ \A d \in c + 1 .. s.off : live'[d] = NoNode
    <3>1. c <= s.off /\ s.off < MaxOffset /\ \A d \in c + 1 .. s.off : live[d] = NoNode
      BY <2>0 DEF InvWritten
    <3>2. s.off \in Offsets
      <4>1. s \in Records
        BY <2>1, RangeFacts
      <4> QED BY <4>1 DEF Records
    <3>3. \A d \in c + 1 .. s.off : d \in Offsets
      BY <3>2 DEF Offsets
    <3> QED BY <1>2, <3>1, <3>2, <3>3
  <2>3. ASSUME Sealed(c) PROVE live'[Last(data[Written(c)]).off + 1] # NoNode
    <3>1. data[Written(c)] # <<>> /\ live[Last(data[Written(c)]).off + 1] # NoNode
      BY <2>0, <2>3 DEF InvWritten
    <3>2. Last(data[Written(c)]) \in Range(data[Written(c)])
      BY <2>1, <3>1, RangeFacts
    <3>3. Last(data[Written(c)]).off + 1 \in Offsets
      BY <2>2, <3>2 DEF Offsets
    <3> QED BY <1>2, <3>1, <3>3
  <2> QED BY <2>0, <2>1, <2>2, <2>3 DEF InvWritten
<1>7. InvCompacted'
  BY <1>2, <1>3 DEF InvCompacted
<1>8. InvAcked'
  BY <1>1, <1>2, <1>3 DEF InvAcked
<1>9. InvBases'
  <2>1. \A c \in bases : c \in Offsets
    BY DEF TypeOK
  <2> QED BY <1>0, <1>1, <1>2, <1>3, <2>1 DEF InvBases
<1>10. InvCache' /\ InvClosed'
  BY <1>1, <1>2 DEF InvCache, InvClosed
<1>11. InvJob'
  BY <1>0, <1>1, <1>2, <1>4, <1>b DEF InvJob
<1>12. ASSUME NEW c \in bases PROVE Handle(c)' = Handle(c) /\ data'[Handle(c)] = data[Handle(c)]
  <2>1. c \in Offsets /\ active' = active
    BY <1>1 DEF TypeOK, active
  <2>2. Handle(c) \in {Written(c), Compacted(c)}
    BY <1>0, HandleFacts
  <2>3. CASE c # b
    BY <1>1, <1>2, <1>3, <2>1, <2>2, <2>3 DEF Handle
  <2>4. CASE c = b
    <3>1. b # active
      BY <1>0, <1>4, ActiveFacts
    <3>2. Handle(b) = Written(b)
      BY <1>2, <1>4, <3>1, NodeFacts DEF Handle
    <3>3. Handle(c)' = Handle(c)
      BY <1>1, <1>2, <1>4, <2>1, <2>4, <3>1, NodeFacts DEF Handle
    <3> QED BY <1>3, <2>1, <2>4, <3>2, <3>3
  <2> QED BY <2>3, <2>4
<1>13. InvReader'
  BY <1>0, <1>1, <1>12 DEF InvReader
<1>14. NothingSkipped'
  BY <1>1, RenameHolds DEF NothingSkipped
<1>15. TypeOK'
  BY <1>0, <1>1, <1>2, <1>3 DEF TypeOK, Rename
<1> QED BY <1>5, <1>6, <1>7, <1>8, <1>9, <1>10, <1>11, <1>13, <1>14, <1>15

LEMMA SwapSyncInv ==
    ASSUME Inv, SwapSync
    PROVE  Inv'
<1> USE DEF Inv, InvDisk, InvLog
<1>b. PICK b : b = job.base
  OBVIOUS
<1>0. pc = "swapsync" /\ pc \in Busy /\ pc # "down" /\ pc' = "idle"
  BY DEF SwapSync, Busy
<1>1. UNCHANGED <<live, strays, data, durable, bases, next, reader, got, acked>>
  BY DEF SwapSync
<1>2. /\ durableDir' = live /\ closed' = closed \cup {Written(b)}
      /\ cache' = [cache EXCEPT ![b] = NoNode] /\ generation' = generation + 1
      /\ b \in Offsets /\ live[b] = Compacted(b)
  BY <1>0, <1>b, JobFacts DEF SwapSync, InvJob
<1>3. /\ cache' \in [Offsets -> Inodes \cup {NoNode}] /\ cache'[b] = NoNode
      /\ \A c \in Offsets : c # b => cache'[c] = cache[c]
  BY <1>2 DEF TypeOK
<1>4. \A c \in Offsets : Sealed(c)' <=> Sealed(c)
  BY <1>1 DEF Sealed
<1>5. InvNames'
  BY <1>1, <1>2, <1>4 DEF InvNames
<1>6. InvWritten' /\ InvCompacted' /\ InvAcked'
  BY <1>1, <1>4 DEF InvWritten, InvCompacted, InvAcked
<1>7. InvBases'
  <2>1. \A c \in bases : c \in Offsets
    BY DEF TypeOK
  <2> QED BY <1>0, <1>1, <1>4, <2>1 DEF InvBases
<1>8. InvCache'
  <2>1. NoNode # Compacted(b)
    BY <1>2, NodeFacts
  <2> QED BY <1>1, <1>3, <1>4, <2>1 DEF InvCache
<1>9. InvClosed'
  <2>1. \A c \in Offsets : NoNode # Written(c)
    BY NodeFacts
  <2> QED BY <1>1, <1>2, <1>3, <2>1 DEF InvClosed
<1>10. InvJob'
  BY <1>0 DEF InvJob, Busy
<1>11. InvReader'
  <2>1. generation \in Nat /\ reader.generation \in Nat
    BY DEF TypeOK, InvReader
  <2>2. reader.open => reader.generation <= generation' /\ reader.generation # generation'
    BY <1>2, <2>1 DEF InvReader
  <2> QED BY <1>0, <1>1, <2>2 DEF InvReader
<1>12. NothingSkipped'
  BY <1>1 DEF NothingSkipped
<1>13. TypeOK'
  <2>1. closed' \subseteq Inodes /\ generation' \in Nat
    BY <1>2, NodeFacts DEF TypeOK
  <2> QED BY <1>0, <1>1, <1>2, <1>3, <2>1 DEF TypeOK
<1> QED BY <1>5, <1>6, <1>7, <1>8, <1>9, <1>10, <1>11, <1>12, <1>13

(***************************************************************************)
(* Starting and dying.                                                     *)
(***************************************************************************)
LEMMA InitInv == Init => Inv
<1> SUFFICES ASSUME Init PROVE Inv
  OBVIOUS
<1> USE DEF Init
<1>1. 0 \in Offsets /\ \A b \in Offsets : Written(b) # NoNode /\ Compacted(b) # NoNode /\ Written(b) # Compacted(b)
  BY NodeFacts DEF Offsets
<1>2. \A b \in Offsets : ~Sealed(b) /\ data[Written(b)] = <<>> /\ durable[Written(b)] = <<>>
  <2>1. \A b \in Offsets : Written(b) \in Inodes
    BY NodeFacts
  <2> QED BY <1>1, <2>1 DEF Sealed, Offsets
<1>3. TypeOK
  <2>1. Written(0) \in Inodes /\ 0 \in Nat
    BY <1>1, NodeFacts
  <2> QED BY <1>1, <2>1, EmptyFile DEF TypeOK, NoReader
<1>4. InvNames
  BY <1>1 DEF InvNames
<1>5. InvWritten
  BY <1>2, EmptyFile DEF InvWritten
<1>6. InvCompacted /\ InvAcked
  BY <1>1 DEF InvCompacted, InvAcked
<1>7. InvLog
  <2>1. InvBases
    BY DEF InvBases
  <2>2. InvCache
    BY <1>1 DEF InvCache
  <2>3. InvJob
    BY DEF InvJob, Busy
  <2>4. InvClosed
    BY DEF InvClosed
  <2> QED BY <2>1, <2>2, <2>3, <2>4 DEF InvLog
<1>8. InvReader /\ NothingSkipped
  BY <1>1 DEF InvReader, NothingSkipped, NoReader
<1> QED BY <1>3, <1>4, <1>5, <1>6, <1>7, <1>8 DEF Inv, InvDisk

LEMMA ForgetInv ==
    ASSUME Forget
    PROVE  InvBases' /\ InvCache' /\ InvJob' /\ InvClosed' /\ InvReader' /\ NothingSkipped'
<1>1. 0 \in Offsets /\ \A b \in Offsets : NoNode # Compacted(b)
  BY NodeFacts DEF Offsets
<1>2. InvBases' /\ InvJob' /\ InvClosed'
  BY DEF Forget, InvBases, InvJob, InvClosed, Busy
<1>3. InvCache'
  BY <1>1 DEF Forget, InvCache
<1>4. InvReader' /\ NothingSkipped'
  BY <1>1 DEF Forget, InvReader, NothingSkipped, NoReader
<1> QED BY <1>2, <1>3, <1>4

LEMMA KillInv ==
    ASSUME Inv, Kill
    PROVE  Inv'
<1>1. InvBases' /\ InvCache' /\ InvJob' /\ InvClosed' /\ InvReader' /\ NothingSkipped'
  BY ForgetInv DEF Kill
<1>2. InvDisk'
  BY DiskKept DEF Kill, SameFiles, disk, Inv
<1>3. TypeOK'
  <2>1. 0 \in Offsets
    BY DEF Offsets
  <2> QED BY <2>1 DEF Inv, TypeOK, Kill, Forget, NoReader, disk
<1> QED BY <1>1, <1>2, <1>3 DEF Inv, InvLog

LEMMA CrashInv ==
    ASSUME Inv, Crash
    PROVE  Inv'
<1> USE DEF Inv, InvDisk
<1>1. InvBases' /\ InvCache' /\ InvJob' /\ InvClosed' /\ InvReader' /\ NothingSkipped'
  BY ForgetInv DEF Crash
<1>2. live' = durableDir /\ durableDir' = durableDir /\ data' = durable /\ durable' = durable /\ acked' = acked
  BY DEF Crash
<1>3. \A b \in Offsets : live'[b] # NoNode <=> live[b] # NoNode
  BY <1>2 DEF InvNames
<1>4. \A b \in Offsets : Sealed(b)' <=> Sealed(b)
  BY <1>3 DEF Sealed
<1>5. InvNames'
  <2>1. 0 \in Offsets
    BY DEF Offsets
  <2> QED BY <1>2, <1>3, <1>4, <2>1 DEF InvNames
<1>6. InvWritten'
  <2> SUFFICES ASSUME NEW b \in Offsets, live'[b] # NoNode
      PROVE  /\ Sorted(durable[Written(b)])
             /\ \A s \in Range(durable[Written(b)]) :
                 b <= s.off /\ s.off < MaxOffset /\ \A c \in b + 1 .. s.off : live'[c] = NoNode
             /\ Sealed(b)' => /\ durable[Written(b)] # <<>>
                              /\ live'[Last(durable[Written(b)]).off + 1] # NoNode
    BY <1>2 DEF InvWritten
  <2>0. live[b] # NoNode /\ (Sealed(b)' <=> Sealed(b))
    BY <1>3, <1>4
  <2>1. durable[Written(b)] \in Seq(Records) /\ data[Written(b)] \in Seq(Records)
        /\ Len(durable[Written(b)]) \in Nat /\ Len(data[Written(b)]) \in Nat
    BY FileTypes
  <2>2. \A p \in 1 .. Len(durable[Written(b)]) :
          p \in 1 .. Len(data[Written(b)]) /\ durable[Written(b)][p] = data[Written(b)][p]
    BY <2>0 DEF InvWritten
  <2>3. Sorted(durable[Written(b)])
    <3>1. Sorted(data[Written(b)])
      BY <2>0 DEF InvWritten
    <3> QED BY <2>1, <2>2, <3>1 DEF Sorted
  <2>4. ASSUME NEW s \in Range(durable[Written(b)])
        PROVE  b <= s.off /\ s.off < MaxOffset /\ s.off \in Offsets /\ \A c \in b + 1 .. s.off : live'[c] = NoNode
    <3>1. PICK p \in 1 .. Len(durable[Written(b)]) : s = durable[Written(b)][p]
      BY <2>1, RangeFacts
    <3>2. s \in Range(data[Written(b)]) /\ s \in Records
      <4>1. p \in 1 .. Len(data[Written(b)]) /\ s = data[Written(b)][p]
        BY <2>2, <3>1
      <4>2. s \in Range(data[Written(b)])
        BY <2>1, <4>1, RangeFacts
      <4> QED BY <2>1, <4>1, <4>2
    <3>3. b <= s.off /\ s.off < MaxOffset /\ \A c \in b + 1 .. s.off : live[c] = NoNode
      BY <2>0, <3>2 DEF InvWritten
    <3>4. s.off \in Offsets
      BY <3>2 DEF Records
    <3>5. \A c \in b + 1 .. s.off : c \in Offsets
      BY <3>4 DEF Offsets
    <3> QED BY <1>3, <3>3, <3>4, <3>5
  <2>5. ASSUME Sealed(b)
        PROVE  durable[Written(b)] # <<>> /\ live'[Last(durable[Written(b)]).off + 1] # NoNode
    <3>1. durable[Written(b)] # <<>> /\ live[Last(durable[Written(b)]).off + 1] # NoNode
      BY <2>0, <2>5 DEF InvWritten
    <3>2. Last(durable[Written(b)]) \in Range(durable[Written(b)])
      BY <2>1, <3>1, RangeFacts
    <3>3. Last(durable[Written(b)]).off + 1 \in Offsets
      BY <2>4, <3>2 DEF Offsets
    <3> QED BY <1>3, <3>1, <3>3
  <2> QED BY <2>0, <2>3, <2>4, <2>5
<1>7. InvCompacted'
  <2> SUFFICES ASSUME NEW b \in Offsets, durableDir[b] = Compacted(b)
               PROVE  Sorted(durable[Compacted(b)]) /\ Range(durable[Compacted(b)]) = Survivors(durable[Written(b)])
    BY <1>2 DEF InvCompacted
  <2>1. live[b] = Compacted(b) /\ Sealed(b) /\ live[b] # NoNode
    BY NodeFacts DEF InvNames
  <2>2. durable[Written(b)] = data[Written(b)]
    BY <2>1 DEF InvWritten
  <2> QED BY <2>1, <2>2 DEF InvCompacted
<1>8. InvAcked'
  BY <1>2, <1>3 DEF InvAcked
<1>9. TypeOK'
  <2>1. strays' \subseteq Offsets
    BY DEF Crash, TypeOK
  <2>2. 0 \in Offsets
    BY DEF Offsets
  <2> QED BY <1>2, <2>1, <2>2 DEF TypeOK, Crash, Forget, NoReader
<1> QED BY <1>1, <1>5, <1>6, <1>7, <1>8, <1>9 DEF InvLog

LEMMA OpenInv ==
    ASSUME Inv, Open
    PROVE  Inv'
<1> USE DEF Inv, InvDisk, InvLog
<1> DEFINE B == {b \in Offsets : live[b] # NoNode}
<1>0. pc = "down" /\ pc' = "idle" /\ bases' = B
  BY DEF Open
<1>1. UNCHANGED <<live, durableDir, strays, data, durable, cache, closed, generation, job, reader, got, acked>>
  BY DEF Open, disk
<1>2. InvDisk'
  BY <1>1, DiskKept DEF SameFiles
<1>3. \A b \in Offsets : Sealed(b)' <=> Sealed(b)
  BY <1>1 DEF Sealed
<1>4. PICK last \in B : \A y \in B : y <= last
  <2>1. B \subseteq 0 .. MaxOffset /\ B # {}
    <3>1. 0 \in Offsets
      BY DEF Offsets
    <3> QED BY <3>1 DEF Offsets, InvNames
  <2> HIDE DEF B
  <2> QED BY <2>1, Numbers!HasGreatest
<1>5. Max(bases') = last
  <2>1. B \in SUBSET Int /\ \A y \in B : last >= y
    BY <1>4 DEF Offsets
  <2> HIDE DEF B
  <2> QED BY <1>0, <2>1, MaxIs
<1>6. last \in Offsets /\ live[last] = Written(last) /\ ~Sealed(last)
      /\ \A b \in B : b # last => Sealed(b) /\ b < last
  <2>1. last \in Offsets /\ live[last] # NoNode /\ last \in Int
    BY <1>4 DEF Offsets
  <2>2. ~Sealed(last)
    BY <1>4, <2>1 DEF Sealed, Offsets
  <2>3. \A b \in B : b # last => Sealed(b) /\ b < last
    BY <1>4, <2>1 DEF Sealed, Offsets
  <2> QED BY <2>1, <2>2, <2>3 DEF InvNames
<1> DEFINE file == data[Written(last)]
<1>7. next' = IF file = <<>> THEN last ELSE Last(file).off + 1
  BY <1>5, <1>6 DEF Open
<1>8. file \in Seq(Records) /\ Sorted(file)
  BY <1>4, <1>6, FileTypes DEF InvWritten
<1> HIDE DEF file
<1>9. next' \in Offsets /\ last <= next' /\ \A r \in Range(file) : r.off < next'
  <2>1. CASE file = <<>>
    <3>1. Range(file) = {}
      BY <2>1, EmptyFile
    <3>2. next' = last
      BY <1>7, <2>1
    <3> QED BY <1>6, <3>1, <3>2 DEF Offsets
  <2>2. CASE file # <<>>
    <3>1. Last(file) \in Range(file) /\ Last(file).off \in Offsets
      BY <1>8, <2>2, RangeFacts, LastIsGreatest
    <3>2. last <= Last(file).off /\ Last(file).off < MaxOffset
      BY <1>4, <1>6, <3>1 DEF InvWritten, file
    <3>3. \A r \in Range(file) : r.off <= Last(file).off /\ r.off \in Int
      <4>1. Range(file) \subseteq Records
        BY <1>8, RangeFacts
      <4>2. \A r \in Range(file) : r.off \in Int
        BY <4>1 DEF Records, Offsets
      <4>3. \A r \in Range(file) : r.off <= Last(file).off
        BY <1>8, <2>2, LastIsGreatest
      <4> QED BY <4>2, <4>3
    <3>4. next' = Last(file).off + 1
      BY <1>7, <2>2
    <3> QED BY <1>6, <3>1, <3>2, <3>3, <3>4 DEF Offsets
  <2> QED BY <2>1, <2>2
<1>10. InvBases'
  <2>1. ASSUME NEW b \in B
        PROVE  /\ b <= next' /\ \A r \in Range(data[Written(b)]) : r.off < next'
               /\ ~Sealed(b) => next' = IF data[Written(b)] = <<>>
                                        THEN b ELSE Last(data[Written(b)]).off + 1
    <3>1. CASE b = last
      BY <1>7, <1>9, <3>1 DEF file
    <3>2. CASE b # last
      <4>1. Sealed(b) /\ b < last /\ b \in Offsets /\ live[b] # NoNode
        BY <1>6, <3>2
      <4>2. ASSUME NEW r \in Range(data[Written(b)]) PROVE r.off < last
        <5>1. b <= r.off /\ \A c \in b + 1 .. r.off : live[c] = NoNode
          BY <4>1 DEF InvWritten
        <5>2. r \in Records
          BY <4>1, FileTypes, RangeFacts
        <5>3. last \notin b + 1 .. r.off
          BY <1>4, <5>1
        <5> QED BY <1>6, <4>1, <5>1, <5>2, <5>3 DEF Records, Offsets
      <4>3. \A r \in Range(data[Written(b)]) : r.off \in Int
        <5>1. Range(data[Written(b)]) \subseteq Records
          BY <4>1, FileTypes, RangeFacts
        <5> QED BY <5>1 DEF Records, Offsets
      <4> QED BY <1>6, <1>9, <4>1, <4>2, <4>3 DEF Offsets
    <3> QED BY <3>1, <3>2
  <2>2. bases' = {b \in Offsets : live'[b] # NoNode}
    BY <1>0, <1>1
  <2> QED BY <1>0, <1>1, <1>3, <2>1, <2>2 DEF InvBases
<1>11. InvCache' /\ InvClosed'
  BY <1>1, <1>3 DEF InvCache, InvClosed
<1>12. InvJob'
  BY <1>0 DEF InvJob, Busy
<1>13. InvReader' /\ NothingSkipped'
  BY <1>0, <1>1 DEF InvReader, NothingSkipped
<1>14. TypeOK'
  BY <1>0, <1>1, <1>9 DEF TypeOK
<1> QED BY <1>2, <1>10, <1>11, <1>12, <1>13, <1>14

-----------------------------------------------------------------------------
(***************************************************************************)
(* The cursor.  A segment's handle reaches as far as the segment does: the *)
(* last record of a file always survives.                                  *)
(***************************************************************************)
LEMMA LastSurvives ==
    ASSUME NEW file \in Seq(Records), Sorted(file), file # <<>>
    PROVE  Last(file) \in Survivors(file)
<1>1. Last(file) \in Range(file)
  BY RangeFacts
<1>2. \A r \in Range(file) : r.off <= Last(file).off
  BY LastIsGreatest
<1> QED BY <1>1, <1>2 DEF Survivors

LEMMA MinIs ==
    ASSUME NEW S \in SUBSET Int, NEW m \in S, \A x \in S : m <= x
    PROVE  Min(S) = m
<1>1. Min(S) \in S /\ \A x \in S : Min(S) <= x
  BY DEF Min
<1>2. Min(S) <= m /\ m <= Min(S) /\ Min(S) \in Int
  BY <1>1
<1> QED BY <1>2

LEMMA SegNextFacts ==
    ASSUME Inv, pc # "down", NEW b \in bases
    PROVE  /\ SegNext(Handle(b)) = IF data[Handle(b)] = <<>> THEN b ELSE Last(data[Handle(b)]).off + 1
           /\ b = active => SegNext(Handle(b)) = next
           /\ b # active => SegNext(Handle(b)) \in bases /\ b < SegNext(Handle(b))
<1> USE DEF Inv, InvDisk, InvLog
<1>1. /\ active \in bases /\ active \in Offsets /\ live[active] = Written(active) /\ ~Sealed(active)
      /\ b \in Offsets /\ live[b] # NoNode /\ (b # active => Sealed(b))
      /\ \A c \in Offsets : live[c] # NoNode => c \in bases
  BY ActiveFacts
<1>2. /\ Handle(b) \in {Written(b), Compacted(b)} /\ (Handle(b) = Compacted(b) => live[b] = Compacted(b))
      /\ (b = active => Handle(b) = Written(b))
      /\ data[Handle(b)] \in Seq(Records) /\ Sorted(data[Handle(b)])
      /\ Range(data[Handle(b)]) \subseteq Range(data[Written(b)])
      /\ b # active => data[Handle(b)] # <<>>
  BY HandleFacts
<1>3. CASE b = active
  <2>1. SegNext(Handle(b)) = next
    BY <1>1, <1>2, <1>3 DEF SegNext
  <2> QED BY <1>1, <1>2, <1>3, <2>1 DEF InvBases
<1>4. CASE b # active
  <2>1. Handle(b) # live[active]
    BY <1>1, <1>2, <1>4, NodeFacts
  <2>2. SegNext(Handle(b)) = Last(data[Handle(b)]).off + 1
    BY <2>1 DEF SegNext
  <2> DEFINE whole == data[Written(b)]
             file == data[Handle(b)]
  <2>3. whole \in Seq(Records) /\ Sorted(whole) /\ whole # <<>> /\ live[Last(whole).off + 1] # NoNode
    BY <1>1, <1>4, FileTypes DEF InvWritten
  <2>4. Last(whole) \in Range(file)
    <3>1. CASE Handle(b) = Written(b)
      BY <2>3, <3>1, RangeFacts
    <3>2. CASE Handle(b) = Compacted(b)
      <4>1. Range(file) = Survivors(whole)
        BY <1>1, <1>2, <3>2 DEF InvCompacted
      <4> HIDE DEF file, whole
      <4> QED BY <2>3, <4>1, LastSurvives
    <3> QED BY <1>2, <3>1, <3>2
  <2>5. file \in Seq(Records) /\ Sorted(file) /\ file # <<>> /\ Range(file) \subseteq Range(whole)
    BY <1>2, <1>4
  <2>6. \A r \in Range(whole) : b <= r.off /\ r.off < MaxOffset
    BY <1>1 DEF InvWritten
  <2> HIDE DEF file, whole
  <2>7. Last(whole).off <= Last(file).off /\ Last(file).off \in Offsets
    BY <2>4, <2>5, LastIsGreatest
  <2>8. Last(file) \in Range(whole)
    BY <2>5, RangeFacts
  <2>9. Last(file).off <= Last(whole).off /\ Last(whole).off \in Offsets
    BY <2>3, <2>8, LastIsGreatest
  <2>10. Last(file).off = Last(whole).off
    BY <2>7, <2>9 DEF Offsets
  <2>11. Last(file).off + 1 \in Offsets /\ b < Last(file).off + 1
    BY <1>1, <2>6, <2>7, <2>8 DEF Offsets
  <2>12. Last(file).off + 1 \in bases
    BY <1>1, <2>3, <2>10, <2>11
  <2> QED BY <1>4, <2>2, <2>5, <2>11, <2>12 DEF file
<1> QED BY <1>3, <1>4

(***************************************************************************)
(* No handle that can be resolved is closed.                               *)
(***************************************************************************)
LEMMA HandleOpen ==
    ASSUME Inv, pc # "down", NEW b \in bases
    PROVE  Handle(b) \notin closed
<1> USE DEF Inv, InvDisk, InvLog
<1> SUFFICES ASSUME Handle(b) \in closed PROVE FALSE
  OBVIOUS
<1>1. PICK c \in Offsets : Handle(b) = Written(c) /\ live[c] = Compacted(c) /\ cache[c] # Written(c)
  BY DEF InvClosed
<1>2. b \in Offsets /\ live[active] = Written(active)
  BY ActiveFacts
<1>3. Handle(b) \in {Written(b), Compacted(b)}
  BY HandleFacts
<1>4. c = b
  BY <1>1, <1>2, <1>3, NodeFacts
<1>5. live[b] # Written(b)
  BY <1>1, <1>2, <1>4, NodeFacts
<1> QED BY <1>1, <1>2, <1>4, <1>5 DEF Handle

(***************************************************************************)
(* The segment seek starts in always reaches past the offset it looks for, *)
(* so the walk over the segments that follow is never taken.               *)
(***************************************************************************)
LEMMA SeekStays ==
    ASSUME Inv, pc # "down", NEW off \in Offsets, off < next
    PROVE  /\ SeekBase(off) \in bases /\ SeekBase(off) <= off
           /\ BaseFor(off) = SeekBase(off)
           /\ off < SegNext(Handle(SeekBase(off)))
<1> USE DEF Inv, InvDisk, InvLog
<1>1. /\ active \in bases /\ active \in Offsets
      /\ \A b \in bases : b \in Offsets /\ b <= active
      /\ bases \subseteq Int /\ bases \subseteq 0 .. MaxOffset
      /\ 0 \in bases
  <2>1. 0 \in Offsets
    BY DEF Offsets
  <2>2. 0 \in bases
    BY <2>1, ActiveFacts DEF InvNames
  <2> QED BY <2>2, ActiveFacts DEF Offsets
<1> DEFINE L == {b \in bases : b <= off}
<1>2. PICK m \in L : \A y \in L : y <= m
  <2>1. L \subseteq 0 .. MaxOffset
    BY <1>1
  <2>2. 0 \in L
    BY <1>1 DEF Offsets
  <2> HIDE DEF L
  <2>3. L # {}
    BY <2>2
  <2> QED BY <2>1, <2>3, Numbers!HasGreatest
<1>3. BaseFor(off) = m
  <2>1. L \in SUBSET Int /\ \A y \in L : m >= y
    BY <1>1, <1>2
  <2>2. Max(L) = m
    <3> HIDE DEF L
    <3> QED BY <2>1, MaxIs
  <2> QED BY <2>2 DEF BaseFor
<1>4. m \in bases /\ m \in Offsets /\ m <= off
  BY <1>1, <1>2
<1>5. off < SegNext(Handle(m)) /\ SegNext(Handle(m)) \in Int
  <2>n. PICK n : n = SegNext(Handle(m))
    OBVIOUS
  <2>0. next \in Int /\ off \in Int
    BY DEF TypeOK, Offsets
  <2>1. CASE m = active
    BY <1>4, <2>0, <2>1, SegNextFacts
  <2>2. CASE m # active
    <3>1. n \in bases /\ m < n
      BY <1>4, <2>2, <2>n, SegNextFacts
    <3>2. n \in Int /\ m \in Int
      BY <1>1, <1>4, <3>1
    <3>3. n \notin L
      BY <1>2, <3>1, <3>2
    <3>4. ~(n <= off)
      BY <3>1, <3>3
    <3> QED BY <2>0, <2>n, <3>2, <3>4
  <2> QED BY <2>1, <2>2
<1> DEFINE S == {b \in bases : b >= m /\ SegNext(Handle(b)) > off}
<1>7. m \in S /\ \A y \in S : m <= y
  BY <1>1, <1>4, <1>5 DEF Offsets
<1>8. SeekBase(off) = Min(S)
  BY <1>3 DEF SeekBase
<1>9. Min(S) = m
  <2>1. S \in SUBSET Int
    BY <1>1
  <2> HIDE DEF S
  <2> QED BY <1>7, <2>1, MinIs
<1> QED BY <1>3, <1>4, <1>5, <1>8, <1>9

(***************************************************************************)
(* A cursor that need not resolve its segment stands at a record of it.    *)
(***************************************************************************)
LEMMA CursorStands ==
    ASSUME Inv, pc # "down", reader.open, ~Unresolved
    PROVE  \E b \in bases :
            /\ reader.seg = Handle(b) /\ b <= reader.next
            /\ reader.pos \in 1 .. Len(data[reader.seg])
            /\ Between(data[reader.seg], reader.pos, reader.next)
<1>1. reader.seg # NoNode /\ ~(reader.next >= SegNext(reader.seg)) /\ reader.generation = generation
  BY DEF Unresolved
<1>2. PICK b \in bases : /\ reader.seg = Handle(b) /\ b <= reader.next
                         /\ Between(data[reader.seg], reader.pos, reader.next)
  BY <1>1 DEF Inv, InvReader
<1> DEFINE file == data[Handle(b)]
<1>3. file \in Seq(Records) /\ Sorted(file)
  BY HandleFacts DEF Inv, InvDisk, InvLog
<1>4. SegNext(Handle(b)) = IF file = <<>> THEN b ELSE Last(file).off + 1
  BY SegNextFacts
<1>5. Between(file, reader.pos, reader.next)
  BY <1>2
<1>6. b \in Int /\ reader.next \in Int
  BY DEF Inv, InvReader, TypeOK, Offsets
<1>7. file # <<>>
  BY <1>1, <1>2, <1>4, <1>6
<1> HIDE DEF file
<1>8. /\ Len(file) \in 1 .. Len(file) /\ Last(file) = file[Len(file)] /\ Last(file) \in Range(file)
      /\ Last(file).off \in Int /\ Len(file) \in Nat
  BY <1>3, <1>7, RangeFacts, LastIsGreatest DEF Offsets
<1>9. reader.next <= Last(file).off
  BY <1>1, <1>2, <1>4, <1>6, <1>7, <1>8
<1>10. reader.pos \in 1 .. Len(file)
  <2>1. reader.pos \in 1 .. Len(file) + 1
    BY <1>5 DEF Between
  <2>2. ~(Len(file) < reader.pos)
    BY <1>5, <1>6, <1>8, <1>9 DEF Between
  <2> QED BY <1>8, <2>1, <2>2
<1> QED BY <1>2, <1>10 DEF file

LEMMA FirstAtIs ==
    ASSUME NEW i, data[i] \in Seq(Records), NEW off \in Int, NEW p \in 1 .. Len(data[i]),
           Between(data[i], p, off)
    PROVE  FirstAt(i, off) = p
<1> DEFINE P == {q \in DOMAIN data[i] : data[i][q].off >= off}
<1>1. DOMAIN data[i] = 1 .. Len(data[i]) /\ Len(data[i]) \in Nat
  OBVIOUS
<1>2. \A q \in 1 .. Len(data[i]) : data[i][q].off \in Int
  <2>1. \A q \in 1 .. Len(data[i]) : data[i][q] \in Records
    OBVIOUS
  <2> QED BY <2>1 DEF Records, Offsets
<1>3. p \in P /\ \A q \in P : p <= q
  BY <1>1, <1>2 DEF Between
<1>4. P \in SUBSET Int
  BY <1>1
<1>5. Min(P) = p
  <2> HIDE DEF P
  <2> QED BY <1>3, <1>4, MinIs
<1> QED BY <1>5 DEF FirstAt

LEMMA FirstAtExists ==
    ASSUME NEW i, data[i] \in Seq(Records), Sorted(data[i]), data[i] # <<>>,
           NEW off \in Int, off <= Last(data[i]).off
    PROVE  FirstAt(i, off) \in 1 .. Len(data[i]) /\ Between(data[i], FirstAt(i, off), off)
<1> DEFINE file == data[i]
           P == {q \in 1 .. Len(file) : file[q].off >= off}
<1>0. /\ file \in Seq(Records) /\ Sorted(file) /\ file # <<>> /\ off <= Last(file).off
  OBVIOUS
<1>1. Len(file) \in Nat /\ \A q \in 1 .. Len(file) : file[q].off \in Int
  <2>1. \A q \in 1 .. Len(file) : file[q] \in Records
    OBVIOUS
  <2> QED BY <2>1 DEF Records, Offsets
<1> HIDE DEF file
<1>2. Len(file) \in P
  <2>1. Len(file) \in 1 .. Len(file) /\ Last(file) = file[Len(file)]
    BY <1>0, RangeFacts
  <2> QED BY <1>0, <1>1, <2>1
<1>3. PICK p \in P : \A q \in P : p <= q
  <2>1. P \subseteq Nat /\ P # {}
    BY <1>1, <1>2
  <2> HIDE DEF P
  <2> QED BY <2>1, Numbers!HasSmallest
<1>4. ASSUME NEW q \in 1 .. Len(file)
      PROVE  (q < p => file[q].off < off) /\ (p <= q => off <= file[q].off)
  <2>1. p \in 1 .. Len(file) /\ file[p].off >= off
    BY <1>3
  <2>2. q < p => file[q].off < off
    <3>1. q < p => q \notin P
      BY <1>3, <2>1
    <3> QED BY <1>1, <3>1
  <2>3. p <= q => off <= file[q].off
    <3>1. p < q => file[p].off < file[q].off
      BY <1>0, <2>1 DEF Sorted
    <3> QED BY <1>1, <2>1, <3>1
  <2> QED BY <2>2, <2>3
<1>5. p \in 1 .. Len(file) /\ Between(file, p, off)
  BY <1>1, <1>3, <1>4 DEF Between
<1>6. FirstAt(i, off) = p
  BY <1>0, <1>5, FirstAtIs DEF file
<1> QED BY <1>5, <1>6 DEF file

(***************************************************************************)
(* Reading the first record at or after the cursor's offset, in the        *)
(* segment that offset belongs to, passes over no record the log holds.    *)
(***************************************************************************)
LEMMA NothingBefore ==
    ASSUME Inv, pc # "down", NEW b \in bases, NEW off \in Offsets, b <= off,
           NEW p \in 1 .. Len(data[Handle(b)]), Between(data[Handle(b)], p, off),
           NEW h \in Holds(live, data), off <= h.off, h.off <= data[Handle(b)][p].off
    PROVE  h = data[Handle(b)][p]
<1> USE DEF Inv, InvDisk, InvLog
<1> DEFINE file == data[Handle(b)]
           r == file[p]
<1>1. PICK c \in Offsets : live[c] # NoNode /\ h \in Range(data[live[c]])
  BY HoldsFacts
<1>2. c \in bases /\ b \in Offsets /\ live[b] # NoNode
  BY <1>1, ActiveFacts
<1>3. h \in Range(data[Handle(c)]) /\ h \in Range(data[Written(c)]) /\ data[Handle(c)] \in Seq(Records)
  BY <1>1, <1>2, HandleFacts
<1>4. file \in Seq(Records) /\ Sorted(file) /\ Range(file) \subseteq Range(data[Written(b)])
  BY HandleFacts
<1>5. r \in Range(file) /\ r \in Range(data[Written(b)])
  BY <1>4, RangeFacts
<1>6. h \in Records /\ r \in Records
  BY <1>3, <1>4, <1>5, RangeFacts
<1>7. h.off \in Int /\ r.off \in Int /\ off \in Int /\ b \in Int /\ c \in Int
  BY <1>2, <1>6 DEF Records, Offsets
<1>8. c <= h.off /\ \A d \in c + 1 .. h.off : live[d] = NoNode
  BY <1>1, <1>3 DEF InvWritten
<1>9. b <= r.off /\ \A d \in b + 1 .. r.off : live[d] = NoNode
  BY <1>2, <1>5 DEF InvWritten
<1>10. ~(c < b)
  BY <1>2, <1>7, <1>8
<1>11. ~(b < c)
  BY <1>1, <1>7, <1>8, <1>9
<1>12. c = b
  BY <1>7, <1>10, <1>11
<1>13. PICK q \in 1 .. Len(file) : h = file[q]
  BY <1>3, <1>12, RangeFacts
<1>14. ~(q < p)
  BY <1>7, <1>13 DEF Between
<1>15. ~(p < q)
  BY <1>4, <1>7, <1>13 DEF Sorted
<1>16. q = p
  BY <1>14, <1>15
<1> QED BY <1>13, <1>16

LEMMA ReadAtInv ==
    ASSUME Inv, pc = "idle", reader.open, NEW b \in bases, b <= reader.next,
           NEW p \in 1 .. Len(data[Handle(b)]), Between(data[Handle(b)], p, reader.next),
           NEW cached, ReadAt(Handle(b), p, cached),
           cached = cache \/ \E B \in SUBSET bases : cached = Opened(B)
    PROVE  Inv'
<1> USE DEF Inv, InvDisk, InvLog
<1> DEFINE file == data[Handle(b)]
           r == file[p]
<1>0. pc # "down" /\ pc' = "idle" /\ pc' # "down"
  BY DEF ReadAt
<1>1. /\ reader' = [reader EXCEPT !.seg = Handle(b), !.pos = p + 1, !.next = r.off + 1,
                                  !.generation = generation]
      /\ got' = got \cup {r} /\ r.off >= reader.next
  BY DEF ReadAt
<1>2. Quiet
  BY DEF ReadAt, Quiet, SameFiles, disk
<1>3. /\ InvDisk' /\ InvBases' /\ InvCache' /\ InvClosed'
      /\ Handle(b)' = Handle(b) /\ data'[Handle(b)] = data[Handle(b)]
      /\ Holds(live, data)' = Holds(live, data)
      /\ cache' \in [Offsets -> Inodes \cup {NoNode}]
  BY <1>0, <1>2, QuietFacts
<1>4. /\ b \in Offsets /\ file \in Seq(Records) /\ Sorted(file)
      /\ Handle(b) \in Inodes /\ Range(file) \subseteq Range(data[Written(b)])
  BY <1>0, HandleFacts DEF TypeOK
<1>5. r \in Range(file) /\ r \in Records
  BY <1>4, RangeFacts
<1>6. r.off \in Offsets /\ r.off < next /\ next \in Offsets
  <2>1. r.off < next
    BY <1>0, <1>4, <1>5 DEF InvBases
  <2> QED BY <1>5, <2>1 DEF Records, TypeOK
<1>7. r.off + 1 \in Offsets /\ r.off + 1 <= next /\ b <= r.off + 1
  <2>1. reader.next \in Int
    BY DEF TypeOK, Offsets
  <2>2. b <= reader.next /\ reader.next <= r.off
    BY <1>1, <1>6, <2>1 DEF Offsets
  <2> HIDE DEF r
  <2> QED BY <1>4, <1>6, <2>1, <2>2 DEF Offsets
<1>8. Between(file, p + 1, r.off + 1)
  <2>1. Len(file) \in Nat /\ \A q \in 1 .. Len(file) : file[q].off \in Int
    <3>1. \A q \in 1 .. Len(file) : file[q] \in Records
      BY <1>4
    <3> QED BY <1>4, <3>1 DEF Records, Offsets
  <2>2. ASSUME NEW q \in 1 .. Len(file)
        PROVE  (q < p + 1 => file[q].off < r.off + 1) /\ (p + 1 <= q => r.off + 1 <= file[q].off)
    <3>1. (q < p => file[q].off < r.off) /\ (p < q => r.off < file[q].off)
      BY <1>4 DEF Sorted
    <3>2. q < p \/ q = p \/ p < q
      OBVIOUS
    <3> QED BY <2>1, <3>1, <3>2
  <2>3. p + 1 \in 1 .. Len(file) + 1
    BY <2>1
  <2> QED BY <2>2, <2>3 DEF Between
<1>9. /\ reader'.seg = Handle(b) /\ reader'.pos = p + 1 /\ reader'.next = r.off + 1
      /\ reader'.generation = generation /\ reader'.from = reader.from /\ reader'.open = reader.open
      /\ reader' \in [seg : Inodes \cup {NoNode}, pos : Nat, next : Offsets, generation : Nat,
                      from : Offsets, open : BOOLEAN]
  <2>1. /\ reader \in [seg : Inodes \cup {NoNode}, pos : Nat, next : Offsets, generation : Nat,
                       from : Offsets, open : BOOLEAN]
        /\ generation \in Nat /\ p + 1 \in Nat
    BY DEF InvReader, TypeOK
  <2> HIDE DEF r
  <2> QED BY <1>1, <1>4, <1>7, <2>1
<1>10. generation' = generation /\ next' = next /\ bases' = bases /\ generation \in Nat
  BY DEF ReadAt, TypeOK
<1>11. InvReader'
  <2>1. data'[reader'.seg] = file
    BY <1>3, <1>9
  <2> HIDE DEF r, file
  <2> QED BY <1>0, <1>3, <1>7, <1>8, <1>9, <1>10, <2>1 DEF InvReader
<1>12. NothingSkipped'
  <2> SUFFICES ASSUME NEW h \in Holds(live, data), reader.from <= h.off, h.off < r.off + 1
               PROVE  h \in got \cup {r}
    BY <1>1, <1>3, <1>9 DEF NothingSkipped
  <2>1. h \in Records
    BY RecordFacts
  <2>2. h.off \in Int /\ reader.next \in Offsets /\ reader.next \in Int /\ r.off \in Int
    BY <1>6, <2>1 DEF Records, Offsets, TypeOK
  <2>3. CASE h.off < reader.next
    BY <2>3 DEF NothingSkipped
  <2>4. CASE reader.next <= h.off
    <3>1. h.off <= r.off
      BY <2>2
    <3>2. h = r
      BY <1>0, <2>2, <2>4, <3>1, NothingBefore
    <3> QED BY <3>2
  <2> QED BY <2>2, <2>3, <2>4
<1>13. TypeOK'
  <2>1. got' \subseteq Records
    BY <1>1, <1>5 DEF TypeOK
  <2>2. reader'.next \in Offsets /\ reader'.seg \in Inodes \cup {NoNode}
    BY <1>4, <1>7, <1>9
  <2> QED BY <1>0, <1>3, <2>1, <2>2 DEF TypeOK, ReadAt, disk
<1>14. InvJob'
  BY <1>0 DEF InvJob, Busy
<1> QED BY <1>3, <1>11, <1>12, <1>13, <1>14

LEMMA NextInSegmentInv ==
    ASSUME Inv, NextInSegment
    PROVE  Inv'
<1>1. pc = "idle" /\ pc # "down" /\ reader.open /\ ~Unresolved /\ ReadAt(reader.seg, reader.pos, cache)
  BY DEF NextInSegment
<1>2. PICK b \in bases : /\ reader.seg = Handle(b) /\ b <= reader.next
                         /\ reader.pos \in 1 .. Len(data[reader.seg])
                         /\ Between(data[reader.seg], reader.pos, reader.next)
  BY <1>1, CursorStands
<1>p. PICK p : p = reader.pos
  OBVIOUS
<1>3. p \in 1 .. Len(data[Handle(b)]) /\ Between(data[Handle(b)], p, reader.next) /\ ReadAt(Handle(b), p, cache)
  BY <1>1, <1>2, <1>p
<1> QED BY <1>1, <1>2, <1>3, ReadAtInv

LEMMA NextSeeksInv ==
    ASSUME Inv, NextSeeks
    PROVE  Inv'
<1>1. pc = "idle" /\ pc # "down" /\ reader.open /\ reader.next < next
  BY DEF NextSeeks
<1>2. reader.next \in Offsets
  BY DEF Inv, TypeOK
<1>b. PICK b : b = SeekBase(reader.next)
  OBVIOUS
<1>3. b \in bases /\ b <= reader.next /\ reader.next < SegNext(Handle(b))
  BY <1>1, <1>2, <1>b, SeekStays
<1>p. PICK p : p = FirstAt(Handle(b), reader.next)
  OBVIOUS
<1>c. PICK cached : cached = Opened({c \in bases : BaseFor(reader.next) <= c /\ c <= b})
  OBVIOUS
<1>4. ReadAt(Handle(b), p, cached)
  BY <1>b, <1>p, <1>c DEF NextSeeks
<1>5. cached = cache \/ \E B \in SUBSET bases : cached = Opened(B)
  BY <1>c
<1>6. data[Handle(b)] \in Seq(Records) /\ Sorted(data[Handle(b)])
  BY <1>1, <1>3, HandleFacts DEF Inv, InvDisk, InvLog
<1>7. SegNext(Handle(b)) = IF data[Handle(b)] = <<>> THEN b ELSE Last(data[Handle(b)]).off + 1
  BY <1>1, <1>3, SegNextFacts
<1>8. b \in Int /\ reader.next \in Int
  BY <1>2, <1>3 DEF Inv, TypeOK, Offsets
<1>9. data[Handle(b)] # <<>>
  BY <1>3, <1>7, <1>8
<1>10. Last(data[Handle(b)]).off \in Int
  BY <1>6, <1>9, RangeFacts, LastIsGreatest DEF Offsets
<1>11. reader.next <= Last(data[Handle(b)]).off
  BY <1>3, <1>7, <1>8, <1>9, <1>10
<1>12. p \in 1 .. Len(data[Handle(b)]) /\ Between(data[Handle(b)], p, reader.next)
  BY <1>6, <1>8, <1>9, <1>11, <1>p, FirstAtExists
<1> QED BY <1>1, <1>3, <1>4, <1>5, <1>12, ReadAtInv

-----------------------------------------------------------------------------
LEMMA Inductive ==
    ASSUME ~AnyOffset, Inv, [Next]_vars
    PROVE  Inv'
<1>1. CASE Open
  BY <1>1, OpenInv
<1>2. ASSUME NEW k \in Keys, Append1(k) PROVE Inv'
  BY <1>2, Append1Inv
<1>3. ASSUME NEW k \in Keys, AppendRolls(k) PROVE Inv'
  BY <1>3, AppendRollsInv
<1>4. CASE Sync
  BY <1>4, SyncInv
<1>5. ASSUME NEW b \in Offsets, Compact(b) PROVE Inv'
  BY <1>5, CompactInv
<1>6. ASSUME NEW b \in Offsets, NewReader(b) PROVE Inv'
  BY <1>6, NewReaderInv
<1>7. CASE RemoveStale
  BY <1>7, RemoveStaleInv
<1>8. CASE CreateTmp
  BY <1>8, CreateTmpInv
<1>9. CASE CopyRecord
  BY <1>9, CopyRecordInv
<1>10. CASE SyncTmp
  BY <1>10, SyncTmpInv
<1>11. CASE Rename
  BY <1>11, RenameInv
<1>12. CASE SwapSync
  BY <1>12, SwapSyncInv
<1>13. CASE SwapSyncFails \/ CompactFails
  BY <1>13, FailsInv
<1>14. CASE NextInSegment
  BY <1>14, NextInSegmentInv
<1>15. CASE NextSeeks
  BY <1>15, NextSeeksInv
<1>16. CASE Kill
  BY <1>16, KillInv
<1>17. CASE Crash
  BY <1>17, CrashInv
<1>18. CASE UNCHANGED vars
  BY <1>18 DEF vars, disk, memory, Inv, InvDisk, InvLog, TypeOK, InvNames, InvWritten, InvCompacted,
               InvAcked, InvBases, InvCache, InvJob, InvClosed, InvReader, NothingSkipped, Sealed,
               Handle, active, Uncopied
<1> QED BY <1>1, <1>2, <1>3, <1>4, <1>5, <1>6, <1>7, <1>8, <1>9, <1>10, <1>11, <1>12, <1>13, <1>14,
           <1>15, <1>16, <1>17, <1>18 DEF Next

(***************************************************************************)
(* The invariant implies what the runs check.                              *)
(***************************************************************************)
LEMMA KeptFacts ==
    ASSUME Inv, NEW b \in Offsets, live[b] # NoNode, NEW r \in Range(data[Written(b)])
    PROVE  \E s \in Survivors(data[Written(b)]) :
            /\ s \in Range(data[live[b]])
            /\ Supersedes(live, s, r) /\ Supersedes(durableDir, s, r)
<1> USE DEF Inv, InvDisk
<1>1. data[Written(b)] \in Seq(Records)
  BY FileTypes
<1>2. PICK s \in Survivors(data[Written(b)]) : s.key = r.key /\ r.off <= s.off
  BY <1>1, SurvivorExists
<1>3. s \in Range(data[Written(b)]) /\ s \in Records /\ r \in Records
  BY <1>1, <1>2, SurvivorFacts, RangeFacts
<1>4. s \in Range(data[live[b]])
  <2>1. live[b] \in {Written(b), Compacted(b)}
    BY DEF InvNames
  <2> QED BY <1>2, <1>3, <2>1 DEF InvCompacted
<1>5. b <= r.off /\ \A c \in b + 1 .. s.off : live[c] = NoNode
  BY <1>3 DEF InvWritten
<1>6. r.off \in Nat /\ s.off \in Offsets
  BY <1>3 DEF Records, Offsets
<1>7. \A c \in r.off + 1 .. s.off : c \in b + 1 .. s.off /\ c \in Offsets
  BY <1>5, <1>6 DEF Offsets
<1>8. \A c \in r.off + 1 .. s.off : live[c] = NoNode /\ durableDir[c] = NoNode
  BY <1>5, <1>7 DEF InvNames
<1>9. s.off >= r.off
  BY <1>2, <1>6 DEF Offsets
<1> QED BY <1>2, <1>4, <1>8, <1>9 DEF Supersedes

LEMMA NewestKeptHolds ==
    ASSUME Inv
    PROVE  NewestKept
<1> USE DEF Inv, InvDisk
<1> SUFFICES ASSUME NEW r \in acked
             PROVE  /\ \E s \in Holds(live, data) : Supersedes(live, s, r)
                    /\ \E s \in Holds(durableDir, durable) : Supersedes(durableDir, s, r)
  BY DEF NewestKept
<1>1. PICK b \in Offsets : live[b] # NoNode /\ r \in Range(durable[Written(b)])
  BY DEF InvAcked
<1>2. r \in Range(data[Written(b)]) /\ r \in Records
  <2>1. durable[Written(b)] \in Seq(Records) /\ data[Written(b)] \in Seq(Records)
    BY FileTypes
  <2>2. PICK p \in 1 .. Len(durable[Written(b)]) : r = durable[Written(b)][p]
    BY <1>1, <2>1, RangeFacts
  <2>3. p \in 1 .. Len(data[Written(b)]) /\ r = data[Written(b)][p]
    BY <1>1, <2>2 DEF InvWritten
  <2> QED BY <2>1, <2>3, RangeFacts
<1>3. PICK s \in Survivors(data[Written(b)]) :
        /\ s \in Range(data[live[b]])
        /\ Supersedes(live, s, r) /\ Supersedes(durableDir, s, r)
  BY <1>1, <1>2, KeptFacts
<1>4. s \in Holds(live, data)
  BY <1>1, <1>3, HoldsFacts
<1>5. \E t \in Holds(durableDir, durable) : Supersedes(durableDir, t, r)
  <2>1. durableDir[b] \in {Written(b), Compacted(b)} /\ durableDir[b] # NoNode
    BY <1>1 DEF InvNames
  <2>2. CASE durableDir[b] = Written(b)
    <3>1. r \in Holds(durableDir, durable)
      BY <1>1, <2>1, <2>2 DEF Holds
    <3>2. Supersedes(durableDir, r, r)
      <4>1. r.off \in Int
        BY <1>2 DEF Records, Offsets
      <4>2. r.off + 1 .. r.off = {} /\ r.off >= r.off
        BY <4>1
      <4> QED BY <4>2 DEF Supersedes
    <3> QED BY <3>1, <3>2
  <2>3. CASE durableDir[b] = Compacted(b)
    <3>1. live[b] = Compacted(b) /\ s \in Range(durable[Compacted(b)])
      BY <1>3, <2>3 DEF InvNames, InvCompacted
    <3>2. s \in Holds(durableDir, durable)
      BY <2>1, <2>3, <3>1 DEF Holds
    <3> QED BY <1>3, <3>2
  <2> QED BY <2>1, <2>2, <2>3
<1> QED BY <1>3, <1>4, <1>5

LEMMA CursorSoundHolds ==
    ASSUME Inv
    PROVE  CursorSound
<1> SUFFICES ASSUME pc # "down"
             PROVE  /\ \A b \in bases : Handle(b) \notin closed
                    /\ reader.open /\ ~Unresolved =>
                        /\ reader.seg \notin closed
                        /\ reader.pos \in DOMAIN data[reader.seg]
                        /\ reader.pos = FirstAt(reader.seg, reader.next)
  BY DEF CursorSound
<1>1. \A b \in bases : Handle(b) \notin closed
  BY HandleOpen
<1>2. ASSUME reader.open, ~Unresolved
      PROVE  /\ reader.seg \notin closed
             /\ reader.pos \in DOMAIN data[reader.seg]
             /\ reader.pos = FirstAt(reader.seg, reader.next)
  <2>1. PICK b \in bases : /\ reader.seg = Handle(b) /\ b <= reader.next
                           /\ reader.pos \in 1 .. Len(data[reader.seg])
                           /\ Between(data[reader.seg], reader.pos, reader.next)
    BY <1>2, CursorStands
  <2>2. data[reader.seg] \in Seq(Records)
    BY <2>1, HandleFacts DEF Inv, InvDisk, InvLog
  <2>3. reader.next \in Int
    BY DEF Inv, TypeOK, Offsets
  <2>4. reader.pos = FirstAt(reader.seg, reader.next)
    BY <2>1, <2>2, <2>3, FirstAtIs
  <2> QED BY <1>1, <2>1, <2>2, <2>4
<1> QED BY <1>1, <1>2

(***************************************************************************)
(* A rename keeps the newest record of every key in every segment.         *)
(***************************************************************************)
LEMMA SupersedesThrough ==
    ASSUME NEW dir, NEW r \in Records, NEW s \in Records, NEW t \in Records,
           Supersedes(dir, s, r), Supersedes(dir, t, s)
    PROVE  Supersedes(dir, t, r)
<1>1. r.off \in Int /\ s.off \in Int /\ t.off \in Int
  BY DEF Records, Offsets
<1>2. \A b \in r.off + 1 .. t.off : b \in r.off + 1 .. s.off \/ b \in s.off + 1 .. t.off
  BY <1>1
<1> QED BY <1>1, <1>2 DEF Supersedes

LEMMA SameNames ==
    ASSUME NEW dir, NEW dir2, NEW r \in Records, NEW s \in Records,
           \A c \in Offsets : dir2[c] = NoNode <=> dir[c] = NoNode
    PROVE  Supersedes(dir2, s, r) <=> Supersedes(dir, s, r)
<1>1. \A c \in r.off + 1 .. s.off : c \in Offsets
  BY DEF Records, Offsets
<1> QED BY <1>1 DEF Supersedes

LEMMA RenameInvisible ==
    ASSUME Inv, Rename
    PROVE  Newest(live', data') = Newest(live, data)
<1> DEFINE H == Holds(live, data)
           G == Holds(live', data')
<1>b. PICK b : b = job.base
  OBVIOUS
<1>1. \A s \in G : s \in H
  BY RenameHolds
<1>2. \A s \in H : s \in Records
  BY RecordFacts
<1>3. /\ b \in Offsets /\ live[b] # NoNode /\ live'[b] = Compacted(b) /\ live'[b] # NoNode
      /\ \A c \in Offsets : live'[c] = NoNode <=> live[c] = NoNode
  BY <1>b, RenameFacts
<1>4. \A r, s \in Records : Supersedes(live', s, r) <=> Supersedes(live, s, r)
  BY <1>3, SameNames
<1>5. ASSUME NEW s \in H PROVE \E t \in G : Supersedes(live, t, s)
  <2>1. PICK c \in Offsets : live[c] # NoNode /\ s \in Range(data[live[c]])
    BY HoldsFacts
  <2>2. live[c] \in {Written(c), Compacted(c)}
    BY <2>1 DEF Inv, InvDisk, InvNames
  <2>3. CASE c = b
    <3>0. data[Written(b)] \in Seq(Records)
      BY <1>3, FileTypes DEF Inv
    <3>1. s \in Range(data[Written(b)])
      <4>1. CASE live[b] = Written(b)
        BY <2>1, <2>3, <4>1
      <4>2. CASE live[b] = Compacted(b)
        BY <2>1, <2>3, <3>0, <4>2, SurvivorFacts DEF Inv, InvDisk, InvCompacted
      <4> QED BY <2>2, <2>3, <4>1, <4>2
    <3>2. PICK t \in Survivors(data[Written(b)]) : Supersedes(live, t, s)
      BY <1>3, <3>1, KeptFacts
    <3>3. t \in Range(data'[live'[b]])
      BY <1>b, <1>3, <3>2, RenameFacts
    <3>4. t \in G
      BY <1>3, <3>3 DEF Holds
    <3> QED BY <3>2, <3>4
  <2>4. CASE c # b
    <3>1. live'[c] = live[c]
      BY <1>b, <2>4, RenameFacts
    <3>2. data'[live[c]] = data[live[c]]
      BY <1>b, <2>2, <2>4, RenameFacts
    <3>3. s \in G
      BY <2>1, <3>1, <3>2 DEF Holds
    <3>4. Supersedes(live, s, s)
      <4>1. s.off \in Int
        BY <1>2 DEF Records, Offsets
      <4>2. s.off + 1 .. s.off = {} /\ s.off >= s.off
        BY <4>1
      <4> QED BY <4>2 DEF Supersedes
    <3> QED BY <3>3, <3>4
  <2> QED BY <2>3, <2>4
<1>6. ASSUME NEW r \in Records, NEW s \in Records, Supersedes(live, s, r), s.off <= r.off PROVE s = r
  <2>1. s.key = r.key /\ s.off = r.off
    BY <1>6 DEF Supersedes, Records, Offsets
  <2> QED BY <2>1 DEF Records
<1> HIDE DEF H, G
<1>7. ASSUME NEW r \in G, \A s \in G : Supersedes(live', s, r) => s = r
      PROVE  r \in H /\ \A s \in H : Supersedes(live, s, r) => s = r
  <2>1. r \in H /\ r \in Records
    BY <1>1, <1>2
  <2>2. ASSUME NEW s \in H, Supersedes(live, s, r) PROVE s = r
    <3>1. PICK t \in G : Supersedes(live, t, s)
      BY <1>5
    <3>2. t \in Records /\ s \in Records
      BY <1>1, <1>2
    <3>3. Supersedes(live, t, r)
      BY <2>1, <2>2, <3>1, <3>2, SupersedesThrough
    <3>4. t = r
      BY <1>4, <1>7, <2>1, <3>2, <3>3
    <3>5. s.off <= r.off
      BY <3>1, <3>4, <3>2 DEF Supersedes, Records, Offsets
    <3> QED BY <1>6, <2>1, <2>2, <3>2, <3>5
  <2> QED BY <2>1, <2>2
<1>8. ASSUME NEW r \in H, \A s \in H : Supersedes(live, s, r) => s = r
      PROVE  r \in G /\ \A s \in G : Supersedes(live', s, r) => s = r
  <2>1. PICK t \in G : Supersedes(live, t, r)
    BY <1>5
  <2>2. t = r
    BY <1>1, <1>8, <2>1
  <2> QED BY <1>1, <1>2, <1>4, <1>8, <2>2
<1> QED BY <1>7, <1>8 DEF Newest, H, G

Invisible == Newest(live', data') # Newest(live, data) => next' > next \/ pc' = "down"

LEMMA StepInvisible ==
    ASSUME Inv, [Next]_vars
    PROVE  Invisible
<1>1. CASE Open \/ Sync \/ RemoveStale \/ SyncTmp \/ SwapSync \/ SwapSyncFails \/ CompactFails
           \/ NextInSegment \/ NextSeeks \/ Kill \/ UNCHANGED vars
           \/ \E b \in Offsets : Compact(b) \/ NewReader(b)
  <2>1. live' = live /\ data' = data
    BY <1>1 DEF Open, Sync, RemoveStale, SyncTmp, SwapSync, SwapSyncFails, CompactFails, NextInSegment,
                NextSeeks, ReadAt, Kill, Compact, NewReader, vars, disk
  <2> QED BY <2>1 DEF Invisible
<1>2. CASE \E k \in Keys : Append1(k) \/ AppendRolls(k)
  <2>1. next' = next + 1 /\ next \in Int
    BY <1>2 DEF Append1, AppendRolls, Inv, TypeOK, Offsets
  <2> QED BY <2>1 DEF Invisible
<1>3. CASE CreateTmp \/ CopyRecord
  <2>0. pc \in Busy
    BY <1>3 DEF CreateTmp, CopyRecord, Busy
  <2>t. PICK t : t = Tmp(job.base)
    OBVIOUS
  <2>1. live' = live /\ \E f : data' = [data EXCEPT ![t] = f]
    BY <1>3, <2>t DEF CreateTmp, CopyRecord
  <2>2. \A c \in Offsets : /\ Written(c) \in Inodes /\ Written(c) # t
                           /\ Compacted(c) \in Inodes /\ Compacted(c) # t
    BY <2>0, <2>t, JobFacts, TmpFacts
  <2>3. \A c \in Offsets : data'[Written(c)] = data[Written(c)] /\ data'[Compacted(c)] = data[Compacted(c)]
    BY <2>1, <2>2 DEF Inv, TypeOK
  <2>4. \A c \in Offsets : live[c] # NoNode => data'[live[c]] = data[live[c]]
    BY <2>3 DEF Inv, InvDisk, InvNames
  <2>5. Holds(live', data') = Holds(live, data)
    BY <2>1, <2>4 DEF Holds
  <2>6. Newest(live', data') = Newest(live, data)
    BY <2>1, <2>5 DEF Newest
  <2> QED BY <2>6 DEF Invisible
<1>4. CASE Rename
  BY <1>4, RenameInvisible DEF Invisible
<1>5. CASE Crash
  BY <1>5 DEF Crash, Forget, Invisible
<1> QED BY <1>1, <1>2, <1>3, <1>4, <1>5 DEF Next

-----------------------------------------------------------------------------
(***************************************************************************)
(* The theorems, for callers that compact offsets at which segments begin  *)
(* (Log.CompactAll), every set of keys, every segment size and bound, and  *)
(* an environment that may do any of CompactionEnv.                        *)
(***************************************************************************)

(***************************************************************************)
(* No step of the log, of a compaction, of a cursor or of a failure takes  *)
(* a variable out of its type.                                             *)
(***************************************************************************)
THEOREM TypeCorrect ==
    ASSUME ~AnyOffset
    PROVE  Spec => []TypeOK
<1>1. Inv => TypeOK
  BY DEF Inv
<1> QED BY <1>1, InitInv, Inductive, PTL DEF Spec

(***************************************************************************)
(* "Nothing is lost either way" (compact.go): after any number of          *)
(* compactions, kills, power cuts and failed calls, every acknowledged     *)
(* record, or a newer one of its key in its segment, is in the files the   *)
(* directory names and in those a power cut would leave.                   *)
(***************************************************************************)
THEOREM NothingAcknowledgedIsLost ==
    ASSUME ~AnyOffset
    PROVE  Spec => []NewestKept
<1> QED BY NewestKeptHolds, InitInv, Inductive, PTL DEF Spec

(***************************************************************************)
(* Compact never changes the newest record of a key in a segment: only an  *)
(* append or a death of the process does.                                  *)
(***************************************************************************)
THEOREM CompactionIsInvisible ==
    ASSUME ~AnyOffset
    PROVE  Spec => CompactionInvisible
<1>1. Inv /\ [Next]_vars => [Invisible]_vars
  BY StepInvisible
<1>2. Spec => [][Invisible]_vars
  BY <1>1, InitInv, Inductive, PTL DEF Spec
<1> QED BY <1>2 DEF CompactionInvisible, Invisible

(***************************************************************************)
(* Every segment that a cursor can resolve is open, and one that need not  *)
(* resolve its segment is at the first record at or after its offset: the  *)
(* generation Compact bumps is enough to tell it (reader.go).              *)
(***************************************************************************)
THEOREM CursorsAreSound ==
    ASSUME ~AnyOffset
    PROVE  Spec => []CursorSound
<1> QED BY CursorSoundHolds, InitInv, Inductive, PTL DEF Spec

(***************************************************************************)
(* Reader.Next returns every record that the log still holds between the   *)
(* offset it was opened at and the one it has reached, whatever was        *)
(* compacted behind, under or ahead of it.                                 *)
(***************************************************************************)
THEOREM CursorsSkipNothing ==
    ASSUME ~AnyOffset
    PROVE  Spec => []NothingSkipped
<1>1. Inv => NothingSkipped
  BY DEF Inv
<1> QED BY <1>1, InitInv, Inductive, PTL DEF Spec
=============================================================================
