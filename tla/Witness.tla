------------------------------- MODULE Witness -------------------------------
(***************************************************************************)
(* The harness's witness and its checks (workload.go, restart.go,          *)
(* check.go): what the workload was told by the log, and the assertions it *)
(* makes of a running log and of the disk a run leaves behind.             *)
(*                                                                         *)
(* The log is the one the other modules model, seen through its interface: *)
(* records at offsets, a group's position, a newest snapshot, and what     *)
(* reopening, a power cut and a bit flip do to them.  It may also misbehave *)
(* once, just before the last check.  The questions are whether the checks *)
(* ever accuse a log that kept its promises, and whether they notice one   *)
(* that did not.                                                           *)
(***************************************************************************)
EXTENDS Integers, Sequences, FiniteSets, FiniteSetsExt

CONSTANTS
  Keys,        \* event keys
  MaxEvents,   \* bound on the events a run appends
  MaxFlips,    \* bound on the bit flips of a run
  Steps,       \* the steps of a run
  LateFlips    \* a flip may fire inside the check a restart makes of itself

ASSUME WitnessAssumption ==
  /\ MaxEvents \in Nat \ {0} /\ MaxFlips \in Nat /\ Steps \in Nat
  /\ LateFlips \in BOOLEAN

None == -1

VARIABLES
  recs,      \* the log: [ev, key, st] at every offset below Next, offset 0 first
  safe,      \* records a power cut keeps
  sealed,    \* records in sealed segments, which reopening does not truncate
  rolls,     \* where sealed segments end
  torn,      \* half a record lies behind the last
  group,     \* the group: position, position after a power cut, file damaged
  snap,      \* the newest snapshot: offset, after a power cut, file damaged,
             \* and a state that is not the one written
  reissued,  \* the lowest offset ever truncated away
  w,         \* the witness
  flips,     \* bit flips that fired
  steps,     \* steps begun
  pc,        \* running, live (step done, checkLive due), failed, stopped, checked
  alarm,     \* the assertion that fired, or "none"
  misdeed    \* what a misbehaving log did, or "none"

diskVars == <<sealed, rolls, torn>>
logVars == <<recs, safe, diskVars, group, snap, reissued>>
runVars == <<flips, steps, misdeed>>
vars == <<logVars, w, runVars, pc, alarm>>

-----------------------------------------------------------------------------
(* What the log promises, as the harness uses it. *)

Rec(ev, key) == [ev |-> ev, key |-> key, st |-> "ok"]

\* A compaction that failed after its rename is undone by a power cut ("soft").
Present(r) == r.st \in {"ok", "bad"}

\* Mutant: a damaged record truncates a sealed segment as well.
BadAnywhere == {i \in DOMAIN recs : recs[i].st = "bad"}

\* Opening truncates the active segment at the first record that fails its
\* checksum, and leaves sealed segments alone.
FirstBad == {i \in sealed + 1 .. Len(recs) : recs[i].st = "bad"}

Recovered == IF FirstBad = {} THEN Len(recs) ELSE Min(FirstBad) - 1

\* Opening reads a sealed segment whole, and refuses one with a damaged record.
SameSegment(i, j) == \A n \in rolls : i <= n <=> j <= n

Damaged(i) == \E j \in 1 .. Recovered : recs[j].st = "bad" /\ SameSegment(i, j)

Reads(i) == i <= Recovered /\ recs[i].st = "ok" /\ ~ Damaged(i)

\* A commits file that was flipped recovers to an earlier commit, or to none.
Positions(bad) == IF bad THEN {None} \cup w.attempts ELSE {group.pos}

Latest == IF snap.bad THEN None ELSE snap.top

\* Compaction drops what a later record of a sealed segment supersedes.
Droppable ==
  {i \in 1 .. sealed : /\ recs[i].st = "ok"
                       /\ \E j \in i + 1 .. sealed : Present(recs[j]) /\ recs[j].key = recs[i].key}

Drop(gone, st) ==
  recs' = [i \in DOMAIN recs |-> IF i \in gone THEN [recs[i] EXCEPT !.st = st] ELSE recs[i]]

-----------------------------------------------------------------------------
(* The workload: every step either completes, and is followed by checkLive, *)
(* or returns an error, which ends the run.                                 *)

corrupted == flips > 0

NewWitness ==
  [events |-> <<>>, largest |-> 0, durable |-> 0, commits |-> None, attempts |-> {},
   compacted |-> FALSE, snapshot |-> None, tail |-> 0, trusted |-> MaxEvents,
   reader |-> None, last |-> None, delivered |-> FALSE]

Init ==
  /\ recs = <<>> /\ safe = 0 /\ sealed = 0 /\ rolls = {} /\ torn = FALSE
  /\ group = [pos |-> None, dur |-> None, bad |-> FALSE]
  /\ snap = [top |-> None, dur |-> None, bad |-> FALSE, forged |-> FALSE]
  /\ reissued = MaxEvents
  /\ w = NewWitness
  /\ flips = 0 /\ steps = 0
  /\ pc = "running" /\ alarm = "none" /\ misdeed = "none"

\* The workload begins a step.
Begin == pc = "running" /\ steps < Steps /\ steps' = steps + 1

Batches == {b \in UNION {[1 .. n -> Keys] : n \in 1 .. 2} :
              Len(w.events) + Len(b) <= MaxEvents}

Stored(b) == [i \in DOMAIN b |-> Rec(Len(w.events) + i, b[i])]

\* Mutant: the size of a batch is never learned.
LargestForgotten(b) == w.largest

\* The biggest batch tried bounds what a torn write may cost.
Largest(b) == IF Len(b) > w.largest THEN Len(b) ELSE w.largest

\* An append may sync, and may roll, which syncs and seals what was there.
Append_ ==
  /\ Begin
  /\ \E b \in Batches :
       /\ recs' = recs \o Stored(b)
       /\ w' = [w EXCEPT !.events = @ \o b, !.largest = Largest(b)]
  /\ safe' \in {safe, Len(recs), Len(recs')}
  /\ sealed' \in {sealed} \cup {n \in {Len(recs)} : n <= safe'}
  /\ rolls' = rolls \cup {sealed'}
  /\ pc' = "live"
  /\ UNCHANGED <<torn, group, snap, reissued, flips, misdeed, alarm>>

\* A failed append may have stored records it does not report, and half a one.
AppendFails ==
  /\ Begin
  /\ \E b \in Batches : \E stored \in 0 .. Len(b) : \E told \in 0 .. stored :
       /\ recs' = recs \o SubSeq(Stored(b), 1, stored)
       /\ torn' \in IF stored < Len(b) THEN BOOLEAN ELSE {FALSE}
       /\ w' = [w EXCEPT !.events = @ \o SubSeq(b, 1, told), !.largest = Largest(b)]
  /\ pc' = "failed"
  /\ UNCHANGED <<safe, sealed, rolls, group, snap, reissued, flips, misdeed, alarm>>

Sync ==
  /\ Begin
  /\ \/ /\ safe' = Len(recs)
        /\ w' = [w EXCEPT !.durable = Len(w.events)]
        /\ pc' = "live"
     \/ UNCHANGED <<safe, w>> /\ pc' = "failed"
  /\ UNCHANGED <<recs, diskVars, group, snap, reissued, flips, misdeed, alarm>>

\* Mutant: an attempt is remembered only once the commit has returned.
AttemptAfter(off) == w

Attempt(off) == [w EXCEPT !.attempts = @ \cup {off}]

\* Commits and snapshots ask for offsets whose records are durable.  A log
\* that was truncated refuses one it no longer has, and any other refusal is a
\* failure of the run.
Refused ==
  /\ pc' = IF corrupted THEN "live" ELSE "checked"
  /\ alarm' = IF corrupted THEN "none" ELSE "refused"

Commit ==
  /\ Begin /\ w.durable > 0
  /\ \E off \in 0 .. w.durable :
       \/ /\ off > Len(recs)
          /\ w' = Attempt(off) /\ Refused
          /\ UNCHANGED group
       \/ /\ off <= Len(recs)
          /\ group' = [group EXCEPT !.pos = off, !.dur = off]
          /\ w' = [w EXCEPT !.attempts = @ \cup {off}, !.commits = off]
          /\ pc' = "live" /\ alarm' = alarm
       \/ /\ off <= Len(recs)
          /\ w' = Attempt(off)
          /\ group' \in {group, [group EXCEPT !.pos = off]}
          /\ pc' = "failed" /\ alarm' = alarm
  /\ UNCHANGED <<recs, safe, diskVars, snap, reissued, flips, misdeed>>

\* Mutant: the witness learns of a compaction only when it succeeds.
MarksAfter == w

MarkCompacted == [w EXCEPT !.compacted = TRUE]

\* One that fails has swapped in some segments for good and one that a power
\* cut may still undo.
CompactAll ==
  /\ Begin
  /\ \E gone \in SUBSET Droppable :
       \/ /\ \A i \in 1 .. sealed : recs[i].st # "bad"
          /\ Drop(gone, "gone")
          /\ w' = [w EXCEPT !.compacted = TRUE]
          /\ pc' = "live"
       \/ /\ \E soft \in SUBSET gone :
               recs' = [i \in DOMAIN recs |->
                          IF i \in gone
                            THEN [recs[i] EXCEPT !.st = IF i \in soft THEN "soft" ELSE "gone"]
                            ELSE recs[i]]
          /\ w' = MarkCompacted
          /\ pc' = "failed"
  /\ UNCHANGED <<safe, diskVars, group, snap, reissued, flips, misdeed, alarm>>

Snapshot ==
  /\ Begin /\ w.durable > 0
  /\ \E off \in 0 .. w.durable :
       LET top == IF off >= snap.top THEN off ELSE snap.top
           new == [snap EXCEPT !.top = top, !.bad = @ /\ top # off]
       IN \/ off > Len(recs) /\ Refused /\ UNCHANGED <<w, snap>>
          \/ /\ off <= Len(recs)
             /\ snap' = [new EXCEPT !.dur = top]
             /\ w' = [w EXCEPT !.snapshot = off]
             /\ pc' = "live" /\ alarm' = alarm
          \/ /\ off <= Len(recs)
             /\ snap' \in {snap, new, [new EXCEPT !.dur = top]}
             /\ pc' = "failed" /\ UNCHANGED <<w, alarm>>
  /\ UNCHANGED <<recs, safe, diskVars, group, reissued, flips, misdeed>>

\* One record through the cursor that outlives compactions and restarts; a
\* cursor that was lost is a new consumer.
Consume ==
  LET from  == IF w.reader = None THEN 0 ELSE w.reader
      seen  == w.delivered /\ w.reader # None
      ahead == {i \in DOMAIN recs : i > from /\ Present(recs[i])}
      here  == Min(ahead)
      fresh == [w EXCEPT !.reader = from, !.delivered = seen]
  IN /\ Begin
     /\ \/ ahead = {} /\ w' = fresh /\ pc' = "live" /\ alarm' = alarm
        \/ /\ ahead # {} /\ (recs[here].st = "bad" \/ Damaged(here))
           /\ w' = fresh /\ pc' = "failed" /\ alarm' = alarm
        \/ /\ ahead # {} /\ recs[here].st = "ok"
           /\ IF seen /\ here - 1 <= w.last
                THEN w' = fresh /\ pc' = "checked" /\ alarm' = "reader"
                ELSE /\ w' = [w EXCEPT !.reader = here, !.last = here - 1, !.delivered = TRUE]
                     /\ pc' = "live" /\ alarm' = alarm
     /\ UNCHANGED <<logVars, flips, misdeed>>

\* Mutant: the cursor is put back on the record it delivered last.
ResumesAtLast == w.last

\* The cursor resumes behind the record it delivered last.
ResumesAt == w.last + 1

\* A flip that rides on opening the commits file to compare its positions.  One
\* that rides on reading the snapshot does the same to the snapshot's check.
LateFlip ==
  {late \in BOOLEAN : late => LateFlips /\ flips < MaxFlips /\ ~ corrupted /\ group.pos # None}

\* A restart that is not a crash.  Whatever it lost, a flip must have cost: the
\* question is asked once, before the commits file is opened.  The newest
\* snapshot is not known if looking it up failed, and then not asked for; the
\* one a log here had, it still has.
Reopen ==
  /\ Begin
  /\ recs' = SubSeq(recs, 1, Recovered)
  /\ safe' = Min({safe, Recovered})
  /\ reissued' = IF FirstBad = {} THEN reissued ELSE Min({reissued, Recovered})
  /\ \E late \in LateFlip, before \in {Latest, None} :
       LET bad == group.bad \/ late
       IN \E pos \in Positions(bad) :
            /\ flips' = IF late THEN flips + 1 ELSE flips
            /\ group' = IF bad THEN [pos |-> pos, dur |-> pos, bad |-> FALSE] ELSE group
            /\ IF /\ ~ corrupted
                  /\ \/ Recovered < Len(recs)
                     \/ group.pos # None /\ pos # group.pos
                     \/ before # None /\ Latest < before
                 THEN pc' = "checked" /\ alarm' = "restart"
                 ELSE pc' = "live" /\ alarm' = alarm
  /\ w' = [w EXCEPT !.reader =
             IF w.delivered /\ ResumesAt <= Recovered THEN ResumesAt ELSE None]
  /\ UNCHANGED <<diskVars, snap, misdeed>>

\* An injected error while reopening, or damage the new log reports.
ReopenFails ==
  /\ Begin
  /\ w' = [w EXCEPT !.reader = None]
  /\ pc' = "failed"
  /\ UNCHANGED <<logVars, flips, misdeed, alarm>>

\* Mutant: a tail that went backwards leaves the witness as sure as before.
StillTrusted == w.trusted

\* Offsets above the lowest tail seen may have been given to other records.
Trusted == IF Len(recs) < w.tail THEN Min({w.trusted, Len(recs)}) ELSE w.trusted

\* The scan reads every record, and may fail on an injected error.  That its
\* offsets ascend within bounds is so of any recs here: what a cursor reads is
\* the subject of Compaction.
checkLive ==
  /\ pc = "live"
  /\ alarm' = CASE Len(recs) < w.tail /\ ~ corrupted -> "tail"
                [] w.commits > Len(recs) /\ ~ corrupted -> "commit"
                [] (\E i \in DOMAIN recs : recs[i].st = "bad") /\ ~ corrupted -> "scan"
                [] OTHER -> alarm
  /\ pc' \in IF alarm' = "none" THEN {"running", "failed"} ELSE {"checked"}
  /\ w' = [w EXCEPT !.trusted = Trusted, !.tail = Len(recs)]
  /\ UNCHANGED <<logVars, runVars>>

-----------------------------------------------------------------------------
(* Faults, and the end of a run. *)

\* A flip rides on any operation, those of checkLive and of Open included.
BitFlip ==
  /\ pc \in {"running", "live"} /\ flips < MaxFlips
  /\ flips' = flips + 1
  /\ \/ /\ \E i \in {j \in DOMAIN recs : recs[j].st = "ok"} : Drop({i}, "bad")
        /\ UNCHANGED <<group, snap>>
     \/ /\ group.pos # None
        /\ group' = [group EXCEPT !.bad = TRUE]
        /\ UNCHANGED <<recs, snap>>
     \/ /\ snap.top # None
        /\ snap' = [snap EXCEPT !.bad = TRUE]
        /\ UNCHANGED <<recs, group>>
  /\ UNCHANGED <<safe, diskVars, reissued, w, steps, pc, alarm, misdeed>>

\* The cursor ends with the run.
EndCursor == [w EXCEPT !.reader = None, !.last = None, !.delivered = FALSE]

\* The run is out of steps, or an error ended it.
Stop ==
  /\ pc \in {"running", "failed"}
  /\ pc' = "stopped"
  /\ w' = EndCursor
  /\ UNCHANGED <<logVars, runVars, alarm>>

\* A crash fault, between the operations of a step or within one.
Crash ==
  /\ pc \in {"running", "live", "failed"}
  /\ recs' = [i \in 1 .. safe |-> IF recs[i].st = "soft" THEN [recs[i] EXCEPT !.st = "ok"]
                                  ELSE recs[i]]
  /\ group' = [group EXCEPT !.pos = group.dur]
  /\ snap' = [snap EXCEPT !.top = snap.dur]
  /\ torn' = FALSE
  /\ pc' = "stopped"
  /\ w' = EndCursor
  /\ UNCHANGED <<safe, sealed, rolls, reissued, runVars, alarm>>

\* A log that breaks a promise the witness was given, once.
Misbehave ==
  /\ pc = "stopped" /\ misdeed = "none"
  /\ \/ /\ \E i \in 1 .. Min({w.durable, Len(recs), reissued}) :
             /\ recs[i].st = "ok"
             /\ \A j \in i + 1 .. Len(w.events) : w.events[j] # w.events[i]
             /\ Drop({i}, "gone")
        /\ misdeed' = "loses" /\ UNCHANGED <<group, snap>>
     \/ /\ \E n \in 0 .. w.durable - 1 : n < Len(recs) /\ recs' = SubSeq(recs, 1, n)
        /\ misdeed' = "loses" /\ UNCHANGED <<group, snap>>
     \/ /\ \E i \in 1 .. Min({w.durable, reissued}) :
             /\ Reads(i)
             /\ recs' = [recs EXCEPT ![i].ev = 0]
        /\ misdeed' = "alters" /\ UNCHANGED <<group, snap>>
     \/ /\ w.commits # None
        /\ \E pos \in (None .. MaxEvents) \ w.attempts :
             group' = [group EXCEPT !.pos = pos, !.bad = FALSE]
        /\ misdeed' = "uncommits" /\ UNCHANGED <<recs, snap>>
     \/ /\ w.snapshot # None
        /\ \E top \in None .. w.snapshot - 1 : snap' = [snap EXCEPT !.top = top]
        /\ misdeed' = "unsnaps" /\ UNCHANGED <<recs, group>>
     \/ /\ w.snapshot # None /\ snap.top = w.snapshot
        /\ snap' = [snap EXCEPT !.forged = TRUE]
        /\ misdeed' = "forges" /\ UNCHANGED <<recs, group>>
     \/ /\ Recovered > 0
        /\ misdeed' = "misnumbers" /\ UNCHANGED <<recs, group, snap>>
  /\ sealed' = Min({sealed, Len(recs')}) /\ safe' = Min({safe, Len(recs')})
  /\ UNCHANGED <<rolls, torn, reissued, w, flips, steps, pc, alarm>>

-----------------------------------------------------------------------------
(* check: what the disk must hold once it is opened again. *)

\* Mutant: a record supersedes itself.
SupersededBySelf(i) == \E j \in i .. Len(w.events) : w.events[j] = w.events[i]

supersededLater(i) == \E j \in i + 1 .. Len(w.events) : w.events[j] = w.events[i]

\* Mutant: a flip excuses a record that comes back as another.
WrongUnlessFlipped(i) == Reads(i) /\ recs[i].ev # i /\ ~ corrupted

Wrong(i) == Reads(i) /\ recs[i].ev # i

\* An unreadable record is excused by a flip, an absent one by a compaction
\* that something newer with its key was there for.
Lost(i) ==
  /\ ~ Reads(i) /\ ~ corrupted
  /\ ~ (w.compacted /\ supersededLater(i) /\ (i > Recovered \/ ~ Damaged(i)))

checkDurableRecords ==
  \E i \in 1 .. Min({w.durable, w.trusted}) : Lost(i) \/ Wrong(i)

\* The scan compares what it reads with what was appended, up to the first
\* damaged segment, where only a flip excuses it.
checkScan ==
  \E i \in 1 .. Recovered :
    /\ \A j \in 1 .. i - 1 : ~ Damaged(j)
    /\ \/ Damaged(i) /\ ~ corrupted
       \/ i <= Min({Len(w.events), w.trusted}) /\ Wrong(i)

\* Mutant: any position up to the committed one will do.
NotAhead(pos) == pos <= w.commits

attempted(pos) == pos \in w.attempts

checkGroups(pos) ==
  /\ w.commits # None /\ ~ corrupted
  /\ pos = None \/ ~ (pos = w.commits \/ attempted(pos)) \/ pos > Recovered

checkSnapshot ==
  /\ w.snapshot # None
  /\ CASE Latest = None       -> ~ corrupted
       [] Latest = w.snapshot -> snap.forged /\ ~ corrupted
       [] OTHER               -> Latest < w.snapshot

\* The offset of the first append after the run.
NextOffset == IF misdeed = "misnumbers" THEN Recovered - 1 ELSE Recovered

\* What opening discarded, half a record counting as one.
Discarded == Len(recs) - Recovered + (IF torn THEN 1 ELSE 0)

\* The append at the end may be refused, and that a flip excuses.
check ==
  /\ pc = "stopped"
  /\ \E pos \in Positions(group.bad), appended \in {TRUE, ~ corrupted} :
       alarm' = CASE ~ corrupted /\ FirstBad # {} -> "corruption"
                  [] ~ corrupted /\ Discarded > w.largest -> "discarded"
                  [] ~ corrupted /\ Recovered < w.durable -> "below durable"
                  [] checkDurableRecords -> "durable records"
                  [] checkScan -> "scan"
                  [] checkGroups(pos) -> "group"
                  [] checkSnapshot -> "snapshot"
                  [] appended /\ NextOffset # Recovered -> "append"
                  [] OTHER -> alarm
  /\ pc' = "checked"
  /\ UNCHANGED <<logVars, w, runVars>>

\* A log may refuse to open a damaged disk, and that is no failure.
RefusesToOpen ==
  /\ pc = "stopped" /\ corrupted
  /\ pc' = "refused"
  /\ UNCHANGED <<logVars, w, runVars, alarm>>

Next ==
  \/ Append_ \/ AppendFails \/ Sync \/ Commit \/ CompactAll \/ Snapshot
  \/ Consume \/ Reopen \/ ReopenFails \/ checkLive
  \/ BitFlip \/ Stop \/ Crash \/ Misbehave \/ check \/ RefusesToOpen

Spec == Init /\ [][Next]_vars

-----------------------------------------------------------------------------
(* Properties. *)

\* The type of every variable, and the truths that tie the log to its counters.
TypeOK ==
  /\ \A i \in DOMAIN recs : recs[i].st \in {"ok", "bad", "gone", "soft"}
  /\ sealed <= safe /\ safe <= Len(recs) /\ Len(recs) <= MaxEvents
  /\ group.pos \in None .. MaxEvents /\ snap.top \in None .. MaxEvents
  /\ w.durable <= Len(w.events) /\ w.trusted \in 0 .. MaxEvents
  /\ w.attempts \subseteq 0 .. MaxEvents /\ w.reader \in None .. MaxEvents
  /\ pc \in {"running", "live", "failed", "stopped", "checked", "refused"}

\* Unless a flip fires within the check that a restart makes of itself, none of
\* the assertions modelled here accuses a log that kept its promises: not one
\* that dropped what it compacted without being able to say so, kept a commit it
\* reported as failed, was truncated at a flipped bit and gave the offsets out
\* again, lost half a write, or lost a cursor with the records under it
\* (check.go: the invariants loosen "exactly as far as the faults that fired
\* require").
NoFalseAlarm == misdeed = "none" => alarm = "none"

\* With no flip to blame, a log that is short of an acknowledged record, the
\* newest of its key or everything above an offset, is always accused.
CatchesLoss == pc = "checked" /\ misdeed = "loses" /\ ~ corrupted => alarm # "none"

\* "A bit flip licenses a record being unreadable but never a record coming
\* back wrong" (check.go): an acknowledged record that reads back as another is
\* accused, whatever was flipped, truncated and given out again meanwhile.
CatchesWrongRecord == pc = "checked" /\ misdeed = "alters" => alarm # "none"

\* With no flip to blame, a group that resumes where nobody asked it to, or a
\* newest snapshot older than the acknowledged one, is always accused.
CatchesPositions ==
  pc = "checked" /\ misdeed \in {"uncommits", "unsnaps", "forges", "misnumbers"} /\ ~ corrupted
    => alarm # "none"

=============================================================================
