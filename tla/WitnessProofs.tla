---------------------------- MODULE WitnessProofs ----------------------------
(***************************************************************************)
(* Proofs about Witness, for every set of keys and every number of events, *)
(* steps and flips: the checks never accuse a log that kept its promises,  *)
(* and always accuse one that broke a promise they cover.                  *)
(***************************************************************************)
EXTENDS Witness, TLAPS

(***************************************************************************)
(* Only the facts about sets of numbers are used of it.                    *)
(***************************************************************************)
Numbers == INSTANCE RecordFileProofs WITH Events <- {}, Invalid <- 0

-----------------------------------------------------------------------------
(***************************************************************************)
(* The inductive invariant, in named parts.                                *)
(***************************************************************************)
Offs == None .. MaxEvents
Records == [ev : Nat, key : Keys, st : {"ok", "bad", "gone", "soft"}]
Witnesses ==
    [events : Seq(Keys), largest : Nat, durable : Nat, commits : Offs, attempts : SUBSET (0 .. MaxEvents),
     compacted : BOOLEAN, snapshot : Offs, tail : Nat, trusted : 0 .. MaxEvents,
     reader : Offs, last : Offs, delivered : BOOLEAN]

(***************************************************************************)
(* The types, whatever the log does.                                       *)
(***************************************************************************)
InvLog ==
    /\ recs \in Seq(Records) /\ safe \in Nat /\ sealed \in Nat
    /\ sealed <= safe /\ safe <= Len(recs) /\ Len(recs) <= MaxEvents
    /\ group \in [pos : Offs, dur : Offs, bad : BOOLEAN]
    /\ snap \in [top : Offs, dur : Offs, bad : BOOLEAN, forged : BOOLEAN]
    /\ reissued \in 0 .. MaxEvents
    /\ flips \in Nat

InvWitness ==
    /\ w \in Witnesses
    /\ Len(w.events) <= MaxEvents /\ w.durable <= Len(w.events)
    /\ w.attempts \subseteq 0 .. w.durable
    /\ w.commits # None => w.commits \in w.attempts
    /\ w.delivered /\ w.reader # None => w.reader = w.last + 1

(***************************************************************************)
(* Half a record is left only by a batch whose size the witness knows.     *)
(***************************************************************************)
InvTorn == torn \in BOOLEAN /\ w.largest \in Nat /\ (torn => w.largest > 0)

(***************************************************************************)
(* Where a run stands.  A log misbehaves only once its run has stopped,    *)
(* and an assertion that fires ends the checks.                            *)
(***************************************************************************)
Running == pc \in {"running", "live"}

InvRun ==
    /\ pc \in {"running", "live", "failed", "stopped", "checked", "refused"}
    /\ misdeed # "none" => pc \in {"stopped", "checked", "refused"}
    /\ alarm # "none" => pc = "checked"
    /\ Running => Len(recs) <= Len(w.events)

(***************************************************************************)
(* What the witness may trust under flips and truncations.  The tail that  *)
(* checkLive saw last is the tail; a record below the trusted offset is    *)
(* the one that was appended there; no offset below it was given out       *)
(* again; and the snapshot that returned last, or a newer one, is there.   *)
(***************************************************************************)
InvTrust ==
    misdeed = "none" =>
        /\ pc = "running" => w.tail = Len(recs)
        /\ Running =>
            \/ Len(recs) = Len(w.events)
            \/ w.trusted <= Len(recs)
            \/ pc = "live" /\ Len(recs) < w.tail
        /\ pc = "live" /\ Len(recs) < w.tail => reissued <= Len(recs)
        /\ reissued <= w.trusted
        /\ \A i \in 1 .. Len(recs) : i <= w.trusted => recs[i].ev = i
        /\ w.snapshot # None => w.snapshot <= snap.top /\ w.snapshot <= snap.dur

(***************************************************************************)
(* Before any flip: nothing is damaged, nothing acknowledged can be cut    *)
(* off, the log and the witness count alike, and what is missing was       *)
(* superseded and compacted.                                               *)
(***************************************************************************)
InvClean ==
    flips = 0 /\ misdeed = "none" =>
        /\ ~group.bad /\ ~snap.bad /\ ~snap.forged
        /\ \A i \in 1 .. Len(recs) : recs[i].st # "bad"
        /\ w.durable <= safe /\ w.trusted = MaxEvents
        /\ Running => Len(recs) = Len(w.events) /\ w.tail <= Len(recs)
        /\ w.commits # None => group.pos \in w.attempts /\ group.dur \in w.attempts
        /\ \A i \in 1 .. Len(recs) : i <= Len(w.events) => recs[i].key = w.events[i]
        /\ \A i \in 1 .. Len(recs) :
            recs[i].st # "ok" => w.compacted /\ supersededLater(i)

(***************************************************************************)
(* A log that misbehaved left evidence that the checks look at.            *)
(***************************************************************************)
InvEvidence ==
    pc = "stopped" =>
        /\ misdeed = "loses" /\ flips = 0 => Recovered < w.durable \/ checkDurableRecords
        /\ misdeed = "alters" => checkDurableRecords
        /\ misdeed = "uncommits" /\ flips = 0 =>
            w.commits # None /\ ~group.bad /\ group.pos \notin w.attempts
        /\ misdeed = "unsnaps" /\ flips = 0 =>
            w.snapshot # None /\ ~snap.bad /\ snap.top < w.snapshot
        /\ misdeed = "forges" /\ flips = 0 =>
            w.snapshot # None /\ ~snap.bad /\ snap.top = w.snapshot /\ snap.forged

(***************************************************************************)
(* The checks are fair when no flip fires inside the one a restart makes.  *)
(***************************************************************************)
Fair == ~LateFlips => NoFalseAlarm

Inv ==
    /\ InvLog /\ InvWitness /\ InvTorn /\ InvRun /\ InvTrust /\ InvClean /\ InvEvidence
    /\ Fair /\ CatchesLoss /\ CatchesWrongRecord /\ CatchesPositions

-----------------------------------------------------------------------------
USE WitnessAssumption

(***************************************************************************)
(* The smallest number of a set, of two and of three.                      *)
(***************************************************************************)
LEMMA MinFacts ==
    ASSUME NEW S, S \subseteq Nat, S # {}
    PROVE  Min(S) \in S /\ \A y \in S : Min(S) <= y
<1>1. \E m \in S : \A y \in S : m <= y
  BY Numbers!HasSmallest
<1> QED BY <1>1 DEF Min

LEMMA MinOfTwo ==
    ASSUME NEW a \in Nat, NEW b \in Nat
    PROVE  /\ Min({a, b}) \in {a, b}
           /\ Min({a, b}) <= a /\ Min({a, b}) <= b
BY MinFacts

LEMMA MinOfThree ==
    ASSUME NEW a \in Nat, NEW b \in Nat, NEW c \in Nat
    PROVE  /\ Min({a, b, c}) \in {a, b, c}
           /\ Min({a, b, c}) \in Nat
           /\ Min({a, b, c}) <= a /\ Min({a, b, c}) <= b /\ Min({a, b, c}) <= c
BY MinFacts

(***************************************************************************)
(* What opening leaves of a log: at least its sealed segments, and         *)
(* everything when nothing is damaged.                                     *)
(***************************************************************************)
LEMMA RecoveredFacts ==
    ASSUME InvLog
    PROVE  /\ Recovered \in Nat /\ sealed <= Recovered /\ Recovered <= Len(recs)
           /\ FirstBad = {} => Recovered = Len(recs)
           /\ FirstBad # {} => Recovered < Len(recs)
           /\ (\A i \in 1 .. Len(recs) : recs[i].st # "bad") => FirstBad = {}
<1>1. Len(recs) \in Nat /\ sealed \in Nat /\ sealed <= Len(recs)
  BY DEF InvLog
<1>2. FirstBad \subseteq sealed + 1 .. Len(recs)
  BY DEF FirstBad
<1>3. CASE FirstBad = {}
  BY <1>1, <1>3 DEF Recovered
<1>4. CASE FirstBad # {}
  <2>0. FirstBad \subseteq Nat
    BY <1>1, <1>2
  <2>1. Min(FirstBad) \in FirstBad
    BY <1>4, <2>0, MinFacts
  <2> QED BY <1>1, <1>2, <1>4, <2>1 DEF Recovered, FirstBad
<1> QED BY <1>3, <1>4, <1>1 DEF FirstBad

(***************************************************************************)
(* The records of a log that grew.                                         *)
(***************************************************************************)
LEMMA ConcatFacts ==
    ASSUME NEW S, NEW s \in Seq(S), NEW t \in Seq(S)
    PROVE  /\ s \o t \in Seq(S)
           /\ Len(s \o t) = Len(s) + Len(t)
           /\ \A j \in 1 .. Len(s) : (s \o t)[j] = s[j]
           /\ \A j \in Len(s) + 1 .. Len(s) + Len(t) : (s \o t)[j] = t[j - Len(s)]
<1>1. Len(s) \in Nat /\ Len(t) \in Nat
  OBVIOUS
<1> QED BY <1>1

LEMMA FunctionIsSeq ==
    ASSUME NEW S, NEW n \in Nat, NEW f \in [1 .. n -> S]
    PROVE  f \in Seq(S) /\ Len(f) = n
BY Numbers!SeqDef

LEMMA StoredFacts ==
    ASSUME InvLog, InvWitness, NEW b \in Batches
    PROVE  /\ b \in Seq(Keys) /\ Len(b) \in 1 .. 2
           /\ Len(w.events) + Len(b) <= MaxEvents
           /\ Stored(b) \in Seq(Records) /\ Len(Stored(b)) = Len(b)
           /\ \A i \in 1 .. Len(b) : Stored(b)[i] = Rec(Len(w.events) + i, b[i])
           /\ \A i \in 1 .. Len(b) : Rec(Len(w.events) + i, b[i]) \in Records
<1>1. PICK n \in 1 .. 2 : b \in [1 .. n -> Keys]
  BY DEF Batches
<1>2. b \in Seq(Keys) /\ Len(b) = n /\ DOMAIN b = 1 .. n
  BY <1>1, FunctionIsSeq
<1>3. Len(w.events) \in Nat
  BY DEF InvWitness, Witnesses
<1>4. \A i \in 1 .. n : Rec(Len(w.events) + i, b[i]) \in Records
  BY <1>1, <1>3 DEF Rec, Records
<1>5. Stored(b) \in [1 .. n -> Records]
  BY <1>2, <1>4 DEF Stored
<1>6. Stored(b) \in Seq(Records) /\ Len(Stored(b)) = n
  BY <1>5, FunctionIsSeq
<1> QED BY <1>2, <1>4, <1>6 DEF Stored, Batches

(***************************************************************************)
(* A log that grew by one batch, or by the part of it that was stored.     *)
(***************************************************************************)
LEMMA GrownFacts ==
    ASSUME InvLog, InvWitness, NEW b \in Batches, NEW t \in Seq(Records), Len(t) <= Len(b),
           \A i \in 1 .. Len(t) : t[i] = Stored(b)[i], recs' = recs \o t
    PROVE  /\ recs' \in Seq(Records) /\ Len(recs') = Len(recs) + Len(t)
           /\ \A j \in 1 .. Len(recs) : recs'[j] = recs[j]
           /\ \A j \in Len(recs) + 1 .. Len(recs) + Len(t) :
                /\ recs'[j].ev = Len(w.events) + (j - Len(recs))
                /\ recs'[j].key = b[j - Len(recs)]
                /\ recs'[j].st = "ok"
<1>1. /\ recs \in Seq(Records) /\ Len(recs) \in Nat /\ Len(w.events) \in Nat
      /\ Len(b) \in Nat /\ Len(t) \in Nat
      /\ \A i \in 1 .. Len(b) : Stored(b)[i] = Rec(Len(w.events) + i, b[i])
  BY StoredFacts, SMTT(30) DEF InvLog, InvWitness, Witnesses
<1>2. ASSUME NEW i \in 1 .. Len(t)
      PROVE  t[i].ev = Len(w.events) + i /\ t[i].key = b[i] /\ t[i].st = "ok"
  <2>1. i \in 1 .. Len(b) /\ t[i] = Rec(Len(w.events) + i, b[i])
    BY <1>1, SMTT(30)
  <2> QED BY <2>1 DEF Rec
<1>3. /\ recs' \in Seq(Records) /\ Len(recs') = Len(recs) + Len(t)
      /\ \A j \in 1 .. Len(recs) : recs'[j] = recs[j]
      /\ \A j \in Len(recs) + 1 .. Len(recs) + Len(t) : recs'[j] = t[j - Len(recs)]
  BY <1>1, ConcatFacts
<1>4. \A j \in Len(recs) + 1 .. Len(recs) + Len(t) : j - Len(recs) \in 1 .. Len(t)
  BY <1>1
<1> QED BY <1>2, <1>3, <1>4

(***************************************************************************)
(* A log that has not misbehaved leaves nothing to notice, and before the  *)
(* first flip it recovers all of itself.                                   *)
(***************************************************************************)
LEMMA InnocentStep ==
    ASSUME misdeed' = "none"
    PROVE  InvEvidence' /\ CatchesLoss' /\ CatchesWrongRecord' /\ CatchesPositions'
BY DEF InvEvidence, CatchesLoss, CatchesWrongRecord, CatchesPositions

LEMMA SameTorn ==
    ASSUME InvTorn, torn' = torn, w'.largest = w.largest
    PROVE  InvTorn'
BY DEF InvTorn

LEMMA CleanRecovers ==
    ASSUME InvLog, InvClean, flips = 0, misdeed = "none"
    PROVE  Recovered = Len(recs) /\ FirstBad = {}
BY RecoveredFacts DEF InvClean

LEMMA BeginFacts ==
    ASSUME Inv, Begin
    PROVE  /\ pc = "running" /\ misdeed = "none" /\ alarm = "none"
           /\ Len(recs) <= Len(w.events) /\ w.tail = Len(recs)
           /\ Len(recs) \in Nat /\ Len(w.events) \in Nat
BY DEF Inv, Begin, InvRun, InvTrust, Running, InvLog, InvWitness, Witnesses

-----------------------------------------------------------------------------
(***************************************************************************)
(* The steps of a run, one lemma for each action.                          *)
(***************************************************************************)
LEMMA AppendInv ==
    ASSUME Inv, Append_
    PROVE  Inv'
<1>0. InvLog /\ InvWitness /\ InvRun /\ InvTrust /\ InvClean /\ InvTorn
  BY DEF Inv
<1> USE <1>0
<1>1. PICK b \in Batches : recs' = recs \o Stored(b) /\ w' = [w EXCEPT !.events = @ \o b, !.largest = Largest(b)]
  BY DEF Append_
<1>2. /\ b \in Seq(Keys) /\ Len(b) \in 1 .. 2 /\ Len(w.events) + Len(b) <= MaxEvents
      /\ Stored(b) \in Seq(Records) /\ Len(Stored(b)) = Len(b)
      /\ \A i \in 1 .. Len(b) : Stored(b)[i] = Rec(Len(w.events) + i, b[i])
  BY StoredFacts
<1>3. /\ recs' \in Seq(Records) /\ Len(recs') = Len(recs) + Len(b)
      /\ \A j \in 1 .. Len(recs) : recs'[j] = recs[j]
      /\ \A j \in Len(recs) + 1 .. Len(recs) + Len(b) :
            /\ recs'[j].ev = Len(w.events) + (j - Len(recs))
            /\ recs'[j].key = b[j - Len(recs)]
            /\ recs'[j].st = "ok"
  <2>1. Len(Stored(b)) <= Len(b) /\ recs' = recs \o Stored(b)
    BY <1>1, <1>2
  <2>2. /\ recs' \in Seq(Records) /\ Len(recs') = Len(recs) + Len(Stored(b))
        /\ \A j \in 1 .. Len(recs) : recs'[j] = recs[j]
        /\ \A j \in Len(recs) + 1 .. Len(recs) + Len(Stored(b)) :
            /\ recs'[j].ev = Len(w.events) + (j - Len(recs))
            /\ recs'[j].key = b[j - Len(recs)]
            /\ recs'[j].st = "ok"
    BY <1>2, <2>1, GrownFacts
  <2> QED BY <1>2, <2>2
<1>4. /\ w'.events \in Seq(Keys) /\ Len(w'.events) = Len(w.events) + Len(b)
      /\ \A j \in 1 .. Len(w.events) : w'.events[j] = w.events[j]
      /\ \A j \in Len(w.events) + 1 .. Len(w.events) + Len(b) :
            w'.events[j] = b[j - Len(w.events)]
  <2>1. w'.events = w.events \o b /\ w.events \in Seq(Keys)
    BY <1>1 DEF InvWitness, Witnesses
  <2> QED BY <1>2, <2>1, ConcatFacts
<1>5. /\ pc = "running" /\ pc' = "live" /\ misdeed' = misdeed /\ flips' = flips
      /\ UNCHANGED <<group, snap, reissued, alarm>>
      /\ safe' \in {safe, Len(recs), Len(recs')}
      /\ sealed' = sealed \/ (sealed' = Len(recs) /\ Len(recs) <= safe')
  <2>1. pc = "running" /\ pc' = "live"
    BY DEF Append_, Begin
  <2>2. misdeed' = misdeed /\ flips' = flips /\ UNCHANGED <<group, snap, reissued, alarm>>
    BY DEF Append_
  <2>3. safe' \in {safe, Len(recs), Len(recs')}
    BY DEF Append_
  <2>4. sealed' \in {sealed} \cup {n \in {Len(recs)} : n <= safe'}
    BY DEF Append_
  <2>5. sealed' = sealed \/ (sealed' = Len(recs) /\ Len(recs) <= safe')
    BY <2>4
  <2> QED BY <2>1, <2>2, <2>3, <2>5
<1>6. /\ w' \in Witnesses /\ w'.largest \in Nat
      /\ w'.durable = w.durable /\ w'.commits = w.commits /\ w'.attempts = w.attempts
      /\ w'.compacted = w.compacted /\ w'.snapshot = w.snapshot /\ w'.tail = w.tail
      /\ w'.trusted = w.trusted /\ w'.reader = w.reader /\ w'.last = w.last
      /\ w'.delivered = w.delivered
  <2>1. Largest(b) \in Nat
    BY <1>2 DEF Largest, InvWitness, Witnesses
  <2> QED BY <1>1, <1>4, <2>1 DEF InvWitness, Witnesses
<1>7. misdeed = "none" /\ Len(recs) <= Len(w.events)
  BY <1>5 DEF InvRun, Running
<1>8. Len(recs) \in Nat /\ Len(w.events) \in Nat
  BY DEF InvLog, InvWitness, Witnesses
<1>11. InvLog'
  <2>1. safe \in Nat /\ sealed \in Nat /\ sealed <= safe /\ safe <= Len(recs)
    BY DEF InvLog
  <2>2. Len(b) \in Nat /\ Len(recs') <= MaxEvents
    BY <1>2, <1>3, <1>7, <1>8
  <2>3. /\ safe' \in Nat /\ sealed' \in Nat /\ sealed' <= safe' /\ safe' <= Len(recs')
    BY <1>3, <1>5, <1>8, <2>1, <2>2
  <2> QED BY <1>3, <1>5, <2>2, <2>3 DEF InvLog
<1>12. InvWitness'
  BY <1>2, <1>4, <1>6 DEF InvWitness, Witnesses
<1>13. InvRun'
  BY <1>3, <1>4, <1>5, <1>7, <1>8 DEF InvRun, Running
<1>14. InvTrust'
  <2>1. ASSUME NEW i \in 1 .. Len(recs'), i <= w'.trusted PROVE recs'[i].ev = i
    <3>1. CASE i \in 1 .. Len(recs)
      BY <1>3, <1>6, <1>7, <2>1, <3>1 DEF InvTrust
    <3>2. CASE i \in Len(recs) + 1 .. Len(recs) + Len(b)
      <4>1. recs'[i].ev = Len(w.events) + (i - Len(recs))
        BY <1>3, <3>2
      <4>2. Len(recs) = Len(w.events)
        <5>1. Len(recs) = Len(w.events) \/ w.trusted <= Len(recs)
          BY <1>5, <1>7 DEF InvTrust, Running
        <5>2. w.trusted \in Nat /\ i <= w.trusted
          BY <1>6, <2>1 DEF InvWitness, Witnesses
        <5> QED BY <1>2, <1>8, <3>2, <5>1, <5>2
      <4> QED BY <1>8, <4>1, <4>2
    <3> QED BY <1>2, <1>3, <1>8, <3>1, <3>2
  <2>2. /\ Len(recs') = Len(w'.events) \/ w'.trusted <= Len(recs')
        /\ w'.tail <= Len(recs')
    <3>1. /\ Len(recs) = Len(w.events) \/ w.trusted <= Len(recs)
          /\ w.tail = Len(recs)
      BY <1>5, <1>7 DEF InvTrust, Running
    <3>2. w.trusted \in Nat /\ Len(b) \in Nat
      BY <1>2 DEF InvWitness, Witnesses
    <3>3. /\ Len(recs') = Len(recs) + Len(b) /\ Len(w'.events) = Len(w.events) + Len(b)
          /\ w'.trusted = w.trusted /\ w'.tail = w.tail
      BY <1>3, <1>4, <1>6
    <3>4. CASE Len(recs) = Len(w.events)
      <4>1. Len(recs) <= Len(recs) + Len(b)
        BY <1>8, <3>2
      <4> QED BY <3>1, <3>3, <3>4, <4>1
    <3>5. CASE w.trusted <= Len(recs)
      <4>1. w.trusted <= Len(recs) + Len(b) /\ Len(recs) <= Len(recs) + Len(b)
        BY <1>8, <3>2, <3>5
      <4> QED BY <3>1, <3>3, <4>1
    <3> QED BY <3>1, <3>4, <3>5
  <2> QED BY <1>3, <1>5, <1>6, <1>7, <1>8, <2>1, <2>2 DEF InvTrust, Running, InvWitness, Witnesses
<1>15. InvClean'
  <2> SUFFICES ASSUME flips' = 0, misdeed' = "none"
               PROVE  InvClean'
    BY DEF InvClean
  <2>1. flips = 0 /\ misdeed = "none" /\ Len(recs) = Len(w.events)
    BY <1>5 DEF InvClean, Running
  <2>2. ASSUME NEW i \in 1 .. Len(recs')
        PROVE  /\ recs'[i].st # "bad"
               /\ i <= Len(w'.events) => recs'[i].key = w'.events[i]
               /\ recs'[i].st # "ok" => w'.compacted /\ supersededLater(i)'
    <3>1. CASE i \in 1 .. Len(recs)
      <4>1. supersededLater(i) => supersededLater(i)'
        <5> SUFFICES ASSUME supersededLater(i) PROVE supersededLater(i)'
          OBVIOUS
        <5>1. PICK j \in i + 1 .. Len(w.events) : w.events[j] = w.events[i]
          BY DEF supersededLater
        <5>2. i \in 1 .. Len(w.events) /\ j \in 1 .. Len(w.events)
          BY ONLY <1>8, <2>1, <3>1, <5>1
        <5>3. w'.events[j] = w'.events[i]
          BY ONLY <1>4, <5>1, <5>2
        <5>4. j \in i + 1 .. Len(w'.events)
          BY ONLY <1>2, <1>4, <1>8, <5>1, <5>2
        <5> QED BY <5>3, <5>4 DEF supersededLater
      <4> QED BY <1>3, <1>4, <1>6, <2>1, <3>1, <4>1 DEF InvClean
    <3>2. CASE i \in Len(recs) + 1 .. Len(recs) + Len(b)
      BY <1>2, <1>3, <1>4, <1>8, <2>1, <3>2
    <3> QED BY <1>2, <1>3, <1>8, <3>1, <3>2
  <2>3. w.durable \in Nat /\ safe \in Nat /\ safe <= Len(recs) /\ w.tail \in Nat
    BY DEF InvLog, InvWitness, Witnesses
  <2>4. /\ w'.durable <= safe' /\ Len(recs') = Len(w'.events) /\ w'.tail <= Len(recs')
        /\ w'.trusted = MaxEvents
    <3>1. w.durable <= safe /\ w.trusted = MaxEvents /\ w.tail <= Len(recs)
      BY <1>5, <2>1 DEF InvClean, Running
    <3>2. /\ Len(recs') = Len(recs) + Len(b) /\ Len(b) \in Nat
          /\ Len(w'.events) = Len(w.events) + Len(b)
      BY <1>2, <1>3, <1>4
    <3>3. safe <= safe'
      BY <1>5, <1>8, <2>3, <3>2
    <3>4. safe' \in Nat
      BY <1>5, <1>8, <2>3, <3>2
    <3>5. w'.durable <= safe'
      BY <1>6, <2>3, <3>1, <3>3, <3>4
    <3> QED BY <1>6, <1>8, <2>1, <2>3, <3>1, <3>2, <3>5
  <2>5. /\ ~group'.bad /\ ~snap'.bad /\ ~snap'.forged
        /\ w'.commits # None => group'.pos \in w'.attempts /\ group'.dur \in w'.attempts
    BY <1>5, <1>6, <2>1 DEF InvClean
  <2> QED BY <2>2, <2>4, <2>5 DEF InvClean
<1>16. /\ InvEvidence' /\ Fair'
       /\ CatchesLoss' /\ CatchesWrongRecord' /\ CatchesPositions'
  BY <1>5, <1>7, InnocentStep DEF Fair, NoFalseAlarm, InvRun
<1>17. InvTorn'
  <2>1. /\ torn \in BOOLEAN /\ torn' = torn /\ (torn => w.largest > 0)
        /\ w.largest \in Nat
    BY DEF Append_, InvTorn
  <2>2. w'.largest = Largest(b)
    BY <1>1 DEF InvWitness, Witnesses
  <2>3. w'.largest > 0
    BY <1>2, <2>1, <2>2 DEF Largest
  <2> QED BY <1>6, <2>1, <2>3 DEF InvTorn
<1> QED BY <1>17, <1>11, <1>12, <1>13, <1>14, <1>15, <1>16 DEF Inv

LEMMA AppendFailsInv ==
    ASSUME Inv, AppendFails
    PROVE  Inv'
<1>0. /\ InvLog /\ InvWitness /\ InvRun /\ InvTrust /\ InvClean /\ InvTorn
      /\ pc = "running" /\ misdeed = "none" /\ alarm = "none"
      /\ Len(recs) <= Len(w.events) /\ Len(recs) \in Nat /\ Len(w.events) \in Nat
  BY BeginFacts DEF Inv, AppendFails
<1>1a. PICK b \in Batches : \E stored \in 0 .. Len(b) : \E told \in 0 .. stored :
        /\ recs' = recs \o SubSeq(Stored(b), 1, stored)
        /\ torn' \in IF stored < Len(b) THEN BOOLEAN ELSE {FALSE}
        /\ w' = [w EXCEPT !.events = @ \o SubSeq(b, 1, told), !.largest = Largest(b)]
  BY DEF AppendFails
<1>1b. PICK stored \in 0 .. Len(b) : \E told \in 0 .. stored :
        /\ recs' = recs \o SubSeq(Stored(b), 1, stored)
        /\ torn' \in IF stored < Len(b) THEN BOOLEAN ELSE {FALSE}
        /\ w' = [w EXCEPT !.events = @ \o SubSeq(b, 1, told), !.largest = Largest(b)]
  BY <1>1a, Zenon
<1>1. PICK told \in 0 .. stored :
        /\ recs' = recs \o SubSeq(Stored(b), 1, stored)
        /\ torn' \in IF stored < Len(b) THEN BOOLEAN ELSE {FALSE}
        /\ w' = [w EXCEPT !.events = @ \o SubSeq(b, 1, told), !.largest = Largest(b)]
  BY <1>1b, Zenon
<1>2. /\ b \in Seq(Keys) /\ Len(b) \in Nat /\ Len(b) > 0 /\ Len(w.events) + Len(b) <= MaxEvents
      /\ Stored(b) \in Seq(Records) /\ Len(Stored(b)) = Len(b)
  <2>1. Len(b) \in 1 .. 2
    BY <1>0, StoredFacts
  <2>2. /\ b \in Seq(Keys) /\ Len(w.events) + Len(b) <= MaxEvents
        /\ Stored(b) \in Seq(Records) /\ Len(Stored(b)) = Len(b)
    BY <1>0, StoredFacts
  <2>3. Len(b) \in Nat /\ Len(b) > 0
    BY ONLY <2>1
  <2> QED BY ONLY <2>2, <2>3
<1>3. /\ recs' \in Seq(Records) /\ Len(recs') = Len(recs) + stored
      /\ \A j \in 1 .. Len(recs) : recs'[j] = recs[j]
      /\ \A j \in Len(recs) + 1 .. Len(recs) + stored :
            /\ recs'[j].ev = Len(w.events) + (j - Len(recs))
            /\ recs'[j].key = b[j - Len(recs)]
            /\ recs'[j].st = "ok"
  <2> DEFINE t == SubSeq(Stored(b), 1, stored)
  <2>1. /\ t \in Seq(Records) /\ Len(t) = stored /\ Len(t) <= Len(b)
        /\ \A i \in 1 .. Len(t) : t[i] = Stored(b)[i]
    BY <1>2
  <2>2. recs' = recs \o t
    BY <1>1
  <2> HIDE DEF t
  <2>3. /\ recs' \in Seq(Records) /\ Len(recs') = Len(recs) + Len(t)
        /\ \A j \in 1 .. Len(recs) : recs'[j] = recs[j]
        /\ \A j \in Len(recs) + 1 .. Len(recs) + Len(t) :
            /\ recs'[j].ev = Len(w.events) + (j - Len(recs))
            /\ recs'[j].key = b[j - Len(recs)]
            /\ recs'[j].st = "ok"
    BY <1>0, <2>1, <2>2, GrownFacts
  <2> QED BY <2>1, <2>3
<1>4. /\ w'.events \in Seq(Keys) /\ Len(w'.events) = Len(w.events) + told
      /\ \A j \in 1 .. Len(w.events) : w'.events[j] = w.events[j]
      /\ \A j \in Len(w.events) + 1 .. Len(w.events) + told :
            w'.events[j] = b[j - Len(w.events)]
  <2> DEFINE t == SubSeq(b, 1, told)
  <2>1. /\ t \in Seq(Keys) /\ Len(t) = told
        /\ \A i \in 1 .. told : t[i] = b[i]
    BY <1>2
  <2>2. w'.events = w.events \o t /\ w.events \in Seq(Keys)
    BY <1>0, <1>1 DEF InvWitness, Witnesses
  <2> HIDE DEF t
  <2>3. /\ w'.events \in Seq(Keys) /\ Len(w'.events) = Len(w.events) + Len(t)
        /\ \A j \in 1 .. Len(w.events) : w'.events[j] = w.events[j]
        /\ \A j \in Len(w.events) + 1 .. Len(w.events) + Len(t) :
            w'.events[j] = t[j - Len(w.events)]
    <3>1. t \in Seq(Keys) /\ w.events \in Seq(Keys)
      BY <2>1, <2>2
    <3>2. /\ w.events \o t \in Seq(Keys) /\ Len(w.events \o t) = Len(w.events) + Len(t)
          /\ \A j \in 1 .. Len(w.events) : (w.events \o t)[j] = w.events[j]
          /\ \A j \in Len(w.events) + 1 .. Len(w.events) + Len(t) :
                (w.events \o t)[j] = t[j - Len(w.events)]
      BY <3>1, ConcatFacts
    <3> QED BY <2>2, <3>2
  <2>4. \A j \in Len(w.events) + 1 .. Len(w.events) + told : j - Len(w.events) \in 1 .. told
    BY <1>0
  <2> QED BY <2>1, <2>3, <2>4
<1>5. /\ pc' = "failed" /\ misdeed' = misdeed /\ flips' = flips
      /\ UNCHANGED <<group, snap, reissued, alarm, safe, sealed>>
  BY DEF AppendFails
<1>6. /\ w' \in Witnesses
      /\ w'.durable = w.durable /\ w'.commits = w.commits /\ w'.attempts = w.attempts
      /\ w'.compacted = w.compacted /\ w'.snapshot = w.snapshot
      /\ w'.trusted = w.trusted /\ w'.reader = w.reader /\ w'.last = w.last
      /\ w'.delivered = w.delivered
  <2>1. Largest(b) \in Nat
    BY <1>0, <1>2 DEF Largest, InvWitness, Witnesses
  <2> QED BY <1>0, <1>1, <1>4, <2>1 DEF InvWitness, Witnesses
<1>7. InvTorn'
  <2>1. w'.largest = Largest(b) /\ w.largest \in Nat
    BY <1>0, <1>1 DEF InvWitness, Witnesses
  <2>2. w'.largest \in Nat /\ w'.largest > 0
    BY <1>2, <2>1 DEF Largest
  <2>3. torn' \in BOOLEAN
    BY <1>1
  <2> QED BY <2>2, <2>3 DEF InvTorn
<1>11. InvLog'
  <2>1. safe \in Nat /\ sealed \in Nat /\ sealed <= safe /\ safe <= Len(recs)
    BY <1>0 DEF InvLog
  <2>2. Len(recs') <= MaxEvents /\ safe <= Len(recs')
    BY <1>0, <1>2, <1>3, <2>1
  <2> QED BY <1>0, <1>3, <1>5, <2>1, <2>2 DEF InvLog
<1>12. InvWitness'
  BY <1>0, <1>2, <1>4, <1>6, SMTT(30) DEF InvWitness, Witnesses
<1>13. InvRun'
  BY <1>0, <1>5 DEF InvRun, Running
<1>14. InvTrust'
  <2>1. ASSUME NEW i \in 1 .. Len(recs'), i <= w'.trusted PROVE recs'[i].ev = i
    <3>1. CASE i \in 1 .. Len(recs)
      BY <1>0, <1>3, <1>6, <2>1, <3>1 DEF InvTrust
    <3>2. CASE i \in Len(recs) + 1 .. Len(recs) + stored
      <4>1. recs'[i].ev = Len(w.events) + (i - Len(recs))
        BY <1>3, <3>2
      <4>2. Len(recs) = Len(w.events)
        BY <1>0, <1>6, <2>1, <3>2 DEF InvTrust, Running, InvWitness, Witnesses
      <4> QED BY <1>0, <4>1, <4>2
    <3> QED BY <1>0, <1>3, <3>1, <3>2
  <2> QED BY <1>0, <1>5, <1>6, <2>1 DEF InvTrust, Running
<1>15. InvClean'
  <2> SUFFICES ASSUME flips' = 0, misdeed' = "none"
               PROVE  InvClean'
    BY DEF InvClean
  <2>1. flips = 0 /\ misdeed = "none" /\ Len(recs) = Len(w.events)
    BY <1>0, <1>5 DEF InvClean, Running
  <2>2. ASSUME NEW i \in 1 .. Len(recs')
        PROVE  /\ recs'[i].st # "bad"
               /\ i <= Len(w'.events) => recs'[i].key = w'.events[i]
               /\ recs'[i].st # "ok" => w'.compacted /\ supersededLater(i)'
    <3>1. CASE i \in 1 .. Len(recs)
      <4>1. supersededLater(i) => supersededLater(i)'
        <5>1. SUFFICES ASSUME NEW j \in i + 1 .. Len(w.events), w.events[j] = w.events[i]
                       PROVE  \E k \in i + 1 .. Len(w'.events) : w'.events[k] = w'.events[i]
          BY DEF supersededLater
        <5>2. j \in 1 .. Len(w.events) /\ j \in i + 1 .. Len(w'.events)
          BY <1>0, <1>4, <3>1
        <5>3. i \in 1 .. Len(w.events)
          BY <1>0, <2>1, <3>1
        <5>4. w'.events[j] = w'.events[i]
          BY <1>4, <5>1, <5>2, <5>3
        <5> QED BY <5>2, <5>4
      <4>2. recs'[i] = recs[i] /\ w'.events[i] = w.events[i] /\ i <= Len(w.events)
        BY <1>0, <1>3, <1>4, <2>1, <3>1
      <4>3. /\ recs[i].st # "bad" /\ recs[i].key = w.events[i]
            /\ recs[i].st # "ok" => w.compacted /\ supersededLater(i)
        BY <1>0, <2>1, <3>1, <4>2 DEF InvClean
      <4> QED BY <1>6, <4>1, <4>2, <4>3
    <3>2. CASE i \in Len(recs) + 1 .. Len(recs) + stored
      <4>1. recs'[i].st = "ok" /\ recs'[i].key = b[i - Len(recs)]
        BY <1>3, <3>2
      <4>2. i <= Len(w'.events) => i \in Len(w.events) + 1 .. Len(w.events) + told
        BY <1>0, <1>4, <2>1, <3>2
      <4>3. i <= Len(w'.events) => w'.events[i] = b[i - Len(recs)]
        BY <1>4, <2>1, <4>2
      <4> QED BY <4>1, <4>3
    <3> QED BY <1>0, <1>3, <3>1, <3>2
  <2>3. w'.durable <= safe' /\ w'.trusted = MaxEvents
    BY <1>0, <1>5, <1>6, <2>1 DEF InvClean
  <2>4. /\ ~group'.bad /\ ~snap'.bad /\ ~snap'.forged
        /\ w'.commits # None => group'.pos \in w'.attempts /\ group'.dur \in w'.attempts
    BY <1>0, <1>5, <1>6, <2>1 DEF InvClean
  <2> QED BY <1>5, <2>2, <2>3, <2>4 DEF InvClean, Running
<1> QED BY <1>0, <1>5, <1>7, <1>11, <1>12, <1>13, <1>14, <1>15, InnocentStep DEF Inv, Fair, NoFalseAlarm

(***************************************************************************)
(* Steps that leave the records and what was appended alone.               *)
(***************************************************************************)
LEMMA SameRecords ==
    ASSUME InvClean, flips = 0, misdeed = "none", recs' = recs, w'.events = w.events,
           w'.compacted = w.compacted
    PROVE  \A i \in 1 .. Len(recs') :
              /\ recs'[i].st # "bad"
              /\ i <= Len(w'.events) => recs'[i].key = w'.events[i]
              /\ recs'[i].st # "ok" => w'.compacted /\ supersededLater(i)'
BY DEF InvClean, supersededLater

LEMMA SyncInv ==
    ASSUME Inv, Sync
    PROVE  Inv'
<1>0. /\ InvLog /\ InvWitness /\ InvRun /\ InvTrust /\ InvClean /\ InvTorn
      /\ pc = "running" /\ misdeed = "none" /\ alarm = "none" /\ w.tail = Len(recs)
      /\ Len(recs) <= Len(w.events) /\ Len(recs) \in Nat /\ Len(w.events) \in Nat
  BY BeginFacts DEF Inv, Sync
<1>1. /\ UNCHANGED <<recs, sealed, torn, group, snap, reissued, flips, misdeed, alarm>>
      /\ \/ safe' = Len(recs) /\ w' = [w EXCEPT !.durable = Len(w.events)] /\ pc' = "live"
         \/ safe' = safe /\ w' = w /\ pc' = "failed"
  BY DEF Sync, diskVars
<1>2. /\ w' \in Witnesses
      /\ w'.largest = w.largest
      /\ w'.events = w.events /\ w'.commits = w.commits /\ w'.attempts = w.attempts
      /\ w'.compacted = w.compacted /\ w'.snapshot = w.snapshot /\ w'.tail = w.tail
      /\ w'.trusted = w.trusted /\ w'.reader = w.reader /\ w'.last = w.last
      /\ w'.delivered = w.delivered
      /\ \/ w'.durable = Len(w.events) /\ safe' = Len(recs)
         \/ w'.durable = w.durable /\ safe' = safe
  BY <1>0, <1>1 DEF InvWitness, Witnesses
<1>3. w'.durable \in Nat /\ w.durable \in Nat /\ w.durable <= w'.durable
  BY <1>0, <1>2 DEF InvWitness, Witnesses
<1>11. InvLog'
  BY <1>0, <1>1, <1>2 DEF InvLog
<1>12. InvWitness'
  <2>1. 0 .. w.durable \subseteq 0 .. w'.durable
    BY <1>3
  <2> QED BY <1>0, <1>2, <1>3, <2>1 DEF InvWitness
<1>13. InvRun'
  BY <1>0, <1>1, <1>2 DEF InvRun, Running
<1>14. InvTrust'
  BY <1>0, <1>1, <1>2 DEF InvTrust, Running
<1>15. InvClean'
  <2> SUFFICES ASSUME flips' = 0, misdeed' = "none"
               PROVE  InvClean'
    BY DEF InvClean
  <2>1. flips = 0 /\ Len(recs) = Len(w.events)
    BY <1>0, <1>1 DEF InvClean, Running
  <2>2. w'.durable <= safe' /\ w'.trusted = MaxEvents /\ w'.tail <= Len(recs)
    BY <1>0, <1>1, <1>2, <2>1 DEF InvClean
  <2> QED BY <1>0, <1>1, <1>2, <2>1, <2>2, SameRecords DEF InvClean
<1>16. InvTorn'
  BY <1>0, <1>1, <1>2, SameTorn
<1> QED BY <1>16, <1>0, <1>1, <1>11, <1>12, <1>13, <1>14, <1>15, InnocentStep DEF Inv, Fair, NoFalseAlarm

LEMMA CommitInv ==
    ASSUME Inv, Commit
    PROVE  Inv'
<1>0. /\ InvLog /\ InvWitness /\ InvRun /\ InvTrust /\ InvClean /\ InvTorn
      /\ pc = "running" /\ misdeed = "none" /\ alarm = "none" /\ w.tail = Len(recs)
      /\ Len(recs) <= Len(w.events) /\ Len(recs) \in Nat /\ Len(w.events) \in Nat
  BY BeginFacts DEF Inv, Commit
<1>1. /\ UNCHANGED <<recs, safe, sealed, torn, snap, reissued, flips, misdeed>>
      /\ w.durable > 0
  BY DEF Commit, diskVars
<1>2. PICK off \in 0 .. w.durable :
        \/ off > Len(recs) /\ w' = Attempt(off) /\ Refused /\ UNCHANGED group
        \/ /\ off <= Len(recs)
           /\ group' = [group EXCEPT !.pos = off, !.dur = off]
           /\ w' = [w EXCEPT !.attempts = @ \cup {off}, !.commits = off]
           /\ pc' = "live" /\ alarm' = alarm
        \/ /\ off <= Len(recs)
           /\ w' = Attempt(off)
           /\ group' \in {group, [group EXCEPT !.pos = off]}
           /\ pc' = "failed" /\ alarm' = alarm
  BY DEF Commit
<1>3. off \in 0 .. MaxEvents /\ w.durable \in Nat /\ off \in Offs
  BY <1>0 DEF InvWitness, Witnesses, Offs, None
<1>4. /\ w' \in Witnesses
      /\ w'.largest = w.largest
      /\ w'.events = w.events /\ w'.durable = w.durable
      /\ w'.attempts = w.attempts \cup {off}
      /\ w'.commits = w.commits \/ w'.commits = off
      /\ w'.compacted = w.compacted /\ w'.snapshot = w.snapshot /\ w'.tail = w.tail
      /\ w'.trusted = w.trusted /\ w'.reader = w.reader /\ w'.last = w.last
      /\ w'.delivered = w.delivered
  <2>1. w.attempts \cup {off} \in SUBSET (0 .. MaxEvents)
    BY <1>0, <1>3 DEF InvWitness, Witnesses
  <2>2. w' = Attempt(off) \/ w' = [w EXCEPT !.attempts = @ \cup {off}, !.commits = off]
    BY <1>2
  <2> QED BY <1>0, <1>3, <2>1, <2>2 DEF InvWitness, Witnesses, Attempt
<1>5. /\ group' \in [pos : Offs, dur : Offs, bad : BOOLEAN]
      /\ group'.bad = group.bad
      /\ group'.pos \in {group.pos, off}
      /\ \/ w'.commits = w.commits /\ group'.dur = group.dur
         \/ w'.commits = off /\ group'.dur = off /\ group'.pos = off
  <2>1. group \in [pos : Offs, dur : Offs, bad : BOOLEAN]
    BY <1>0 DEF InvLog
  <2>2. w' = Attempt(off) => w'.commits = w.commits
    BY <1>0 DEF InvWitness, Witnesses, Attempt
  <2>3. w' = [w EXCEPT !.attempts = @ \cup {off}, !.commits = off] => w'.commits = off
    BY <1>0 DEF InvWitness, Witnesses
  <2> QED BY <1>2, <1>3, <2>1, <2>2, <2>3
<1>6. /\ pc' \in {"live", "failed"} /\ alarm' = "none"
  <2>1. flips = 0 => off <= Len(recs)
    BY <1>0, <1>3 DEF InvClean, InvLog
  <2>2. Refused => (pc' = "live" /\ alarm' = "none") \/ flips = 0
    BY <1>0 DEF Refused, corrupted, InvLog
  <2> QED BY <1>0, <1>2, <1>3, <2>1, <2>2
<1>11. InvLog'
  BY <1>0, <1>1, <1>5 DEF InvLog
<1>12. InvWitness'
  BY <1>0, <1>3, <1>4 DEF InvWitness
<1>13. InvRun'
  BY <1>0, <1>1, <1>4, <1>6 DEF InvRun, Running
<1>14. InvTrust'
  BY <1>0, <1>1, <1>4, <1>6 DEF InvTrust, Running
<1>15. InvClean'
  <2> SUFFICES ASSUME flips' = 0, misdeed' = "none"
               PROVE  InvClean'
    BY DEF InvClean
  <2>1. flips = 0 /\ Len(recs) = Len(w.events)
    BY <1>0, <1>1 DEF InvClean, Running
  <2>2. w'.commits # None => group'.pos \in w'.attempts /\ group'.dur \in w'.attempts
    BY <1>0, <1>4, <1>5, <2>1 DEF InvClean
  <2> QED BY <1>0, <1>1, <1>4, <1>5, <1>6, <2>1, <2>2, SameRecords DEF InvClean, Running
<1>16. InvTorn'
  BY <1>0, <1>1, <1>4, SameTorn
<1> QED BY <1>16, <1>0, <1>1, <1>6, <1>11, <1>12, <1>13, <1>14, <1>15, InnocentStep DEF Inv, Fair, NoFalseAlarm
(***************************************************************************)
(* What dropping, damaging or losing records leaves.                       *)
(***************************************************************************)
LEMMA DropFacts ==
    ASSUME InvLog, NEW gone, NEW st \in {"ok", "bad", "gone", "soft"}, Drop(gone, st)
    PROVE  /\ recs' \in Seq(Records) /\ Len(recs') = Len(recs) /\ Len(recs) \in Nat
           /\ DOMAIN recs = 1 .. Len(recs)
           /\ \A i \in 1 .. Len(recs) :
                /\ recs'[i].ev = recs[i].ev /\ recs'[i].key = recs[i].key
                /\ i \notin gone => recs'[i] = recs[i]
                /\ i \in gone => recs'[i].st = st
<1>1. recs \in Seq(Records) /\ Len(recs) \in Nat /\ DOMAIN recs = 1 .. Len(recs)
  BY DEF InvLog
<1>2. ASSUME NEW i \in 1 .. Len(recs)
      PROVE  /\ recs[i] \in Records /\ [recs[i] EXCEPT !.st = st] \in Records
             /\ [recs[i] EXCEPT !.st = st].ev = recs[i].ev
             /\ [recs[i] EXCEPT !.st = st].key = recs[i].key
             /\ [recs[i] EXCEPT !.st = st].st = st
  <2>1. recs[i] \in Records
    BY <1>1
  <2> DEFINE r == recs[i]
  <2> HIDE DEF r
  <2>2. r \in Records
    BY <2>1 DEF r
  <2>3. /\ [r EXCEPT !.st = st] \in Records
        /\ [r EXCEPT !.st = st].ev = r.ev /\ [r EXCEPT !.st = st].key = r.key
        /\ [r EXCEPT !.st = st].st = st
    BY <2>2 DEF Records
  <2> QED BY <2>1, <2>3 DEF r
<1>3. recs' \in [1 .. Len(recs) -> Records]
  BY <1>1, <1>2 DEF Drop
<1>4. recs' \in Seq(Records) /\ Len(recs') = Len(recs)
  BY <1>1, <1>3, FunctionIsSeq
<1> QED BY <1>1, <1>2, <1>4 DEF Drop

LEMMA CompactAllInv ==
    ASSUME Inv, CompactAll
    PROVE  Inv'
<1>0. /\ InvLog /\ InvWitness /\ InvRun /\ InvTrust /\ InvClean /\ InvTorn
      /\ pc = "running" /\ misdeed = "none" /\ alarm = "none" /\ w.tail = Len(recs)
      /\ Len(recs) <= Len(w.events) /\ Len(recs) \in Nat /\ Len(w.events) \in Nat
  BY BeginFacts DEF Inv, CompactAll
<1>1. UNCHANGED <<safe, sealed, torn, group, snap, reissued, flips, misdeed, alarm>>
  BY DEF CompactAll, diskVars
<1>2. PICK gone \in SUBSET Droppable :
        /\ \/ Drop(gone, "gone")
           \/ \E soft \in SUBSET gone :
                recs' = [i \in DOMAIN recs |->
                           IF i \in gone
                             THEN [recs[i] EXCEPT !.st = IF i \in soft THEN "soft" ELSE "gone"]
                             ELSE recs[i]]
        /\ w' = [w EXCEPT !.compacted = TRUE]
        /\ pc' \in {"live", "failed"}
  BY DEF CompactAll, MarkCompacted
<1>3. /\ recs' \in Seq(Records) /\ Len(recs') = Len(recs)
      /\ \A i \in 1 .. Len(recs) :
            /\ recs'[i].ev = recs[i].ev /\ recs'[i].key = recs[i].key
            /\ i \notin gone => recs'[i] = recs[i]
            /\ i \in gone => recs'[i].st \in {"gone", "soft"}
  <2>1. CASE Drop(gone, "gone")
    <3>1. "gone" \in {"ok", "bad", "gone", "soft"}
      OBVIOUS
    <3> QED BY <1>0, <2>1, <3>1, DropFacts
  <2>2. ASSUME NEW soft,
               recs' = [i \in DOMAIN recs |->
                           IF i \in gone
                             THEN [recs[i] EXCEPT !.st = IF i \in soft THEN "soft" ELSE "gone"]
                             ELSE recs[i]]
        PROVE  /\ recs' \in Seq(Records) /\ Len(recs') = Len(recs)
               /\ \A i \in 1 .. Len(recs) :
                    /\ recs'[i].ev = recs[i].ev /\ recs'[i].key = recs[i].key
                    /\ i \notin gone => recs'[i] = recs[i]
                    /\ i \in gone => recs'[i].st \in {"gone", "soft"}
    <3>1. recs \in Seq(Records) /\ DOMAIN recs = 1 .. Len(recs)
      BY <1>0 DEF InvLog
    <3>2. ASSUME NEW r \in Records, NEW st \in {"gone", "soft"}
          PROVE  /\ [r EXCEPT !.st = st] \in Records
                 /\ [r EXCEPT !.st = st].ev = r.ev /\ [r EXCEPT !.st = st].key = r.key
                 /\ [r EXCEPT !.st = st].st = st
      BY <3>2 DEF Records
    <3>3. ASSUME NEW i \in 1 .. Len(recs)
          PROVE  /\ recs[i] \in Records /\ recs'[i] \in Records
                 /\ recs'[i].ev = recs[i].ev /\ recs'[i].key = recs[i].key
                 /\ i \notin gone => recs'[i] = recs[i]
                 /\ i \in gone => recs'[i].st \in {"gone", "soft"}
      <4> DEFINE q == recs[i]
                 st == IF i \in soft THEN "soft" ELSE "gone"
      <4>1. q \in Records /\ st \in {"gone", "soft"}
        BY <3>1
      <4>2. recs'[i] = IF i \in gone THEN [q EXCEPT !.st = st] ELSE q
        BY <2>2, <3>1
      <4>3. q = recs[i]
        OBVIOUS
      <4> HIDE DEF q, st
      <4>4. /\ [q EXCEPT !.st = st] \in Records
            /\ [q EXCEPT !.st = st].ev = q.ev /\ [q EXCEPT !.st = st].key = q.key
            /\ [q EXCEPT !.st = st].st = st
        BY <3>2, <4>1
      <4>5. CASE i \in gone
        <5> DEFINE z == [q EXCEPT !.st = st]
        <5>1. /\ recs'[i] = z /\ z \in Records /\ z.ev = q.ev /\ z.key = q.key /\ z.st = st
          BY <4>2, <4>4, <4>5
        <5> HIDE DEF z
        <5> QED BY <4>1, <4>3, <4>5, <5>1
      <4>6. CASE i \notin gone
        BY <4>1, <4>2, <4>3, <4>6
      <4> QED BY <4>5, <4>6
    <3>4. recs' \in [1 .. Len(recs) -> Records]
      BY <2>2, <3>1, <3>3
    <3>5. recs' \in Seq(Records) /\ Len(recs') = Len(recs)
      BY <1>0, <3>4, FunctionIsSeq
    <3> QED BY <3>3, <3>5
  <2> QED BY <1>2, <2>1, <2>2
<1>4. /\ w' \in Witnesses
      /\ w'.largest = w.largest
      /\ w'.events = w.events /\ w'.durable = w.durable /\ w'.commits = w.commits
      /\ w'.attempts = w.attempts /\ w'.snapshot = w.snapshot /\ w'.tail = w.tail
      /\ w'.trusted = w.trusted /\ w'.reader = w.reader /\ w'.last = w.last
      /\ w'.delivered = w.delivered /\ w'.compacted = TRUE
  BY <1>0, <1>2 DEF InvWitness, Witnesses
<1>11. InvLog'
  BY <1>0, <1>1, <1>3 DEF InvLog
<1>12. InvWitness'
  BY <1>0, <1>4 DEF InvWitness
<1>13. InvRun'
  BY <1>0, <1>1, <1>2, <1>3, <1>4 DEF InvRun, Running
<1>14. InvTrust'
  <2>1. \A i \in 1 .. Len(recs') : i <= w'.trusted => recs'[i].ev = i
    BY <1>0, <1>3, <1>4 DEF InvTrust
  <2>2. Len(recs) = Len(w.events) \/ w.trusted <= Len(recs)
    BY <1>0 DEF InvTrust, Running
  <2>3. /\ reissued <= w.trusted
        /\ w.snapshot # None => w.snapshot <= snap.top /\ w.snapshot <= snap.dur
    BY <1>0 DEF InvTrust
  <2> QED BY <1>0, <1>1, <1>2, <1>3, <1>4, <2>1, <2>2, <2>3 DEF InvTrust, Running
<1>15. InvClean'
  <2> SUFFICES ASSUME flips' = 0, misdeed' = "none"
               PROVE  InvClean'
    BY DEF InvClean
  <2>1. flips = 0 /\ Len(recs) = Len(w.events) /\ sealed \in Nat /\ sealed <= Len(recs)
    BY <1>0, <1>1 DEF InvClean, Running, InvLog
  <2>2. ASSUME NEW i \in 1 .. Len(recs')
        PROVE  /\ recs'[i].st # "bad"
               /\ i <= Len(w'.events) => recs'[i].key = w'.events[i]
               /\ recs'[i].st # "ok" => w'.compacted /\ supersededLater(i)'
    <3>0. i \in 1 .. Len(recs) /\ recs[i].key = w.events[i] /\ recs[i].st # "bad"
      BY <1>0, <1>3, <2>1 DEF InvClean
    <3>1. recs'[i].key = w'.events[i]
      BY <1>3, <1>4, <3>0
    <3>2. CASE i \in gone
      <4>1. PICK j \in i + 1 .. sealed : recs[j].key = recs[i].key
        BY <3>2 DEF Droppable
      <4>2. j \in i + 1 .. Len(w.events) /\ j \in 1 .. Len(recs)
        BY <1>0, <2>1, <3>0, <4>1
      <4>3. w.events[j] = w.events[i]
        BY <1>0, <2>1, <3>0, <4>1, <4>2 DEF InvClean
      <4>4. supersededLater(i)'
        BY <1>4, <4>2, <4>3 DEF supersededLater
      <4> QED BY <1>3, <1>4, <3>0, <3>1, <3>2, <4>4
    <3>3. CASE i \notin gone
      <4>1. recs'[i] = recs[i]
        BY <1>3, <3>0, <3>3
      <4>2. recs[i].st # "ok" => supersededLater(i)
        BY <1>0, <2>1, <3>0 DEF InvClean
      <4>3. supersededLater(i) => supersededLater(i)'
        BY <1>4 DEF supersededLater
      <4> QED BY <1>4, <3>0, <3>1, <4>1, <4>2, <4>3
    <3> QED BY <3>2, <3>3
  <2>3. w'.durable <= safe' /\ w'.trusted = MaxEvents /\ w'.tail <= Len(recs')
    BY <1>0, <1>1, <1>3, <1>4, <2>1 DEF InvClean
  <2>4. /\ ~group'.bad /\ ~snap'.bad /\ ~snap'.forged
        /\ w'.commits # None => group'.pos \in w'.attempts /\ group'.dur \in w'.attempts
    BY <1>0, <1>1, <1>4, <2>1 DEF InvClean
  <2> QED BY <1>3, <1>4, <2>1, <2>2, <2>3, <2>4 DEF InvClean
<1>16. InvTorn'
  BY <1>0, <1>1, <1>4, SameTorn
<1> QED BY <1>16, <1>0, <1>1, <1>11, <1>12, <1>13, <1>14, <1>15, InnocentStep DEF Inv, Fair, NoFalseAlarm

LEMMA SnapshotInv ==
    ASSUME Inv, Snapshot
    PROVE  Inv'
<1>0. /\ InvLog /\ InvWitness /\ InvRun /\ InvTrust /\ InvClean /\ InvTorn
      /\ pc = "running" /\ misdeed = "none" /\ alarm = "none" /\ w.tail = Len(recs)
      /\ Len(recs) <= Len(w.events) /\ Len(recs) \in Nat /\ Len(w.events) \in Nat
  BY BeginFacts DEF Inv, Snapshot
<1>1. /\ UNCHANGED <<recs, safe, sealed, torn, group, reissued, flips, misdeed>>
      /\ w.durable > 0
  BY DEF Snapshot, diskVars
<1>2. PICK off \in 0 .. w.durable :
        LET top == IF off >= snap.top THEN off ELSE snap.top
            new == [snap EXCEPT !.top = top, !.bad = @ /\ top # off]
        IN \/ off > Len(recs) /\ Refused /\ UNCHANGED <<w, snap>>
           \/ /\ off <= Len(recs)
              /\ snap' = [new EXCEPT !.dur = top]
              /\ w' = [w EXCEPT !.snapshot = off]
              /\ pc' = "live" /\ alarm' = alarm
           \/ /\ off <= Len(recs)
              /\ snap' \in {snap, new, [new EXCEPT !.dur = top]}
              /\ pc' = "failed" /\ UNCHANGED <<w, alarm>>
  BY DEF Snapshot
<1>3. off \in 0 .. MaxEvents /\ w.durable \in Nat /\ off \in Offs
  BY <1>0 DEF InvWitness, Witnesses, Offs, None
<1> DEFINE top == IF off >= snap.top THEN off ELSE snap.top
           new == [snap EXCEPT !.top = top, !.bad = @ /\ top # off]
<1>4. /\ snap \in [top : Offs, dur : Offs, bad : BOOLEAN, forged : BOOLEAN] /\ top \in Offs
      /\ snap.top <= top /\ off <= top /\ snap.top \in Int /\ snap.dur \in Int
  BY <1>0, <1>3 DEF InvLog, Offs, None
<1>5. /\ new \in [top : Offs, dur : Offs, bad : BOOLEAN, forged : BOOLEAN]
      /\ new.top = top /\ new.dur = snap.dur /\ (new.bad => snap.bad)
      /\ new.forged = snap.forged /\ [new EXCEPT !.dur = top].forged = new.forged
      /\ [new EXCEPT !.dur = top] \in [top : Offs, dur : Offs, bad : BOOLEAN, forged : BOOLEAN]
      /\ [new EXCEPT !.dur = top].top = top /\ [new EXCEPT !.dur = top].dur = top
      /\ [new EXCEPT !.dur = top].bad = new.bad
  <2> HIDE DEF top
  <2> QED BY <1>4
<1>6. /\ snap' \in [top : Offs, dur : Offs, bad : BOOLEAN, forged : BOOLEAN]
      /\ (snap'.bad => snap.bad) /\ (snap'.forged => snap.forged)
      /\ snap.top <= snap'.top
      /\ snap'.dur = snap.dur \/ snap'.dur = top
      /\ \/ w' = w
         \/ w' = [w EXCEPT !.snapshot = off] /\ snap'.top = top /\ snap'.dur = top
  <2>1. snap' \in {snap, new, [new EXCEPT !.dur = top]}
    BY <1>2
  <2>2. w' = w \/ (w' = [w EXCEPT !.snapshot = off] /\ snap' = [new EXCEPT !.dur = top])
    BY <1>2
  <2> HIDE DEF new, top
  <2> QED BY <1>4, <1>5, <2>1, <2>2
<1>7. /\ pc' \in {"live", "failed"} /\ alarm' = "none"
  <2>1. flips = 0 => off <= Len(recs)
    BY <1>0, <1>3 DEF InvClean, InvLog
  <2>2. Refused => (pc' = "live" /\ alarm' = "none") \/ flips = 0
    BY <1>0 DEF Refused, corrupted, InvLog
  <2> QED BY <1>0, <1>2, <1>3, <2>1, <2>2
<1>8. /\ w' \in Witnesses
      /\ w'.largest = w.largest
      /\ w'.events = w.events /\ w'.durable = w.durable /\ w'.commits = w.commits
      /\ w'.attempts = w.attempts /\ w'.compacted = w.compacted /\ w'.tail = w.tail
      /\ w'.trusted = w.trusted /\ w'.reader = w.reader /\ w'.last = w.last
      /\ w'.delivered = w.delivered
      /\ w'.snapshot = w.snapshot \/ (w'.snapshot = off /\ snap'.top = top /\ snap'.dur = top)
      /\ w.snapshot \in Int
  <2> HIDE DEF top, new
  <2>1. w.snapshot \in Offs
    BY <1>0 DEF InvWitness, Witnesses
  <2>2. w.snapshot \in Int
    BY <2>1 DEF Offs, None
  <2>3. CASE w' = w
    BY <1>0, <2>2, <2>3 DEF InvWitness
  <2>4. CASE w' = [w EXCEPT !.snapshot = off] /\ snap'.top = top /\ snap'.dur = top
    BY <1>0, <1>3, <2>2, <2>4 DEF InvWitness, Witnesses
  <2> QED BY <1>6, <2>3, <2>4
<1> HIDE DEF top, new
<1>11. InvLog'
  BY <1>0, <1>1, <1>6 DEF InvLog
<1>12. InvWitness'
  BY <1>0, <1>8 DEF InvWitness
<1>13. InvRun'
  BY <1>0, <1>1, <1>7, <1>8 DEF InvRun, Running
<1>14. InvTrust'
  <2>1. w'.snapshot # None => w'.snapshot <= snap'.top /\ w'.snapshot <= snap'.dur
    <3>1. top \in Int /\ snap'.top \in Int /\ snap'.dur \in Int
      BY <1>4, <1>6 DEF Offs, None
    <3>2. CASE w'.snapshot = w.snapshot /\ w.snapshot # None
      <4>1. w.snapshot <= snap.top /\ w.snapshot <= snap.dur
        BY <1>0, <3>2 DEF InvTrust
      <4> QED BY <1>4, <1>6, <1>8, <3>1, <3>2, <4>1
    <3>3. CASE w'.snapshot = off /\ snap'.top = top /\ snap'.dur = top
      BY <1>4, <3>3
    <3> QED BY <1>8, <3>2, <3>3
  <2> QED BY <1>0, <1>1, <1>7, <1>8, <2>1 DEF InvTrust, Running
<1>15. InvClean'
  <2> SUFFICES ASSUME flips' = 0, misdeed' = "none"
               PROVE  InvClean'
    BY DEF InvClean
  <2>1. flips = 0 /\ Len(recs) = Len(w.events)
    BY <1>0, <1>1 DEF InvClean, Running
  <2> QED BY <1>0, <1>1, <1>6, <1>8, <2>1, SameRecords DEF InvClean
<1>16. InvTorn'
  BY <1>0, <1>1, <1>8, SameTorn
<1> QED BY <1>16, <1>0, <1>1, <1>7, <1>11, <1>12, <1>13, <1>14, <1>15, InnocentStep DEF Inv, Fair, NoFalseAlarm

(***************************************************************************)
(* Steps that move the cursor and nothing else of the log or the witness.  *)
(***************************************************************************)
SameButCursor ==
    /\ w' \in Witnesses /\ w'.largest = w.largest
    /\ w'.events = w.events /\ w'.durable = w.durable /\ w'.commits = w.commits
    /\ w'.attempts = w.attempts /\ w'.compacted = w.compacted
    /\ w'.snapshot = w.snapshot /\ w'.tail = w.tail /\ w'.trusted = w.trusted
    /\ w'.delivered /\ w'.reader # None => w'.reader = w'.last + 1

LEMMA CursorInv ==
    ASSUME Inv, Begin, SameButCursor, UNCHANGED <<logVars, flips, misdeed>>,
           alarm' = "none", pc' \in {"live", "failed"}
    PROVE  Inv'
<1>0. /\ InvLog /\ InvWitness /\ InvRun /\ InvTrust /\ InvClean /\ InvTorn
      /\ pc = "running" /\ misdeed = "none" /\ alarm = "none" /\ w.tail = Len(recs)
      /\ Len(recs) <= Len(w.events) /\ Len(recs) \in Nat /\ Len(w.events) \in Nat
  BY BeginFacts DEF Inv
<1>1. UNCHANGED <<recs, safe, sealed, torn, group, snap, reissued, flips, misdeed>>
  BY DEF logVars, diskVars
<1>11. InvLog'
  BY <1>0, <1>1 DEF InvLog
<1>12. InvWitness'
  BY <1>0 DEF InvWitness, SameButCursor
<1>13. InvRun'
  BY <1>0, <1>1 DEF InvRun, Running, SameButCursor
<1>14. InvTrust'
  BY <1>0, <1>1 DEF InvTrust, Running, SameButCursor
<1>15. InvClean'
  <2> SUFFICES ASSUME flips' = 0, misdeed' = "none"
               PROVE  InvClean'
    BY DEF InvClean
  <2>1. flips = 0 /\ Len(recs) = Len(w.events)
    BY <1>0, <1>1 DEF InvClean, Running
  <2> QED BY <1>0, <1>1, <2>1, SameRecords DEF InvClean, SameButCursor
<1>16. InvTorn'
  BY <1>0, <1>1, SameTorn DEF SameButCursor
<1> QED BY <1>16, <1>0, <1>1, <1>11, <1>12, <1>13, <1>14, <1>15, InnocentStep DEF Inv, Fair, NoFalseAlarm

LEMMA ConsumeInv ==
    ASSUME Inv, Consume
    PROVE  Inv'
<1> DEFINE from  == IF w.reader = None THEN 0 ELSE w.reader
           seen  == w.delivered /\ w.reader # None
           ahead == {i \in DOMAIN recs : i > from /\ Present(recs[i])}
           here  == Min(ahead)
           fresh == [w EXCEPT !.reader = from, !.delivered = seen]
<1>0. /\ InvLog /\ InvWitness /\ Begin /\ alarm = "none"
      /\ UNCHANGED <<logVars, flips, misdeed>>
      /\ Len(recs) \in Nat /\ DOMAIN recs = 1 .. Len(recs) /\ Len(recs) <= MaxEvents
  BY BeginFacts DEF Inv, Consume, InvLog
<1>1. \/ w' = fresh /\ pc' \in {"live", "failed"} /\ alarm' = alarm
      \/ ahead # {} /\ seen /\ here - 1 <= w.last
      \/ /\ ahead # {} /\ w' = [w EXCEPT !.reader = here, !.last = here - 1, !.delivered = TRUE]
         /\ pc' = "live" /\ alarm' = alarm
  BY DEF Consume
<1>2. /\ w \in Witnesses /\ from \in 0 .. MaxEvents /\ from \in Offs /\ seen \in BOOLEAN
      /\ w.last \in Int
      /\ seen => from = w.last + 1
  BY <1>0 DEF InvWitness, Witnesses, Offs, None
<1>3. ahead # {} => here \in 1 .. Len(recs) /\ here > from
  <2>1. ahead \subseteq Nat
    BY <1>0
  <2> QED BY <1>0, <2>1, MinFacts
<1>5. ~(ahead # {} /\ seen /\ here - 1 <= w.last)
  BY <1>2, <1>3
<1>6. CASE w' = fresh /\ pc' \in {"live", "failed"} /\ alarm' = alarm
  <2>1. SameButCursor
    <3> HIDE DEF from, seen
    <3>1. w'.reader = from /\ w'.last = w.last /\ w'.delivered = seen
      BY <1>2, <1>6 DEF Witnesses
    <3> QED BY <1>2, <1>6, <3>1 DEF SameButCursor, Witnesses
  <2> QED BY <1>0, <1>6, <2>1, CursorInv
<1>7. CASE /\ ahead # {} /\ w' = [w EXCEPT !.reader = here, !.last = here - 1, !.delivered = TRUE]
           /\ pc' = "live" /\ alarm' = alarm
  <2>1. SameButCursor
    <3>0. here \in Int /\ here \in Offs /\ here - 1 \in Offs
      BY <1>0, <1>3, <1>7 DEF Offs, None
    <3> HIDE DEF from, seen, fresh, ahead, here
    <3>1. w' = [w EXCEPT !.reader = here, !.last = here - 1, !.delivered = TRUE]
      BY <1>7
    <3>2. /\ w' \in Witnesses /\ w'.largest = w.largest
          /\ w'.reader = here /\ w'.last = here - 1
          /\ w'.events = w.events /\ w'.durable = w.durable /\ w'.commits = w.commits
          /\ w'.attempts = w.attempts /\ w'.compacted = w.compacted
          /\ w'.snapshot = w.snapshot /\ w'.tail = w.tail /\ w'.trusted = w.trusted
      BY <1>2, <3>0, <3>1 DEF Witnesses
    <3> QED BY <3>0, <3>2 DEF SameButCursor
  <2> QED BY <1>0, <1>7, <2>1, CursorInv
<1> QED BY <1>1, <1>5, <1>6, <1>7

LEMMA ReopenFailsInv ==
    ASSUME Inv, ReopenFails
    PROVE  Inv'
<1>1. /\ w' = [w EXCEPT !.reader = None] /\ w \in Witnesses /\ None \in Offs
      /\ Begin /\ alarm = "none"
  BY BeginFacts DEF ReopenFails, Inv, InvWitness, Offs, None
<1>2. SameButCursor
  BY <1>1 DEF SameButCursor, Witnesses
<1>3. UNCHANGED <<logVars, flips, misdeed>> /\ alarm' = "none" /\ pc' \in {"live", "failed"}
  BY <1>1 DEF ReopenFails
<1> QED BY <1>1, <1>2, <1>3, CursorInv

LEMMA ReopenInv ==
    ASSUME Inv, Reopen
    PROVE  Inv'
<1>0. /\ InvLog /\ InvWitness /\ InvRun /\ InvTrust /\ InvClean /\ InvTorn
      /\ pc = "running" /\ misdeed = "none" /\ alarm = "none" /\ w.tail = Len(recs)
      /\ Len(recs) <= Len(w.events) /\ Len(recs) \in Nat /\ Len(w.events) \in Nat
  BY BeginFacts DEF Inv, Reopen
<1>1. /\ Recovered \in Nat /\ sealed <= Recovered /\ Recovered <= Len(recs)
      /\ FirstBad = {} => Recovered = Len(recs)
      /\ FirstBad # {} => Recovered < Len(recs)
      /\ flips = 0 => FirstBad = {}
  BY <1>0, RecoveredFacts, CleanRecovers
<1>2. /\ UNCHANGED <<sealed, torn, snap, misdeed>>
      /\ recs' = SubSeq(recs, 1, Recovered)
      /\ safe' = Min({safe, Recovered})
      /\ reissued' = IF FirstBad = {} THEN reissued ELSE Min({reissued, Recovered})
  BY DEF Reopen, diskVars
<1>3. /\ recs' \in Seq(Records) /\ Len(recs') = Recovered
      /\ \A i \in 1 .. Recovered : recs'[i] = recs[i]
  <2>1. recs \in Seq(Records)
    BY <1>0 DEF InvLog
  <2> QED BY <1>0, <1>1, <1>2, <2>1
<1>4a. PICK late \in LateFlip, before \in {Latest, None} :
        \E pos \in Positions(group.bad \/ late) :
          /\ flips' = IF late THEN flips + 1 ELSE flips
          /\ group' = IF group.bad \/ late THEN [pos |-> pos, dur |-> pos, bad |-> FALSE]
                      ELSE group
          /\ IF /\ ~ corrupted
                /\ \/ Recovered < Len(recs)
                   \/ group.pos # None /\ pos # group.pos
                   \/ before # None /\ Latest < before
               THEN pc' = "checked" /\ alarm' = "restart"
               ELSE pc' = "live" /\ alarm' = alarm
  BY DEF Reopen
<1>4. PICK pos \in Positions(group.bad \/ late) :
          /\ flips' = IF late THEN flips + 1 ELSE flips
          /\ group' = IF group.bad \/ late THEN [pos |-> pos, dur |-> pos, bad |-> FALSE]
                      ELSE group
          /\ IF /\ ~ corrupted
                /\ \/ Recovered < Len(recs)
                   \/ group.pos # None /\ pos # group.pos
                   \/ before # None /\ Latest < before
               THEN pc' = "checked" /\ alarm' = "restart"
               ELSE pc' = "live" /\ alarm' = alarm
  BY <1>4a
<1>4b. /\ late \in BOOLEAN /\ (late => LateFlips) /\ flips \in Nat
       /\ flips' \in Nat /\ (late => flips' # 0) /\ (~late => flips' = flips)
  BY <1>0, <1>4 DEF LateFlip, InvLog
<1>5. \/ pc' = "live" /\ alarm' = "none"
      \/ late /\ pc' = "checked"
  <2>1. CASE flips = 0 /\ ~late
    <3>1. Recovered = Len(recs) /\ ~group.bad
      BY <1>0, <1>1, <2>1 DEF InvClean
    <3>2. pos = group.pos
      BY <2>1, <3>1 DEF Positions
    <3>3. Latest \in Int
      BY <1>0 DEF InvLog, Latest, Offs, None
    <3>4. ~(before # None /\ Latest < before)
      BY <3>3
    <3> QED BY <1>0, <1>4, <3>1, <3>2, <3>4
  <2>2. CASE flips # 0
    BY <1>0, <1>4, <2>2 DEF corrupted, InvLog
  <2>3. CASE late
    BY <1>0, <1>4, <2>3
  <2> QED BY <1>4b, <2>1, <2>2, <2>3
<1>6. group' \in [pos : Offs, dur : Offs, bad : BOOLEAN] /\ (~group.bad /\ ~late => group' = group)
  <2>1. /\ group \in [pos : Offs, dur : Offs, bad : BOOLEAN]
        /\ w.attempts \subseteq 0 .. MaxEvents
    BY <1>0 DEF InvLog, InvWitness, Witnesses
  <2>2. pos \in Offs
    BY <2>1 DEF Positions, Offs, None
  <2> QED BY <1>4, <2>1, <2>2
<1>7. /\ safe \in Nat /\ sealed \in Nat /\ sealed <= safe /\ safe <= Len(recs)
      /\ safe' \in Nat /\ sealed' <= safe' /\ safe' <= Recovered
      /\ safe' \in {safe, Recovered}
  <2>1. safe \in Nat /\ sealed \in Nat /\ sealed <= safe /\ safe <= Len(recs)
    BY <1>0 DEF InvLog
  <2> QED BY <1>1, <1>2, <2>1, MinOfTwo
<1>8. /\ reissued \in 0 .. MaxEvents /\ reissued' \in 0 .. MaxEvents /\ reissued' <= reissued
      /\ FirstBad # {} => reissued' <= Recovered
  <2>1. reissued \in 0 .. MaxEvents /\ reissued \in Nat /\ Len(recs) <= MaxEvents
    BY <1>0 DEF InvLog
  <2> QED BY <1>0, <1>1, <1>2, <2>1, MinOfTwo
<1>9. /\ w' \in Witnesses /\ w'.largest = w.largest
      /\ w'.events = w.events /\ w'.durable = w.durable /\ w'.commits = w.commits
      /\ w'.attempts = w.attempts /\ w'.compacted = w.compacted
      /\ w'.snapshot = w.snapshot /\ w'.tail = w.tail /\ w'.trusted = w.trusted
      /\ w'.delivered = w.delivered /\ w'.last = w.last
      /\ w'.reader = None \/ w'.reader = w.last + 1
  <2> DEFINE rd == IF w.delivered /\ ResumesAt <= Recovered THEN ResumesAt ELSE None
  <2>1. w' = [w EXCEPT !.reader = rd] /\ w \in Witnesses
    BY <1>0 DEF Reopen, InvWitness
  <2>2. rd \in Offs /\ (rd = None \/ rd = w.last + 1)
    <3>1. w.last \in Offs /\ Recovered <= MaxEvents
      BY <1>0, <1>1, <2>1 DEF Witnesses, InvLog
    <3> QED BY <1>1, <3>1 DEF Offs, None, ResumesAt
  <2> HIDE DEF rd
  <2> QED BY <2>1, <2>2 DEF Witnesses
<1>11. InvLog'
  BY <1>0, <1>1, <1>2, <1>3, <1>4b, <1>6, <1>7, <1>8 DEF InvLog
<1>12. InvWitness'
  BY <1>0, <1>9 DEF InvWitness
<1>13. InvRun'
  BY <1>0, <1>1, <1>2, <1>3, <1>5, <1>9 DEF InvRun, Running
<1>14. InvTrust'
  <2>1. w.trusted \in Nat /\ w.trusted \in 0 .. MaxEvents /\ reissued <= w.trusted
    BY <1>0 DEF InvWitness, Witnesses, InvTrust
  <2>2. \A i \in 1 .. Len(recs') : i <= w'.trusted => recs'[i].ev = i
    BY <1>0, <1>1, <1>3, <1>9 DEF InvTrust
  <2>3. reissued' <= w'.trusted
    BY <1>8, <1>9, <2>1
  <2>4. \/ Len(recs') = Len(w'.events)
        \/ w'.trusted <= Len(recs')
        \/ Len(recs') < w'.tail
    BY <1>0, <1>1, <1>3, <1>9 DEF InvTrust, Running
  <2>5. Len(recs') < w'.tail => reissued' <= Len(recs')
    BY <1>0, <1>1, <1>3, <1>8, <1>9
  <2>6. pc' # "running" /\ (Running' => pc' = "live")
    BY <1>5 DEF Running
  <2> QED BY <1>0, <1>2, <1>9, <2>2, <2>3, <2>4, <2>5, <2>6 DEF InvTrust
<1>15. InvClean'
  <2> SUFFICES ASSUME flips' = 0, misdeed' = "none"
               PROVE  InvClean'
    BY DEF InvClean
  <2>1. /\ flips = 0 /\ Len(recs) = Len(w.events) /\ Recovered = Len(recs)
        /\ ~group.bad /\ ~late
    BY <1>0, <1>1, <1>2, <1>4b DEF InvClean, Running
  <2>2. ASSUME NEW i \in 1 .. Len(recs')
        PROVE  /\ recs'[i].st # "bad"
               /\ i <= Len(w'.events) => recs'[i].key = w'.events[i]
               /\ recs'[i].st # "ok" => w'.compacted /\ supersededLater(i)'
    BY <1>0, <1>3, <1>9, <2>1 DEF InvClean, supersededLater
  <2>3. w.durable <= safe /\ w.durable <= Recovered /\ w.trusted = MaxEvents
    BY <1>0, <1>7, <2>1 DEF InvClean, InvWitness, Witnesses
  <2>4. w'.durable <= safe'
    BY <1>7, <1>9, <2>3
  <2>5. /\ ~group'.bad /\ ~snap'.bad /\ ~snap'.forged
        /\ w'.commits # None => group'.pos \in w'.attempts /\ group'.dur \in w'.attempts
    BY <1>0, <1>2, <1>6, <1>9, <2>1 DEF InvClean
  <2> QED BY <1>0, <1>3, <1>9, <2>1, <2>2, <2>3, <2>4, <2>5 DEF InvClean
<1>16. InvTorn'
  BY <1>0, <1>2, <1>9, SameTorn
<1>17. Fair'
  BY <1>4b, <1>5 DEF Fair, NoFalseAlarm
<1> QED BY <1>0, <1>2, <1>16, <1>17, <1>11, <1>12, <1>13, <1>14, <1>15, InnocentStep DEF Inv

LEMMA CheckLiveInv ==
    ASSUME Inv, checkLive
    PROVE  Inv'
<1>0. /\ InvLog /\ InvWitness /\ InvRun /\ InvTrust /\ InvClean /\ InvTorn
      /\ pc = "live" /\ misdeed = "none" /\ alarm = "none"
      /\ Len(recs) <= Len(w.events) /\ Len(recs) \in Nat /\ Len(w.events) \in Nat
  <2>1. pc = "live" /\ InvLog /\ InvWitness /\ InvRun /\ InvTrust /\ InvClean /\ InvTorn
    BY DEF checkLive, Inv
  <2>2. Len(recs) \in Nat /\ Len(w.events) \in Nat
    BY <2>1 DEF InvLog, InvWitness, Witnesses
  <2> QED BY <2>1, <2>2 DEF InvRun, Running
<1>1. /\ UNCHANGED <<recs, safe, sealed, torn, group, snap, reissued, flips, misdeed>>
      /\ w' = [w EXCEPT !.trusted = Trusted, !.tail = Len(recs)]
  BY DEF checkLive, logVars, diskVars, runVars
<1>2. /\ w \in Witnesses /\ w.trusted \in 0 .. MaxEvents /\ w.tail \in Nat /\ w.durable \in Nat
  BY <1>0 DEF InvWitness, Witnesses
<1>3. /\ Trusted \in 0 .. MaxEvents /\ Trusted <= w.trusted
      /\ Len(recs) < w.tail => Trusted <= Len(recs) /\ Trusted \in {w.trusted, Len(recs)}
      /\ ~(Len(recs) < w.tail) => Trusted = w.trusted
  BY <1>0, <1>2, MinOfTwo DEF Trusted
<1>4. /\ w' \in Witnesses /\ w'.largest = w.largest
      /\ w'.events = w.events /\ w'.durable = w.durable /\ w'.commits = w.commits
      /\ w'.attempts = w.attempts /\ w'.compacted = w.compacted
      /\ w'.snapshot = w.snapshot /\ w'.tail = Len(recs) /\ w'.trusted = Trusted
      /\ w'.delivered = w.delivered /\ w'.last = w.last /\ w'.reader = w.reader
  BY <1>0, <1>1, <1>2, <1>3 DEF Witnesses
<1>5. alarm' = "none" /\ pc' \in {"running", "failed"}
  <2>1. flips = 0 => w.tail <= Len(recs)
    BY <1>0 DEF InvClean, Running
  <2>2. flips = 0 => ~(w.commits > Len(recs))
    <3>1. CASE w.commits = None
      BY <1>0, <3>1 DEF None
    <3>2. CASE w.commits # None
      <4>1. w.commits \in 0 .. w.durable
        BY <1>0, <3>2 DEF InvWitness
      <4>2. flips = 0 => w.durable <= safe /\ safe <= Len(recs) /\ safe \in Nat
        BY <1>0 DEF InvClean, InvLog
      <4> QED BY <1>0, <1>2, <4>1, <4>2
    <3> QED BY <3>1, <3>2
  <2>3. corrupted \/ flips = 0
    BY <1>0 DEF corrupted, InvLog
  <2>4. ~(Len(recs) < w.tail /\ ~corrupted) /\ ~(w.commits > Len(recs) /\ ~corrupted)
    BY <1>0, <1>2, <2>1, <2>2, <2>3
  <2>4a. ~((\E i \in DOMAIN recs : recs[i].st = "bad") /\ ~corrupted)
    <3>1. DOMAIN recs = 1 .. Len(recs)
      BY <1>0 DEF InvLog
    <3> QED BY <1>0, <2>3, <3>1 DEF InvClean
  <2>5. alarm' = "none"
    BY <1>0, <2>4, <2>4a DEF checkLive
  <2> QED BY <2>5 DEF checkLive
<1>11. InvLog'
  BY <1>0, <1>1 DEF InvLog
<1>12. InvWitness'
  BY <1>0, <1>4 DEF InvWitness
<1>13. InvRun'
  BY <1>0, <1>1, <1>4, <1>5 DEF InvRun, Running
<1>14. InvTrust'
  <2>1. reissued <= Trusted
    <3>1. /\ reissued <= w.trusted /\ (Len(recs) < w.tail => reissued <= Len(recs))
      BY <1>0 DEF InvTrust
    <3> QED BY <1>3, <3>1
  <2>2. Len(recs) = Len(w.events) \/ Trusted <= Len(recs)
    <3>1. \/ Len(recs) = Len(w.events) \/ w.trusted <= Len(recs) \/ Len(recs) < w.tail
      BY <1>0 DEF InvTrust, Running
    <3> QED BY <1>0, <1>2, <1>3, <3>1
  <2>3. \A i \in 1 .. Len(recs) : i <= Trusted => recs[i].ev = i
    BY <1>0, <1>2, <1>3 DEF InvTrust
  <2> QED BY <1>0, <1>1, <1>4, <1>5, <2>1, <2>2, <2>3 DEF InvTrust, Running
<1>15. InvClean'
  <2> SUFFICES ASSUME flips' = 0, misdeed' = "none"
               PROVE  InvClean'
    BY DEF InvClean
  <2>1. flips = 0 /\ Len(recs) = Len(w.events) /\ w.tail <= Len(recs) /\ w.trusted = MaxEvents
    BY <1>0, <1>1 DEF InvClean, Running
  <2>2. w'.trusted = MaxEvents
    BY <1>0, <1>2, <1>3, <1>4, <2>1
  <2>3. /\ ~group'.bad /\ ~snap'.bad /\ ~snap'.forged /\ w'.durable <= safe'
        /\ w'.commits # None => group'.pos \in w'.attempts /\ group'.dur \in w'.attempts
    BY <1>0, <1>1, <1>4, <2>1 DEF InvClean
  <2>4. Len(recs') = Len(w'.events) /\ w'.tail <= Len(recs')
    BY <1>0, <1>1, <1>4, <2>1
  <2> QED BY <1>0, <1>1, <1>4, <2>1, <2>2, <2>3, <2>4, SameRecords DEF InvClean
<1>16. InvTorn'
  BY <1>0, <1>1, <1>4, SameTorn
<1> QED BY <1>16, <1>0, <1>1, <1>5, <1>11, <1>12, <1>13, <1>14, <1>15, InnocentStep DEF Inv, Fair, NoFalseAlarm

-----------------------------------------------------------------------------
(***************************************************************************)
(* Faults, and the end of a run.                                           *)
(***************************************************************************)
LEMMA BitFlipInv ==
    ASSUME Inv, BitFlip
    PROVE  Inv'
<1>0. /\ InvLog /\ InvWitness /\ InvRun /\ InvTrust /\ InvTorn
      /\ Running /\ misdeed = "none" /\ alarm = "none" /\ Len(recs) \in Nat
  BY DEF Inv, BitFlip, InvRun, Running, InvLog
<1>1. /\ UNCHANGED <<safe, sealed, torn, reissued, w, steps, pc, alarm, misdeed>>
      /\ flips' \in Nat /\ flips' # 0
  BY <1>0 DEF BitFlip, InvLog, diskVars
<1>2. /\ recs' \in Seq(Records) /\ Len(recs') = Len(recs)
      /\ \A i \in 1 .. Len(recs) : recs'[i].ev = recs[i].ev
  <2>1. CASE recs' = recs
    BY <1>0, <2>1 DEF InvLog
  <2>2. CASE \E i \in {j \in DOMAIN recs : recs[j].st = "ok"} : Drop({i}, "bad")
    <3>1. PICK i \in DOMAIN recs : Drop({i}, "bad")
      BY <2>2
    <3>2. "bad" \in {"ok", "bad", "gone", "soft"}
      OBVIOUS
    <3> QED BY <1>0, <3>1, <3>2, DropFacts
  <2> QED BY <2>1, <2>2 DEF BitFlip
<1>3. /\ group' \in [pos : Offs, dur : Offs, bad : BOOLEAN]
      /\ snap' \in [top : Offs, dur : Offs, bad : BOOLEAN, forged : BOOLEAN]
      /\ snap'.top = snap.top /\ snap'.dur = snap.dur
  <2>1. /\ group' = group \/ group' = [group EXCEPT !.bad = TRUE]
        /\ snap' = snap \/ snap' = [snap EXCEPT !.bad = TRUE]
    BY DEF BitFlip
  <2>2. /\ group \in [pos : Offs, dur : Offs, bad : BOOLEAN]
        /\ snap \in [top : Offs, dur : Offs, bad : BOOLEAN, forged : BOOLEAN]
    BY <1>0 DEF InvLog
  <2> QED BY <2>1, <2>2
<1>11. InvLog'
  BY <1>0, <1>1, <1>2, <1>3 DEF InvLog
<1>12. InvWitness'
  BY <1>0, <1>1 DEF InvWitness
<1>13. InvRun'
  BY <1>0, <1>1, <1>2 DEF InvRun, Running
<1>14. InvTrust'
  BY <1>0, <1>1, <1>2, <1>3 DEF InvTrust, Running
<1>15. InvClean'
  BY <1>1 DEF InvClean
<1>16. InvTorn'
  BY <1>0, <1>1, SameTorn
<1> QED BY <1>16, <1>0, <1>1, <1>11, <1>12, <1>13, <1>14, <1>15, InnocentStep DEF Inv, Fair, NoFalseAlarm

LEMMA EndCursorFacts ==
    ASSUME InvWitness, w' = EndCursor
    PROVE  /\ SameButCursor
           /\ InvWitness'
<1>1. w \in Witnesses /\ None \in Offs
  BY DEF InvWitness, Offs, None
<1>2. SameButCursor
  BY <1>1 DEF SameButCursor, EndCursor, Witnesses
<1> QED BY <1>2 DEF InvWitness, SameButCursor

LEMMA StopInv ==
    ASSUME Inv, Stop
    PROVE  Inv'
<1>0. /\ InvLog /\ InvWitness /\ InvRun /\ InvTrust /\ InvClean /\ InvTorn
      /\ misdeed = "none" /\ alarm = "none" /\ pc' = "stopped"
  BY DEF Inv, Stop, InvRun, Running
<1>1. UNCHANGED <<recs, safe, sealed, torn, group, snap, reissued, flips, misdeed, alarm>>
  BY DEF Stop, logVars, diskVars, runVars
<1>2. SameButCursor /\ InvWitness'
  BY <1>0, EndCursorFacts DEF Stop
<1>11. InvLog'
  BY <1>0, <1>1 DEF InvLog
<1>13. InvRun'
  BY <1>0, <1>1 DEF InvRun, Running
<1>14. InvTrust'
  BY <1>0, <1>1, <1>2 DEF InvTrust, Running, SameButCursor
<1>15. InvClean'
  <2> SUFFICES ASSUME flips' = 0, misdeed' = "none"
               PROVE  InvClean'
    BY DEF InvClean
  <2> QED BY <1>0, <1>1, <1>2, SameRecords DEF InvClean, Running, SameButCursor
<1>16. InvTorn'
  BY <1>0, <1>1, <1>2, SameTorn DEF SameButCursor
<1> QED BY <1>16, <1>0, <1>1, <1>2, <1>11, <1>13, <1>14, <1>15, InnocentStep DEF Inv, Fair, NoFalseAlarm

LEMMA CrashInv ==
    ASSUME Inv, Crash
    PROVE  Inv'
<1>0. /\ InvLog /\ InvWitness /\ InvRun /\ InvTrust /\ InvClean /\ InvTorn
      /\ misdeed = "none" /\ alarm = "none" /\ pc' = "stopped"
      /\ Len(recs) \in Nat /\ safe \in Nat /\ safe <= Len(recs) /\ Len(recs) <= MaxEvents
  BY DEF Inv, Crash, InvRun, Running, InvLog
<1>1. UNCHANGED <<safe, sealed, reissued, flips, misdeed, alarm>>
  BY DEF Crash, runVars
<1>2. SameButCursor /\ InvWitness'
  BY <1>0, EndCursorFacts DEF Crash
<1>3. ASSUME NEW i \in 1 .. safe
      PROVE  LET r == IF recs[i].st = "soft" THEN [recs[i] EXCEPT !.st = "ok"] ELSE recs[i]
             IN  /\ r \in Records /\ r.ev = recs[i].ev /\ r.key = recs[i].key
                 /\ r.st = recs[i].st \/ r.st = "ok"
  <2>1. recs[i] \in Records
    <3>1. recs \in Seq(Records) /\ i \in 1 .. Len(recs)
      BY <1>0 DEF InvLog
    <3> QED BY <3>1
  <2> DEFINE q == recs[i]
  <2> HIDE DEF q
  <2>2. q \in Records
    BY <2>1 DEF q
  <2>3. LET r == IF q.st = "soft" THEN [q EXCEPT !.st = "ok"] ELSE q
        IN  /\ r \in Records /\ r.ev = q.ev /\ r.key = q.key
            /\ r.st = q.st \/ r.st = "ok"
    BY <2>2 DEF Records
  <2> QED BY <2>3 DEF q
<1>4. /\ recs' \in Seq(Records) /\ Len(recs') = safe
      /\ \A i \in 1 .. safe :
            /\ recs'[i].ev = recs[i].ev /\ recs'[i].key = recs[i].key
            /\ recs'[i].st = recs[i].st \/ recs'[i].st = "ok"
  <2>1. recs' = [i \in 1 .. safe |-> IF recs[i].st = "soft" THEN [recs[i] EXCEPT !.st = "ok"]
                                     ELSE recs[i]]
    BY DEF Crash
  <2>2. recs' \in [1 .. safe -> Records]
    BY <1>3, <2>1
  <2>3. recs' \in Seq(Records) /\ Len(recs') = safe
    BY <1>0, <2>2, FunctionIsSeq
  <2> QED BY <1>3, <2>1, <2>3
<1>5. /\ group' \in [pos : Offs, dur : Offs, bad : BOOLEAN]
      /\ group'.pos = group.dur /\ group'.dur = group.dur /\ group'.bad = group.bad
      /\ snap' \in [top : Offs, dur : Offs, bad : BOOLEAN, forged : BOOLEAN]
      /\ snap'.top = snap.dur /\ snap'.dur = snap.dur /\ snap'.bad = snap.bad
      /\ snap'.forged = snap.forged
  BY <1>0 DEF Crash, InvLog
<1>11. InvLog'
  BY <1>0, <1>1, <1>4, <1>5 DEF InvLog
<1>13. InvRun'
  BY <1>0, <1>1 DEF InvRun, Running
<1>14. InvTrust'
  <2>1. \A i \in 1 .. Len(recs') : i <= w'.trusted => recs'[i].ev = i
    BY <1>0, <1>2, <1>4 DEF InvTrust, SameButCursor
  <2> QED BY <1>0, <1>1, <1>2, <1>5, <2>1 DEF InvTrust, Running, SameButCursor
<1>15. InvClean'
  <2> SUFFICES ASSUME flips' = 0, misdeed' = "none"
               PROVE  InvClean'
    BY DEF InvClean
  <2>1. ASSUME NEW i \in 1 .. Len(recs')
        PROVE  /\ recs'[i].st # "bad"
               /\ i <= Len(w'.events) => recs'[i].key = w'.events[i]
               /\ recs'[i].st # "ok" => w'.compacted /\ supersededLater(i)'
    <3>1. /\ i \in 1 .. safe /\ i \in 1 .. Len(recs)
      BY <1>0, <1>4
    <3>2. /\ recs[i].st # "bad"
          /\ i <= Len(w.events) => recs[i].key = w.events[i]
          /\ recs[i].st # "ok" => w.compacted /\ supersededLater(i)
      BY <1>0, <1>1, <3>1 DEF InvClean
    <3>3. supersededLater(i) => supersededLater(i)'
      BY <1>2 DEF supersededLater, SameButCursor
    <3> QED BY <1>2, <1>4, <3>1, <3>2, <3>3 DEF SameButCursor
  <2>2. /\ ~group'.bad /\ ~snap'.bad /\ ~snap'.forged /\ w'.durable <= safe' /\ w'.trusted = MaxEvents
        /\ w'.commits # None => group'.pos \in w'.attempts /\ group'.dur \in w'.attempts
    BY <1>0, <1>1, <1>2, <1>5 DEF InvClean, SameButCursor
  <2> QED BY <1>0, <2>1, <2>2 DEF InvClean, Running
<1>16. InvTorn'
  BY <1>0, <1>2 DEF Crash, InvTorn, SameButCursor
<1> QED BY <1>16, <1>0, <1>1, <1>2, <1>11, <1>13, <1>14, <1>15, InnocentStep DEF Inv, Fair, NoFalseAlarm

(***************************************************************************)
(* What opening leaves, of any log: stated for the state a misdeed leaves. *)
(***************************************************************************)
LEMMA RecoveredAfter ==
    ASSUME recs' \in Seq(Records), sealed' \in Nat, sealed' <= Len(recs')
    PROVE  Recovered' \in Nat /\ Recovered' <= Len(recs')
<1>1. Len(recs') \in Nat /\ sealed' \in Nat
  OBVIOUS
<1>2. FirstBad' \subseteq sealed' + 1 .. Len(recs')
  BY DEF FirstBad
<1>3. Recovered' = IF FirstBad' = {} THEN Len(recs') ELSE Min(FirstBad') - 1
  BY DEF Recovered
<1>4. CASE FirstBad' = {}
  BY <1>1, <1>3, <1>4
<1>5. CASE FirstBad' # {}
  <2>0. FirstBad' \subseteq Nat
    <3>1. sealed' + 1 .. Len(recs') \subseteq Nat
      BY <1>1
    <3> QED BY <1>2, <3>1
  <2>1. Min(FirstBad') \in FirstBad'
    BY <1>5, <2>0, MinFacts
  <2>2. Min(FirstBad') \in sealed' + 1 .. Len(recs')
    BY <1>2, <2>1
  <2> QED BY <1>1, <1>3, <1>5, <2>2
<1> QED BY <1>4, <1>5

LEMMA MisbehaveInv ==
    ASSUME Inv, Misbehave
    PROVE  Inv'
<1>0. /\ InvLog /\ InvWitness /\ InvRun /\ InvTrust /\ InvClean /\ InvTorn
      /\ misdeed = "none" /\ pc = "stopped" /\ alarm = "none"
      /\ Len(recs) \in Nat /\ safe \in Nat /\ sealed \in Nat
      /\ sealed <= safe /\ safe <= Len(recs) /\ Len(recs) <= MaxEvents
  <2>1. /\ InvLog /\ InvWitness /\ InvRun /\ InvTrust /\ InvClean /\ InvTorn
        /\ misdeed = "none" /\ pc = "stopped"
    BY DEF Inv, Misbehave
  <2> QED BY <2>1 DEF InvRun, InvLog
<1>1. /\ UNCHANGED <<rolls, torn, reissued, w, flips, steps, pc, alarm>>
      /\ sealed' = Min({sealed, Len(recs')}) /\ safe' = Min({safe, Len(recs')})
      /\ misdeed' \in {"loses", "alters", "uncommits", "unsnaps", "forges", "misnumbers"}
  BY DEF Misbehave
<1>2. /\ w \in Witnesses /\ w.durable \in Nat /\ w.trusted \in Nat /\ reissued \in Nat
      /\ reissued <= w.trusted /\ w.snapshot \in Offs
  BY <1>0 DEF InvWitness, Witnesses, InvTrust, InvLog
<1>3. ASSUME recs' \in Seq(Records), Len(recs') <= Len(recs),
             group' \in [pos : Offs, dur : Offs, bad : BOOLEAN],
             snap' \in [top : Offs, dur : Offs, bad : BOOLEAN, forged : BOOLEAN],
             InvEvidence'
      PROVE  Inv'
  <2>1. InvLog'
    <3>1. Len(recs') \in Nat
      BY <1>3
    <3>2. /\ sealed' \in Nat /\ safe' \in Nat /\ sealed' <= safe' /\ safe' <= Len(recs')
      BY <1>0, <1>1, <3>1, MinOfTwo
    <3> QED BY <1>0, <1>1, <1>3, <3>1, <3>2 DEF InvLog
  <2>2. InvWitness'
    BY <1>0, <1>1 DEF InvWitness
  <2>3. InvRun'
    BY <1>0, <1>1 DEF InvRun, Running
  <2>4. InvTrust' /\ InvClean' /\ Fair' /\ InvTorn'
    BY <1>0, <1>1, SameTorn DEF InvTrust, InvClean, Fair, NoFalseAlarm
  <2>5. CatchesLoss' /\ CatchesWrongRecord' /\ CatchesPositions'
    BY <1>0, <1>1 DEF CatchesLoss, CatchesWrongRecord, CatchesPositions
  <2> QED BY <1>3, <2>1, <2>2, <2>3, <2>4, <2>5 DEF Inv
<1>4. /\ recs \in Seq(Records)
      /\ group \in [pos : Offs, dur : Offs, bad : BOOLEAN]
      /\ snap \in [top : Offs, dur : Offs, bad : BOOLEAN, forged : BOOLEAN]
  BY <1>0 DEF InvLog
<1>5. ASSUME NEW i \in 1 .. Len(recs), i <= w.durable, i <= reissued, Lost(i)' \/ Wrong(i)'
      PROVE  checkDurableRecords'
  <2>1. i <= w.durable /\ i <= w.trusted
    BY <1>0, <1>2, <1>5
  <2>2. i \in 1 .. Min({w.durable, w.trusted})
    BY <1>0, <1>2, <2>1, MinOfTwo
  <2>3. i \in 1 .. Min({w'.durable, w'.trusted})
    BY <1>1, <2>2
  <2> QED BY <1>5, <2>3 DEF checkDurableRecords
<1>6. CASE /\ \E i \in 1 .. Min({w.durable, Len(recs), reissued}) :
               /\ recs[i].st = "ok"
               /\ \A j \in i + 1 .. Len(w.events) : w.events[j] # w.events[i]
               /\ Drop({i}, "gone")
           /\ misdeed' = "loses" /\ UNCHANGED <<group, snap>>
  <2>1. PICK i \in 1 .. Min({w.durable, Len(recs), reissued}) :
          /\ \A j \in i + 1 .. Len(w.events) : w.events[j] # w.events[i]
          /\ Drop({i}, "gone")
    BY <1>6
  <2>2. i \in 1 .. Len(recs) /\ i <= w.durable /\ i <= reissued
    <3> DEFINE m == Min({w.durable, Len(recs), reissued})
    <3>0. w.durable \in Nat /\ Len(recs) \in Nat /\ reissued \in Nat
      BY <1>0, <1>2
    <3>1. m \in Nat /\ m <= w.durable /\ m <= Len(recs) /\ m <= reissued
      BY ONLY <3>0, MinOfThree
    <3>2. i \in 1 .. m
      OBVIOUS
    <3> HIDE DEF m
    <3> QED BY <1>0, <1>2, <3>1, <3>2
  <2>3. /\ recs' \in Seq(Records) /\ Len(recs') = Len(recs) /\ recs'[i].st = "gone"
    <3>1. "gone" \in {"ok", "bad", "gone", "soft"}
      OBVIOUS
    <3> QED BY <1>0, <2>1, <2>2, <3>1, DropFacts
  <2>4. flips' = 0 => Lost(i)'
    <3>1. ~Reads(i)'
      BY <2>3 DEF Reads
    <3>2. ~supersededLater(i)'
      BY <1>1, <2>1 DEF supersededLater
    <3>3. flips' = 0 => ~corrupted'
      BY DEF corrupted
    <3> QED BY <3>1, <3>2, <3>3 DEF Lost
  <2>5. flips' = 0 => checkDurableRecords'
    BY <1>5, <2>2, <2>4
  <2>6. InvEvidence'
    BY <1>6, <2>5 DEF InvEvidence
  <2> QED BY <1>0, <1>3, <1>4, <1>6, <2>3, <2>6
<1>7. CASE /\ \E n \in 0 .. w.durable - 1 : n < Len(recs) /\ recs' = SubSeq(recs, 1, n)
           /\ misdeed' = "loses" /\ UNCHANGED <<group, snap>>
  <2>1. PICK n \in 0 .. w.durable - 1 : n < Len(recs) /\ recs' = SubSeq(recs, 1, n)
    BY <1>7
  <2>2. recs' \in Seq(Records) /\ Len(recs') = n /\ n \in Nat /\ n < w.durable
    BY <1>0, <1>2, <1>4, <2>1
  <2>3. sealed' \in Nat /\ sealed' <= Len(recs')
    BY <1>0, <1>1, <2>2, MinOfTwo
  <2>4. Recovered' < w'.durable
    <3>1. Recovered' \in Nat /\ Recovered' <= n
      BY <2>2, <2>3, RecoveredAfter
    <3> QED BY <1>1, <1>2, <2>2, <3>1
  <2>5. InvEvidence'
    BY <1>7, <2>4 DEF InvEvidence
  <2> QED BY <1>0, <1>3, <1>4, <1>7, <2>1, <2>2, <2>5
<1>8. CASE /\ \E i \in 1 .. Min({w.durable, reissued}) :
               /\ Reads(i)
               /\ recs' = [recs EXCEPT ![i].ev = 0]
           /\ misdeed' = "alters" /\ UNCHANGED <<group, snap>>
  <2>1. PICK i \in 1 .. Min({w.durable, reissued}) :
          Reads(i) /\ recs' = [recs EXCEPT ![i].ev = 0]
    BY <1>8
  <2>1a. recs[i].st = "ok" /\ i <= Recovered /\ ~Damaged(i)
    BY <2>1 DEF Reads
  <2>2. Recovered \in Nat /\ Recovered <= Len(recs)
    BY <1>0, RecoveredFacts
  <2>3. i \in 1 .. Len(recs) /\ i <= w.durable /\ i <= reissued /\ i <= Recovered
    BY <1>0, <1>2, <2>1a, <2>2, MinOfTwo
  <2>4. [recs[i] EXCEPT !.ev = 0] \in Records /\ [recs[i] EXCEPT !.ev = 0].st = recs[i].st
        /\ [recs[i] EXCEPT !.ev = 0].ev = 0
    <3>1. recs[i] \in Records
      BY <1>4, <2>3
    <3> DEFINE q == recs[i]
    <3> HIDE DEF q
    <3>2. q \in Records
      BY <3>1 DEF q
    <3>3. [q EXCEPT !.ev = 0] \in Records /\ [q EXCEPT !.ev = 0].st = q.st
          /\ [q EXCEPT !.ev = 0].ev = 0
      BY <3>2 DEF Records
    <3> QED BY <3>3 DEF q
  <2>5. /\ recs' \in Seq(Records) /\ Len(recs') = Len(recs)
        /\ recs'[i].ev = 0 /\ recs'[i].st = "ok"
        /\ \A j \in 1 .. Len(recs) : recs'[j].st = recs[j].st
    <3> DEFINE q == [recs[i] EXCEPT !.ev = 0]
    <3>1. recs' = [recs EXCEPT ![i] = q] /\ q \in Records /\ q.ev = 0 /\ q.st = "ok"
      BY <2>1, <2>1a, <2>4
    <3> HIDE DEF q
    <3>2. recs' \in Seq(Records) /\ Len(recs') = Len(recs)
      BY <1>4, <2>3, <3>1
    <3>3. recs'[i] = q /\ \A j \in 1 .. Len(recs) : j # i => recs'[j] = recs[j]
      BY <1>4, <2>3, <3>1
    <3> QED BY <2>1a, <3>1, <3>2, <3>3
  <2>6. Recovered' = Recovered
    <3>1. sealed' = sealed
      BY <1>0, <1>1, <2>5, MinOfTwo
    <3>2. FirstBad' = FirstBad
      BY <1>0, <2>5, <3>1 DEF FirstBad
    <3> QED BY <2>5, <3>2 DEF Recovered
  <2>7. Wrong(i)'
    <3>1. ~Damaged(i)'
      BY <1>1, <2>1a, <2>2, <2>5, <2>6 DEF Damaged, SameSegment
    <3> QED BY <2>3, <2>5, <2>6, <3>1 DEF Wrong, Reads
  <2>8. checkDurableRecords'
    BY <1>5, <2>3, <2>7
  <2>9. InvEvidence'
    BY <1>8, <2>8 DEF InvEvidence
  <2> QED BY <1>0, <1>3, <1>4, <1>8, <2>5, <2>9
<1>9. CASE /\ w.commits # None
           /\ \E pos \in (None .. MaxEvents) \ w.attempts :
                group' = [group EXCEPT !.pos = pos, !.bad = FALSE]
           /\ misdeed' = "uncommits" /\ UNCHANGED <<recs, snap>>
  <2>1. PICK pos \in Offs \ w.attempts : group' = [group EXCEPT !.pos = pos, !.bad = FALSE]
    BY <1>9 DEF Offs
  <2>2. /\ group' \in [pos : Offs, dur : Offs, bad : BOOLEAN] /\ ~group'.bad
        /\ group'.pos \notin w'.attempts /\ w'.commits # None
    BY <1>1, <1>4, <1>9, <2>1
  <2>3. InvEvidence'
    BY <1>9, <2>2 DEF InvEvidence
  <2> QED BY <1>0, <1>3, <1>4, <1>9, <2>2, <2>3
<1>10. CASE /\ w.snapshot # None
            /\ \E top \in None .. w.snapshot - 1 : snap' = [snap EXCEPT !.top = top]
            /\ misdeed' = "unsnaps" /\ UNCHANGED <<recs, group>>
  <2>1. PICK top \in None .. w.snapshot - 1 : snap' = [snap EXCEPT !.top = top]
    BY <1>10
  <2>2. top \in Offs /\ top < w.snapshot
    BY <1>2, <2>1 DEF Offs, None
  <2>3. /\ snap' \in [top : Offs, dur : Offs, bad : BOOLEAN, forged : BOOLEAN] /\ snap'.bad = snap.bad
        /\ snap'.top < w'.snapshot /\ w'.snapshot # None
    BY <1>1, <1>4, <1>10, <2>1, <2>2
  <2>4. flips' = 0 => ~snap'.bad
    BY <1>0, <1>1, <2>3 DEF InvClean
  <2>5. InvEvidence'
    BY <1>10, <2>3, <2>4 DEF InvEvidence
  <2> QED BY <1>0, <1>3, <1>4, <1>10, <2>3, <2>5
<1>11. CASE /\ w.snapshot # None /\ snap.top = w.snapshot
            /\ snap' = [snap EXCEPT !.forged = TRUE]
            /\ misdeed' = "forges" /\ UNCHANGED <<recs, group>>
  <2>1. /\ snap' \in [top : Offs, dur : Offs, bad : BOOLEAN, forged : BOOLEAN] /\ snap'.bad = snap.bad
        /\ snap'.top = w'.snapshot /\ w'.snapshot # None /\ snap'.forged
    BY <1>1, <1>4, <1>11
  <2>2. flips' = 0 => ~snap'.bad
    BY <1>0, <1>1, <2>1 DEF InvClean
  <2>3. InvEvidence'
    BY <1>11, <2>1, <2>2 DEF InvEvidence
  <2> QED BY <1>0, <1>3, <1>4, <1>11, <2>1, <2>3
<1>12. CASE misdeed' = "misnumbers" /\ UNCHANGED <<recs, group, snap>>
  <2>1. InvEvidence'
    BY <1>12 DEF InvEvidence
  <2> QED BY <1>0, <1>3, <1>4, <1>12, <2>1
<1> QED BY <1>6, <1>7, <1>8, <1>9, <1>10, <1>11, <1>12 DEF Misbehave

-----------------------------------------------------------------------------
(***************************************************************************)
(* The check of the disk.                                                  *)
(***************************************************************************)
LEMMA NoRecordAccused ==
    ASSUME InvLog, InvWitness, InvTorn, InvTrust, InvClean, misdeed = "none"
    PROVE  /\ ~(~corrupted /\ FirstBad # {}) /\ ~(~corrupted /\ Discarded > w.largest)
           /\ ~(~corrupted /\ Recovered < w.durable)
           /\ ~checkDurableRecords /\ ~checkScan
<1>1. /\ Recovered \in Nat /\ Recovered <= Len(recs) /\ Len(recs) \in Nat
      /\ flips = 0 => Recovered = Len(recs) /\ FirstBad = {}
      /\ flips = 0 \/ corrupted
  BY RecoveredFacts, CleanRecovers DEF InvLog, corrupted
<1>2. /\ w.durable \in Nat /\ w.trusted \in Nat /\ Len(w.events) \in Nat
      /\ flips = 0 => w.durable <= Recovered
  <2>1. w.durable \in Nat /\ w.trusted \in Nat /\ Len(w.events) \in Nat
    BY DEF InvWitness, Witnesses
  <2>2. flips = 0 => w.durable <= safe /\ safe <= Len(recs) /\ safe \in Nat
    BY DEF InvClean, InvLog
  <2> QED BY <1>1, <2>1, <2>2
<1>3. ASSUME NEW i \in Nat, i > 0, i <= w.trusted
      PROVE  ~Wrong(i)
  BY <1>1, <1>3 DEF Wrong, Reads, InvTrust
<1>4. ASSUME NEW i \in Nat, i > 0, i <= w.durable
      PROVE  ~Lost(i)
  <2>1. SUFFICES ASSUME flips = 0, ~Reads(i)
                 PROVE  w.compacted /\ supersededLater(i) /\ ~Damaged(i)
    BY <1>1 DEF Lost
  <2>2. i \in 1 .. Len(recs) /\ i <= Recovered
    BY <1>1, <1>2, <1>4, <2>1
  <2>3. ~Damaged(i)
    BY <1>1, <2>1 DEF InvClean, Damaged
  <2>4. recs[i].st # "ok"
    BY <2>1, <2>2, <2>3 DEF Reads
  <2> QED BY <2>1, <2>2, <2>3, <2>4 DEF InvClean
<1>5. ~(~corrupted /\ Recovered < w.durable)
  BY <1>1, <1>2
<1>6. ~checkDurableRecords
  <2>1. \A i \in 1 .. Min({w.durable, w.trusted}) :
            i \in Nat /\ i > 0 /\ i <= w.durable /\ i <= w.trusted
    BY <1>2, MinOfTwo
  <2> QED BY <1>3, <1>4, <2>1 DEF checkDurableRecords
<1>7. ~checkScan
  <2> SUFFICES ASSUME NEW i \in 1 .. Recovered
               PROVE  /\ ~(Damaged(i) /\ ~corrupted)
                      /\ ~(i <= Min({Len(w.events), w.trusted}) /\ Wrong(i))
    BY DEF checkScan
  <2>1. ~(Damaged(i) /\ ~corrupted)
    BY <1>1 DEF InvClean, Damaged
  <2>2. i <= Min({Len(w.events), w.trusted}) => i <= w.trusted
    BY <1>1, <1>2, MinOfTwo, SMTT(30)
  <2> QED BY <1>1, <1>3, <2>1, <2>2
<1>8. ~(~corrupted /\ FirstBad # {}) /\ ~(~corrupted /\ Discarded > w.largest)
  BY <1>1 DEF Discarded, InvTorn
<1> QED BY <1>5, <1>6, <1>7, <1>8

LEMMA NoPositionAccused ==
    ASSUME InvLog, InvWitness, InvTrust, InvClean, misdeed = "none",
           NEW pos \in Positions(group.bad)
    PROVE  ~checkGroups(pos) /\ ~checkSnapshot
<1>1. flips = 0 \/ corrupted
  BY DEF InvLog, corrupted
<1>2. ~checkGroups(pos)
  <2> SUFFICES ASSUME w.commits # None, ~corrupted
               PROVE  pos # None /\ pos \in w.attempts /\ ~(pos > Recovered)
    BY DEF checkGroups, attempted
  <2>1. flips = 0 /\ ~group.bad /\ group.pos \in w.attempts /\ Recovered = Len(recs)
    BY <1>1, CleanRecovers DEF InvClean
  <2>2. pos = group.pos
    BY <2>1 DEF Positions
  <2>3. /\ w.attempts \subseteq 0 .. w.durable /\ w.durable \in Nat
        /\ w.durable <= safe /\ safe <= Len(recs) /\ safe \in Nat /\ Len(recs) \in Nat
    BY <2>1 DEF InvClean, InvLog, InvWitness, Witnesses
  <2> QED BY <2>1, <2>2, <2>3 DEF None
<1>3. ~checkSnapshot
  <2> SUFFICES ASSUME w.snapshot # None
               PROVE  /\ Latest = None => corrupted
                      /\ Latest # None => ~(Latest < w.snapshot)
                      /\ snap.forged => corrupted
    BY DEF checkSnapshot
  <2>0. snap.forged => corrupted
    BY <1>1 DEF InvClean
  <2>1. w.snapshot <= snap.top /\ w.snapshot \in Offs /\ snap.top \in Offs
    BY DEF InvTrust, InvWitness, Witnesses, InvLog
  <2>2. CASE snap.bad
    <3>1. corrupted
      BY <1>1, <2>2 DEF InvClean
    <3> QED BY <2>0, <2>2, <3>1 DEF Latest
  <2>3. CASE ~snap.bad
    BY <2>0, <2>1, <2>3 DEF Latest, Offs, None
  <2> QED BY <2>2, <2>3
<1> QED BY <1>2, <1>3

LEMMA CheckInv ==
    ASSUME Inv, check
    PROVE  Inv'
<1>0. /\ InvLog /\ InvWitness /\ InvRun /\ InvTrust /\ InvClean /\ InvEvidence /\ InvTorn
      /\ pc = "stopped" /\ pc' = "checked" /\ alarm = "none"
  BY DEF Inv, check, InvRun
<1>1. /\ UNCHANGED <<recs, safe, sealed, torn, group, snap, reissued, flips, misdeed, w>>
  BY DEF check, logVars, diskVars, runVars
<1>2a. PICK pos \in Positions(group.bad) : \E appended \in {TRUE, ~corrupted} :
        alarm' = CASE ~ corrupted /\ FirstBad # {} -> "corruption"
                   [] ~ corrupted /\ Discarded > w.largest -> "discarded"
                   [] ~ corrupted /\ Recovered < w.durable -> "below durable"
                   [] checkDurableRecords -> "durable records"
                   [] checkScan -> "scan"
                   [] checkGroups(pos) -> "group"
                   [] checkSnapshot -> "snapshot"
                   [] appended /\ NextOffset # Recovered -> "append"
                   [] OTHER -> alarm
  BY DEF check
<1>2. PICK appended \in {TRUE, ~corrupted} :
        alarm' = CASE ~ corrupted /\ FirstBad # {} -> "corruption"
                   [] ~ corrupted /\ Discarded > w.largest -> "discarded"
                   [] ~ corrupted /\ Recovered < w.durable -> "below durable"
                   [] checkDurableRecords -> "durable records"
                   [] checkScan -> "scan"
                   [] checkGroups(pos) -> "group"
                   [] checkSnapshot -> "snapshot"
                   [] appended /\ NextOffset # Recovered -> "append"
                   [] OTHER -> alarm
  BY <1>2a
<1>2b. ~corrupted => appended
  BY <1>2
<1>3. misdeed = "none" => alarm' = "none"
  <2> SUFFICES ASSUME misdeed = "none" PROVE alarm' = "none"
    OBVIOUS
  <2>1. /\ ~(~corrupted /\ FirstBad # {}) /\ ~(~corrupted /\ Discarded > w.largest)
        /\ ~(~corrupted /\ Recovered < w.durable) /\ ~checkDurableRecords /\ ~checkScan
        /\ ~checkGroups(pos) /\ ~checkSnapshot
    BY <1>0, NoRecordAccused, NoPositionAccused
  <2>2. NextOffset = Recovered
    BY DEF NextOffset
  <2> QED BY <1>0, <1>2, <2>1, <2>2
<1>4. ASSUME \/ ~ corrupted /\ Recovered < w.durable
             \/ checkDurableRecords
             \/ checkGroups(pos)
             \/ checkSnapshot
             \/ appended /\ NextOffset # Recovered
      PROVE  alarm' # "none"
  BY <1>2, <1>4
<1>5. flips = 0 => ~corrupted
  BY DEF corrupted
<1>6. CatchesLoss'
  <2> SUFFICES ASSUME misdeed = "loses", ~corrupted'
               PROVE  alarm' # "none"
    BY <1>1 DEF CatchesLoss
  <2>1. flips = 0 /\ ~corrupted
    BY <1>0, <1>1 DEF corrupted, InvLog
  <2> QED BY <1>0, <1>4, <2>1 DEF InvEvidence
<1>7. CatchesWrongRecord'
  <2> SUFFICES ASSUME misdeed = "alters"
               PROVE  alarm' # "none"
    BY <1>1 DEF CatchesWrongRecord
  <2> QED BY <1>0, <1>4 DEF InvEvidence
<1>8. CatchesPositions'
  <2> SUFFICES ASSUME misdeed \in {"uncommits", "unsnaps", "forges", "misnumbers"}, ~corrupted'
               PROVE  alarm' # "none"
    BY <1>1 DEF CatchesPositions
  <2>1. flips = 0 /\ ~corrupted
    BY <1>0, <1>1 DEF corrupted, InvLog
  <2>2. CASE misdeed = "uncommits"
    <3>1. w.commits # None /\ ~group.bad /\ group.pos \notin w.attempts
      BY <1>0, <2>1, <2>2 DEF InvEvidence
    <3>2. pos = group.pos /\ w.commits \in w.attempts
      BY <1>0, <3>1 DEF Positions, InvWitness
    <3>3. checkGroups(pos)
      BY <2>1, <3>1, <3>2 DEF checkGroups, attempted
    <3> QED BY <1>4, <3>3
  <2>3. CASE misdeed = "unsnaps"
    <3>1. w.snapshot # None /\ ~snap.bad /\ snap.top < w.snapshot
      BY <1>0, <2>1, <2>3 DEF InvEvidence
    <3>2. Latest < w.snapshot /\ Latest # w.snapshot
      BY <1>0, <3>1, SMTT(30) DEF Latest, InvLog, InvWitness, Witnesses, Offs, None
    <3>3. checkSnapshot
      BY <2>1, <3>1, <3>2 DEF checkSnapshot
    <3> QED BY <1>4, <3>3
  <2>4. CASE misdeed = "forges"
    <3>1. w.snapshot # None /\ ~snap.bad /\ snap.top = w.snapshot /\ snap.forged
      BY <1>0, <2>1, <2>4 DEF InvEvidence
    <3>2. checkSnapshot
      BY <2>1, <3>1 DEF checkSnapshot, Latest
    <3> QED BY <1>4, <3>2
  <2>5. CASE misdeed = "misnumbers"
    <3>1. Recovered \in Nat
      BY <1>0, RecoveredFacts
    <3>2. NextOffset # Recovered
      BY <2>5, <3>1 DEF NextOffset
    <3> QED BY <1>2b, <1>4, <2>1, <3>2
  <2> QED BY <2>2, <2>3, <2>4, <2>5
<1>11. InvLog' /\ InvWitness'
  BY <1>0, <1>1 DEF InvLog, InvWitness
<1>13. InvRun'
  BY <1>0, <1>1 DEF InvRun, Running
<1>14. InvTrust'
  BY <1>0, <1>1 DEF InvTrust, Running
<1>15. InvClean'
  <2> SUFFICES ASSUME flips' = 0, misdeed' = "none"
               PROVE  InvClean'
    BY DEF InvClean
  <2> QED BY <1>0, <1>1, SameRecords DEF InvClean, Running
<1>16. InvEvidence' /\ Fair'
  BY <1>0, <1>1, <1>3 DEF InvEvidence, Fair, NoFalseAlarm
<1>17. InvTorn'
  BY <1>0, <1>1, SameTorn
<1> QED BY <1>17, <1>6, <1>7, <1>8, <1>11, <1>13, <1>14, <1>15, <1>16 DEF Inv

LEMMA RefusesToOpenInv ==
    ASSUME Inv, RefusesToOpen
    PROVE  Inv'
<1>0. /\ InvLog /\ InvWitness /\ InvRun /\ InvTrust /\ InvClean /\ Fair /\ InvTorn
      /\ pc = "stopped" /\ pc' = "refused" /\ alarm = "none"
      /\ UNCHANGED <<recs, safe, sealed, torn, group, snap, reissued, flips, misdeed, w, alarm>>
  BY DEF Inv, RefusesToOpen, InvRun, logVars, diskVars, runVars
<1>11. InvLog' /\ InvWitness'
  BY <1>0 DEF InvLog, InvWitness
<1>13. InvRun'
  BY <1>0 DEF InvRun, Running
<1>14. InvTrust'
  BY <1>0 DEF InvTrust, Running
<1>15. InvClean'
  <2> SUFFICES ASSUME flips' = 0, misdeed' = "none"
               PROVE  InvClean'
    BY DEF InvClean
  <2> QED BY <1>0, SameRecords DEF InvClean, Running
<1>16. /\ InvEvidence' /\ Fair'
       /\ CatchesLoss' /\ CatchesWrongRecord' /\ CatchesPositions'
  BY <1>0 DEF InvEvidence, Fair, NoFalseAlarm, CatchesLoss, CatchesWrongRecord, CatchesPositions
<1>17. InvTorn'
  BY <1>0, SameTorn
<1> QED BY <1>17, <1>11, <1>13, <1>14, <1>15, <1>16 DEF Inv

-----------------------------------------------------------------------------
(***************************************************************************)
(* The theorems.                                                           *)
(***************************************************************************)
LEMMA InitInv ==
    ASSUME Init
    PROVE  Inv
<1>1. /\ recs = <<>> /\ safe = 0 /\ sealed = 0 /\ torn = FALSE /\ reissued = MaxEvents
      /\ group = [pos |-> None, dur |-> None, bad |-> FALSE]
      /\ snap = [top |-> None, dur |-> None, bad |-> FALSE, forged |-> FALSE]
      /\ w = NewWitness /\ flips = 0 /\ pc = "running" /\ alarm = "none" /\ misdeed = "none"
  BY DEF Init
<1>2. None \in Offs /\ None = -1 /\ MaxEvents \in 0 .. MaxEvents
  BY DEF Offs, None
<1>3. InvLog
  BY <1>1, <1>2 DEF InvLog
<1>4. /\ w \in Witnesses /\ w.events = <<>> /\ w.largest = 0 /\ w.durable = 0 /\ w.commits = None
      /\ w.attempts = {} /\ w.snapshot = None /\ w.tail = 0 /\ w.trusted = MaxEvents
      /\ w.delivered = FALSE
  BY <1>1, <1>2 DEF NewWitness, Witnesses
<1>5. InvWitness
  BY <1>4 DEF InvWitness
<1>5a. InvTorn
  <2>1. ~torn /\ torn \in BOOLEAN
    BY <1>1, Zenon
  <2>2. w.largest \in Nat
    BY <1>4
  <2> QED BY <2>1, <2>2 DEF InvTorn
<1>6. InvRun /\ InvTrust /\ InvClean
  BY <1>1, <1>4 DEF InvRun, InvTrust, InvClean, Running
<1>7. /\ InvEvidence /\ Fair
      /\ CatchesLoss /\ CatchesWrongRecord /\ CatchesPositions
  BY <1>1 DEF InvEvidence, Fair, NoFalseAlarm, CatchesLoss, CatchesWrongRecord, CatchesPositions
<1> QED BY <1>3, <1>5, <1>5a, <1>6, <1>7 DEF Inv

LEMMA NextInv ==
    ASSUME Inv, [Next]_vars
    PROVE  Inv'
<1>1. CASE UNCHANGED vars
  <2>1. UNCHANGED <<recs, safe, sealed, rolls, torn, group, snap, reissued, w, flips, misdeed, pc, alarm>>
    BY <1>1 DEF vars, logVars, diskVars, runVars
  <2>2. InvLog' /\ InvWitness' /\ InvTorn' /\ InvRun'
    BY <2>1 DEF Inv, InvLog, InvWitness, InvTorn, InvRun, Running
  <2>3. InvTrust'
    BY <2>1 DEF Inv, InvTrust, Running
  <2>4. InvClean'
    BY <2>1 DEF Inv, InvClean, Running, supersededLater
  <2>5. Recovered' = Recovered /\ (checkDurableRecords => checkDurableRecords')
    <3>1. FirstBad' = FirstBad
      BY <2>1 DEF FirstBad
    <3>2. Recovered' = Recovered
      BY <2>1, <3>1 DEF Recovered
    <3>3. \A i : Reads(i)' <=> Reads(i)
      BY <2>1, <3>2 DEF Reads, Damaged, SameSegment
    <3>4. \A i : (Lost(i) => Lost(i)') /\ (Wrong(i) => Wrong(i)')
      BY <2>1, <3>2, <3>3 DEF Lost, Wrong, Damaged, SameSegment, corrupted, supersededLater
    <3> QED BY <2>1, <3>2, <3>4 DEF checkDurableRecords
  <2>6. InvEvidence'
    BY <2>1, <2>5 DEF Inv, InvEvidence
  <2>7. Fair' /\ CatchesLoss' /\ CatchesWrongRecord' /\ CatchesPositions'
    BY <2>1 DEF Inv, Fair, NoFalseAlarm, CatchesLoss, CatchesWrongRecord, CatchesPositions, corrupted
  <2> QED BY <2>2, <2>3, <2>4, <2>6, <2>7 DEF Inv
<1> QED BY <1>1, AppendInv, AppendFailsInv, SyncInv, CommitInv, CompactAllInv, SnapshotInv,
           ConsumeInv, ReopenInv, ReopenFailsInv, CheckLiveInv, BitFlipInv, StopInv, CrashInv,
           MisbehaveInv, CheckInv, RefusesToOpenInv
        DEF Next

(***************************************************************************)
(* The invariant holds in every state of a run of the harness, its faults  *)
(* and its checks (workload.go, restart.go, check.go).                     *)
(***************************************************************************)
THEOREM WitnessInvariant == Spec => []Inv
BY InitInv, NextInv, PTL DEF Spec

(***************************************************************************)
(* Every variable keeps its type.                                          *)
(***************************************************************************)
THEOREM TypeCorrect == Spec => []TypeOK
<1>1. Inv => TypeOK
  <2> SUFFICES ASSUME InvLog, InvWitness, InvRun PROVE TypeOK
    BY DEF Inv
  <2>1. \A i \in DOMAIN recs : recs[i].st \in {"ok", "bad", "gone", "soft"}
    <3>1. recs \in Seq(Records)
      BY DEF InvLog
    <3>2. \A i \in DOMAIN recs : recs[i] \in Records
      BY <3>1
    <3> QED BY <3>2 DEF Records
  <2>2. /\ sealed <= safe /\ safe <= Len(recs) /\ Len(recs) <= MaxEvents
        /\ group.pos \in None .. MaxEvents /\ snap.top \in None .. MaxEvents
    BY DEF InvLog, Offs
  <2>3. /\ w.durable <= Len(w.events) /\ w.trusted \in 0 .. MaxEvents
        /\ w.attempts \subseteq 0 .. MaxEvents /\ w.reader \in None .. MaxEvents
    BY DEF InvWitness, Witnesses, Offs
  <2> QED BY <2>1, <2>2, <2>3 DEF TypeOK, InvRun
<1> QED BY <1>1, WitnessInvariant, PTL

(***************************************************************************)
(* No check that Witness models fires at a log that kept its promises,     *)
(* whatever was compacted, flipped, truncated, given out again, refused or *)
(* lost with a power cut, as long as no flip fires between the moment a    *)
(* restart asks whether one has and the end of its comparison.             *)
(***************************************************************************)
THEOREM ChecksAreFair ==
    ASSUME ~LateFlips
    PROVE  Spec => []NoFalseAlarm
<1>1. Inv => NoFalseAlarm
  BY DEF Inv, Fair
<1> QED BY <1>1, WitnessInvariant, PTL

(***************************************************************************)
(* With no flip to blame, checkLog and checkDurableRecords accuse a log    *)
(* that lost an acknowledged record no compaction can explain.             *)
(***************************************************************************)
THEOREM LossIsCaught == Spec => []CatchesLoss
BY WitnessInvariant, PTL DEF Inv

(***************************************************************************)
(* checkDurableRecords accuses an acknowledged record that reads back as   *)
(* another below every offset given out again, flips or no flips.          *)
(***************************************************************************)
THEOREM WrongRecordIsCaught == Spec => []CatchesWrongRecord
BY WitnessInvariant, PTL DEF Inv

(***************************************************************************)
(* With no flip to blame, checkGroups and checkSnapshot accuse a position  *)
(* nobody asked for and a newest snapshot older than the acknowledged one. *)
(***************************************************************************)
THEOREM PositionsAreCaught == Spec => []CatchesPositions
BY WitnessInvariant, PTL DEF Inv


=============================================================================
