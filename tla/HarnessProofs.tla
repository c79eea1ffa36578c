--------------------------- MODULE HarnessProofs ---------------------------
(***************************************************************************)
(* Proofs about Harness, for every log (NextOp), every fault schedule and  *)
(* every number of steps: the minimizer, the faults a run reports as       *)
(* fired, the drift check of the corpus, and that every run ends.          *)
(***************************************************************************)
EXTENDS Harness, SequenceTheorems, TLAPS

(***************************************************************************)
(* Only the facts about numbers and finite sequences are used of it.       *)
(***************************************************************************)
Numbers == INSTANCE RecordFileProofs WITH Events <- {}, Invalid <- 0

(***************************************************************************)
(* The inductive invariant.  While Minimize runs, the checks have given    *)
(* the configuration it holds the message it looks for; and every fault    *)
(* before pos has been left out, of this very configuration, in vain.      *)
(***************************************************************************)
Reproduced(faults, steps) ==
  LET o == Outcome(version, faults, steps) IN o \in DOMAIN verdict /\ verdict[o] = want

Needed(i) ==
  LET o == Outcome(version, Without(cfg.faults, i), cfg.steps)
  IN o \in DOMAIN verdict /\ verdict[o] # want

InvMinimize ==
  /\ pc \in {"sweep", "faults", "steps"} =>
       /\ cfg \in [faults : Seq(Faults), steps : Nat]
       /\ pos \in Nat \ {0} /\ span \in Nat
  /\ pc \in {"sweep", "faults"} => cfg.steps = DefaultSteps
  /\ pc = "sweep" => pos = 1
  /\ pc \in {"faults", "steps"} => Reproduced(cfg.faults, cfg.steps)
  /\ pc = "faults" => \A i \in 1 .. Len(cfg.faults) : i < pos => Needed(i)
  /\ pc = "steps" => span <= DefaultSteps \div 2
  /\ OneMinimal
  /\ MinimizeReproduces

USE HarnessAssumption

-----------------------------------------------------------------------------
LEMMA SwarmIsSeq == \A s \in swarm : s \in Seq(Faults)
<1> SUFFICES ASSUME NEW s \in swarm PROVE s \in Seq(Faults)
  OBVIOUS
<1>1. PICK n \in 0 .. MaxFaults : s \in [1 .. n -> Faults]
  BY DEF swarm
<1> QED BY <1>1

LEMMA WithoutIsSeq ==
  ASSUME NEW S, NEW s \in Seq(S), NEW i \in 1 .. Len(s)
  PROVE  Without(s, i) \in Seq(S)
<1>1. SubSeq(s, 1, i - 1) \in Seq(S)
  OBVIOUS
<1>2. SubSeq(s, i + 1, Len(s)) \in Seq(S)
  OBVIOUS
<1> QED BY <1>1, <1>2 DEF Without

(***************************************************************************)
(* Run asks the checks and remembers what they say: a message given before *)
(* is given again, and none is forgotten.                                  *)
(***************************************************************************)
LEMMA RunRemembers ==
  ASSUME NEW faults, NEW steps, NEW m, Run(faults, steps, m)
  PROVE  /\ Outcome(version, faults, steps) \in DOMAIN verdict'
         /\ verdict'[Outcome(version, faults, steps)] = m
         /\ msg' = m
         /\ \A x \in DOMAIN verdict : x \in DOMAIN verdict' /\ verdict'[x] = verdict[x]
<1> DEFINE o == Outcome(version, faults, steps)
<1>1. /\ m \in IF o \in DOMAIN verdict THEN {verdict[o]} ELSE Messages
      /\ verdict' = [x \in DOMAIN verdict \cup {o} |-> IF x = o THEN m ELSE verdict[x]]
      /\ msg' = m
  BY DEF Run
<1> HIDE DEF o
<1>2. /\ o \in DOMAIN verdict' /\ verdict'[o] = m /\ msg' = m
      /\ \A x \in DOMAIN verdict : x \in DOMAIN verdict' /\ verdict'[x] = verdict[x]
  BY <1>1
<1> QED BY <1>2 DEF o

-----------------------------------------------------------------------------
LEMMA InvInit == Init => InvMinimize
<1> SUFFICES ASSUME Init PROVE InvMinimize
  OBVIOUS
<1>1. pc = "sweep" => cfg \in [faults : Seq(Faults), steps : Nat] /\ cfg.steps = DefaultSteps
  BY SwarmIsSeq DEF Init
<1> QED BY <1>1 DEF Init, InvMinimize, OneMinimal, MinimizeReproduces

LEMMA SweepInv == InvMinimize /\ Sweep => InvMinimize'
<1> SUFFICES ASSUME InvMinimize, Sweep PROVE InvMinimize'
  OBVIOUS
<1>1. PICK m \in Messages :
        /\ Run(cfg.faults, cfg.steps, m)
        /\ IF m = "none" THEN pc' = "done" /\ want' = want ELSE pc' = "faults" /\ want' = m
  BY DEF Sweep
<1>2. pc = "sweep" /\ UNCHANGED <<version, cfg, pos, span>>
  BY DEF Sweep
<1>3. CASE m = "none"
  BY <1>1, <1>3 DEF InvMinimize, OneMinimal, MinimizeReproduces
<1>4. CASE m # "none"
  <2>1. pc' = "faults" /\ want' = m
    BY <1>1, <1>4
  <2>2. Reproduced(cfg.faults, cfg.steps)'
    BY <1>1, <1>2, <2>1, RunRemembers DEF Reproduced
  <2>3. /\ cfg' \in [faults : Seq(Faults), steps : Nat] /\ cfg'.steps = DefaultSteps
        /\ pos' = 1 /\ span' \in Nat
    BY <1>2 DEF InvMinimize
  <2> QED BY <2>1, <2>2, <2>3 DEF InvMinimize, OneMinimal, MinimizeReproduces
<1> QED BY <1>3, <1>4

LEMMA TryFaultInv == InvMinimize /\ TryFault => InvMinimize'
<1> SUFFICES ASSUME InvMinimize, TryFault PROVE InvMinimize'
  OBVIOUS
<1> DEFINE shorter == Without(cfg.faults, pos)
<1>1. PICK m \in Messages :
        /\ Run(shorter, cfg.steps, m)
        /\ IF reproduces(m)
             THEN cfg' = [cfg EXCEPT !.faults = shorter] /\ pos' = NextScan(pos)
             ELSE cfg' = cfg /\ pos' = pos + 1
  BY DEF TryFault
<1>2. pc = "faults" /\ pos <= Len(cfg.faults) /\ UNCHANGED <<pc, version, want, span>>
  BY DEF TryFault
<1>3. /\ cfg \in [faults : Seq(Faults), steps : Nat] /\ cfg.steps = DefaultSteps
      /\ pos \in 1 .. Len(cfg.faults) /\ span \in Nat
  BY <1>2 DEF InvMinimize
<1>4. shorter \in Seq(Faults)
  BY <1>3, WithoutIsSeq
<1>5. /\ Outcome(version, shorter, cfg.steps) \in DOMAIN verdict'
      /\ verdict'[Outcome(version, shorter, cfg.steps)] = m
      /\ \A x \in DOMAIN verdict : x \in DOMAIN verdict' /\ verdict'[x] = verdict[x]
  BY <1>1, RunRemembers
<1>6. CASE m = want
  <2> HIDE DEF shorter
  <2>1. /\ cfg' = [cfg EXCEPT !.faults = shorter] /\ pos' = 1
    BY <1>1, <1>6 DEF reproduces, NextScan
  <2>2. /\ cfg' \in [faults : Seq(Faults), steps : Nat]
        /\ cfg'.faults = shorter /\ cfg'.steps = cfg.steps
    BY <1>3, <1>4, <2>1
  <2>3. Reproduced(cfg.faults, cfg.steps)'
    BY <1>2, <1>5, <1>6, <2>2 DEF Reproduced
  <2> QED BY <1>2, <1>3, <2>1, <2>2, <2>3 DEF InvMinimize, OneMinimal, MinimizeReproduces
<1>7. CASE m # want
  <2>1. cfg' = cfg /\ pos' = pos + 1
    BY <1>1, <1>7 DEF reproduces
  <2>2. Reproduced(cfg.faults, cfg.steps)'
    BY <1>2, <1>5, <2>1 DEF InvMinimize, Reproduced
  <2>3. ASSUME NEW i \in 1 .. Len(cfg'.faults), i < pos' PROVE Needed(i)'
    <3>1. CASE i = pos
      BY <1>2, <1>5, <1>7, <2>1, <3>1 DEF Needed
    <3>2. CASE i # pos
      <4>1. i \in 1 .. Len(cfg.faults) /\ i < pos
        BY <1>3, <2>1, <2>3, <3>2
      <4>2. Needed(i)
        BY <1>2, <4>1 DEF InvMinimize
      <4> QED BY <1>2, <1>5, <2>1, <4>2 DEF Needed
    <3> QED BY <3>1, <3>2
  <2> QED BY <1>2, <1>3, <2>1, <2>2, <2>3 DEF InvMinimize, OneMinimal, MinimizeReproduces
<1> QED BY <1>6, <1>7

LEMMA FaultsDoneInv == InvMinimize /\ FaultsDone => InvMinimize'
<1> SUFFICES ASSUME InvMinimize, FaultsDone PROVE InvMinimize'
  OBVIOUS
<1>1. /\ pc = "faults" /\ pos > Len(cfg.faults) /\ pc' = "steps" /\ span' = cfg.steps \div 2
      /\ UNCHANGED <<version, cfg, verdict, want, pos>>
  BY DEF FaultsDone
<1>2. /\ cfg \in [faults : Seq(Faults), steps : Nat] /\ cfg.steps = DefaultSteps
      /\ pos \in Nat \ {0} /\ Reproduced(cfg.faults, cfg.steps)
      /\ \A i \in 1 .. Len(cfg.faults) : i < pos => Needed(i)
  BY <1>1 DEF InvMinimize
<1>3. \A i \in DOMAIN cfg.faults : Needed(i)
  BY <1>1, <1>2
<1>4. OneMinimal'
  BY <1>1, <1>3 DEF OneMinimal, Needed
<1>5. Reproduced(cfg.faults, cfg.steps)'
  BY <1>1, <1>2 DEF Reproduced
<1>6. span' \in Nat /\ span' <= DefaultSteps \div 2
  BY <1>1, <1>2
<1> QED BY <1>1, <1>2, <1>4, <1>5, <1>6 DEF InvMinimize, MinimizeReproduces

LEMMA TrySpanInv == InvMinimize /\ TrySpan => InvMinimize'
<1> SUFFICES ASSUME InvMinimize, TrySpan PROVE InvMinimize'
  OBVIOUS
<1>1. pc = "steps" /\ span >= 1 /\ span' = span \div 2 /\ UNCHANGED <<pc, version, want, pos>>
  BY DEF TrySpan, NextSpan
<1>2. /\ cfg \in [faults : Seq(Faults), steps : Nat] /\ pos \in Nat \ {0} /\ span \in Nat
      /\ span <= DefaultSteps \div 2 /\ Reproduced(cfg.faults, cfg.steps)
  BY <1>1 DEF InvMinimize
<1>3. span' \in Nat /\ span' <= DefaultSteps \div 2 /\ span' # DefaultSteps \div 2
  BY <1>1, <1>2
<1>4. cfg' \in [faults : Seq(Faults), steps : Nat] /\ Reproduced(cfg.faults, cfg.steps)'
  <2>1. CASE cfg.steps - span > 0
    <3>1. PICK m \in Messages :
            /\ Run(cfg.faults, cfg.steps - span, m)
            /\ cfg' = IF reproduces(m) THEN [cfg EXCEPT !.steps = @ - span] ELSE cfg
      BY <2>1 DEF TrySpan
    <3>2. /\ Outcome(version, cfg.faults, cfg.steps - span) \in DOMAIN verdict'
          /\ verdict'[Outcome(version, cfg.faults, cfg.steps - span)] = m
          /\ \A x \in DOMAIN verdict : x \in DOMAIN verdict' /\ verdict'[x] = verdict[x]
      BY <3>1, RunRemembers
    <3>3. CASE m = want
      <4>1. cfg' = [cfg EXCEPT !.steps = @ - span]
        BY <3>1, <3>3 DEF reproduces
      <4>2. /\ cfg' \in [faults : Seq(Faults), steps : Nat]
            /\ cfg'.faults = cfg.faults /\ cfg'.steps = cfg.steps - span
        BY <1>2, <2>1, <4>1
      <4> QED BY <1>1, <3>2, <3>3, <4>2 DEF Reproduced
    <3>4. CASE m # want
      <4>1. cfg' = cfg
        BY <3>1, <3>4 DEF reproduces
      <4> QED BY <1>1, <1>2, <3>2, <4>1 DEF Reproduced
    <3> QED BY <3>3, <3>4
  <2>2. CASE ~(cfg.steps - span > 0)
    <3>1. UNCHANGED <<verdict, cfg>>
      BY <2>2 DEF TrySpan
    <3> QED BY <1>1, <1>2, <3>1 DEF Reproduced
  <2> QED BY <2>1, <2>2
<1> QED BY <1>1, <1>2, <1>3, <1>4 DEF InvMinimize, OneMinimal, MinimizeReproduces

LEMMA MinimizedInv == InvMinimize /\ Minimized => InvMinimize'
<1> SUFFICES ASSUME InvMinimize, Minimized PROVE InvMinimize'
  OBVIOUS
<1>1. PICK m \in Messages : Run(cfg.faults, cfg.steps, m)
  BY DEF Minimized
<1>2. pc = "steps" /\ pc' = "minimized" /\ want' = want
  BY DEF Minimized
<1>3. Reproduced(cfg.faults, cfg.steps)
  BY <1>2 DEF InvMinimize
<1>4. msg' = want
  BY <1>1, <1>3, RunRemembers DEF Reproduced
<1> QED BY <1>2, <1>4 DEF InvMinimize, OneMinimal, MinimizeReproduces

LEMMA InvNext == InvMinimize /\ [Next]_vars => InvMinimize'
<1> SUFFICES ASSUME InvMinimize, [Next]_vars PROVE InvMinimize'
  OBVIOUS
<1>1. CASE MatrixPoint \/ MatrixDone \/ writeCorpusEntry \/ ChangeLog \/ simCorpus
  <2>1. pc' \in {"matrix", "exhausted", "written", "corpus", "replayed"}
    BY <1>1 DEF MatrixPoint, MatrixDone, writeCorpusEntry, ChangeLog, simCorpus, InvMinimize
  <2> QED BY <2>1 DEF InvMinimize, OneMinimal, MinimizeReproduces
<1>2. CASE UNCHANGED vars
  BY <1>2 DEF vars, InvMinimize, OneMinimal, MinimizeReproduces, Reproduced, Needed
<1> QED BY <1>1, <1>2, SweepInv, TryFaultInv, FaultsDoneInv, TrySpanInv, MinimizedInv
        DEF Next, Step, Finished

(***************************************************************************)
(* When Minimize turns to the steps, no fault that is left can be left out *)
(* of the configuration without losing the failure, although the faults    *)
(* tried before the last one that went were tried with others present.     *)
(***************************************************************************)
THEOREM MinimizerIsOneMinimal == Spec => []OneMinimal
<1>1. InvMinimize => OneMinimal
  BY DEF InvMinimize
<1> QED BY <1>1, InvInit, InvNext, PTL DEF Spec

(***************************************************************************)
(* What Minimize hands back fails with the message the sweep saw.          *)
(***************************************************************************)
THEOREM MinimizerReproduces == Spec => []MinimizeReproduces
<1>1. InvMinimize => MinimizeReproduces
  BY DEF InvMinimize
<1> QED BY <1>1, InvInit, InvNext, PTL DEF Spec
-----------------------------------------------------------------------------
(***************************************************************************)
(* Picking faults out of a list.  The recursive function exists because    *)
(* every initial part of it does.                                          *)
(***************************************************************************)
Picks(f, s, I, n) ==
  f = [k \in 0 .. n |-> IF k = 0 THEN <<>>
                        ELSE IF k \in I THEN Append(f[k - 1], s[k]) ELSE f[k - 1]]

LEMMA PicksExist ==
  ASSUME NEW s, NEW I, NEW n \in Nat
  PROVE  \E f : Picks(f, s, I, n)
<1> DEFINE S == {k \in Nat : \E f : Picks(f, s, I, k)}
<1>1. 0 \in S
  <2>1. Picks([i \in 0 .. 0 |-> <<>>], s, I, 0)
    BY DEF Picks
  <2> QED BY <2>1
<1>2. ASSUME NEW k \in 0 .. n - 1, k \in S PROVE k + 1 \in S
  <2>1. PICK f : Picks(f, s, I, k)
    BY <1>2
  <2> DEFINE last == IF k + 1 \in I THEN Append(f[k], s[k + 1]) ELSE f[k]
             g == [i \in 0 .. k + 1 |-> IF i = k + 1 THEN last ELSE f[i]]
  <2>2. ASSUME NEW i \in 0 .. k + 1
        PROVE  g[i] = IF i = 0 THEN <<>>
                      ELSE IF i \in I THEN Append(g[i - 1], s[i]) ELSE g[i - 1]
    <3>1. CASE i = k + 1
      <4>1. g[i] = last /\ g[k] = f[k] /\ i - 1 = k /\ i # 0
        BY <3>1
      <4> QED BY <3>1, <4>1
    <3>2. CASE i # k + 1
      <4>1. i \in 0 .. k /\ g[i] = f[i] /\ (i # 0 => i - 1 \in 0 .. k /\ g[i - 1] = f[i - 1])
        BY <3>2
      <4> HIDE DEF g
      <4>2. f[i] = IF i = 0 THEN <<>>
                   ELSE IF i \in I THEN Append(f[i - 1], s[i]) ELSE f[i - 1]
        BY <2>1, <4>1 DEF Picks
      <4> QED BY <4>1, <4>2
    <3> QED BY <3>1, <3>2
  <2> HIDE DEF last
  <2>3. g = [i \in 0 .. k + 1 |-> IF i = 0 THEN <<>>
                                  ELSE IF i \in I THEN Append(g[i - 1], s[i]) ELSE g[i - 1]]
    BY <2>2
  <2>4. Picks(g, s, I, k + 1)
    BY <2>3 DEF Picks
  <2>5. \E h : Picks(h, s, I, k + 1)
    BY <2>4
  <2> QED BY <2>5
<1> HIDE DEF S
<1>3. \A k \in 0 .. n : k \in S
  BY <1>1, <1>2, Numbers!HoldsAll
<1>4. n \in S
  BY <1>3
<1> QED BY <1>4 DEF S

LEMMA PickIs ==
  ASSUME NEW s, NEW I, Len(s) \in Nat
  PROVE  \E f : Picks(f, s, I, Len(s)) /\ Pick(s, I) = f[Len(s)]
<1> DEFINE f == CHOOSE f : Picks(f, s, I, Len(s))
<1>1. Picks(f, s, I, Len(s))
  BY PicksExist
<1>2. Pick(s, I) = f[Len(s)]
  BY DEF Pick, Picks
<1> HIDE DEF f
<1> QED BY <1>1, <1>2

LEMMA PicksFirst ==
  ASSUME NEW s, NEW I, NEW n \in Nat, NEW f, Picks(f, s, I, n)
  PROVE  f[0] = <<>>
<1>1. 0 \in 0 .. n
  OBVIOUS
<1> QED BY <1>1 DEF Picks

LEMMA PicksStep ==
  ASSUME NEW s, NEW I, NEW n \in Nat, NEW f, Picks(f, s, I, n)
  PROVE  \A k \in 0 .. n - 1 :
           f[k + 1] = IF k + 1 \in I THEN Append(f[k], s[k + 1]) ELSE f[k]
<1>1. ASSUME NEW i \in 0 .. n
      PROVE  f[i] = IF i = 0 THEN <<>>
                    ELSE IF i \in I THEN Append(f[i - 1], s[i]) ELSE f[i - 1]
  BY DEF Picks
<1>2. ASSUME NEW k \in 0 .. n - 1
      PROVE  f[k + 1] = IF k + 1 \in I THEN Append(f[k], s[k + 1]) ELSE f[k]
  <2>1. k + 1 \in 0 .. n /\ k + 1 # 0 /\ (k + 1) - 1 = k
    OBVIOUS
  <2> QED BY <1>1, <2>1
<1> QED BY <1>2

(***************************************************************************)
(* Each part is a list no longer than what was gone through, and grows by  *)
(* one element or not at all.                                              *)
(***************************************************************************)
LEMMA PicksType ==
  ASSUME NEW T, NEW s \in Seq(T), NEW I, NEW f, Picks(f, s, I, Len(s))
  PROVE  \A k \in 0 .. Len(s) : f[k] \in Seq(T) /\ Len(f[k]) <= k
<1> DEFINE S == {k \in 0 .. Len(s) : f[k] \in Seq(T) /\ Len(f[k]) <= k}
<1>0. Len(s) \in Nat
  OBVIOUS
<1>1. 0 \in S
  <2>1. f[0] = <<>>
    BY <1>0, PicksFirst, Zenon
  <2>2. f[0] \in Seq(T) /\ Len(f[0]) = 0
    BY <2>1, EmptySeq
  <2> QED BY <1>0, <2>2
<1>2. ASSUME NEW k \in 0 .. Len(s) - 1, k \in S PROVE k + 1 \in S
  <2>1. f[k + 1] = IF k + 1 \in I THEN Append(f[k], s[k + 1]) ELSE f[k]
    BY <1>0, PicksStep
  <2>2. f[k] \in Seq(T) /\ Len(f[k]) <= k /\ s[k + 1] \in T
    BY <1>2
  <2>3. f[k + 1] \in Seq(T) /\ Len(f[k + 1]) <= k + 1
    BY <2>1, <2>2
  <2> QED BY <1>0, <2>3
<1> HIDE DEF S
<1>3. \A k \in 0 .. Len(s) : k \in S
  BY <1>0, <1>1, <1>2, Numbers!HoldsAll
<1> QED BY <1>3 DEF S

(***************************************************************************)
(* What was picked stays where it is.                                      *)
(***************************************************************************)
LEMMA PicksKeep ==
  ASSUME NEW T, NEW s \in Seq(T), NEW I, NEW f, Picks(f, s, I, Len(s)),
         NEW m \in 0 .. Len(s), NEW k \in 0 .. Len(s), m <= k
  PROVE  Len(f[m]) <= Len(f[k]) /\ \A j \in 1 .. Len(f[m]) : f[k][j] = f[m][j]
<1> DEFINE S == {d \in Nat : m + d <= Len(s) =>
                   /\ Len(f[m]) <= Len(f[m + d])
                   /\ \A j \in 1 .. Len(f[m]) : f[m + d][j] = f[m][j]}
<1>0. Len(s) \in Nat /\ Len(s) - m \in Nat
  OBVIOUS
<1>1. 0 \in S
  <2>1. m + 0 = m /\ Len(f[m]) \in Nat
    BY PicksType
  <2> QED BY <2>1
<1>2. ASSUME NEW d \in 0 .. (Len(s) - m) - 1, d \in S PROVE d + 1 \in S
  <2>1. m + d \in 0 .. Len(s) - 1 /\ m + d \in 0 .. Len(s) /\ m + (d + 1) = (m + d) + 1
        /\ m + d <= Len(s) /\ d \in Nat /\ (m + d) + 1 \in 1 .. Len(s)
    BY <1>0
  <2>2. f[(m + d) + 1] = IF (m + d) + 1 \in I THEN Append(f[m + d], s[(m + d) + 1]) ELSE f[m + d]
    <3>1. \A e \in 0 .. Len(s) - 1 :
            f[e + 1] = IF e + 1 \in I THEN Append(f[e], s[e + 1]) ELSE f[e]
      BY <1>0, PicksStep
    <3> QED BY <2>1, <3>1, Zenon
  <2>3. f[m + d] \in Seq(T) /\ f[m] \in Seq(T) /\ s[(m + d) + 1] \in T
    BY <2>1, PicksType
  <2>4. Len(f[m]) <= Len(f[m + d]) /\ \A j \in 1 .. Len(f[m]) : f[m + d][j] = f[m][j]
    BY <1>2, <2>1
  <2>5. Len(f[m]) <= Len(f[(m + d) + 1]) /\ \A j \in 1 .. Len(f[m]) : f[(m + d) + 1][j] = f[m][j]
    <3> DEFINE a == f[m]
               b == f[m + d]
               e == s[(m + d) + 1]
    <3>1. a \in Seq(T) /\ b \in Seq(T) /\ e \in T
          /\ Len(a) <= Len(b) /\ \A j \in 1 .. Len(a) : b[j] = a[j]
      BY <2>3, <2>4
    <3>2. f[(m + d) + 1] = Append(b, e) \/ f[(m + d) + 1] = b
      BY <2>2
    <3> HIDE DEF a, b, e
    <3>3. Len(a) <= Len(Append(b, e)) /\ \A j \in 1 .. Len(a) : Append(b, e)[j] = a[j]
      BY <3>1
    <3>4. Len(a) <= Len(f[(m + d) + 1]) /\ \A j \in 1 .. Len(a) : f[(m + d) + 1][j] = a[j]
      BY <3>1, <3>2, <3>3
    <3> QED BY <3>4 DEF a
  <2> QED BY <2>1, <2>5
<1>3. \A d \in 0 .. Len(s) - m : d \in S
  <2> HIDE DEF S
  <2> QED BY <1>0, <1>1, <1>2, Numbers!HoldsAll
<1>4. k - m \in 0 .. Len(s) - m /\ m + (k - m) = k /\ k <= Len(s)
  BY <1>0
<1>5. k - m \in S
  BY <1>3, <1>4
<1> QED BY <1>4, <1>5

(***************************************************************************)
(* Where a picked element goes: the elements picked keep their order.      *)
(***************************************************************************)
LEMMA PicksPlaces ==
  ASSUME NEW T, NEW s \in Seq(T), NEW I, NEW f, Picks(f, s, I, Len(s))
  PROVE  /\ \A i \in 1 .. Len(s) : i \in I =>
              Len(f[i]) \in 1 .. Len(f[Len(s)]) /\ f[Len(s)][Len(f[i])] = s[i]
         /\ \A i, k \in 1 .. Len(s) : i < k /\ k \in I => Len(f[i]) < Len(f[k])
<1>n. Len(s) \in Nat
  OBVIOUS
<1>0. Len(s) \in Nat /\ \A k \in 0 .. Len(s) : f[k] \in Seq(T)
  BY <1>n, PicksType
<1>1. \A e \in 0 .. Len(s) - 1 :
        f[e + 1] = IF e + 1 \in I THEN Append(f[e], s[e + 1]) ELSE f[e]
  BY <1>n, PicksStep
<1>2. ASSUME NEW i \in 1 .. Len(s), i \in I
      PROVE  /\ f[i] \in Seq(T) /\ f[i - 1] \in Seq(T)
             /\ Len(f[i]) = Len(f[i - 1]) + 1 /\ f[i][Len(f[i])] = s[i]
  <2>1. i - 1 \in 0 .. Len(s) - 1 /\ i - 1 \in 0 .. Len(s) /\ i \in 0 .. Len(s)
        /\ (i - 1) + 1 = i
    BY <1>0
  <2>2. f[i] = Append(f[i - 1], s[i])
    BY <1>1, <1>2, <2>1
  <2>3. f[i - 1] \in Seq(T) /\ s[i] \in T /\ f[i] \in Seq(T)
    BY <1>0, <2>1
  <2> QED BY <2>2, <2>3
<1>3. ASSUME NEW i \in 1 .. Len(s), i \in I
      PROVE  Len(f[i]) \in 1 .. Len(f[Len(s)]) /\ f[Len(s)][Len(f[i])] = s[i]
  <2>1. i \in 0 .. Len(s) /\ Len(s) \in 0 .. Len(s) /\ i <= Len(s)
    BY <1>0
  <2>2. Len(f[i]) <= Len(f[Len(s)]) /\ \A j \in 1 .. Len(f[i]) : f[Len(s)][j] = f[i][j]
    BY <2>1, PicksKeep
  <2>3. /\ f[i] \in Seq(T) /\ f[i - 1] \in Seq(T)
        /\ Len(f[i]) = Len(f[i - 1]) + 1 /\ f[i][Len(f[i])] = s[i]
    BY <1>2, <1>3
  <2>4. Len(f[i]) \in Nat /\ Len(f[i - 1]) \in Nat /\ f[Len(s)] \in Seq(T)
    BY <1>0, <2>1, <2>3
  <2>5. Len(f[i]) \in 1 .. Len(f[i])
    BY <2>3, <2>4
  <2>6. Len(f[Len(s)]) \in Nat
    BY <2>4
  <2>7. Len(f[i]) \in 1 .. Len(f[Len(s)])
    BY <2>2, <2>4, <2>5, <2>6
  <2> QED BY <2>2, <2>3, <2>5, <2>7
<1>4. ASSUME NEW i \in 1 .. Len(s), NEW k \in 1 .. Len(s), i < k, k \in I
      PROVE  Len(f[i]) < Len(f[k])
  <2>1. i \in 0 .. Len(s) /\ k - 1 \in 0 .. Len(s) /\ i <= k - 1
    BY <1>0, <1>4
  <2>2. Len(f[i]) <= Len(f[k - 1])
    BY <2>1, PicksKeep
  <2>3. Len(f[i]) \in Nat /\ Len(f[k - 1]) \in Nat
    BY <1>0, <2>1
  <2>4. Len(f[k]) = Len(f[k - 1]) + 1
    BY <1>2, <1>4
  <2> QED BY <2>2, <2>3, <2>4
<1> QED BY <1>3, <1>4

(***************************************************************************)
(* Every element of the list that was picked comes from a position of I.   *)
(***************************************************************************)
LEMMA PicksOnto ==
  ASSUME NEW T, NEW s \in Seq(T), NEW I, NEW f, Picks(f, s, I, Len(s))
  PROVE  \A j \in 1 .. Len(f[Len(s)]) : \E i \in 1 .. Len(s) : i \in I /\ Len(f[i]) = j
<1>n. Len(s) \in Nat
  OBVIOUS
<1>0. Len(s) \in Nat /\ \A k \in 0 .. Len(s) : f[k] \in Seq(T)
  BY <1>n, PicksType
<1> DEFINE S == {k \in 0 .. Len(s) :
                   \A j \in 1 .. Len(f[k]) : \E i \in 1 .. Len(s) : i \in I /\ Len(f[i]) = j}
<1>1. 0 \in S
  <2>1. f[0] = <<>>
    BY <1>n, PicksFirst, Zenon
  <2>2. Len(f[0]) = 0
    BY <2>1, EmptySeq
  <2>3. \A j \in 1 .. Len(f[0]) : FALSE
    BY <2>2
  <2> QED BY <1>0, <2>3
<1>2. ASSUME NEW k \in 0 .. Len(s) - 1, k \in S PROVE k + 1 \in S
  <2>1. k \in 0 .. Len(s) /\ k + 1 \in 0 .. Len(s) /\ k + 1 \in 1 .. Len(s)
    BY <1>0
  <2>2. f[k + 1] = IF k + 1 \in I THEN Append(f[k], s[k + 1]) ELSE f[k]
    BY <1>n, PicksStep
  <2>3. f[k] \in Seq(T) /\ s[k + 1] \in T
    BY <1>0, <2>1
  <2>4. \A j \in 1 .. Len(f[k]) : \E i \in 1 .. Len(s) : i \in I /\ Len(f[i]) = j
    BY <1>2
  <2>5. CASE k + 1 \in I
    <3>1. Len(f[k + 1]) = Len(f[k]) + 1 /\ Len(f[k]) \in Nat
      BY <2>2, <2>3, <2>5
    <3>2. ASSUME NEW j \in 1 .. Len(f[k + 1])
          PROVE  \E i \in 1 .. Len(s) : i \in I /\ Len(f[i]) = j
      <4>1. CASE j = Len(f[k + 1])
        BY <2>1, <2>5, <4>1
      <4>2. CASE j # Len(f[k + 1])
        <5>1. j \in 1 .. Len(f[k])
          BY <3>1, <4>2
        <5> QED BY <2>4, <5>1
      <4> QED BY <4>1, <4>2
    <3> QED BY <2>1, <3>2
  <2>6. CASE k + 1 \notin I
    <3>1. f[k + 1] = f[k]
      BY <2>2, <2>6
    <3> QED BY <2>1, <2>4, <3>1
  <2> QED BY <2>5, <2>6
<1>3. \A k \in 0 .. Len(s) : k \in S
  <2> HIDE DEF S
  <2> QED BY <1>0, <1>1, <1>2, Numbers!HoldsAll
<1>4. Len(s) \in S
  BY <1>0, <1>3
<1> QED BY <1>4

(***************************************************************************)
(* A list from which nothing is picked.                                    *)
(***************************************************************************)
LEMMA PickNone ==
  ASSUME NEW T, NEW s \in Seq(T), NEW I, \A i \in 1 .. Len(s) : i \notin I
  PROVE  Pick(s, I) = <<>>
<1>0. Len(s) \in Nat
  OBVIOUS
<1>1. PICK f : Picks(f, s, I, Len(s)) /\ Pick(s, I) = f[Len(s)]
  BY <1>0, PickIs
<1>2. \A j \in 1 .. Len(f[Len(s)]) : FALSE
  BY <1>1, PicksOnto
<1>3. f[Len(s)] \in Seq(T)
  BY <1>0, <1>1, PicksType
<1>4. Len(f[Len(s)]) = 0
  BY <1>2, <1>3
<1> QED BY <1>1, <1>3, <1>4, EmptySeq

(***************************************************************************)
(* Picking from a list that was picked: the positions J of the whole list, *)
(* all of them in K, are the positions L of what K picks.                  *)
(***************************************************************************)
LEMMA PicksTwice ==
  ASSUME NEW T, NEW s \in Seq(T), NEW K, NEW f, Picks(f, s, K, Len(s)),
         NEW J, NEW L, \A i \in 1 .. Len(s) : i \in J => i \in K,
         \A i \in 1 .. Len(s) : i \in K => (Len(f[i]) \in L <=> i \in J)
  PROVE  Pick(f[Len(s)], L) = Pick(s, J)
<1> DEFINE t == f[Len(s)]
<1>n. Len(s) \in Nat
  OBVIOUS
<1>0. Len(s) \in Nat /\ \A k \in 0 .. Len(s) : f[k] \in Seq(T)
  BY <1>n, PicksType
<1>1. t \in Seq(T) /\ Len(t) \in Nat
  BY <1>0
<1>2. PICK g : Picks(g, s, J, Len(s)) /\ Pick(s, J) = g[Len(s)]
  BY <1>0, PickIs
<1>3. PICK h : Picks(h, t, L, Len(t)) /\ Pick(t, L) = h[Len(t)]
  BY <1>1, PickIs
<1> HIDE DEF t
<1> DEFINE S == {k \in 0 .. Len(s) : g[k] = h[Len(f[k])]}
<1>4. 0 \in S
  <2>1. f[0] = <<>> /\ g[0] = <<>> /\ h[0] = <<>>
    BY <1>0, <1>1, <1>2, <1>3, PicksFirst, Zenon
  <2>2. Len(f[0]) = 0
    BY <2>1, EmptySeq
  <2> QED BY <1>0, <2>1, <2>2
<1>5. ASSUME NEW k \in 0 .. Len(s) - 1, k \in S PROVE k + 1 \in S
  <2>1. k \in 0 .. Len(s) /\ k + 1 \in 0 .. Len(s) /\ k + 1 \in 1 .. Len(s)
        /\ Len(s) \in 0 .. Len(s) /\ k + 1 <= Len(s)
    BY <1>0
  <2>2. f[k + 1] = IF k + 1 \in K THEN Append(f[k], s[k + 1]) ELSE f[k]
    BY <1>n, PicksStep
  <2>3. g[k + 1] = IF k + 1 \in J THEN Append(g[k], s[k + 1]) ELSE g[k]
    BY <1>n, <1>2, PicksStep
  <2>4. g[k] = h[Len(f[k])] /\ f[k] \in Seq(T) /\ Len(f[k]) \in Nat /\ s[k + 1] \in T
    BY <1>0, <1>5, <2>1
  <2>5. CASE k + 1 \in K
    <3>1. Len(f[k + 1]) = Len(f[k]) + 1
      BY <2>2, <2>4, <2>5
    <3>2. Len(f[k + 1]) \in 1 .. Len(t) /\ t[Len(f[k + 1])] = s[k + 1]
      BY <2>1, <2>5, PicksPlaces DEF t
    <3>3. Len(f[k]) \in 0 .. Len(t) - 1
      BY <1>1, <2>4, <3>1, <3>2
    <3>4. \A e \in 0 .. Len(t) - 1 :
            h[e + 1] = IF e + 1 \in L THEN Append(h[e], t[e + 1]) ELSE h[e]
      BY <1>1, <1>3, PicksStep
    <3>5. h[Len(f[k + 1])] = IF Len(f[k + 1]) \in L
                               THEN Append(h[Len(f[k])], s[k + 1]) ELSE h[Len(f[k])]
      BY <3>1, <3>2, <3>3, <3>4
    <3>6. Len(f[k + 1]) \in L <=> k + 1 \in J
      BY <2>1, <2>5
    <3> QED BY <2>1, <2>3, <2>4, <3>5, <3>6
  <2>6. CASE k + 1 \notin K
    <3>1. k + 1 \notin J
      BY <2>1, <2>6
    <3> QED BY <2>1, <2>2, <2>3, <2>4, <2>6, <3>1
  <2> QED BY <2>5, <2>6
<1>6. \A k \in 0 .. Len(s) : k \in S
  <2> HIDE DEF S
  <2> QED BY <1>0, <1>4, <1>5, Numbers!HoldsAll
<1>7. Len(s) \in S
  BY <1>0, <1>6
<1> QED BY <1>2, <1>3, <1>7 DEF t

-----------------------------------------------------------------------------
(***************************************************************************)
(* A run, operation by operation.  What the log may do, the names it may   *)
(* use, and the states of a run.                                           *)
(***************************************************************************)
LogOps == {NextOp(v, st, i, f, e) : v \in Versions, st \in Nat, i \in Nat, f \in Seq(Faults),
                                    e \in SUBSET (Nat \X Nat)}
Names == {"none"} \cup {o.name : o \in LogOps}
Notes == {note(o) : o \in LogOps}
Ends == {"running", "crashed", "injected", "broken", "finished"}

States ==
  [ops : Nat, stream : Seq(Notes), fired : Seq(Faults), failed : SUBSET (Nat \X Nat),
   written : Names, files : SUBSET Names, step : Nat, i : Nat, end : Ends]

Usable(o) == o.name \in Names /\ note(o) \in Notes

LEMMA LogOpUsable ==
  ASSUME NEW o \in LogOps
  PROVE  Usable(o)
BY DEF Names, Notes, Usable

LEMMA NextIsLogOp ==
  ASSUME NEW v \in Versions, NEW r \in States
  PROVE  NextOp(v, r.step, r.i, r.fired, r.failed) \in LogOps
BY DEF LogOps, States

Here(faults, r) == byOp(faults, r.ops + 1)
Fails(faults, r) == Failing(faults, Here(faults, r))
Shorts(faults, r) == {i \in Here(faults, r) : faults[i].kind = "ShortWrite"}
Written(r, o) == IF o.kind = "append" THEN o.name ELSE r.written
Fires(faults, r, o) ==
  {i \in Looked(faults, Here(faults, r)) : Takes(faults[i], Written(r, o), r.files)}

(***************************************************************************)
(* A counted operation that leaves these faults fired, these files, these  *)
(* operations failed and this end.                                         *)
(***************************************************************************)
Noted(r, o, fired, files, failed, end) ==
  [ops |-> r.ops + 1, stream |-> Append(r.stream, note(o)), fired |-> fired, failed |-> failed,
   written |-> Written(r, o), files |-> files, step |-> r.step, i |-> r.i + 1,
   end |-> end]

Failed(r) == r.failed \cup {<<r.step, r.i>>}

EndOf(faults, r) == IF faults[Min(Fails(faults, r))].kind = "Crash" THEN "crashed" ELSE r.end

LEMMA OpIs ==
  ASSUME NEW r \in States, NEW faults, NEW o
  PROVE  LET picked == r.fired \o Pick(faults, Fires(faults, r, o)) IN
         op(faults, r, o) =
           IF Fails(faults, r) # {}
             THEN Noted(r, o, picked, r.files, Failed(r), EndOf(faults, r))
           ELSE IF o.kind = "append" /\ Shorts(faults, r) # {}
             THEN Noted(r, o, Append(picked, faults[Min(Shorts(faults, r))]),
                        Stored(r.files, o), Failed(r), r.end)
           ELSE Noted(r, o, picked, Stored(r.files, o), r.failed, r.end)
<1> DEFINE picked == r.fired \o Pick(faults, Fires(faults, r, o))
           seen == [r EXCEPT !.ops = @ + 1, !.stream = Append(@, note(o)),
                             !.written = Written(r, o), !.fired = picked, !.i = @ + 1]
           end == EndOf(faults, r)
           more == Append(picked, faults[Min(Shorts(faults, r))])
           fail == Failed(r)
<1> DEFINE new == Append(r.stream, note(o))
           put == Stored(r.files, o)
           w == Written(r, o)
<1>2. seen = [[[[[r EXCEPT !.ops = @ + 1] EXCEPT !.stream = new] EXCEPT !.written = w]
                EXCEPT !.fired = picked] EXCEPT !.i = @ + 1]
  OBVIOUS
<1>3. Stored(seen.files, o) = put /\ seen.end = r.end
  BY DEF States
<1>1. op(faults, r, o) =
        IF Fails(faults, r) # {} THEN [seen EXCEPT !.failed = fail, !.end = end]
        ELSE IF o.kind = "append" /\ Shorts(faults, r) # {}
          THEN [seen EXCEPT !.fired = more, !.files = put, !.failed = fail]
        ELSE [seen EXCEPT !.files = put]
  <2>1. op(faults, r, o) =
        IF Fails(faults, r) # {}
          THEN [seen EXCEPT !.failed = fail,
                            !.end = IF faults[Min(Fails(faults, r))].kind = "Crash"
                                      THEN "crashed" ELSE @]
        ELSE IF o.kind = "append" /\ Shorts(faults, r) # {}
          THEN [seen EXCEPT !.fired = more, !.files = Stored(@, o), !.failed = fail]
        ELSE [seen EXCEPT !.files = Stored(@, o)]
    BY DEF op, Here, Fails, Shorts, Written, Fires, shortWrite, Failed
  <2>2. /\ [seen EXCEPT !.fired = more, !.files = Stored(@, o), !.failed = fail] =
             [seen EXCEPT !.fired = more, !.files = put, !.failed = fail]
        /\ [seen EXCEPT !.files = Stored(@, o)] = [seen EXCEPT !.files = put]
    BY <1>3
  <2>3. [seen EXCEPT !.failed = fail,
                     !.end = IF faults[Min(Fails(faults, r))].kind = "Crash"
                               THEN "crashed" ELSE @] =
        [seen EXCEPT !.failed = fail, !.end = end]
    <3> HIDE DEF seen
    <3> QED BY <1>3 DEF EndOf
  <2> HIDE DEF seen, more, put, fail, end
  <2> QED BY <2>1, <2>2, <2>3
<1>4. /\ Noted(r, o, picked, r.files, fail, end) =
           [ops |-> r.ops + 1, stream |-> new, fired |-> picked, failed |-> fail, written |-> w,
            files |-> r.files, step |-> r.step, i |-> r.i + 1, end |-> end]
      /\ Noted(r, o, more, put, fail, r.end) =
           [ops |-> r.ops + 1, stream |-> new, fired |-> more, failed |-> fail, written |-> w,
            files |-> put, step |-> r.step, i |-> r.i + 1, end |-> r.end]
      /\ Noted(r, o, picked, put, r.failed, r.end) =
           [ops |-> r.ops + 1, stream |-> new, fired |-> picked, failed |-> r.failed,
            written |-> w, files |-> put, step |-> r.step, i |-> r.i + 1, end |-> r.end]
  BY DEF Noted
<1> HIDE DEF new, put, w, picked, more, end, fail
<1>6. seen = [ops |-> r.ops + 1, stream |-> new, fired |-> picked, failed |-> r.failed,
              written |-> w, files |-> r.files, step |-> r.step, i |-> r.i + 1, end |-> r.end]
  <2> DEFINE a == [r EXCEPT !.ops = @ + 1]
             b == [a EXCEPT !.stream = new]
             c == [b EXCEPT !.written = w]
             d == [c EXCEPT !.fired = picked]
             e == [d EXCEPT !.i = @ + 1]
  <2>0. r = [ops |-> r.ops, stream |-> r.stream, fired |-> r.fired, failed |-> r.failed,
             written |-> r.written, files |-> r.files, step |-> r.step, i |-> r.i, end |-> r.end]
    BY DEF States
  <2>1. a = [ops |-> r.ops + 1, stream |-> r.stream, fired |-> r.fired, failed |-> r.failed,
             written |-> r.written, files |-> r.files, step |-> r.step, i |-> r.i, end |-> r.end]
    BY <2>0
  <2> HIDE DEF a
  <2>2. b = [ops |-> r.ops + 1, stream |-> new, fired |-> r.fired, failed |-> r.failed,
             written |-> r.written, files |-> r.files, step |-> r.step, i |-> r.i, end |-> r.end]
    BY <2>1
  <2> HIDE DEF b
  <2>3. c = [ops |-> r.ops + 1, stream |-> new, fired |-> r.fired, failed |-> r.failed,
             written |-> w, files |-> r.files, step |-> r.step, i |-> r.i, end |-> r.end]
    BY <2>2
  <2> HIDE DEF c
  <2>4. d = [ops |-> r.ops + 1, stream |-> new, fired |-> picked, failed |-> r.failed,
             written |-> w, files |-> r.files, step |-> r.step, i |-> r.i, end |-> r.end]
    BY <2>3
  <2> HIDE DEF d
  <2>5. e = [ops |-> r.ops + 1, stream |-> new, fired |-> picked, failed |-> r.failed,
             written |-> w, files |-> r.files, step |-> r.step, i |-> r.i + 1, end |-> r.end]
    BY <2>4
  <2> HIDE DEF e
  <2>6. seen = e
    BY <1>2 DEF a, b, c, d, e
  <2> QED BY <2>5, <2>6
<1> HIDE DEF seen
<1>7. [seen EXCEPT !.failed = fail, !.end = end] = Noted(r, o, picked, r.files, fail, end)
  <2> DEFINE a == [seen EXCEPT !.failed = fail]
             b == [a EXCEPT !.end = end]
  <2>1. a = [ops |-> r.ops + 1, stream |-> new, fired |-> picked, failed |-> fail, written |-> w,
             files |-> r.files, step |-> r.step, i |-> r.i + 1, end |-> r.end]
    BY <1>6
  <2> HIDE DEF a
  <2>2. b = Noted(r, o, picked, r.files, fail, end)
    BY <1>4, <2>1
  <2> HIDE DEF b
  <2>3. [seen EXCEPT !.failed = fail, !.end = end] = b
    BY DEF a, b
  <2> QED BY <2>2, <2>3
<1>8. [seen EXCEPT !.fired = more, !.files = put, !.failed = fail] =
        Noted(r, o, more, put, fail, r.end)
  <2> DEFINE a == [seen EXCEPT !.fired = more]
             b == [a EXCEPT !.files = put]
             c == [b EXCEPT !.failed = fail]
  <2>1. a = [ops |-> r.ops + 1, stream |-> new, fired |-> more, failed |-> r.failed,
             written |-> w, files |-> r.files, step |-> r.step, i |-> r.i + 1, end |-> r.end]
    BY <1>6
  <2> HIDE DEF a
  <2>2. b = [ops |-> r.ops + 1, stream |-> new, fired |-> more, failed |-> r.failed,
             written |-> w, files |-> put, step |-> r.step, i |-> r.i + 1, end |-> r.end]
    BY <2>1
  <2> HIDE DEF b
  <2>3. c = Noted(r, o, more, put, fail, r.end)
    BY <1>4, <2>2
  <2> HIDE DEF c
  <2>4. [seen EXCEPT !.fired = more, !.files = put, !.failed = fail] = c
    BY DEF a, b, c
  <2> QED BY <2>3, <2>4
<1>9. [seen EXCEPT !.files = put] = Noted(r, o, picked, put, r.failed, r.end)
  BY <1>4, <1>6
<1> QED BY <1>1, <1>7, <1>8, <1>9, Zenon DEF picked, more, end, put, fail

LEMMA PickType ==
  ASSUME NEW T, NEW s \in Seq(T), NEW I
  PROVE  Pick(s, I) \in Seq(T) /\ Len(Pick(s, I)) <= Len(s)
<1>1. Len(s) \in Nat /\ Len(s) \in 0 .. Len(s)
  OBVIOUS
<1>2. PICK f : Picks(f, s, I, Len(s)) /\ Pick(s, I) = f[Len(s)]
  BY <1>1, PickIs
<1>3. \A k \in 0 .. Len(s) : f[k] \in Seq(T) /\ Len(f[k]) <= k
  BY <1>2, PicksType
<1> QED BY <1>1, <1>2, <1>3

LEMMA HereFacts ==
  ASSUME NEW faults \in Seq(Faults), NEW r
  PROVE  /\ Here(faults, r) \subseteq 1 .. Len(faults)
         /\ Fails(faults, r) \subseteq Here(faults, r)
         /\ Shorts(faults, r) \subseteq Here(faults, r)
         /\ \A o : Fires(faults, r, o) \subseteq Here(faults, r)
BY DEF Here, Fails, Shorts, Fires, byOp, Failing, Looked

(***************************************************************************)
(* The smallest of a set of positions.                                     *)
(***************************************************************************)
LEMMA MinFacts ==
  ASSUME NEW S, S \subseteq Nat, S # {}
  PROVE  Min(S) \in S /\ \A y \in S : Min(S) <= y
<1>1. \E m \in S : \A y \in S : m <= y
  BY Numbers!HasSmallest
<1> QED BY <1>1 DEF Min

LEMMA StoredType ==
  ASSUME NEW files \in SUBSET Names, NEW o, o.name \in Names
  PROVE  Stored(files, o) \in SUBSET Names
BY DEF Stored

(***************************************************************************)
(* One operation: the counters move on, the stream grows by what was noted *)
(* and what had fired has fired.                                           *)
(***************************************************************************)
Follows(r, d, o) ==
  /\ d \in States
  /\ d.ops = r.ops + 1 /\ d.stream = Append(r.stream, note(o))
  /\ d.step = r.step /\ d.i = r.i + 1
  /\ d.end = r.end \/ d.end = "crashed"
  /\ Len(r.fired) <= Len(d.fired)
  /\ \A j \in 1 .. Len(r.fired) : d.fired[j] = r.fired[j]

LEMMA NotedFollows ==
  ASSUME NEW r \in States, NEW o, Usable(o), NEW p \in Seq(Faults), NEW files \in SUBSET Names,
         NEW failed \in {r.failed, Failed(r)}, NEW end, end = r.end \/ end = "crashed"
  PROVE  Follows(r, Noted(r, o, r.fired \o p, files, failed, end), o)
<1> DEFINE fired == r.fired \o p
           new == Append(r.stream, note(o))
           d == Noted(r, o, fired, files, failed, end)
<1>1. r.fired \in Seq(Faults) /\ r.stream \in Seq(Notes) /\ note(o) \in Notes
  BY DEF States, Usable
<1>2. /\ fired \in Seq(Faults) /\ Len(r.fired) <= Len(fired)
      /\ \A j \in 1 .. Len(r.fired) : fired[j] = r.fired[j]
  BY <1>1
<1>3. new \in Seq(Notes)
  BY <1>1
<1>4. Written(r, o) \in Names /\ end \in Ends
  BY DEF Written, Usable, States, Ends
<1>a. failed \in SUBSET (Nat \X Nat)
  BY DEF States, Failed
<1>5. d = [ops |-> r.ops + 1, stream |-> new, fired |-> fired, failed |-> failed,
           written |-> Written(r, o), files |-> files, step |-> r.step, i |-> r.i + 1, end |-> end]
  BY DEF Noted
<1> HIDE DEF fired, new, d
<1>6. r.ops + 1 \in Nat /\ r.i + 1 \in Nat /\ r.step \in Nat
  BY DEF States
<1>7. d \in States
  BY <1>2, <1>3, <1>4, <1>5, <1>6, <1>a DEF States
<1>8. /\ d.ops = r.ops + 1 /\ d.stream = new /\ d.fired = fired /\ d.step = r.step
      /\ d.i = r.i + 1 /\ d.end = end
  BY <1>5
<1>9. Follows(r, d, o)
  BY <1>2, <1>7, <1>8 DEF Follows, new
<1> QED BY <1>9 DEF d, fired

LEMMA AppendKeeps ==
  ASSUME NEW T, NEW s \in Seq(T), NEW e
  PROVE  /\ Len(Append(s, e)) = Len(s) + 1 /\ Append(s, e)[Len(s) + 1] = e
         /\ \A k \in 1 .. Len(s) : Append(s, e)[k] = s[k]
<1>1. s \in Seq(T \cup {e}) /\ e \in T \cup {e}
  OBVIOUS
<1> QED BY <1>1, AppendProperties

LEMMA AppendConcat ==
  ASSUME NEW s \in Seq(Faults), NEW t \in Seq(Faults), NEW e \in Faults
  PROVE  Append(t, e) \in Seq(Faults) /\ Append(s \o t, e) = s \o Append(t, e)
<1>1. s \o t \in Seq(Faults) /\ <<e>> \in Seq(Faults) /\ Append(t, e) \in Seq(Faults)
  OBVIOUS
<1>2. Append(s \o t, e) = (s \o t) \o <<e>> /\ Append(t, e) = t \o <<e>>
  BY <1>1, AppendIsConcat
<1>3. (s \o t) \o <<e>> = s \o (t \o <<e>>)
  BY <1>1, ConcatAssociative
<1> QED BY <1>1, <1>2, <1>3

LEMMA OpFollows ==
  ASSUME NEW r \in States, NEW faults \in Seq(Faults), NEW o, Usable(o)
  PROVE  Follows(r, op(faults, r, o), o)
<1> DEFINE p == Pick(faults, Fires(faults, r, o))
<1>1. p \in Seq(Faults) /\ r.fired \in Seq(Faults) /\ r.files \in SUBSET Names
  BY PickType DEF States
<1>2. Stored(r.files, o) \in SUBSET Names
  BY <1>1, StoredType DEF Usable
<1> HIDE DEF p
<1>3. CASE Fails(faults, r) # {}
  <2> DEFINE end == EndOf(faults, r)
  <2>1. op(faults, r, o) = Noted(r, o, r.fired \o p, r.files, Failed(r), end)
    BY <1>3, OpIs DEF p
  <2>2. end = r.end \/ end = "crashed"
    BY DEF EndOf
  <2> HIDE DEF end
  <2> QED BY <1>1, <2>1, <2>2, NotedFollows
<1>4. CASE Fails(faults, r) = {} /\ o.kind = "append" /\ Shorts(faults, r) # {}
  <2> DEFINE f == faults[Min(Shorts(faults, r))]
             q == Append(p, f)
  <2>1. op(faults, r, o) = Noted(r, o, Append(r.fired \o p, f), Stored(r.files, o), Failed(r), r.end)
    BY <1>4, OpIs DEF p
  <2>2. f \in Faults
    <3>1. Shorts(faults, r) \subseteq Nat /\ Shorts(faults, r) \subseteq 1 .. Len(faults)
      BY HereFacts
    <3>2. Min(Shorts(faults, r)) \in Shorts(faults, r)
      BY <1>4, <3>1, MinFacts
    <3> QED BY <3>1, <3>2
  <2> HIDE DEF f
  <2>3. q \in Seq(Faults) /\ Append(r.fired \o p, f) = r.fired \o q
    <3> DEFINE u == r.fired
    <3>1. u \in Seq(Faults)
      BY <1>1
    <3> HIDE DEF u
    <3>2. Append(p, f) \in Seq(Faults) /\ Append(u \o p, f) = u \o Append(p, f)
      BY <1>1, <2>2, <3>1, AppendConcat
    <3> QED BY <3>2 DEF u
  <2> HIDE DEF q
  <2>4. op(faults, r, o) = Noted(r, o, r.fired \o q, Stored(r.files, o), Failed(r), r.end)
    BY <2>1, <2>3
  <2> QED BY <1>2, <2>3, <2>4, NotedFollows
<1>5. CASE Fails(faults, r) = {} /\ ~(o.kind = "append" /\ Shorts(faults, r) # {})
  <2>1. op(faults, r, o) = Noted(r, o, r.fired \o p, Stored(r.files, o), r.failed, r.end)
    BY <1>5, OpIs DEF p
  <2> QED BY <1>1, <1>2, <2>1, NotedFollows
<1> QED BY <1>3, <1>4, <1>5

-----------------------------------------------------------------------------
(***************************************************************************)
(* The list t is what the positions K of the list s pick: c sends each of  *)
(* them to its place in t, in order.                                       *)
(***************************************************************************)
Embeds(c, s, t, K) ==
  /\ c \in [1 .. Len(s) -> Nat]
  /\ \A i \in 1 .. Len(s) : i \in K => c[i] \in 1 .. Len(t) /\ t[c[i]] = s[i]
  /\ \A i, k \in 1 .. Len(s) : i < k /\ k \in K => c[i] < c[k]
  /\ \A j \in 1 .. Len(t) : \E i \in 1 .. Len(s) : i \in K /\ c[i] = j

LEMMA PickEmbeds ==
  ASSUME NEW T, NEW s \in Seq(T), NEW K
  PROVE  \E c : /\ Embeds(c, s, Pick(s, K), K)
                /\ \A J, L : /\ \A i \in 1 .. Len(s) : i \in J => i \in K
                             /\ \A i \in 1 .. Len(s) : i \in K => (c[i] \in L <=> i \in J)
                             => Pick(Pick(s, K), L) = Pick(s, J)
<1>1. Len(s) \in Nat
  OBVIOUS
<1>2. PICK f : Picks(f, s, K, Len(s)) /\ Pick(s, K) = f[Len(s)]
  BY <1>1, PickIs
<1> DEFINE c == [i \in 1 .. Len(s) |-> Len(f[i])]
<1>3. \A i \in 1 .. Len(s) : c[i] = Len(f[i]) /\ Len(f[i]) \in Nat
  <2>1. ASSUME NEW i \in 1 .. Len(s) PROVE Len(f[i]) \in Nat
    <3>1. i \in 0 .. Len(s)
      BY <1>1
    <3>2. f[i] \in Seq(T)
      BY <1>2, <3>1, PicksType
    <3> QED BY <3>2
  <2> QED BY <2>1
<1>4. c \in [1 .. Len(s) -> Nat]
  BY <1>3
<1> HIDE DEF c
<1>5. Embeds(c, s, Pick(s, K), K)
  <2>1. \A i \in 1 .. Len(s) : i \in K =>
          c[i] \in 1 .. Len(Pick(s, K)) /\ Pick(s, K)[c[i]] = s[i]
    BY <1>2, <1>3, PicksPlaces
  <2>2. \A i, k \in 1 .. Len(s) : i < k /\ k \in K => c[i] < c[k]
    BY <1>2, <1>3, PicksPlaces
  <2>3. \A j \in 1 .. Len(Pick(s, K)) : \E i \in 1 .. Len(s) : i \in K /\ c[i] = j
    <3>1. \A j \in 1 .. Len(f[Len(s)]) : \E i \in 1 .. Len(s) : i \in K /\ Len(f[i]) = j
      BY <1>2, PicksOnto
    <3> QED BY <1>2, <1>3, <3>1
  <2> QED BY <1>4, <2>1, <2>2, <2>3 DEF Embeds
<1>6. ASSUME NEW J, NEW L, \A i \in 1 .. Len(s) : i \in J => i \in K,
             \A i \in 1 .. Len(s) : i \in K => (c[i] \in L <=> i \in J)
      PROVE  Pick(Pick(s, K), L) = Pick(s, J)
  <2>1. \A i \in 1 .. Len(s) : i \in K => (Len(f[i]) \in L <=> i \in J)
    BY <1>3, <1>6
  <2> QED BY <1>2, <1>6, <2>1, PicksTwice
<1> QED BY <1>5, <1>6

Mirrors(c, s, t, K, A, B) ==
  /\ A \subseteq 1 .. Len(s) /\ B \subseteq 1 .. Len(t)
  /\ \A i \in 1 .. Len(s) : i \in K => (c[i] \in B <=> i \in A)

LEMMA MinEmbeds ==
  ASSUME NEW s \in Seq(Faults), NEW t \in Seq(Faults), NEW K, NEW c, Embeds(c, s, t, K),
         NEW A, NEW B, Mirrors(c, s, t, K, A, B), A # {}, Min(A) \in K
  PROVE  B # {} /\ Min(B) = c[Min(A)]
<1> USE DEF Mirrors
<1> DEFINE m == Min(A)
<1>0. A \subseteq Nat /\ B \subseteq Nat
  OBVIOUS
<1>1. m \in A /\ \A y \in A : m <= y
  BY <1>0, MinFacts
<1> HIDE DEF m
<1>2. m \in 1 .. Len(s) /\ m \in K /\ c[m] \in B
  BY <1>1 DEF m
<1>3. Min(B) \in B /\ \A y \in B : Min(B) <= y
  BY <1>0, <1>2, MinFacts
<1>4. PICK i \in 1 .. Len(s) : i \in K /\ c[i] = Min(B)
  BY <1>3 DEF Embeds
<1>5. i \in A /\ m <= i
  BY <1>1, <1>3, <1>4
<1>6. m # i => c[m] < c[i]
  BY <1>2, <1>4, <1>5 DEF Embeds
<1>7. c[m] \in Nat /\ c[i] \in Nat /\ c[i] <= c[m]
  BY <1>2, <1>3, <1>4 DEF Embeds
<1>8. c[m] = c[i]
  BY <1>6, <1>7
<1> QED BY <1>2, <1>4, <1>8 DEF m

LEMMA PickHas ==
  ASSUME NEW T, NEW s \in Seq(T), NEW I, NEW i \in 1 .. Len(s), i \in I
  PROVE  \E j \in 1 .. Len(Pick(s, I)) : Pick(s, I)[j] = s[i]
<1>1. PICK c : Embeds(c, s, Pick(s, I), I)
  BY PickEmbeds
<1> QED BY <1>1 DEF Embeds

(***************************************************************************)
(* The faults that have fired so far.                                      *)
(***************************************************************************)
FiredOnly(r, G) == \A j \in 1 .. Len(r.fired) : r.fired[j] \in G

LEMMA FiredStays ==
  ASSUME NEW r, NEW d, NEW o, Follows(r, d, o), NEW G, FiredOnly(d, G), Len(r.fired) \in Nat
  PROVE  FiredOnly(r, G)
<1>1. Len(d.fired) \in Nat
  BY DEF Follows, States
<1> QED BY <1>1 DEF Follows, FiredOnly

(***************************************************************************)
(* Every fault that fires on an operation is among the faults fired.       *)
(***************************************************************************)
LEMMA FiresKept ==
  ASSUME NEW r \in States, NEW faults \in Seq(Faults), NEW o, NEW G,
         FiredOnly(op(faults, r, o), G), NEW i \in Fires(faults, r, o)
  PROVE  i \in 1 .. Len(faults) /\ faults[i] \in G
<1> DEFINE p == Pick(faults, Fires(faults, r, o))
           u == r.fired
           d == op(faults, r, o)
<1>1. p \in Seq(Faults) /\ u \in Seq(Faults) /\ i \in 1 .. Len(faults)
  BY PickType, HereFacts DEF States
<1>2. PICK j \in 1 .. Len(p) : p[j] = faults[i]
  BY <1>1, PickHas
<1>3. d.fired = u \o p \/ d.fired = Append(u \o p, faults[Min(Shorts(faults, r))])
  <2> DEFINE x == faults[Min(Shorts(faults, r))]
             e == EndOf(faults, r)
             z == Failed(r)
  <2>1. d = IF Fails(faults, r) # {} THEN Noted(r, o, u \o p, r.files, z, e)
            ELSE IF o.kind = "append" /\ Shorts(faults, r) # {}
              THEN Noted(r, o, Append(u \o p, x), Stored(r.files, o), z, r.end)
            ELSE Noted(r, o, u \o p, Stored(r.files, o), r.failed, r.end)
    BY OpIs
  <2>2. /\ Noted(r, o, u \o p, r.files, z, e).fired = u \o p
        /\ Noted(r, o, Append(u \o p, x), Stored(r.files, o), z, r.end).fired = Append(u \o p, x)
        /\ Noted(r, o, u \o p, Stored(r.files, o), r.failed, r.end).fired = u \o p
    BY DEF Noted
  <2> HIDE DEF d, u, p, x, e, z
  <2>3. d.fired = u \o p \/ d.fired = Append(u \o p, x)
    BY <2>1, <2>2
  <2> QED BY <2>3 DEF x
<1> HIDE DEF d, u, p
<1>4. u \o p \in Seq(Faults) /\ Len(u) + j \in 1 .. Len(u \o p) /\ (u \o p)[Len(u) + j] = p[j]
  BY <1>1, <1>2
<1> DEFINE w == u \o p
           x == faults[Min(Shorts(faults, r))]
<1>a. Len(Append(w, x)) = Len(w) + 1 /\ \A k \in 1 .. Len(w) : Append(w, x)[k] = w[k]
  BY <1>4, AppendKeeps
<1> HIDE DEF w, x
<1>5. Len(u) + j \in 1 .. Len(d.fired) /\ d.fired[Len(u) + j] = faults[i]
  <2>1. d.fired = w \/ d.fired = Append(w, x)
    BY <1>3 DEF w, x
  <2>2. /\ Len(w) \in Nat /\ Len(u) + j \in 1 .. Len(w) /\ w[Len(u) + j] = faults[i]
    BY <1>2, <1>4 DEF w
  <2> QED BY <1>a, <2>1, <2>2
<1> QED BY <1>1, <1>5 DEF FiredOnly, d

(***************************************************************************)
(* An operation under only the faults of G is the same operation, as long  *)
(* as every fault that fires on it is in G.                                *)
(***************************************************************************)
OfKind(faults, G) == {i \in DOMAIN faults : faults[i] \in G}

LEMMA OpSame ==
  ASSUME NEW r \in States, NEW faults \in Seq(Faults), NEW o, NEW G,
         FiredOnly(op(faults, r, o), G)
  PROVE  op(Pick(faults, OfKind(faults, G)), r, o) = op(faults, r, o)
<1> DEFINE K == OfKind(faults, G)
           kept == Pick(faults, K)
           here == Here(faults, r)
           fails == Fails(faults, r)
           shorts == Shorts(faults, r)
           fires == Fires(faults, r, o)
           here2 == Here(kept, r)
           fails2 == Fails(kept, r)
           shorts2 == Shorts(kept, r)
           fires2 == Fires(kept, r, o)
<1>1. \A i \in 1 .. Len(faults) : i \in K <=> faults[i] \in G
  BY DEF OfKind
<1>2. kept \in Seq(Faults) /\ Len(faults) \in Nat /\ Len(kept) \in Nat
  BY PickType
<1>3. PICK c : /\ Embeds(c, faults, kept, K)
               /\ \A J, L : /\ \A i \in 1 .. Len(faults) : i \in J => i \in K
                            /\ \A i \in 1 .. Len(faults) : i \in K => (c[i] \in L <=> i \in J)
                            => Pick(kept, L) = Pick(faults, J)
  BY PickEmbeds
<1> HIDE DEF kept, K
<1>4. /\ here \subseteq 1 .. Len(faults) /\ fails \subseteq here /\ shorts \subseteq here
      /\ fires \subseteq here /\ here2 \subseteq 1 .. Len(kept) /\ fails2 \subseteq here2
      /\ shorts2 \subseteq here2 /\ fires2 \subseteq here2
  BY <1>2, HereFacts
<1>5. ASSUME NEW i \in 1 .. Len(faults), i \in K
      PROVE  /\ c[i] \in here2 <=> i \in here
             /\ c[i] \in fails2 <=> i \in fails
             /\ c[i] \in shorts2 <=> i \in shorts
  <2>1. c[i] \in 1 .. Len(kept) /\ kept[c[i]] = faults[i]
    BY <1>3, <1>5 DEF Embeds
  <2>2. DOMAIN kept = 1 .. Len(kept) /\ DOMAIN faults = 1 .. Len(faults)
    BY <1>2
  <2>3. c[i] \in here2 <=> i \in here
    BY <2>1, <2>2 DEF Here, byOp
  <2> QED BY <2>1, <2>3 DEF Fails, Failing, Shorts
<1>6. fires \subseteq K
  BY <1>1, <1>4, FiresKept
<1>7. \A i \in fails : (\A k \in fails : i <= k) => i \in K
  <2> SUFFICES ASSUME NEW i \in fails, \A k \in fails : i <= k PROVE i \in fires
    BY <1>6
  <2>1. faults[i].kind \in {"Crash", "WriteError", "SyncError"} /\ i \in here
    BY DEF Fails, Failing
  <2>2. i \in Looked(faults, here)
    BY <2>1 DEF Looked, Fails
  <2> QED BY <2>1, <2>2 DEF Fires, Takes
<1>8. fails # {} => Min(fails) \in fails /\ Min(fails) \in K
  <2>1. fails \subseteq Nat
    BY <1>4
  <2> QED BY <1>7, <2>1, MinFacts
<1>9. fails # {} => fails2 # {} /\ Min(fails2) = c[Min(fails)]
  <2>1. fails \subseteq 1 .. Len(faults) /\ fails2 \subseteq 1 .. Len(kept)
    BY <1>4
  <2>2. \A i \in 1 .. Len(faults) : i \in K => (c[i] \in fails2 <=> i \in fails)
    BY <1>5
  <2>3. Embeds(c, faults, kept, K) /\ kept \in Seq(Faults)
    BY <1>2, <1>3
  <2>4. Mirrors(c, faults, kept, K, fails, fails2)
    BY <2>1, <2>2 DEF Mirrors
  <2> HIDE DEF fails, fails2
  <2> QED BY <1>8, <2>3, <2>4, MinEmbeds
<1>10. \A j \in here2 : \E i \in 1 .. Len(faults) : i \in K /\ i \in here /\ c[i] = j
  <2> SUFFICES ASSUME NEW j \in here2
               PROVE  \E i \in 1 .. Len(faults) : i \in K /\ i \in here /\ c[i] = j
    OBVIOUS
  <2>1. PICK i \in 1 .. Len(faults) : i \in K /\ c[i] = j
    BY <1>3, <1>4 DEF Embeds
  <2> QED BY <1>5, <2>1
<1>11. fails = {} => fails2 = {}
  <2> SUFFICES ASSUME NEW j \in fails2 PROVE fails # {}
    OBVIOUS
  <2>1. PICK i \in 1 .. Len(faults) : i \in K /\ i \in here /\ c[i] = j
    BY <1>4, <1>10
  <2> QED BY <1>5, <2>1
<1>12. ASSUME NEW i \in 1 .. Len(faults), i \in K PROVE c[i] \in fires2 <=> i \in fires
  <2>1. c[i] \in 1 .. Len(kept) /\ kept[c[i]] = faults[i] /\ c[i] \in Nat
    BY <1>3, <1>12 DEF Embeds
  <2>2. c[i] \in Looked(kept, here2) <=> i \in Looked(faults, here)
    <3>1. c[i] \in here2 <=> i \in here
      BY <1>5, <1>12
    <3>2. ASSUME \A k \in fails : i <= k, NEW j \in fails2 PROVE c[i] <= j
      <4>1. PICK k \in 1 .. Len(faults) : k \in K /\ k \in here /\ c[k] = j
        BY <1>4, <1>10
      <4>2. k \in fails /\ i <= k
        BY <1>5, <3>2, <4>1
      <4>3. i # k => c[i] < c[k]
        BY <1>3, <4>1, <4>2 DEF Embeds
      <4>4. c[k] \in Nat
        BY <1>3 DEF Embeds
      <4> QED BY <2>1, <4>1, <4>3, <4>4
    <3>3. ASSUME \A j \in fails2 : c[i] <= j, NEW k \in fails PROVE i <= k
      <4> DEFINE m == Min(fails)
      <4>1. m \in fails /\ m \in K /\ m <= k /\ m \in 1 .. Len(faults) /\ k \in 1 .. Len(faults)
        <5>1. fails \subseteq Nat /\ fails \subseteq 1 .. Len(faults)
          BY <1>4
        <5>2. m \in fails /\ \A y \in fails : m <= y
          BY <5>1, MinFacts
        <5> QED BY <1>8, <5>1, <5>2
      <4> HIDE DEF m
      <4>2. c[m] \in fails2 /\ c[i] <= c[m]
        BY <1>5, <3>3, <4>1
      <4>3. m < i => c[m] < c[i]
        BY <1>3, <1>12, <4>1 DEF Embeds
      <4>4. c[m] \in Nat
        BY <1>3, <4>1 DEF Embeds
      <4> QED BY <2>1, <4>1, <4>2, <4>3, <4>4
    <3>4. (\A k \in fails : i <= k) <=> (\A j \in fails2 : c[i] <= j)
      BY <3>2, <3>3
    <3> QED BY <3>1, <3>4 DEF Looked, Fails
  <2> QED BY <2>1, <2>2 DEF Fires
<1>13. Pick(kept, fires2) = Pick(faults, fires)
  <2>1. \A i \in 1 .. Len(faults) : i \in fires => i \in K
    BY <1>6
  <2>2. \A i \in 1 .. Len(faults) : i \in K => (c[i] \in fires2 <=> i \in fires)
    BY <1>12
  <2> HIDE DEF fires, fires2
  <2> QED BY <1>3, <2>1, <2>2
<1> DEFINE picked == r.fired \o Pick(faults, fires)
<1>14. r.fired \o Pick(kept, fires2) = picked
  BY <1>13
<1> HIDE DEF picked
<1>15. CASE fails # {}
  <2>1. Min(fails) \in 1 .. Len(faults)
    BY <1>4, <1>8, <1>15
  <2>2. kept[Min(fails2)] = faults[Min(fails)]
    BY <1>3, <1>8, <1>9, <1>15, <2>1 DEF Embeds
  <2>3. op(faults, r, o) = Noted(r, o, picked, r.files, Failed(r), EndOf(faults, r))
    BY <1>15, OpIs DEF picked
  <2>4. op(kept, r, o) = Noted(r, o, picked, r.files, Failed(r), EndOf(kept, r))
    BY <1>9, <1>14, <1>15, OpIs
  <2>5. EndOf(kept, r) = EndOf(faults, r)
    BY <2>2 DEF EndOf
  <2> QED BY <2>3, <2>4, <2>5 DEF kept, K
<1>16. CASE fails = {} /\ o.kind = "append" /\ shorts # {}
  <2> DEFINE x == faults[Min(shorts)]
  <2>1. op(faults, r, o) = Noted(r, o, Append(picked, x), Stored(r.files, o), Failed(r), r.end)
    BY <1>16, OpIs DEF picked
  <2>2. picked \in Seq(Faults)
    BY PickType DEF picked, States
  <2>3. x \in G
    <3>1. Len(Append(picked, x)) = Len(picked) + 1 /\ Append(picked, x)[Len(picked) + 1] = x
      BY <2>2, AppendKeeps
    <3>2. op(faults, r, o).fired = Append(picked, x)
      BY <2>1 DEF Noted
    <3>3. Len(picked) + 1 \in 1 .. Len(op(faults, r, o).fired)
      BY <2>2, <3>1, <3>2
    <3> QED BY <3>1, <3>2, <3>3 DEF FiredOnly
  <2>4. shorts \subseteq 1 .. Len(faults) /\ shorts \subseteq Nat /\ shorts2 \subseteq 1 .. Len(kept)
    BY <1>4
  <2>5. Min(shorts) \in 1 .. Len(faults) /\ Min(shorts) \in K
    BY <1>1, <1>16, <2>3, <2>4, MinFacts
  <2>6. shorts2 # {} /\ Min(shorts2) = c[Min(shorts)]
    <3>1. Embeds(c, faults, kept, K) /\ kept \in Seq(Faults)
      BY <1>2, <1>3
    <3>2. \A i \in 1 .. Len(faults) : i \in K => (c[i] \in shorts2 <=> i \in shorts)
      BY <1>5
    <3>3. shorts # {} /\ Min(shorts) \in K
      BY <1>16, <2>5
    <3>4. Mirrors(c, faults, kept, K, shorts, shorts2)
      BY <2>4, <3>2 DEF Mirrors
    <3> HIDE DEF shorts, shorts2
    <3> QED BY <3>1, <3>3, <3>4, MinEmbeds
  <2>7. kept[Min(shorts2)] = x
    BY <1>3, <2>5, <2>6 DEF Embeds
  <2>8. op(kept, r, o) = Noted(r, o, Append(picked, x), Stored(r.files, o), Failed(r), r.end)
    BY <1>11, <1>14, <1>16, <2>6, <2>7, OpIs
  <2> QED BY <2>1, <2>8 DEF kept, K
<1>17. CASE fails = {} /\ ~(o.kind = "append" /\ shorts # {})
  <2>1. shorts = {} => shorts2 = {}
    <3> SUFFICES ASSUME NEW j \in shorts2 PROVE shorts # {}
      OBVIOUS
    <3>1. PICK i \in 1 .. Len(faults) : i \in K /\ i \in here /\ c[i] = j
      BY <1>4, <1>10
    <3> QED BY <1>5, <3>1
  <2>2. op(faults, r, o) = Noted(r, o, picked, Stored(r.files, o), r.failed, r.end)
    BY <1>17, OpIs DEF picked
  <2>3. op(kept, r, o) = Noted(r, o, picked, Stored(r.files, o), r.failed, r.end)
    BY <1>11, <1>14, <1>17, <2>1, OpIs
  <2> QED BY <2>2, <2>3 DEF kept, K
<1> QED BY <1>15, <1>16, <1>17

-----------------------------------------------------------------------------
(***************************************************************************)
(* The whole run under only the faults that fired: it is the same run.     *)
(***************************************************************************)
Grows(r, d) ==
  /\ d \in States
  /\ Len(r.fired) <= Len(d.fired)
  /\ \A j \in 1 .. Len(r.fired) : d.fired[j] = r.fired[j]

Kept(faults, G) == Pick(faults, OfKind(faults, G))

LEMMA GrowsFired ==
  ASSUME NEW r \in States, NEW d, Grows(r, d), NEW G, FiredOnly(d, G)
  PROVE  FiredOnly(r, G)
<1>1. Len(d.fired) \in Nat /\ Len(r.fired) \in Nat
  BY DEF Grows, States
<1> QED BY <1>1 DEF Grows, FiredOnly

LEMMA GrowsOn ==
  ASSUME NEW r \in States, NEW d, NEW e, Grows(r, d), Grows(d, e)
  PROVE  Grows(r, e)
<1>1. Len(d.fired) \in Nat /\ Len(r.fired) \in Nat /\ Len(e.fired) \in Nat
  BY DEF Grows, States
<1> QED BY <1>1 DEF Grows

LEMMA EndsAt ==
  ASSUME NEW d \in States, NEW e \in Ends
  PROVE  LET new == [d EXCEPT !.end = e] IN
         /\ Grows(d, new) /\ new.fired = d.fired /\ new.end = e
         /\ new.stream = d.stream /\ new.ops = d.ops /\ new.step = d.step /\ new.i = d.i
         /\ new.written = d.written /\ new.files = d.files
<1> DEFINE new == [d EXCEPT !.end = e]
<1>1. new = [ops |-> d.ops, stream |-> d.stream, fired |-> d.fired, failed |-> d.failed,
             written |-> d.written, files |-> d.files, step |-> d.step, i |-> d.i, end |-> e]
  <2>1. d = [ops |-> d.ops, stream |-> d.stream, fired |-> d.fired, failed |-> d.failed,
             written |-> d.written, files |-> d.files, step |-> d.step, i |-> d.i, end |-> d.end]
    BY DEF States
  <2> QED BY <2>1
<1>2. /\ d.ops \in Nat /\ d.stream \in Seq(Notes) /\ d.fired \in Seq(Faults)
      /\ d.failed \in SUBSET (Nat \X Nat)
      /\ d.written \in Names /\ d.files \in SUBSET Names /\ d.step \in Nat /\ d.i \in Nat
  BY DEF States
<1> HIDE DEF new
<1>3. new \in States
  BY <1>1, <1>2 DEF States
<1>4. Len(d.fired) \in Nat
  BY <1>2
<1>5. Grows(d, new)
  BY <1>1, <1>3, <1>4 DEF Grows
<1>6. /\ new.fired = d.fired /\ new.end = e
      /\ new.stream = d.stream /\ new.ops = d.ops /\ new.step = d.step /\ new.i = d.i
      /\ new.written = d.written /\ new.files = d.files
  BY <1>1
<1> QED BY <1>5, <1>6 DEF new

LEMMA FollowsGrows ==
  ASSUME NEW r, NEW d, NEW o, Follows(r, d, o)
  PROVE  Grows(r, d)
BY DEF Follows, Grows

LEMMA OpKept ==
  ASSUME NEW r \in States, NEW faults \in Seq(Faults), NEW o \in LogOps
  PROVE  /\ Grows(r, op(faults, r, o))
         /\ \A G : FiredOnly(op(faults, r, o), G) =>
                     op(Kept(faults, G), r, o) = op(faults, r, o)
<1>1. Follows(r, op(faults, r, o), o)
  BY LogOpUsable, OpFollows
<1>2. Grows(r, op(faults, r, o))
  BY <1>1, FollowsGrows
<1> QED BY <1>2, OpSame DEF Kept

(***************************************************************************)
(* The clock faults of a step all fire, so they too are among those kept.  *)
(***************************************************************************)
LEMMA NextStepSame ==
  ASSUME NEW r \in States, NEW faults \in Seq(Faults)
  PROVE  /\ Grows(r, NextStep(faults, r))
         /\ NextStep(faults, r).fired = r.fired \o Pick(faults, clockFaults(faults, r.step))
         /\ NextStep(faults, r).stream = r.stream /\ NextStep(faults, r).end = r.end
         /\ NextStep(faults, r).step = r.step + 1 /\ NextStep(faults, r).i = 1
         /\ NextStep(faults, r).ops = r.ops
         /\ \A G : FiredOnly(NextStep(faults, r), G) =>
                     NextStep(Kept(faults, G), r) = NextStep(faults, r)
<1> DEFINE J == clockFaults(faults, r.step)
           p == Pick(faults, J)
           u == r.fired
           Next1(fired) == [ops |-> r.ops, stream |-> r.stream, fired |-> fired,
                            failed |-> r.failed, written |-> r.written, files |-> r.files,
                            step |-> r.step + 1, i |-> 1, end |-> r.end]
<1>1. \A fs : NextStep(fs, r) = Next1(u \o Pick(fs, clockFaults(fs, r.step)))
  <2> SUFFICES ASSUME NEW fs PROVE NextStep(fs, r) = Next1(u \o Pick(fs, clockFaults(fs, r.step)))
    OBVIOUS
  <2> DEFINE q == u \o Pick(fs, clockFaults(fs, r.step))
             a == [r EXCEPT !.step = @ + 1]
             b == [a EXCEPT !.i = 1]
             c == [b EXCEPT !.fired = q]
  <2>0. r = [ops |-> r.ops, stream |-> r.stream, fired |-> r.fired, failed |-> r.failed,
             written |-> r.written, files |-> r.files, step |-> r.step, i |-> r.i, end |-> r.end]
    BY DEF States
  <2>1. NextStep(fs, r) = c
    BY DEF NextStep
  <2> HIDE DEF q
  <2>2. a = [ops |-> r.ops, stream |-> r.stream, fired |-> r.fired, failed |-> r.failed,
             written |-> r.written, files |-> r.files, step |-> r.step + 1, i |-> r.i, end |-> r.end]
    BY <2>0
  <2> HIDE DEF a
  <2>3. b = [ops |-> r.ops, stream |-> r.stream, fired |-> r.fired, failed |-> r.failed,
             written |-> r.written, files |-> r.files, step |-> r.step + 1, i |-> 1, end |-> r.end]
    BY <2>2
  <2> HIDE DEF b
  <2>4. c = Next1(q)
    BY <2>3
  <2> QED BY <2>1, <2>4 DEF q
<1>2. p \in Seq(Faults) /\ u \in Seq(Faults) /\ u \o p \in Seq(Faults)
  <2>1. p \in Seq(Faults)
    BY PickType
  <2>2. u \in Seq(Faults)
    BY DEF States
  <2> HIDE DEF p, u
  <2> QED BY <2>1, <2>2
<1>3. NextStep(faults, r) = Next1(u \o p)
  BY <1>1
<1>4. /\ r.ops \in Nat /\ r.stream \in Seq(Notes) /\ r.written \in Names
      /\ r.failed \in SUBSET (Nat \X Nat)
      /\ r.files \in SUBSET Names /\ r.step + 1 \in Nat /\ 1 \in Nat /\ r.end \in Ends
  BY DEF States
<1> HIDE DEF p, u, J
<1>5. /\ Next1(u \o p) \in States /\ Next1(u \o p).fired = u \o p
      /\ Next1(u \o p).stream = r.stream /\ Next1(u \o p).end = r.end
      /\ Next1(u \o p).step = r.step + 1 /\ Next1(u \o p).i = 1 /\ Next1(u \o p).ops = r.ops
  BY <1>2, <1>4 DEF States
<1>6. Grows(r, NextStep(faults, r))
  <2>1. Len(u) <= Len(u \o p) /\ \A j \in 1 .. Len(u) : (u \o p)[j] = u[j]
    BY <1>2
  <2> HIDE DEF Next1
  <2> QED BY <1>3, <1>5, <2>1 DEF Grows, u
<1>7. ASSUME NEW G, FiredOnly(NextStep(faults, r), G)
      PROVE  NextStep(Kept(faults, G), r) = NextStep(faults, r)
  <2> DEFINE K == OfKind(faults, G)
             kept == Pick(faults, K)
             L == clockFaults(kept, r.step)
  <2>1. \A i \in 1 .. Len(faults) : i \in J => i \in K
    <3> SUFFICES ASSUME NEW i \in 1 .. Len(faults), i \in J PROVE faults[i] \in G
      BY DEF OfKind
    <3>1. PICK j \in 1 .. Len(p) : p[j] = faults[i]
      BY PickHas DEF p
    <3>2. Len(u) + j \in 1 .. Len(u \o p) /\ (u \o p)[Len(u) + j] = faults[i]
      BY <1>2, <3>1
    <3>3. NextStep(faults, r).fired = u \o p
      BY <1>3, <1>5
    <3> QED BY <1>7, <3>2, <3>3 DEF FiredOnly
  <2>2. PICK c : /\ Embeds(c, faults, kept, K)
                 /\ \A A, B : /\ \A i \in 1 .. Len(faults) : i \in A => i \in K
                              /\ \A i \in 1 .. Len(faults) : i \in K => (c[i] \in B <=> i \in A)
                              => Pick(kept, B) = Pick(faults, A)
    BY PickEmbeds
  <2>3. kept \in Seq(Faults)
    BY PickType
  <2> HIDE DEF kept, K
  <2>4. ASSUME NEW i \in 1 .. Len(faults), i \in K PROVE c[i] \in L <=> i \in J
    <3>1. c[i] \in 1 .. Len(kept) /\ kept[c[i]] = faults[i]
      BY <2>2, <2>4 DEF Embeds
    <3>2. DOMAIN kept = 1 .. Len(kept) /\ DOMAIN faults = 1 .. Len(faults)
      BY <2>3
    <3> QED BY <3>1, <3>2 DEF J, clockFaults
  <2>5. Pick(kept, L) = p
    <3> HIDE DEF L
    <3> QED BY <2>1, <2>2, <2>4 DEF p
  <2>6. NextStep(kept, r) = Next1(u \o Pick(kept, L))
    <3> HIDE DEF Next1
    <3> QED BY <1>1
  <2>7. NextStep(kept, r) = Next1(u \o p)
    BY <2>5, <2>6
  <2> HIDE DEF Next1
  <2> QED BY <1>3, <2>7 DEF Kept, kept, K
<1> HIDE DEF Next1
<1> QED BY <1>3, <1>5, <1>6, <1>7 DEF p, u, J

LEMMA AdvanceIs ==
  ASSUME NEW v, NEW faults, NEW steps, NEW r
  PROVE  LET o == NextOp(v, r.step, r.i, r.fired, r.failed) IN
         Advance(v, faults, steps, r) =
           IF r.end # "running" THEN r
           ELSE IF o.kind = "broken" THEN [r EXCEPT !.end = "broken"]
           ELSE IF o.kind = "return" THEN [r EXCEPT !.end = "injected"]
           ELSE IF o.kind = "end"
             THEN IF r.step < steps THEN NextStep(faults, r) ELSE [r EXCEPT !.end = "finished"]
           ELSE op(faults, r, o)
BY DEF Advance

LEMMA AdvanceSame ==
  ASSUME NEW v \in Versions, NEW r \in States, NEW faults \in Seq(Faults), NEW steps
  PROVE  /\ Grows(r, Advance(v, faults, steps, r))
         /\ \A G : FiredOnly(Advance(v, faults, steps, r), G) =>
                     Advance(v, Kept(faults, G), steps, r) = Advance(v, faults, steps, r)
<1> DEFINE o == NextOp(v, r.step, r.i, r.fired, r.failed)
<1>1. o \in LogOps
  BY NextIsLogOp
<1>2. Grows(r, r)
  <2>1. Len(r.fired) \in Nat
    BY DEF States
  <2> QED BY <2>1 DEF Grows
<1>3. {"broken", "injected", "finished"} \subseteq Ends
  BY DEF Ends
<1>4. \A e \in {"broken", "injected", "finished"} : Grows(r, [r EXCEPT !.end = e])
  BY <1>3, EndsAt
<1>5. /\ Grows(r, op(faults, r, o))
      /\ \A G : FiredOnly(op(faults, r, o), G) =>
                  op(Kept(faults, G), r, o) = op(faults, r, o)
  BY <1>1, OpKept
<1>6. /\ Grows(r, NextStep(faults, r))
      /\ \A G : FiredOnly(NextStep(faults, r), G) =>
                  NextStep(Kept(faults, G), r) = NextStep(faults, r)
  BY NextStepSame
<1>7. \A fs : Advance(v, fs, steps, r) =
           IF r.end # "running" THEN r
           ELSE IF o.kind = "broken" THEN [r EXCEPT !.end = "broken"]
           ELSE IF o.kind = "return" THEN [r EXCEPT !.end = "injected"]
           ELSE IF o.kind = "end"
             THEN IF r.step < steps THEN NextStep(fs, r) ELSE [r EXCEPT !.end = "finished"]
           ELSE op(fs, r, o)
  BY AdvanceIs
<1> HIDE DEF o
<1>8. Grows(r, Advance(v, faults, steps, r))
  BY <1>2, <1>4, <1>5, <1>6, <1>7
<1>9. ASSUME NEW G, FiredOnly(Advance(v, faults, steps, r), G)
      PROVE  Advance(v, Kept(faults, G), steps, r) = Advance(v, faults, steps, r)
  BY <1>5, <1>6, <1>7, <1>9
<1> QED BY <1>8, <1>9

(***************************************************************************)
(* Simulate, iteration by iteration.                                       *)
(***************************************************************************)
Runs(h, v, faults, steps, n) ==
  h = [k \in 0 .. n |-> IF k = 0 THEN NewFS ELSE Advance(v, faults, steps, h[k - 1])]

LEMMA RunsExist ==
  ASSUME NEW v, NEW faults, NEW steps, NEW n \in Nat
  PROVE  \E h : Runs(h, v, faults, steps, n)
<1> DEFINE S == {k \in Nat : \E h : Runs(h, v, faults, steps, k)}
           step(r) == Advance(v, faults, steps, r)
<1>1. 0 \in S
  <2>1. Runs([i \in 0 .. 0 |-> NewFS], v, faults, steps, 0)
    BY DEF Runs
  <2> QED BY <2>1
<1>2. ASSUME NEW k \in 0 .. n - 1, k \in S PROVE k + 1 \in S
  <2>1. PICK f : Runs(f, v, faults, steps, k)
    BY <1>2
  <2> DEFINE last == step(f[k])
             g == [i \in 0 .. k + 1 |-> IF i = k + 1 THEN last ELSE f[i]]
  <2>2. ASSUME NEW i \in 0 .. k + 1
        PROVE  g[i] = IF i = 0 THEN NewFS ELSE step(g[i - 1])
    <3>1. CASE i = k + 1
      <4>1. g[i] = last /\ g[k] = f[k] /\ i - 1 = k /\ i # 0
        BY <3>1
      <4> QED BY <4>1
    <3>2. CASE i # k + 1
      <4>1. i \in 0 .. k /\ g[i] = f[i] /\ (i # 0 => i - 1 \in 0 .. k /\ g[i - 1] = f[i - 1])
        BY <3>2
      <4> HIDE DEF g
      <4>2. f[i] = IF i = 0 THEN NewFS ELSE step(f[i - 1])
        BY <2>1, <4>1 DEF Runs
      <4> QED BY <4>1, <4>2
    <3> QED BY <3>1, <3>2
  <2> HIDE DEF last
  <2>3. g = [i \in 0 .. k + 1 |-> IF i = 0 THEN NewFS ELSE step(g[i - 1])]
    <3> HIDE DEF step
    <3> QED BY <2>2
  <2>4. Runs(g, v, faults, steps, k + 1)
    BY <2>3 DEF Runs
  <2>5. \E h : Runs(h, v, faults, steps, k + 1)
    BY <2>4
  <2> QED BY <2>5
<1> HIDE DEF S
<1>3. \A k \in 0 .. n : k \in S
  BY <1>1, <1>2, Numbers!HoldsAll
<1>4. n \in S
  BY <1>3
<1> QED BY <1>4 DEF S

LEMMA FuelType == Fuel \in Nat
BY DEF Fuel

Simulates(h, v, faults, steps) ==
  /\ Simulate(v, faults, steps) = h[Fuel] /\ h[0] = NewFS
  /\ \A k \in 0 .. Fuel - 1 : h[k + 1] = Advance(v, faults, steps, h[k])

LEMMA SimulateIs ==
  ASSUME NEW v, NEW faults, NEW steps
  PROVE  \E h : Simulates(h, v, faults, steps)
<1> DEFINE h == CHOOSE h : Runs(h, v, faults, steps, Fuel)
<1>1. Runs(h, v, faults, steps, Fuel)
  BY RunsExist, FuelType
<1>2. Simulate(v, faults, steps) = h[Fuel]
  BY DEF Simulate, Runs
<1> HIDE DEF h
<1>3. \A i \in 0 .. Fuel : h[i] = IF i = 0 THEN NewFS ELSE Advance(v, faults, steps, h[i - 1])
  BY <1>1 DEF Runs
<1>4. h[0] = NewFS
  BY <1>3, FuelType
<1>5. ASSUME NEW k \in 0 .. Fuel - 1 PROVE h[k + 1] = Advance(v, faults, steps, h[k])
  <2>1. k + 1 \in 0 .. Fuel /\ k + 1 # 0 /\ (k + 1) - 1 = k
    BY FuelType
  <2> QED BY <1>3, <2>1
<1> QED BY <1>2, <1>4, <1>5 DEF Simulates

LEMMA NewFSType == NewFS \in States
<1>1. <<>> \in Seq(Notes) /\ <<>> \in Seq(Faults) /\ {} \in SUBSET Names
      /\ "none" \in Names /\ "running" \in Ends
  BY DEF Names, Ends
<1> QED BY <1>1 DEF NewFS, States

LEMMA SimulateSame ==
  ASSUME NEW v \in Versions, NEW faults \in Seq(Faults), NEW steps
  PROVE  /\ Simulate(v, faults, steps) \in States
         /\ \A G : FiredOnly(Simulate(v, faults, steps), G) =>
                     Simulate(v, Kept(faults, G), steps) = Simulate(v, faults, steps)
<1>0. PICK h : Simulates(h, v, faults, steps)
  BY SimulateIs
<1>1. /\ Simulate(v, faults, steps) = h[Fuel] /\ h[0] = NewFS
      /\ \A k \in 0 .. Fuel - 1 : h[k + 1] = Advance(v, faults, steps, h[k])
  BY <1>0 DEF Simulates
<1> DEFINE S == {k \in 0 .. Fuel : h[k] \in States}
<1>2. 0 \in S
  BY <1>1, NewFSType, FuelType
<1>3. ASSUME NEW k \in 0 .. Fuel - 1, k \in S PROVE k + 1 \in S
  <2>1. Grows(h[k], Advance(v, faults, steps, h[k]))
    BY <1>3, AdvanceSame
  <2>2. k + 1 \in 0 .. Fuel
    BY FuelType
  <2> QED BY <1>1, <2>1, <2>2 DEF Grows
<1>4. \A k \in 0 .. Fuel : k \in S
  <2> HIDE DEF S
  <2> QED BY <1>2, <1>3, FuelType, Numbers!HoldsAll
<1>5. Simulate(v, faults, steps) \in States
  BY <1>1, <1>4, FuelType
<1>6. ASSUME NEW G, FiredOnly(Simulate(v, faults, steps), G)
      PROVE  Simulate(v, Kept(faults, G), steps) = Simulate(v, faults, steps)
  <2>0. PICK g : Simulates(g, v, Kept(faults, G), steps)
    BY SimulateIs
  <2>1. /\ Simulate(v, Kept(faults, G), steps) = g[Fuel] /\ g[0] = NewFS
        /\ \A k \in 0 .. Fuel - 1 : g[k + 1] = Advance(v, Kept(faults, G), steps, g[k])
    BY <2>0 DEF Simulates
  <2> DEFINE D == {d \in 0 .. Fuel : FiredOnly(h[Fuel - d], G)}
             E == {k \in 0 .. Fuel : g[k] = h[k]}
  <2>2. 0 \in D
    <3>1. Fuel - 0 = Fuel
      BY FuelType
    <3> QED BY <1>1, <1>6, <3>1, FuelType
  <2>3. ASSUME NEW d \in 0 .. Fuel - 1, d \in D PROVE d + 1 \in D
    <3> DEFINE k == Fuel - (d + 1)
    <3>1. k \in 0 .. Fuel - 1 /\ k \in 0 .. Fuel /\ k + 1 = Fuel - d /\ d + 1 \in 0 .. Fuel
      BY FuelType
    <3>2. h[k] \in States /\ Grows(h[k], h[k + 1])
      BY <1>1, <1>4, <3>1, AdvanceSame
    <3>3. FiredOnly(h[k + 1], G)
      BY <2>3, <3>1
    <3>4. FiredOnly(h[k], G)
      BY <3>2, <3>3, GrowsFired
    <3> QED BY <3>1, <3>4
  <2>4. \A d \in 0 .. Fuel : d \in D
    <3> HIDE DEF D
    <3> QED BY <2>2, <2>3, FuelType, Numbers!HoldsAll
  <2>5. ASSUME NEW k \in 0 .. Fuel PROVE FiredOnly(h[k], G)
    <3>1. Fuel - k \in 0 .. Fuel /\ Fuel - (Fuel - k) = k
      BY FuelType
    <3> QED BY <2>4, <3>1
  <2>6. 0 \in E
    BY <1>1, <2>1, FuelType
  <2>7. ASSUME NEW k \in 0 .. Fuel - 1, k \in E PROVE k + 1 \in E
    <3>1. k \in 0 .. Fuel /\ k + 1 \in 0 .. Fuel
      BY FuelType
    <3>2. h[k] \in States /\ FiredOnly(h[k + 1], G) /\ h[k + 1] = Advance(v, faults, steps, h[k])
      BY <1>1, <1>4, <2>5, <3>1
    <3>3. Advance(v, Kept(faults, G), steps, h[k]) = h[k + 1]
      BY <3>2, AdvanceSame
    <3> QED BY <2>1, <2>7, <3>1, <3>3
  <2>8. \A k \in 0 .. Fuel : k \in E
    <3> HIDE DEF E
    <3> QED BY <2>6, <2>7, FuelType, Numbers!HoldsAll
  <2> QED BY <1>1, <2>1, <2>8, FuelType
<1> QED BY <1>5, <1>6

(***************************************************************************)
(* The streams count the operations.                                       *)
(***************************************************************************)
LEMMA FollowsCounts ==
  ASSUME NEW r \in States, r.ops = Len(r.stream), NEW d, NEW o, Follows(r, d, o), Usable(o)
  PROVE  d.ops = Len(d.stream)
<1> DEFINE s == r.stream
           n == note(o)
<1>1. s \in Seq(Notes) /\ n \in Notes
  BY DEF States, Usable
<1> HIDE DEF s, n
<1>2. Len(Append(s, n)) = Len(s) + 1
  BY <1>1
<1> QED BY <1>2 DEF Follows, s, n

LEMMA AdvanceStream ==
  ASSUME NEW v \in Versions, NEW r \in States, NEW faults \in Seq(Faults), NEW steps
  PROVE  LET next == Advance(v, faults, steps, r) IN
         \/ next.stream = r.stream /\ next.ops = r.ops
         \/ \E o \in LogOps : Follows(r, next, o)
<1> DEFINE o == NextOp(v, r.step, r.i, r.fired, r.failed)
           same(x) == x.stream = r.stream /\ x.ops = r.ops
<1>1. o \in LogOps
  BY NextIsLogOp
<1>2. Follows(r, op(faults, r, o), o)
  BY <1>1, LogOpUsable, OpFollows
<1>3. same(NextStep(faults, r))
  BY NextStepSame
<1>4. {"broken", "injected", "finished"} \subseteq Ends
  BY DEF Ends
<1>5. \A e \in {"broken", "injected", "finished"} : same([r EXCEPT !.end = e])
  BY <1>4, EndsAt
<1>6. Advance(v, faults, steps, r) =
           IF r.end # "running" THEN r
           ELSE IF o.kind = "broken" THEN [r EXCEPT !.end = "broken"]
           ELSE IF o.kind = "return" THEN [r EXCEPT !.end = "injected"]
           ELSE IF o.kind = "end"
             THEN IF r.step < steps THEN NextStep(faults, r) ELSE [r EXCEPT !.end = "finished"]
           ELSE op(faults, r, o)
  BY AdvanceIs
<1>7. same(r)
  OBVIOUS
<1> HIDE DEF o, same
<1>8. same(Advance(v, faults, steps, r)) \/ Advance(v, faults, steps, r) = op(faults, r, o)
  BY <1>3, <1>5, <1>6, <1>7
<1> QED BY <1>1, <1>2, <1>8 DEF same

LEMMA AdvanceCounts ==
  ASSUME NEW v \in Versions, NEW r \in States, NEW faults \in Seq(Faults), NEW steps,
         r.ops = Len(r.stream)
  PROVE  Advance(v, faults, steps, r).ops = Len(Advance(v, faults, steps, r).stream)
<1> DEFINE next == Advance(v, faults, steps, r)
<1>1. (next.stream = r.stream /\ next.ops = r.ops) \/ \E o \in LogOps : Follows(r, next, o)
  BY AdvanceStream
<1> HIDE DEF next
<1>2. ASSUME NEW o \in LogOps, Follows(r, next, o) PROVE next.ops = Len(next.stream)
  BY <1>2, LogOpUsable, FollowsCounts
<1>3. next.ops = Len(next.stream)
  BY <1>1, <1>2
<1> QED BY <1>3 DEF next

LEMMA AdvanceGrowsStream ==
  ASSUME NEW v \in Versions, NEW r \in States, NEW faults \in Seq(Faults), NEW steps
  PROVE  LET next == Advance(v, faults, steps, r) IN
         /\ Len(r.stream) <= Len(next.stream)
         /\ \A j \in 1 .. Len(r.stream) : next.stream[j] = r.stream[j]
<1> DEFINE next == Advance(v, faults, steps, r)
           s == r.stream
<1>1. next.stream = s \/ \E o \in LogOps : Follows(r, next, o)
  BY AdvanceStream
<1>2. s \in Seq(Notes)
  BY DEF States
<1> HIDE DEF next
<1>3. ASSUME NEW o \in LogOps, Follows(r, next, o)
      PROVE  Len(s) <= Len(next.stream) /\ \A j \in 1 .. Len(s) : next.stream[j] = s[j]
  <2> DEFINE n == note(o)
  <2>1. next.stream = Append(s, n)
    BY <1>3 DEF Follows
  <2> HIDE DEF n, s
  <2> QED BY <1>2, <2>1, AppendKeeps
<1> HIDE DEF s
<1>4. Len(s) <= Len(next.stream) /\ \A j \in 1 .. Len(s) : next.stream[j] = s[j]
  BY <1>1, <1>2, <1>3
<1> QED BY <1>4 DEF next, s

LEMMA SimulateCounts ==
  ASSUME NEW v \in Versions, NEW faults \in Seq(Faults), NEW steps
  PROVE  Simulate(v, faults, steps).ops = Len(Simulate(v, faults, steps).stream)
<1>0. PICK h : Simulates(h, v, faults, steps)
  BY SimulateIs
<1>1. /\ Simulate(v, faults, steps) = h[Fuel] /\ h[0] = NewFS
      /\ \A k \in 0 .. Fuel - 1 : h[k + 1] = Advance(v, faults, steps, h[k])
  BY <1>0 DEF Simulates
<1> DEFINE S == {k \in 0 .. Fuel : h[k] \in States /\ h[k].ops = Len(h[k].stream)}
<1>2. 0 \in S
  <2>1. NewFS.ops = 0 /\ NewFS.stream = <<>>
    BY DEF NewFS
  <2>2. Len(NewFS.stream) = 0
    BY <2>1
  <2> QED BY <1>1, <2>1, <2>2, NewFSType, FuelType
<1>3. ASSUME NEW k \in 0 .. Fuel - 1, k \in S PROVE k + 1 \in S
  <2>1. Grows(h[k], Advance(v, faults, steps, h[k]))
    BY <1>3, AdvanceSame
  <2>2. Advance(v, faults, steps, h[k]).ops = Len(Advance(v, faults, steps, h[k]).stream)
    BY <1>3, AdvanceCounts
  <2>3. k + 1 \in 0 .. Fuel
    BY FuelType
  <2> QED BY <1>1, <2>1, <2>2, <2>3 DEF Grows
<1>4. \A k \in 0 .. Fuel : k \in S
  <2> HIDE DEF S
  <2> QED BY <1>2, <1>3, FuelType, Numbers!HoldsAll
<1> QED BY <1>1, <1>4, FuelType

-----------------------------------------------------------------------------
(***************************************************************************)
(* The configurations of the sweep, and the table of their outcomes.       *)
(***************************************************************************)
LEMMA OutcomeIs ==
  ASSUME NEW v \in Versions, NEW s \in swarm, NEW n \in 1 .. DefaultSteps
  PROVE  Outcome(v, s, n) = Simulate(v, s, n)
<1> DEFINE table == [c \in Versions \X (1 .. DefaultSteps) |-> RunsOf(c[1], c[2])]
           row == [t \in swarm |-> Simulate(v, t, n)]
<1>1. <<v, n>> \in Versions \X (1 .. DefaultSteps)
  OBVIOUS
<1>2. table[<<v, n>>] = RunsOf(v, n)
  BY <1>1
<1>4. \A f : Tabled(f) = f
  BY DEF Tabled
<1>5. Outcomes = table /\ RunsOf(v, n) = row
  BY <1>4 DEF Outcomes, RunsOf
<1>6. row[s] = Simulate(v, s, n)
  OBVIOUS
<1> QED BY <1>2, <1>5, <1>6 DEF Outcome

Ordered(a, b) ==
  \/ Rank(a.kind) < Rank(b.kind)
  \/ a.kind = b.kind /\ ~ isCrash(a.kind)

LEMMA SwarmIs ==
  ASSUME NEW s
  PROVE  s \in swarm <=> /\ s \in Seq(Faults) /\ Len(s) <= MaxFaults
                         /\ \A i, j \in 1 .. Len(s) : i < j => Ordered(s[i], s[j])
<1>1. ASSUME s \in swarm
      PROVE  /\ s \in Seq(Faults) /\ Len(s) <= MaxFaults
             /\ \A i, j \in 1 .. Len(s) : i < j => Ordered(s[i], s[j])
  <2>1. PICK n \in 0 .. MaxFaults : s \in [1 .. n -> Faults]
    BY <1>1 DEF swarm
  <2>2. s \in Seq(Faults) /\ Len(s) = n /\ DOMAIN s = 1 .. Len(s)
    BY <2>1
  <2>3. \A i, j \in DOMAIN s : i < j => Ordered(s[i], s[j])
    BY <1>1 DEF swarm, Ordered
  <2> QED BY <2>2, <2>3
<1>2. ASSUME s \in Seq(Faults), Len(s) <= MaxFaults,
             \A i, j \in 1 .. Len(s) : i < j => Ordered(s[i], s[j])
      PROVE  s \in swarm
  <2>1. Len(s) \in 0 .. MaxFaults /\ s \in [1 .. Len(s) -> Faults] /\ DOMAIN s = 1 .. Len(s)
    BY <1>2
  <2>2. s \in UNION {[1 .. n -> Faults] : n \in 0 .. MaxFaults}
    BY <2>1
  <2>3. \A i, j \in DOMAIN s : i < j => Ordered(s[i], s[j])
    BY <1>2, <2>1
  <2> QED BY <2>2, <2>3 DEF swarm, Ordered
<1> QED BY <1>1, <1>2

LEMMA SwarmPick ==
  ASSUME NEW s \in swarm, NEW I
  PROVE  Pick(s, I) \in swarm
<1> DEFINE t == Pick(s, I)
<1>1. s \in Seq(Faults) /\ Len(s) <= MaxFaults
      /\ \A i, j \in 1 .. Len(s) : i < j => Ordered(s[i], s[j])
  BY SwarmIs
<1>2. t \in Seq(Faults) /\ Len(t) <= Len(s)
  BY <1>1, PickType
<1>3. Len(t) <= MaxFaults
  BY <1>1, <1>2
<1>4. PICK c : Embeds(c, s, t, I)
  BY <1>1, PickEmbeds
<1> HIDE DEF t
<1>5. ASSUME NEW i \in 1 .. Len(t), NEW j \in 1 .. Len(t), i < j PROVE Ordered(t[i], t[j])
  <2>1. PICK a \in 1 .. Len(s) : a \in I /\ c[a] = i
    BY <1>4 DEF Embeds
  <2>2. PICK b \in 1 .. Len(s) : b \in I /\ c[b] = j
    BY <1>4 DEF Embeds
  <2>3. t[i] = s[a] /\ t[j] = s[b]
    BY <1>4, <2>1, <2>2 DEF Embeds
  <2>4. b < a => c[b] < c[a]
    BY <1>4, <2>1 DEF Embeds
  <2>5. a < b
    BY <1>1, <1>2, <1>5, <2>1, <2>2, <2>4
  <2> QED BY <1>1, <2>3, <2>5
<1> QED BY <1>2, <1>3, <1>5, SwarmIs DEF t

LEMMA SwarmWithout ==
  ASSUME NEW s \in swarm, NEW k \in 1 .. Len(s)
  PROVE  Without(s, k) \in swarm
<1>1. s \in Seq(Faults) /\ Len(s) <= MaxFaults
      /\ \A i, j \in 1 .. Len(s) : i < j => Ordered(s[i], s[j])
  BY SwarmIs
<1> DEFINE t == Without(s, k)
<1>2. t \in Seq(Faults)
  BY <1>1, WithoutIsSeq
<1>3. Len(t) = Len(s) - 1
      /\ \A i \in 1 .. Len(t) : t[i] = IF i < k THEN s[i] ELSE s[i + 1]
  <2> DEFINE a == SubSeq(s, 1, k - 1)
             b == SubSeq(s, k + 1, Len(s))
  <2>1. a \in Seq(Faults) /\ Len(a) = k - 1 /\ \A i \in 1 .. k - 1 : a[i] = s[i]
    BY <1>1
  <2>2. b \in Seq(Faults) /\ Len(b) = Len(s) - k /\ \A i \in 1 .. Len(s) - k : b[i] = s[k + i]
    BY <1>1
  <2>3. t = a \o b
    BY DEF Without
  <2> HIDE DEF a, b, t
  <2>0. Len(s) \in Nat
    BY <1>1
  <2>4. Len(t) = Len(s) - 1
    <3>0. a \in Seq(Faults) /\ b \in Seq(Faults)
      BY <2>1, <2>2
    <3>1. Len(t) = Len(a) + Len(b)
      BY <2>3, <3>0
    <3> QED BY <2>0, <2>1, <2>2, <3>1
  <2>5. ASSUME NEW i \in 1 .. Len(t) PROVE t[i] = IF i < k THEN s[i] ELSE s[i + 1]
    <3>1. CASE i < k
      BY <1>1, <2>1, <2>2, <2>3, <2>4, <3>1
    <3>2. CASE ~(i < k)
      <4>1. i - (k - 1) \in 1 .. Len(s) - k /\ k + (i - (k - 1)) = i + 1
        BY <1>1, <2>4, <3>2
      <4>2. t[i] = b[i - (k - 1)]
        BY <1>1, <2>1, <2>2, <2>3, <2>4, <3>2
      <4> QED BY <2>2, <3>2, <4>1, <4>2
    <3> QED BY <3>1, <3>2
  <2> QED BY <2>4, <2>5
<1> HIDE DEF t
<1>4. ASSUME NEW i \in 1 .. Len(t), NEW j \in 1 .. Len(t), i < j PROVE Ordered(t[i], t[j])
  <2> DEFINE a == IF i < k THEN i ELSE i + 1
             b == IF j < k THEN j ELSE j + 1
  <2>1. a \in 1 .. Len(s) /\ b \in 1 .. Len(s) /\ a < b
    BY <1>1, <1>3, <1>4
  <2>2. t[i] = s[a] /\ t[j] = s[b]
    BY <1>3
  <2> QED BY <1>1, <2>1, <2>2
<1>5. Len(t) <= MaxFaults
  BY <1>1, <1>3
<1> QED BY <1>2, <1>4, <1>5, SwarmIs DEF t

LEMMA SwarmEmpty == <<>> \in swarm
<1> DEFINE e == <<>>
<1>1. e \in Seq(Faults) /\ Len(e) = 0
  OBVIOUS
<1> HIDE DEF e
<1>2. Len(e) <= MaxFaults /\ \A i, j \in 1 .. Len(e) : i < j => Ordered(e[i], e[j])
  BY <1>1
<1> QED BY <1>1, <1>2, SwarmIs DEF e

(***************************************************************************)
(* The runs of the matrix are of the swarm too: their crash is at an       *)
(* operation of the clean run.                                             *)
(***************************************************************************)
LEMMA SwarmCrash ==
  ASSUME MaxFaults > 0, 1 \in Versions, NEW k \in 1 .. Len(Crashes),
         NEW n \in Nat \ {0}, n <= Len(CleanOps(1, DefaultSteps))
  PROVE  <<[kind |-> Crashes[k], at |-> n]>> \in swarm
<1> DEFINE clean == Simulate(1, <<>>, DefaultSteps)
           x == [kind |-> Crashes[k], at |-> n]
<1>1. Outcome(1, <<>>, DefaultSteps) = clean
  BY SwarmEmpty, OutcomeIs
<1>2. <<>> \in Seq(Faults)
  OBVIOUS
<1>3. clean \in States /\ clean.ops = Len(clean.stream)
  BY <1>2, SimulateSame, SimulateCounts
<1>4. n \in 1 .. clean.ops
  BY <1>1, <1>3 DEF CleanOps, States
<1>5. \E i \in DOMAIN Kinds : Kinds[i] = Crashes[k] /\ Kinds[i] # "ClockBack"
  <2>1. Len(Crashes) = 3 /\ Crashes[1] = "Crash" /\ Crashes[2] = "CrashZeros"
        /\ Crashes[3] = "CrashTorn"
    BY DEF Crashes
  <2>2. k = 1 \/ k = 2 \/ k = 3
    BY <2>1
  <2>3. DOMAIN Kinds = 1 .. 8 /\ Kinds[1] = "Crash" /\ Kinds[7] = "CrashZeros"
        /\ Kinds[8] = "CrashTorn"
    BY DEF Kinds
  <2> QED BY <2>1, <2>2, <2>3
<1>6. x \in Faults
  BY <1>4, <1>5 DEF Faults, Positions
<1> HIDE DEF x
<1> DEFINE e == <<x>>
<1>7. e \in Seq(Faults) /\ Len(e) = 1
  BY <1>6
<1> HIDE DEF e
<1>8. Len(e) <= MaxFaults /\ \A i, j \in 1 .. Len(e) : i < j => Ordered(e[i], e[j])
  BY <1>7
<1> QED BY <1>7, <1>8, SwarmIs DEF e, x

-----------------------------------------------------------------------------
(***************************************************************************)
(* What a run and a corpus entry are outcomes of: the configuration tried, *)
(* and the one written, of the log as recorded.                            *)
(***************************************************************************)
Ran(faults, steps) ==
  /\ faults \in swarm /\ steps \in 1 .. DefaultSteps
  /\ run = Outcome(version, faults, steps)

InvRuns ==
  /\ version \in Versions
  /\ pc \in {"matrix", "sweep", "faults", "steps", "minimized", "written", "done"} => version = 1
  /\ cfg \in [faults : swarm, steps : 1 .. DefaultSteps]
  /\ pc = "matrix" =>
       cfg.steps = DefaultSteps /\ pos \in Nat \ {0} /\ span \in 1 .. Len(Crashes)
  /\ pc \in {"matrix", "sweep", "faults", "done"} =>
       run = NewFS \/ Ran(tried.faults, tried.steps)
  /\ pc = "minimized" => run = Outcome(version, cfg.faults, cfg.steps)
  /\ pc \in {"written", "corpus", "replayed"} =>
       /\ entry.faults \in swarm /\ entry.steps \in 1 .. DefaultSteps
       /\ entry.clean = CleanOps(1, entry.steps)
       /\ entry.first = First(Outcome(1, entry.faults, entry.steps))
       /\ entry.met = Met(Outcome(1, entry.faults, entry.steps))
  /\ pc = "replayed" =>
       /\ run = Outcome(version, entry.faults, entry.steps)
       /\ msg = "none" /\ report.drifted = 0 => entry.clean = CleanOps(version, entry.steps)
  /\ "drifted" \in DOMAIN report

LEMMA RunsInit == Init => InvRuns
<1> SUFFICES ASSUME Init PROVE InvRuns
  OBVIOUS
<1>1. cfg \in [faults : swarm, steps : 1 .. DefaultSteps]
  BY SwarmEmpty DEF Init
<1>2. Len(Crashes) = 3
  BY DEF Crashes
<1> QED BY <1>1, <1>2 DEF Init, InvRuns

LEMMA RunsOne ==
  ASSUME NEW faults, NEW steps, NEW m, Run(faults, steps, m)
  PROVE  /\ tried'.faults = faults /\ tried'.steps = steps
         /\ run' = Outcome(version, faults, steps) /\ msg' = m
BY DEF Run

LEMMA RunsMatrix ==
  ASSUME InvRuns, MatrixPoint, MaxFaults > 0
  PROVE  InvRuns'
<1> DEFINE x == [kind |-> Crashes[span], at |-> pos]
<1>1. /\ pc = "matrix" /\ pc' = pc /\ version' = version
      /\ pos <= Len(CleanOps(version, DefaultSteps))
      /\ cfg' = [cfg EXCEPT !.faults = <<x>>] /\ tried' = cfg'
      /\ run' = Outcome(version, cfg'.faults, DefaultSteps)
      /\ IF span < Len(Crashes) THEN span' = span + 1 /\ pos' = pos
         ELSE span' = 1 /\ pos' = pos + 1
  BY DEF MatrixPoint, MorePoints
<1>2. /\ version = 1 /\ version \in Versions /\ pos \in Nat \ {0} /\ span \in 1 .. Len(Crashes)
      /\ cfg \in [faults : swarm, steps : 1 .. DefaultSteps] /\ "drifted" \in DOMAIN report
  BY <1>1 DEF InvRuns
<1>3. <<x>> \in swarm
  BY <1>1, <1>2, SwarmCrash
<1> HIDE DEF x
<1>4. /\ cfg' \in [faults : swarm, steps : 1 .. DefaultSteps] /\ cfg'.faults = <<x>>
      /\ cfg'.steps = DefaultSteps
  <2>1. cfg.steps = DefaultSteps
    BY <1>1 DEF InvRuns
  <2> QED BY <1>1, <1>2, <1>3, <2>1
<1>5. DOMAIN report' = DOMAIN report
  BY DEF MatrixPoint
<1>6. Len(Crashes) = 3
  BY DEF Crashes
<1>7. pos' \in Nat \ {0} /\ span' \in 1 .. Len(Crashes)
  BY <1>1, <1>2, <1>6
<1>8. Ran(tried.faults, tried.steps)'
  BY <1>1, <1>2, <1>3, <1>4 DEF Ran
<1> QED BY <1>1, <1>2, <1>4, <1>5, <1>7, <1>8 DEF InvRuns

LEMMA RunsSweep ==
  ASSUME InvRuns, Sweep
  PROVE  InvRuns'
<1>1. PICK m \in Messages :
        /\ Run(cfg.faults, cfg.steps, m)
        /\ IF m = "none" THEN pc' = "done" /\ want' = want ELSE pc' = "faults" /\ want' = m
  BY DEF Sweep
<1>2. /\ pc = "sweep" /\ UNCHANGED <<version, cfg, pos, span, entry>>
      /\ DOMAIN report' = DOMAIN report
  BY DEF Sweep
<1>3. pc' \in {"done", "faults"}
  BY <1>1
<1>4. /\ version = 1 /\ version \in Versions /\ "drifted" \in DOMAIN report
      /\ cfg \in [faults : swarm, steps : 1 .. DefaultSteps]
  BY <1>2 DEF InvRuns
<1>5. Ran(tried.faults, tried.steps)'
  BY <1>1, <1>2, <1>4, RunsOne DEF Ran
<1> QED BY <1>2, <1>3, <1>4, <1>5 DEF InvRuns

LEMMA RunsTryFault ==
  ASSUME InvMinimize, InvRuns, TryFault
  PROVE  InvRuns'
<1> DEFINE shorter == Without(cfg.faults, pos)
<1>1. PICK m \in Messages :
        /\ Run(shorter, cfg.steps, m)
        /\ IF reproduces(m)
             THEN cfg' = [cfg EXCEPT !.faults = shorter] /\ pos' = NextScan(pos)
             ELSE cfg' = cfg /\ pos' = pos + 1
  BY DEF TryFault
<1>2. /\ pc = "faults" /\ pos <= Len(cfg.faults) /\ pc' = pc
      /\ UNCHANGED <<version, report, entry>>
  BY DEF TryFault
<1>3. /\ version = 1 /\ version \in Versions /\ "drifted" \in DOMAIN report
      /\ cfg \in [faults : swarm, steps : 1 .. DefaultSteps] /\ pos \in Nat \ {0}
      /\ cfg.faults \in Seq(Faults)
  BY <1>2 DEF InvRuns, InvMinimize
<1>4. shorter \in swarm
  BY <1>2, <1>3, SwarmWithout
<1> HIDE DEF shorter
<1>5. Ran(tried.faults, tried.steps)'
  BY <1>1, <1>2, <1>3, <1>4, RunsOne DEF Ran
<1>6. cfg' \in [faults : swarm, steps : 1 .. DefaultSteps]
  BY <1>1, <1>3, <1>4
<1> QED BY <1>2, <1>3, <1>5, <1>6 DEF InvRuns

LEMMA RunsTrySpan ==
  ASSUME InvMinimize, InvRuns, TrySpan
  PROVE  InvRuns'
<1>1. /\ pc = "steps" /\ span >= 1 /\ pc' = pc /\ UNCHANGED <<version, report, entry>>
  BY DEF TrySpan
<1>2. /\ version = 1 /\ version \in Versions /\ "drifted" \in DOMAIN report
      /\ cfg \in [faults : swarm, steps : 1 .. DefaultSteps] /\ span \in Nat
  BY <1>1 DEF InvRuns, InvMinimize
<1>3. cfg' \in [faults : swarm, steps : 1 .. DefaultSteps]
  <2>1. CASE cfg.steps - span > 0
    <3>1. cfg' = [cfg EXCEPT !.steps = @ - span] \/ cfg' = cfg
      BY <2>1 DEF TrySpan
    <3>2. cfg.steps - span \in 1 .. DefaultSteps
      BY <1>1, <1>2, <2>1
    <3> QED BY <1>2, <3>1, <3>2
  <2>2. CASE ~(cfg.steps - span > 0)
    BY <1>2, <2>2 DEF TrySpan
  <2> QED BY <2>1, <2>2
<1> QED BY <1>1, <1>2, <1>3 DEF InvRuns

LEMMA RunsMinimized ==
  ASSUME InvRuns, Minimized
  PROVE  InvRuns'
<1>1. PICK m \in Messages : Run(cfg.faults, cfg.steps, m)
  BY DEF Minimized
<1>2. /\ pc = "steps" /\ pc' = "minimized" /\ UNCHANGED <<version, cfg, entry>>
      /\ DOMAIN report' = DOMAIN report
  BY DEF Minimized
<1>3. /\ version = 1 /\ version \in Versions /\ "drifted" \in DOMAIN report
      /\ cfg \in [faults : swarm, steps : 1 .. DefaultSteps]
  BY <1>2 DEF InvRuns
<1>4. run' = Outcome(version, cfg.faults, cfg.steps)
  BY <1>1, RunsOne
<1> QED BY <1>2, <1>3, <1>4 DEF InvRuns

LEMMA RunsWritten ==
  ASSUME InvRuns, writeCorpusEntry
  PROVE  InvRuns'
<1>1. /\ pc = "minimized" /\ pc' = "written"
      /\ entry' = [faults |-> cfg.faults, steps |-> cfg.steps,
                   clean |-> CleanOps(version, cfg.steps),
                   first |-> First(run), met |-> Met(run)]
      /\ UNCHANGED <<version, cfg, tried, run, report>>
  BY DEF writeCorpusEntry
<1>2. /\ version = 1 /\ version \in Versions /\ "drifted" \in DOMAIN report
      /\ cfg \in [faults : swarm, steps : 1 .. DefaultSteps]
      /\ run = Outcome(version, cfg.faults, cfg.steps)
  BY <1>1 DEF InvRuns
<1>3. /\ entry'.faults = cfg.faults /\ entry'.steps = cfg.steps
      /\ entry'.clean = CleanOps(1, cfg.steps)
      /\ entry'.first = First(Outcome(1, cfg.faults, cfg.steps))
      /\ entry'.met = Met(Outcome(1, cfg.faults, cfg.steps))
  BY <1>1, <1>2
<1> QED BY <1>1, <1>2, <1>3 DEF InvRuns

LEMMA RunsReplayed ==
  ASSUME InvRuns, simCorpus
  PROVE  InvRuns'
<1> DEFINE D(m) == IF m = "none" /\ Drifted(entry.clean, CleanOps(version, entry.steps))
                     THEN 1 ELSE 0
<1>1. PICK m \in Messages : /\ Run(entry.faults, entry.steps, m)
                            /\ report' = [report EXCEPT !.drifted = D(m)]
  BY DEF simCorpus
<1>2. pc = "corpus" /\ pc' = "replayed" /\ UNCHANGED <<version, cfg, entry>>
  BY DEF simCorpus
<1>3. /\ version \in Versions /\ cfg \in [faults : swarm, steps : 1 .. DefaultSteps]
      /\ "drifted" \in DOMAIN report
      /\ entry.faults \in swarm /\ entry.steps \in 1 .. DefaultSteps
      /\ entry.clean = CleanOps(1, entry.steps)
      /\ entry.first = First(Outcome(1, entry.faults, entry.steps))
      /\ entry.met = Met(Outcome(1, entry.faults, entry.steps))
  BY <1>2 DEF InvRuns
<1>4. run' = Outcome(version, entry.faults, entry.steps) /\ msg' = m
  BY <1>1, RunsOne
<1>5. report'.drifted = D(m) /\ "drifted" \in DOMAIN report'
  <2> HIDE DEF D
  <2> QED BY <1>1, <1>3
<1>6. m = "none" /\ D(m) = 0 => entry.clean = CleanOps(version, entry.steps)
  BY DEF Drifted
<1> HIDE DEF D
<1> QED BY <1>2, <1>3, <1>4, <1>5, <1>6 DEF InvRuns

LEMMA RunsNext == MaxFaults > 0 /\ InvMinimize /\ InvRuns /\ [Next]_vars => InvRuns'
<1> SUFFICES ASSUME MaxFaults > 0, InvMinimize, InvRuns, [Next]_vars PROVE InvRuns'
  OBVIOUS
<1>1. CASE MatrixDone
  BY <1>1 DEF MatrixDone, InvRuns, Ran
<1>2. CASE FaultsDone
  BY <1>2 DEF FaultsDone, InvRuns
<1>3. CASE ChangeLog
  BY <1>3 DEF ChangeLog, InvRuns
<1>4. CASE UNCHANGED vars
  BY <1>4 DEF vars, InvRuns, Ran
<1> QED BY <1>1, <1>2, <1>3, <1>4, RunsMatrix, RunsSweep, RunsTryFault, RunsTrySpan,
           RunsMinimized, RunsWritten, RunsReplayed DEF Next, Step, Finished

(***************************************************************************)
(* The faults a run reports as fired are all that mattered: scheduled      *)
(* alone, they make the same run (fs.go, Fired).                           *)
(***************************************************************************)
THEOREM FiredIsSufficient ==
  ASSUME MaxFaults > 0
  PROVE  Spec => []FiredSuffices
<1>1. InvRuns => FiredSuffices
  <2> SUFFICES ASSUME InvRuns, pc \in {"matrix", "faults", "done"}, run # NewFS
               PROVE  Outcome(version,
                              Pick(tried.faults, {i \in DOMAIN tried.faults :
                                \E j \in DOMAIN run.fired : run.fired[j] = tried.faults[i]}),
                              tried.steps) = run
    BY DEF FiredSuffices
  <2> DEFINE s == tried.faults
             G == {run.fired[j] : j \in DOMAIN run.fired}
  <2>1. version \in Versions /\ Ran(s, tried.steps)
    BY DEF InvRuns
  <2>2. s \in swarm /\ tried.steps \in 1 .. DefaultSteps /\ s \in Seq(Faults)
    BY <2>1, SwarmIs DEF Ran
  <2>3. run = Simulate(version, s, tried.steps)
    BY <2>1, <2>2, OutcomeIs DEF Ran
  <2>4. OfKind(s, G) = {i \in DOMAIN s : \E j \in DOMAIN run.fired : run.fired[j] = s[i]}
    BY DEF OfKind
  <2> HIDE DEF s
  <2>5. run \in States
    BY <2>1, <2>2, <2>3, SimulateSame
  <2>6. FiredOnly(run, G)
    BY <2>5 DEF FiredOnly, States
  <2> HIDE DEF G
  <2>7. Simulate(version, Kept(s, G), tried.steps) = run
    BY <2>1, <2>2, <2>3, <2>6, SimulateSame
  <2>8. Kept(s, G) \in swarm
    BY <2>2, SwarmPick DEF Kept
  <2>9. Outcome(version, Kept(s, G), tried.steps) = run
    BY <2>1, <2>2, <2>7, <2>8, OutcomeIs
  <2> QED BY <2>4, <2>9 DEF Kept, s
<1> QED BY <1>1, InvInit, InvNext, RunsInit, RunsNext, PTL DEF Spec

-----------------------------------------------------------------------------
(***************************************************************************)
(* A run whose faults neither flip a bit nor move the clock is the clean   *)
(* run up to the first operation they hit.  So the operations it meets     *)
(* until then, and the fault that strikes, are a function of the clean     *)
(* stream and the faults, whatever the log does after the error.           *)
(***************************************************************************)
Plain(faults) == \A i \in DOMAIN faults : faults[i].kind \notin {"BitFlip", "ClockBack"}

FailsAt(faults, k) == Failing(faults, byOp(faults, k))
ShortsAt(faults, k) == {i \in byOp(faults, k) : faults[i].kind = "ShortWrite"}

Hit(faults, k, kind) ==
  FailsAt(faults, k) # {} \/ (kind = "append" /\ ShortsAt(faults, k) # {})

(***************************************************************************)
(* The fault that strikes at an operation that is hit.                     *)
(***************************************************************************)
FaultAt(faults, k) ==
  IF FailsAt(faults, k) # {} THEN faults[Min(FailsAt(faults, k))]
  ELSE faults[Min(ShortsAt(faults, k))]

Unhit(faults, S) == \A k \in 1 .. Len(S) : ~ Hit(faults, k, S[k].kind)

(***************************************************************************)
(* Operation k of the clean stream S is the first that the faults hit: the *)
(* run r met S up to there, and the fault that struck is the first that    *)
(* fired in it.                                                            *)
(***************************************************************************)
StruckAt(faults, S, r, k) ==
  /\ Hit(faults, k, S[k].kind)
  /\ \A j \in 1 .. k - 1 : ~ Hit(faults, j, S[j].kind)
  /\ Len(r.fired) >= 1 /\ r.fired[1] = FaultAt(faults, k)
  /\ Len(r.stream) >= k /\ \A j \in 1 .. k : r.stream[j] = S[j]

Struck(faults, S, r) == \E k \in 1 .. Len(S) : StruckAt(faults, S, r, k)

LEMMA FaultAtIs ==
  ASSUME NEW faults \in Seq(Faults), NEW k, NEW kind, Hit(faults, k, kind)
  PROVE  FaultAt(faults, k) \in Faults /\ FaultAt(faults, k).at = k
<1>1. FailsAt(faults, k) \subseteq byOp(faults, k) /\ ShortsAt(faults, k) \subseteq byOp(faults, k)
  BY DEF FailsAt, ShortsAt, Failing
<1>2. byOp(faults, k) \subseteq 1 .. Len(faults) /\ byOp(faults, k) \subseteq Nat
      /\ \A i \in byOp(faults, k) : faults[i].at = k
  BY DEF byOp
<1>3. \E i \in byOp(faults, k) : FaultAt(faults, k) = faults[i]
  <2>1. CASE FailsAt(faults, k) # {}
    <3>1. Min(FailsAt(faults, k)) \in FailsAt(faults, k)
      BY <1>1, <1>2, <2>1, MinFacts
    <3> QED BY <1>1, <2>1, <3>1 DEF FaultAt
  <2>2. CASE FailsAt(faults, k) = {}
    <3>1. ShortsAt(faults, k) # {}
      BY <2>2 DEF Hit
    <3>2. Min(ShortsAt(faults, k)) \in ShortsAt(faults, k)
      BY <1>1, <1>2, <3>1, MinFacts
    <3> QED BY <1>1, <2>2, <3>2 DEF FaultAt
  <2> QED BY <2>1, <2>2
<1> QED BY <1>2, <1>3

LEMMA StruckFacts ==
  ASSUME NEW faults \in Seq(Faults), NEW S \in Seq(Notes), NEW r \in States,
         NEW k \in 1 .. Len(S), StruckAt(faults, S, r, k)
  PROVE  First(r) = <<FaultAt(faults, k)>> /\ Met(r) = SubSeq(S, 1, k)
<1> DEFINE T == r.stream
<1>1. T \in Seq(Notes) /\ r.fired \in Seq(Faults)
  BY DEF States
<1>2. r.fired # <<>> /\ r.fired[1] = FaultAt(faults, k) /\ FaultAt(faults, k).at = k
  BY FaultAtIs DEF StruckAt
<1>3. Len(T) >= k /\ \A j \in 1 .. k : T[j] = S[j]
  BY DEF StruckAt
<1>4. Met(r) = SubSeq(T, 1, k)
  BY <1>2 DEF Met
<1> HIDE DEF T
<1>5. SubSeq(T, 1, k) = SubSeq(S, 1, k)
  <2>1. k \in Nat /\ k <= Len(S) /\ k <= Len(T) /\ Len(S) \in Nat /\ Len(T) \in Nat
    BY <1>1, <1>3
  <2>2. /\ SubSeq(T, 1, k) = [j \in 1 .. k |-> T[j]]
        /\ SubSeq(S, 1, k) = [j \in 1 .. k |-> S[j]]
    BY <1>1, <2>1
  <2> QED BY <1>3, <2>2
<1> QED BY <1>2, <1>4, <1>5 DEF First

LEMMA StruckOnce ==
  ASSUME NEW faults \in Seq(Faults), NEW S \in Seq(Notes), NEW r \in States, NEW q \in States,
         Struck(faults, S, r), Struck(faults, S, q)
  PROVE  First(r) = First(q) /\ Met(r) = Met(q)
<1>1. PICK k \in 1 .. Len(S) : StruckAt(faults, S, r, k)
  BY DEF Struck
<1>2. PICK m \in 1 .. Len(S) : StruckAt(faults, S, q, m)
  BY DEF Struck
<1>3. k = m
  <2>1. ~(k < m)
    <3>1. k < m => k \in 1 .. m - 1
      OBVIOUS
    <3> QED BY <1>1, <1>2, <3>1 DEF StruckAt
  <2>2. ~(m < k)
    <3>1. m < k => m \in 1 .. k - 1
      OBVIOUS
    <3> QED BY <1>1, <1>2, <3>1 DEF StruckAt
  <2> QED BY <2>1, <2>2
<1> QED BY <1>1, <1>2, <1>3, StruckFacts

LEMMA NeverBoth ==
  ASSUME NEW faults, NEW S, NEW r, Struck(faults, S, r)
  PROVE  ~ Unhit(faults, S)
BY DEF Struck, StruckAt, Unhit

(***************************************************************************)
(* Once struck, always struck: the clean stream and the run only go on.    *)
(***************************************************************************)
LEMMA StruckStays ==
  ASSUME NEW faults, NEW S \in Seq(Notes), NEW S2 \in Seq(Notes), NEW r \in States,
         NEW q \in States,
         Len(S) <= Len(S2), \A j \in 1 .. Len(S) : S2[j] = S[j],
         Grows(r, q), Len(r.stream) <= Len(q.stream),
         \A j \in 1 .. Len(r.stream) : q.stream[j] = r.stream[j],
         Struck(faults, S, r)
  PROVE  Struck(faults, S2, q)
<1>1. PICK k \in 1 .. Len(S) : StruckAt(faults, S, r, k)
  BY DEF Struck
<1>2. k \in 1 .. Len(S2) /\ \A j \in 1 .. k : S2[j] = S[j]
  BY <1>1
<1> DEFINE T == r.stream
           U == q.stream
           F == r.fired
           H == q.fired
<1>3. T \in Seq(Notes) /\ U \in Seq(Notes) /\ F \in Seq(Faults) /\ H \in Seq(Faults)
  BY DEF States
<1>4. Len(F) <= Len(H) /\ (\A j \in 1 .. Len(F) : H[j] = F[j])
      /\ Len(T) <= Len(U) /\ (\A j \in 1 .. Len(T) : U[j] = T[j])
  BY DEF Grows
<1>5. Len(F) >= 1 /\ F[1] = FaultAt(faults, k) /\ Len(T) >= k
      /\ (\A j \in 1 .. k : T[j] = S[j])
  BY <1>1 DEF StruckAt
<1> HIDE DEF T, U, F, H
<1>6. Len(H) >= 1 /\ H[1] = FaultAt(faults, k) /\ Len(U) >= k
      /\ (\A j \in 1 .. k : U[j] = S2[j])
  <2>1. Len(F) \in Nat /\ Len(H) \in Nat /\ Len(T) \in Nat /\ Len(U) \in Nat
    BY <1>3
  <2> QED BY <1>2, <1>4, <1>5, <2>1
<1>7. StruckAt(faults, S2, q, k)
  BY <1>1, <1>2, <1>6 DEF StruckAt, U, H
<1> QED BY <1>2, <1>7 DEF Struck

LEMMA FailsIs ==
  ASSUME NEW faults, NEW r
  PROVE  /\ Fails(faults, r) = FailsAt(faults, r.ops + 1)
         /\ Shorts(faults, r) = ShortsAt(faults, r.ops + 1)
BY DEF Fails, Shorts, Here, FailsAt, ShortsAt

(***************************************************************************)
(* An operation that is not hit does what it does in the clean run.        *)
(***************************************************************************)
LEMMA OpUnhit ==
  ASSUME NEW r \in States, NEW faults \in Seq(Faults), NEW o, Plain(faults),
         ~ Hit(faults, r.ops + 1, o.kind)
  PROVE  op(faults, r, o) = Noted(r, o, r.fired, Stored(r.files, o), r.failed, r.end)
<1>1. Fails(faults, r) = {} /\ ~(o.kind = "append" /\ Shorts(faults, r) # {})
  BY FailsIs DEF Hit
<1>2. Fires(faults, r, o) = {}
  <2> SUFFICES ASSUME NEW i \in Fires(faults, r, o) PROVE FALSE
    OBVIOUS
  <2>1. /\ i \in Here(faults, r) /\ i \in DOMAIN faults
        /\ \/ faults[i].kind \in {"Crash", "WriteError", "SyncError"}
           \/ faults[i].kind = "BitFlip"
    BY DEF Fires, Looked, Takes, Here, byOp
  <2>2. i \in Fails(faults, r)
    BY <2>1 DEF Plain, Fails, Failing
  <2> QED BY <1>1, <2>2
<1>3. Pick(faults, Fires(faults, r, o)) = <<>>
  BY <1>2, PickNone
<1>4. r.fired \o <<>> = r.fired
  BY DEF States
<1> QED BY <1>1, <1>3, <1>4, OpIs

LEMMA NoFaults == \A k, kind : ~ Hit(<<>>, k, kind)
BY DEF Hit, FailsAt, ShortsAt, Failing, byOp

LEMMA UnhitSame ==
  ASSUME NEW v \in Versions, NEW r \in States, NEW faults \in Seq(Faults), NEW steps,
         Plain(faults),
         LET o == NextOp(v, r.step, r.i, r.fired, r.failed) IN
         ~(r.end = "running" /\ o.kind \notin {"broken", "return", "end"} /\ Hit(faults, r.ops + 1, o.kind))
  PROVE  Advance(v, faults, steps, r) = Advance(v, <<>>, steps, r)
<1> DEFINE o == NextOp(v, r.step, r.i, r.fired, r.failed)
           none == <<>>
           moved == Noted(r, o, r.fired, Stored(r.files, o), r.failed, r.end)
<1>1. none \in Seq(Faults) /\ Plain(none) /\ ~ Hit(none, r.ops + 1, o.kind)
  BY NoFaults DEF Plain
<1> HIDE DEF none
<1>2. /\ ~ Hit(faults, r.ops + 1, o.kind) => op(faults, r, o) = moved
      /\ op(none, r, o) = moved
  BY <1>1, OpUnhit
<1>5. clockFaults(faults, r.step) = {} /\ clockFaults(none, r.step) = {}
  BY <1>1 DEF clockFaults, Plain
<1>6. NextStep(faults, r) = NextStep(none, r)
  <2>1. Pick(faults, {}) = <<>> /\ Pick(none, {}) = <<>>
    BY <1>1, PickNone
  <2> QED BY <1>5, <2>1 DEF NextStep
<1>7. \A fs : Advance(v, fs, steps, r) =
           IF r.end # "running" THEN r
           ELSE IF o.kind = "broken" THEN [r EXCEPT !.end = "broken"]
           ELSE IF o.kind = "return" THEN [r EXCEPT !.end = "injected"]
           ELSE IF o.kind = "end"
             THEN IF r.step < steps THEN NextStep(fs, r) ELSE [r EXCEPT !.end = "finished"]
           ELSE op(fs, r, o)
  BY AdvanceIs
<1>8. ~(r.end = "running" /\ o.kind \notin {"broken", "return", "end"} /\ Hit(faults, r.ops + 1, o.kind))
  OBVIOUS
<1> HIDE DEF moved, o
<1>9. Advance(v, faults, steps, r) = Advance(v, none, steps, r)
  BY <1>2, <1>6, <1>7, <1>8
<1> QED BY <1>9 DEF none

(***************************************************************************)
(* The first operation that is hit is struck by the fault it should be.    *)
(***************************************************************************)
LEMMA PlainFires ==
  ASSUME NEW r \in States, NEW faults \in Seq(Faults), NEW o, Plain(faults)
  PROVE  /\ Fails(faults, r) = {} => Pick(faults, Fires(faults, r, o)) = <<>>
         /\ Fails(faults, r) # {} =>
              LET p == Pick(faults, Fires(faults, r, o)) IN
              /\ p \in Seq(Faults) /\ Len(p) >= 1
              /\ p[1] = faults[Min(Fails(faults, r))]
<1> DEFINE p == Pick(faults, Fires(faults, r, o))
           m == Min(Fails(faults, r))
<1>1. \A i \in Fires(faults, r, o) :
        i \in Fails(faults, r) /\ \A j \in Fails(faults, r) : i <= j
  <2> SUFFICES ASSUME NEW i \in Fires(faults, r, o)
               PROVE  i \in Fails(faults, r) /\ \A j \in Fails(faults, r) : i <= j
    OBVIOUS
  <2>1. /\ i \in Here(faults, r) /\ i \in DOMAIN faults
        /\ \/ faults[i].kind \in {"Crash", "WriteError", "SyncError"}
           \/ faults[i].kind = "BitFlip"
        /\ \A j \in Fails(faults, r) : i <= j
    BY DEF Fires, Looked, Takes, Here, byOp, Fails
  <2> QED BY <2>1 DEF Plain, Fails, Failing
<1>2. CASE Fails(faults, r) = {}
  <2>1. Fires(faults, r, o) = {}
    BY <1>1, <1>2
  <2> QED BY <1>2, <2>1, PickNone
<1>3. CASE Fails(faults, r) # {}
  <2>1. Fails(faults, r) \subseteq 1 .. Len(faults) /\ Fails(faults, r) \subseteq Nat
    BY HereFacts
  <2>2. m \in Fails(faults, r) /\ \A y \in Fails(faults, r) : m <= y
    BY <1>3, <2>1, MinFacts
  <2>3. m \in Fires(faults, r, o)
    <3>1. faults[m].kind \in {"Crash", "WriteError", "SyncError"} /\ m \in Here(faults, r)
      BY <2>2 DEF Fails, Failing
    <3>2. m \in Looked(faults, Here(faults, r))
      BY <2>2, <3>1 DEF Looked, Fails
    <3> QED BY <3>1, <3>2 DEF Fires, Takes
  <2> HIDE DEF m
  <2>4. \A i \in Fires(faults, r, o) : i = m
    BY <1>1, <2>1, <2>2
  <2>5. p \in Seq(Faults)
    BY PickType
  <2>6. \E j \in 1 .. Len(p) : p[j] = faults[m]
    BY <2>1, <2>2, <2>3, PickHas
  <2>7. PICK c : Embeds(c, faults, p, Fires(faults, r, o))
    BY PickEmbeds
  <2> HIDE DEF p
  <2>8. 1 \in 1 .. Len(p) /\ Len(p) >= 1
    BY <2>5, <2>6
  <2>9. p[1] = faults[m]
    BY <2>4, <2>7, <2>8 DEF Embeds
  <2> QED BY <1>3, <2>5, <2>8, <2>9 DEF p, m
<1> QED BY <1>2, <1>3

LEMMA OpHit ==
  ASSUME NEW r \in States, r.fired = <<>>, NEW faults \in Seq(Faults), Plain(faults),
         NEW o, Hit(faults, r.ops + 1, o.kind)
  PROVE  LET d == op(faults, r, o) IN
         /\ d.stream = Append(r.stream, note(o))
         /\ Len(d.fired) >= 1 /\ d.fired[1] = FaultAt(faults, r.ops + 1)
<1> DEFINE p == Pick(faults, Fires(faults, r, o))
           x == FaultAt(faults, r.ops + 1)
           d == op(faults, r, o)
<1>0. <<>> \o <<>> = <<>>
  OBVIOUS
<1>1. CASE Fails(faults, r) # {}
  <2>1. x = faults[Min(Fails(faults, r))]
    BY <1>1, FailsIs DEF FaultAt
  <2>2. p \in Seq(Faults) /\ Len(p) >= 1 /\ p[1] = x
    BY <1>1, <2>1, PlainFires
  <2>3. d = Noted(r, o, <<>> \o p, r.files, Failed(r), EndOf(faults, r))
    BY <1>1, OpIs
  <2> HIDE DEF p, x, d
  <2>4. <<>> \o p = p
    BY <2>2
  <2>5. d.stream = Append(r.stream, note(o)) /\ d.fired = p
    BY <2>3, <2>4 DEF Noted
  <2> QED BY <2>2, <2>5 DEF d, x
<1>2. CASE Fails(faults, r) = {}
  <2>1. o.kind = "append" /\ Shorts(faults, r) # {}
    BY <1>2, FailsIs DEF Hit
  <2>2. x = faults[Min(Shorts(faults, r))]
    BY <1>2, FailsIs DEF FaultAt
  <2>3. p = <<>>
    BY <1>2, PlainFires
  <2>4. d = Noted(r, o, Append(<<>> \o p, x), Stored(r.files, o), Failed(r), r.end)
    BY <1>2, <2>1, <2>2, OpIs
  <2> HIDE DEF p, x, d
  <2>5. d.stream = Append(r.stream, note(o)) /\ d.fired = Append(<<>>, x)
    BY <1>0, <2>3, <2>4 DEF Noted
  <2>6. Len(Append(<<>>, x)) = 1 /\ Append(<<>>, x)[1] = x
    OBVIOUS
  <2> QED BY <2>5, <2>6 DEF d, x
<1> QED BY <1>1, <1>2

LEMMA HitStrikes ==
  ASSUME NEW r \in States, r.ops = Len(r.stream), r.fired = <<>>,
         NEW faults \in Seq(Faults), Plain(faults),
         Unhit(faults, r.stream), NEW o \in LogOps, Hit(faults, r.ops + 1, o.kind)
  PROVE  Struck(faults, Append(r.stream, note(o)), op(faults, r, o))
<1> DEFINE d == op(faults, r, o)
           s == r.stream
           S == Append(s, note(o))
           k == r.ops + 1
<1>1. note(o).kind = o.kind /\ note(o) \in Notes
  BY LogOpUsable DEF note, Usable
<1>2. d.stream = S /\ Len(d.fired) >= 1 /\ d.fired[1] = FaultAt(faults, k)
  BY OpHit
<1>3. s \in Seq(Notes) /\ k = Len(s) + 1 /\ Len(s) \in Nat
  BY DEF States
<1> HIDE DEF d, s
<1>4. S \in Seq(Notes) /\ Len(S) = k /\ S[k] = note(o) /\ \A j \in 1 .. k - 1 : S[j] = s[j]
  BY <1>1, <1>3, AppendKeeps
<1>5. k \in 1 .. Len(S)
  BY <1>3, <1>4
<1>6. \A j \in 1 .. k - 1 : ~ Hit(faults, j, S[j].kind)
  BY <1>3, <1>4 DEF Unhit, s
<1>7. Hit(faults, k, S[k].kind)
  BY <1>1, <1>4
<1> HIDE DEF S, k
<1>8. StruckAt(faults, S, d, k)
  BY <1>2, <1>3, <1>4, <1>6, <1>7 DEF StruckAt
<1> QED BY <1>5, <1>8 DEF Struck, S, s, d

(***************************************************************************)
(* The clean run's stream only grows.                                      *)
(***************************************************************************)
Extends(S, T) ==
  S \in Seq(Notes) /\ T \in Seq(Notes) /\ Len(S) <= Len(T) /\ \A j \in 1 .. Len(S) : T[j] = S[j]

CleanOp(r, o) == Noted(r, o, r.fired, Stored(r.files, o), r.failed, r.end)

LEMMA CleanAdvance ==
  ASSUME NEW v \in Versions, NEW r \in States, NEW steps
  PROVE  LET o == NextOp(v, r.step, r.i, r.fired, r.failed)
             next == Advance(v, <<>>, steps, r) IN
         /\ next \in States /\ next.fired = r.fired
         /\ \/ next.stream = r.stream /\ next.ops = r.ops
               /\ (r.end # "running" \/ o.kind \in {"broken", "return", "end"})
            \/ next = CleanOp(r, o) /\ next.stream = Append(r.stream, note(o))
               /\ next.ops = r.ops + 1 /\ r.end = "running" /\ o.kind \notin {"broken", "return", "end"}
<1> DEFINE o == NextOp(v, r.step, r.i, r.fired, r.failed)
           none == <<>>
<1>1. none \in Seq(Faults) /\ Plain(none) /\ ~ Hit(none, r.ops + 1, o.kind)
  BY NoFaults DEF Plain
<1>2. Advance(v, none, steps, r) \in States
  <2> HIDE DEF none
  <2> QED BY <1>1, AdvanceSame DEF Grows
<1> HIDE DEF none
<1>3. op(none, r, o) = CleanOp(r, o)
  BY <1>1, OpUnhit DEF CleanOp
<1>4. /\ CleanOp(r, o).end = r.end /\ CleanOp(r, o).stream = Append(r.stream, note(o))
      /\ CleanOp(r, o).ops = r.ops + 1 /\ CleanOp(r, o).fired = r.fired
  BY DEF CleanOp, Noted
<1>5. clockFaults(none, r.step) = {}
  BY <1>1 DEF clockFaults, Plain
<1>6. /\ NextStep(none, r).stream = r.stream /\ NextStep(none, r).ops = r.ops
      /\ NextStep(none, r).fired = r.fired
  <2>1. /\ NextStep(none, r).stream = r.stream /\ NextStep(none, r).ops = r.ops
        /\ NextStep(none, r).fired = r.fired \o Pick(none, clockFaults(none, r.step))
    BY <1>1, NextStepSame
  <2>2. Pick(none, {}) = <<>>
    BY <1>1, PickNone
  <2>3. r.fired \o <<>> = r.fired
    BY DEF States
  <2> QED BY <1>5, <2>1, <2>2, <2>3
<1>7. {"broken", "injected", "finished"} \subseteq Ends
  BY DEF Ends
<1>8. \A e \in {"broken", "injected", "finished"} :
        LET ended == [r EXCEPT !.end = e] IN
        ended.stream = r.stream /\ ended.ops = r.ops /\ ended.fired = r.fired
  BY <1>7, EndsAt
<1>9. Advance(v, none, steps, r) =
           IF r.end # "running" THEN r
           ELSE IF o.kind = "broken" THEN [r EXCEPT !.end = "broken"]
           ELSE IF o.kind = "return" THEN [r EXCEPT !.end = "injected"]
           ELSE IF o.kind = "end"
             THEN IF r.step < steps THEN NextStep(none, r) ELSE [r EXCEPT !.end = "finished"]
           ELSE op(none, r, o)
  BY AdvanceIs
<1> HIDE DEF o
<1>10. CASE r.end # "running" \/ o.kind \in {"broken", "return", "end"}
  <2>1. /\ Advance(v, none, steps, r).stream = r.stream
        /\ Advance(v, none, steps, r).ops = r.ops
        /\ Advance(v, none, steps, r).fired = r.fired
    BY <1>6, <1>8, <1>9, <1>10
  <2> QED BY <1>2, <1>10, <2>1 DEF none, o
<1>11. CASE r.end = "running" /\ o.kind \notin {"broken", "return", "end"}
  <2>1. Advance(v, none, steps, r) = CleanOp(r, o)
    BY <1>3, <1>9, <1>11
  <2> QED BY <1>2, <1>4, <1>11, <2>1 DEF none, o
<1> QED BY <1>10, <1>11

(***************************************************************************)
(* The faulted run g keeps step with the clean run h until it is struck.   *)
(***************************************************************************)
Locked(faults, h, g) ==
  /\ h \in States /\ g \in States /\ h.ops = Len(h.stream) /\ h.fired = <<>>
  /\ (g = h /\ Unhit(faults, h.stream)) \/ Struck(faults, h.stream, g)

LEMMA LockedNext ==
  ASSUME NEW v \in Versions, NEW steps, NEW faults \in Seq(Faults), Plain(faults),
         NEW h, NEW g, Locked(faults, h, g)
  PROVE  Locked(faults, Advance(v, <<>>, steps, h), Advance(v, faults, steps, g))
<1> DEFINE o == NextOp(v, h.step, h.i, h.fired, h.failed)
           h2 == Advance(v, <<>>, steps, h)
           g2 == Advance(v, faults, steps, g)
           s == h.stream
           calls == h.end = "running" /\ o.kind \notin {"broken", "return", "end"}
<1>1. h \in States /\ g \in States /\ h.ops = Len(s) /\ s \in Seq(Notes)
      /\ h.fired = <<>>
  BY DEF Locked, States
<1>2. o \in LogOps /\ note(o) \in Notes
  <2>1. o \in LogOps
    BY <1>1, NextIsLogOp
  <2> QED BY <2>1, LogOpUsable DEF Usable
<1>3. /\ h2 \in States /\ h2.fired = <<>>
      /\ \/ h2.stream = s /\ h2.ops = h.ops /\ ~ calls
         \/ h2.stream = Append(s, note(o)) /\ h2.ops = h.ops + 1 /\ calls
  BY <1>1, CleanAdvance
<1>4. g2 \in States
  BY <1>1, AdvanceSame DEF Grows
<1> HIDE DEF h2, g2, o, s
<1>5. /\ Len(Append(s, note(o))) = Len(s) + 1 /\ Append(s, note(o))[Len(s) + 1] = note(o)
      /\ \A j \in 1 .. Len(s) : Append(s, note(o))[j] = s[j]
      /\ Append(s, note(o)) \in Seq(Notes) /\ Len(s) \in Nat
  BY <1>1, <1>2, AppendKeeps
<1>6. h2.ops = Len(h2.stream) /\ h2.stream \in Seq(Notes)
      /\ Len(s) <= Len(h2.stream) /\ \A j \in 1 .. Len(s) : h2.stream[j] = s[j]
  <2>1. CASE h2.stream = s /\ h2.ops = h.ops
    BY <1>1, <1>5, <2>1
  <2>2. CASE h2.stream = Append(s, note(o)) /\ h2.ops = h.ops + 1
    <3> DEFINE t == Append(s, note(o))
    <3> HIDE DEF t
    <3>1. /\ Len(t) = Len(s) + 1 /\ t \in Seq(Notes) /\ Len(s) \in Nat
          /\ \A j \in 1 .. Len(s) : t[j] = s[j]
      BY <1>5 DEF t
    <3>2. h2.stream = t /\ h2.ops = h.ops + 1 /\ h.ops = Len(s)
      BY <1>1, <2>2 DEF t
    <3> QED BY <3>1, <3>2
  <2> QED BY <1>3, <2>1, <2>2
<1>7. CASE Struck(faults, s, g)
  <2>1. /\ Grows(g, g2) /\ Len(g.stream) <= Len(g2.stream)
        /\ \A j \in 1 .. Len(g.stream) : g2.stream[j] = g.stream[j]
    BY <1>1, AdvanceSame, AdvanceGrowsStream DEF g2
  <2>2. Struck(faults, h2.stream, g2)
    BY <1>1, <1>4, <1>6, <1>7, <2>1, StruckStays
  <2> QED BY <1>3, <1>4, <1>6, <2>2 DEF Locked, h2, g2
<1>8. CASE g = h /\ Unhit(faults, s)
  <2>1. CASE calls /\ Hit(faults, h.ops + 1, o.kind)
    <3>1. g2 = op(faults, h, o)
      BY <1>8, <2>1, AdvanceIs DEF g2, o
    <3>2. h2.stream = Append(s, note(o))
      BY <1>3, <2>1
    <3>3. Struck(faults, h2.stream, g2)
      BY <1>1, <1>2, <1>8, <2>1, <3>1, <3>2, HitStrikes DEF s
    <3> QED BY <1>3, <1>4, <1>6, <3>3 DEF Locked, h2, g2
  <2>2. CASE ~(calls /\ Hit(faults, h.ops + 1, o.kind))
    <3>1. g2 = h2
      BY <1>1, <1>8, <2>2, UnhitSame DEF g2, h2, o
    <3>2. Unhit(faults, h2.stream)
      <4>1. CASE ~ calls
        BY <1>3, <1>8, <4>1
      <4>2. CASE calls
        <5>1. h2.stream = Append(s, note(o)) /\ ~ Hit(faults, Len(s) + 1, note(o).kind)
          BY <1>1, <1>3, <2>2, <4>2 DEF note
        <5>2. ASSUME NEW k \in 1 .. Len(h2.stream) PROVE ~ Hit(faults, k, h2.stream[k].kind)
          <6>1. CASE k = Len(s) + 1
            BY <1>5, <5>1, <6>1
          <6>2. CASE k # Len(s) + 1
            <7>1. k \in 1 .. Len(s) /\ h2.stream[k] = s[k]
              BY <1>5, <5>1, <6>2
            <7> QED BY <1>8, <7>1 DEF Unhit
          <6> QED BY <6>1, <6>2
        <5> QED BY <5>2 DEF Unhit
      <4> QED BY <4>1, <4>2
    <3> QED BY <1>3, <1>6, <3>1, <3>2 DEF Locked, h2, g2
  <2> QED BY <2>1, <2>2
<1> QED BY <1>7, <1>8 DEF Locked, s

LEMMA SimulateLocked ==
  ASSUME NEW v \in Versions, NEW steps, NEW faults \in Seq(Faults), Plain(faults)
  PROVE  Locked(faults, Simulate(v, <<>>, steps), Simulate(v, faults, steps))
<1> DEFINE none == <<>>
<1>0. none \in Seq(Faults)
  OBVIOUS
<1>1. PICK h : Simulates(h, v, none, steps)
  BY SimulateIs
<1>2. PICK g : Simulates(g, v, faults, steps)
  BY SimulateIs
<1> DEFINE S == {k \in 0 .. Fuel : Locked(faults, h[k], g[k])}
<1>3. 0 \in S
  <2>1. NewFS.ops = 0 /\ NewFS.stream = <<>> /\ Len(NewFS.stream) = 0 /\ NewFS.fired = <<>>
    BY DEF NewFS
  <2>2. Unhit(faults, NewFS.stream)
    BY <2>1 DEF Unhit
  <2>3. h[0] = NewFS /\ g[0] = NewFS
    BY <1>1, <1>2 DEF Simulates
  <2>4. Locked(faults, NewFS, NewFS)
    BY <2>1, <2>2, NewFSType DEF Locked
  <2> QED BY <2>3, <2>4, FuelType
<1>4. ASSUME NEW k \in 0 .. Fuel - 1, k \in S PROVE k + 1 \in S
  <2>1. /\ h[k + 1] = Advance(v, none, steps, h[k])
        /\ g[k + 1] = Advance(v, faults, steps, g[k])
    BY <1>1, <1>2 DEF Simulates
  <2>2. Locked(faults, Advance(v, none, steps, h[k]), Advance(v, faults, steps, g[k]))
    BY <1>4, LockedNext
  <2>3. k + 1 \in 0 .. Fuel
    BY FuelType
  <2> QED BY <2>1, <2>2, <2>3
<1>5. \A k \in 0 .. Fuel : k \in S
  <2> HIDE DEF S
  <2> QED BY <1>3, <1>4, FuelType, Numbers!HoldsAll
<1>6. Locked(faults, h[Fuel], g[Fuel])
  BY <1>5, FuelType
<1> QED BY <1>1, <1>2, <1>6 DEF Simulates, none

(***************************************************************************)
(* Logs that do the same in the clean run are struck by the same fault at  *)
(* the same operation, if no fault flips a bit or moves the clock.         *)
(***************************************************************************)
LEMMA SameCleanSameStrike ==
  ASSUME NEW v \in Versions, NEW w \in Versions, NEW steps,
         NEW faults \in Seq(Faults), Plain(faults),
         Simulate(v, <<>>, steps).stream = Simulate(w, <<>>, steps).stream
  PROVE  LET f == Simulate(v, faults, steps)
             g == Simulate(w, faults, steps) IN First(f) = First(g) /\ Met(f) = Met(g)
<1> DEFINE a == Simulate(v, <<>>, steps)
           b == Simulate(w, <<>>, steps)
           f == Simulate(v, faults, steps)
           g == Simulate(w, faults, steps)
<1>1. Locked(faults, a, f) /\ Locked(faults, b, g) /\ a.stream = b.stream
  BY SimulateLocked
<1> HIDE DEF a, b, f, g
<1>2. a.stream \in Seq(Notes) /\ f \in States /\ g \in States
  BY <1>1 DEF Locked, States
<1>3. CASE Struck(faults, a.stream, f) /\ Struck(faults, b.stream, g)
  <2>1. First(f) = First(g) /\ Met(f) = Met(g)
    BY <1>1, <1>2, <1>3, StruckOnce
  <2> QED BY <2>1 DEF f, g
<1>4. CASE f = a /\ g = b
  <2>1. f.fired = <<>> /\ g.fired = <<>> /\ f.stream = g.stream
    BY <1>1, <1>4 DEF Locked
  <2>2. First(f) = First(g) /\ Met(f) = Met(g)
    BY <2>1 DEF First, Met
  <2> QED BY <2>2 DEF f, g
<1>5. (Struck(faults, a.stream, f) /\ Struck(faults, b.stream, g)) \/ (f = a /\ g = b)
  BY <1>1, NeverBoth DEF Locked
<1> QED BY <1>3, <1>4, <1>5

(***************************************************************************)
(* A corpus entry that passes, and is not reported as drifted, is struck   *)
(* by the fault it was recorded with, at the same operation and after the  *)
(* same operations (sim.go, simCorpus), unless its faults flip a bit or    *)
(* move the clock.  Up to that fault the run is the clean one, whose       *)
(* stream the entry keeps.  The log may answer the error in any way, in    *)
(* every version of its own.                                               *)
(***************************************************************************)
THEOREM DriftIsReported ==
  ASSUME MaxFaults > 0
  PROVE  Spec => []NoSilentDrift
<1>1. InvRuns => NoSilentDrift
  <2> SUFFICES ASSUME InvRuns, pc = "replayed", msg = "none", report.drifted = 0,
                      Plain(entry.faults)
               PROVE  First(run) = entry.first /\ Met(run) = entry.met
    BY DEF NoSilentDrift, Plain
  <2> DEFINE s == entry.faults
             n == entry.steps
             none == <<>>
  <2>1. /\ version \in Versions /\ 1 \in Versions /\ s \in swarm /\ n \in 1 .. DefaultSteps
        /\ run = Outcome(version, s, n)
        /\ entry.first = First(Outcome(1, s, n)) /\ entry.met = Met(Outcome(1, s, n))
        /\ CleanOps(1, n) = CleanOps(version, n)
    BY HarnessAssumption DEF InvRuns
  <2>2. s \in Seq(Faults) /\ none \in swarm
    BY <2>1, SwarmIs, SwarmEmpty
  <2>5. Plain(s)
    OBVIOUS
  <2> HIDE DEF s, n, none
  <2>3. /\ run = Simulate(version, s, n) /\ Outcome(1, s, n) = Simulate(1, s, n)
        /\ Outcome(version, none, n) = Simulate(version, none, n)
        /\ Outcome(1, none, n) = Simulate(1, none, n)
    BY <2>1, <2>2, OutcomeIs
  <2>4. Simulate(1, none, n).stream = Simulate(version, none, n).stream
    BY <2>1, <2>3 DEF CleanOps, none
  <2> DEFINE f == Simulate(version, s, n)
             g == Simulate(1, s, n)
  <2>6. First(f) = First(g) /\ Met(f) = Met(g)
    BY <2>1, <2>2, <2>4, <2>5, SameCleanSameStrike DEF none
  <2> HIDE DEF f, g
  <2> QED BY <2>1, <2>3, <2>6 DEF f, g
<1> QED BY <1>1, InvInit, InvNext, RunsInit, RunsNext, PTL DEF Spec

-----------------------------------------------------------------------------
(***************************************************************************)
(* Every run ends before the bound on its iterations: if no step of the    *)
(* log makes more than four operations, each of the steps up to the last   *)
(* takes at most five iterations.                                          *)
(***************************************************************************)
ShortSteps ==
  \A v \in Versions, st \in Nat, f \in Seq(Faults), e \in SUBSET (Nat \X Nat) :
    NextOp(v, st, 5, f, e).kind \in {"broken", "return", "end"}

Paced(r, steps, n) ==
  /\ r \in States
  /\ r.end = "running" => r.step <= steps /\ r.i \in 1 .. 5 /\ n <= 5 * r.step + (r.i - 1)

LEMMA PacedNext ==
  ASSUME ShortSteps, NEW v \in Versions, NEW faults \in Seq(Faults), NEW steps \in Nat,
         NEW n \in Nat, NEW r, Paced(r, steps, n)
  PROVE  Paced(Advance(v, faults, steps, r), steps, n + 1)
<1> DEFINE o == NextOp(v, r.step, r.i, r.fired, r.failed)
           done == op(faults, r, o)
           next == Advance(v, faults, steps, r)
<1>1. r \in States /\ r.step \in Nat /\ r.i \in Nat /\ next \in States
  BY AdvanceSame DEF Paced, States, Grows
<1>2. o \in LogOps
  BY <1>1, NextIsLogOp
<1>3. next =
           IF r.end # "running" THEN r
           ELSE IF o.kind = "broken" THEN [r EXCEPT !.end = "broken"]
           ELSE IF o.kind = "return" THEN [r EXCEPT !.end = "injected"]
           ELSE IF o.kind = "end"
             THEN IF r.step < steps THEN NextStep(faults, r) ELSE [r EXCEPT !.end = "finished"]
           ELSE op(faults, r, o)
  BY AdvanceIs
<1>4. {"broken", "injected", "finished"} \subseteq Ends
  BY DEF Ends
<1>5. \A e \in {"broken", "injected", "finished"} : [r EXCEPT !.end = e].end = e
  BY <1>1, <1>4, EndsAt
<1>6. NextStep(faults, r).step = r.step + 1 /\ NextStep(faults, r).i = 1
  BY <1>1, NextStepSame
<1>7. Usable(o)
  BY <1>2, LogOpUsable
<1>8. done \in States /\ done.step = r.step /\ done.i = r.i + 1
  BY <1>1, <1>7, OpFollows DEF Follows
<1>12. r.end = "running" /\ o.kind \notin {"broken", "return", "end"} => r.i # 5
  BY <1>1 DEF ShortSteps, States
<1> HIDE DEF done, next, o
<1>13. r.end = "running" => r.step <= steps /\ r.i \in 1 .. 5 /\ n <= 5 * r.step + (r.i - 1)
  BY DEF Paced
<1>14. ASSUME next.end = "running"
       PROVE  next.step <= steps /\ next.i \in 1 .. 5 /\ n + 1 <= 5 * next.step + (next.i - 1)
  <2>1. r.end = "running" /\ o.kind \notin {"broken", "return"}
    BY <1>3, <1>5, <1>14
  <2>2. CASE o.kind = "end"
    <3>1. r.step < steps /\ next = NextStep(faults, r)
      BY <1>3, <1>5, <1>14, <2>1, <2>2
    <3>2. next.step = r.step + 1 /\ next.i = 1
      BY <1>6, <3>1
    <3> DEFINE a == r.step
               b == r.i
    <3>3. a \in Nat /\ a < steps /\ b \in 1 .. 5 /\ n <= 5 * a + (b - 1)
      BY <1>1, <1>13, <2>1, <3>1
    <3>4. next.step = a + 1 /\ next.i = 1
      BY <3>2
    <3> HIDE DEF a, b
    <3>5. n + 1 <= 5 * (a + 1) + (1 - 1) /\ a + 1 <= steps
      BY <3>3
    <3> QED BY <3>4, <3>5
  <2>3. CASE o.kind # "end"
    <3>1. next = done
      BY <1>3, <1>5, <1>14, <2>1, <2>3 DEF done
    <3>2. next.step = r.step /\ next.i = r.i + 1
      BY <1>8, <3>1
    <3>3. r.step <= steps /\ r.i \in 1 .. 4 /\ n <= 5 * r.step + (r.i - 1)
      BY <1>12, <1>13, <2>1, <2>3
    <3> DEFINE a == r.step
               b == r.i
    <3>4. a \in Nat /\ a <= steps /\ b \in 1 .. 4 /\ n <= 5 * a + (b - 1)
      BY <1>1, <3>3
    <3>5. next.step = a /\ next.i = b + 1
      BY <3>2
    <3> HIDE DEF a, b
    <3>6. n + 1 <= 5 * a + ((b + 1) - 1) /\ b + 1 \in 1 .. 5
      BY <3>4
    <3> QED BY <3>4, <3>5, <3>6
  <2> QED BY <2>2, <2>3
<1> QED BY <1>1, <1>14 DEF Paced, next

LEMMA SimulateEnds ==
  ASSUME ShortSteps, NEW v \in Versions, NEW faults \in Seq(Faults),
         NEW steps \in 1 .. DefaultSteps
  PROVE  Simulate(v, faults, steps).end \in {"finished", "crashed", "injected", "broken"}
<1>1. PICK h : Simulates(h, v, faults, steps)
  BY SimulateIs
<1> DEFINE S == {k \in 0 .. Fuel : Paced(h[k], steps, k)}
<1>2. 0 \in S
  <2>1. NewFS.step = 0 /\ NewFS.i = 1
    BY DEF NewFS
  <2>2. Paced(NewFS, steps, 0)
    BY <2>1, NewFSType DEF Paced
  <2> QED BY <1>1, <2>2, FuelType DEF Simulates
<1>3. ASSUME NEW k \in 0 .. Fuel - 1, k \in S PROVE k + 1 \in S
  <2>1. h[k + 1] = Advance(v, faults, steps, h[k])
    BY <1>1 DEF Simulates
  <2>2. Paced(Advance(v, faults, steps, h[k]), steps, k + 1)
    BY <1>3, PacedNext
  <2>3. k + 1 \in 0 .. Fuel
    BY FuelType
  <2> QED BY <2>1, <2>2, <2>3
<1>4. \A k \in 0 .. Fuel : k \in S
  <2> HIDE DEF S
  <2> QED BY <1>2, <1>3, FuelType, Numbers!HoldsAll
<1>5. Paced(h[Fuel], steps, Fuel)
  BY <1>4, FuelType
<1>6. h[Fuel].end # "running"
  <2> SUFFICES ASSUME h[Fuel].end = "running" PROVE FALSE
    OBVIOUS
  <2>1. /\ h[Fuel].step <= steps /\ h[Fuel].i \in 1 .. 5 /\ h[Fuel].step \in Nat
        /\ Fuel <= 5 * h[Fuel].step + (h[Fuel].i - 1)
    BY <1>5 DEF Paced, States
  <2> QED BY <2>1 DEF Fuel
<1>7. h[Fuel].end \in Ends
  BY <1>5 DEF Paced, States
<1> QED BY <1>1, <1>6, <1>7 DEF Simulates, Ends

(***************************************************************************)
(* The clean run makes at most one operation an iteration.                 *)
(***************************************************************************)
LEMMA CleanShort ==
  ASSUME NEW v \in Versions, NEW steps \in 1 .. DefaultSteps
  PROVE  Len(CleanOps(v, steps)) \in 0 .. Fuel
<1> DEFINE none == <<>>
<1>1. PICK h : Simulates(h, v, none, steps)
  BY SimulateIs
<1> DEFINE S == {k \in 0 .. Fuel : h[k] \in States /\ h[k].ops <= k}
<1>2. 0 \in S
  <2>1. NewFS.ops = 0
    BY DEF NewFS
  <2> QED BY <1>1, <2>1, NewFSType, FuelType DEF Simulates
<1>3. ASSUME NEW k \in 0 .. Fuel - 1, k \in S PROVE k + 1 \in S
  <2>1. h[k + 1] = Advance(v, none, steps, h[k])
    BY <1>1 DEF Simulates
  <2>2. /\ Advance(v, none, steps, h[k]) \in States
        /\ Advance(v, none, steps, h[k]).ops \in {h[k].ops, h[k].ops + 1}
    BY <1>3, CleanAdvance
  <2>3. k + 1 \in 0 .. Fuel /\ h[k].ops \in Nat
    BY <1>3, FuelType DEF States
  <2> QED BY <1>3, <2>1, <2>2, <2>3
<1>4. \A k \in 0 .. Fuel : k \in S
  <2> HIDE DEF S
  <2> QED BY <1>2, <1>3, FuelType, Numbers!HoldsAll
<1>5. Simulate(v, none, steps) \in States /\ Simulate(v, none, steps).ops <= Fuel
  BY <1>1, <1>4, FuelType DEF Simulates
<1>6. none \in Seq(Faults) /\ none \in swarm
  BY SwarmEmpty
<1>7. Outcome(v, none, steps) = Simulate(v, none, steps)
  BY <1>6, OutcomeIs
<1>8. Simulate(v, none, steps).ops = Len(Simulate(v, none, steps).stream)
  <2> HIDE DEF none
  <2> QED BY <1>6, SimulateCounts
<1> QED BY <1>5, <1>7, <1>8, FuelType DEF CleanOps, States

(***************************************************************************)
(* The type invariant, step by step.                                       *)
(***************************************************************************)
LEMMA OutcomeEnds ==
  ASSUME ShortSteps, version \in Versions, NEW faults \in swarm, NEW steps \in 1 .. DefaultSteps
  PROVE  Outcome(version, faults, steps).end \in {"finished", "crashed", "injected", "broken"}
BY OutcomeIs, SimulateEnds, SwarmIs

LEMMA RunTypes ==
  ASSUME TypeOK, ShortSteps, version \in Versions, NEW faults \in swarm,
         NEW steps \in 1 .. DefaultSteps, NEW m \in Messages, Run(faults, steps, m)
  PROVE  /\ run'.end \in {"finished", "crashed", "injected", "broken"}
         /\ msg' \in Messages /\ \A o \in DOMAIN verdict' : verdict'[o] \in Messages
<1> DEFINE x == Outcome(version, faults, steps)
<1>1. /\ verdict' = [y \in DOMAIN verdict \cup {x} |-> IF y = x THEN m ELSE verdict[y]]
      /\ run' = x /\ msg' = m
  BY DEF Run
<1>2. x.end \in {"finished", "crashed", "injected", "broken"}
  BY OutcomeEnds
<1> HIDE DEF x
<1>3. \A o \in DOMAIN verdict : verdict[o] \in Messages
  BY DEF TypeOK
<1>4. \A o \in DOMAIN verdict' : verdict'[o] \in Messages
  BY <1>1, <1>3
<1> QED BY <1>1, <1>2, <1>4

LEMMA SwarmTyped ==
  ASSUME NEW s \in swarm
  PROVE  Len(s) <= MaxFaults /\ \A i \in DOMAIN s : s[i] \in Faults
BY SwarmIs

LEMMA TypesInit == Init => TypeOK
<1> SUFFICES ASSUME Init PROVE TypeOK
  OBVIOUS
<1>1. cfg.faults \in swarm /\ cfg.steps = DefaultSteps
  BY SwarmEmpty DEF Init
<1>2. Len(cfg.faults) <= MaxFaults /\ \A i \in DOMAIN cfg.faults : cfg.faults[i] \in Faults
  BY <1>1, SwarmTyped
<1>3. DOMAIN verdict = {}
  BY DEF Init
<1>4. 1 \in 1 .. Fuel + MaxFaults /\ 1 \in 0 .. DefaultSteps
  BY DEF Fuel
<1> QED BY <1>1, <1>2, <1>3, <1>4 DEF Init, TypeOK, Messages

LEMMA TypesNext ==
  MaxFaults > 0 /\ ShortSteps /\ InvMinimize /\ InvRuns /\ TypeOK /\ [Next]_vars => TypeOK'
<1> SUFFICES ASSUME MaxFaults > 0, ShortSteps, InvMinimize, InvRuns, TypeOK, [Next]_vars
             PROVE  TypeOK'
  OBVIOUS
<1>0. /\ version \in Versions /\ cfg \in [faults : swarm, steps : 1 .. DefaultSteps]
      /\ run = NewFS \/ run.end \in {"finished", "crashed", "injected", "broken"}
      /\ msg \in Messages /\ want \in Messages
      /\ \A o \in DOMAIN verdict : verdict[o] \in Messages
      /\ pos \in 1 .. Fuel + MaxFaults
      /\ span \in (0 .. DefaultSteps) \cup (1 .. Len(Crashes))
  BY DEF InvRuns, TypeOK
<1>1. InvRuns'
  BY RunsNext
<1>2. /\ version' \in Versions
      /\ Len(cfg'.faults) <= MaxFaults /\ \A i \in DOMAIN cfg'.faults : cfg'.faults[i] \in Faults
      /\ cfg'.steps \in 1 .. DefaultSteps
  BY <1>1, SwarmTyped DEF InvRuns
<1>3. Fuel \in Nat /\ Fuel > 1 /\ Len(Crashes) = 3
  BY DEF Fuel, Crashes
<1>4. CASE MatrixPoint
  <2>1. /\ pc = "matrix" /\ pc' = pc /\ pos <= Len(CleanOps(version, DefaultSteps))
        /\ cfg' = [cfg EXCEPT !.faults = <<[kind |-> Crashes[span], at |-> pos]>>]
        /\ run' = Outcome(version, cfg'.faults, DefaultSteps)
        /\ IF span < Len(Crashes) THEN span' = span + 1 /\ pos' = pos
           ELSE span' = 1 /\ pos' = pos + 1
        /\ UNCHANGED <<verdict, msg, want>>
    BY <1>4 DEF MatrixPoint, MorePoints
  <2>2. cfg'.faults \in swarm /\ span \in 1 .. Len(Crashes)
    BY <1>1, <2>1 DEF InvRuns
  <2>3. run'.end \in {"finished", "crashed", "injected", "broken"}
    <3>1. DefaultSteps \in 1 .. DefaultSteps
      OBVIOUS
    <3> QED BY <1>0, <2>1, <2>2, <3>1, OutcomeEnds
  <2>4. Len(CleanOps(version, DefaultSteps)) \in 0 .. Fuel
    BY <1>0, CleanShort
  <2>5. pos' \in 1 .. Fuel + MaxFaults /\ span' \in 1 .. Len(Crashes)
    BY <1>0, <1>3, <2>1, <2>2, <2>4
  <2> QED BY <1>0, <1>2, <2>1, <2>3, <2>5 DEF TypeOK
<1>5. CASE Sweep
  <2>1. PICK m \in Messages :
          /\ Run(cfg.faults, cfg.steps, m)
          /\ IF m = "none" THEN pc' = "done" /\ want' = want ELSE pc' = "faults" /\ want' = m
    BY <1>5 DEF Sweep
  <2>2. UNCHANGED <<pos, span>>
    BY <1>5 DEF Sweep
  <2>3. /\ run'.end \in {"finished", "crashed", "injected", "broken"}
        /\ msg' \in Messages /\ \A o \in DOMAIN verdict' : verdict'[o] \in Messages
    BY <1>0, <2>1, RunTypes
  <2> QED BY <1>0, <1>2, <2>1, <2>2, <2>3 DEF TypeOK
<1>6. CASE TryFault
  <2> DEFINE shorter == Without(cfg.faults, pos)
  <2>1. PICK m \in Messages :
          Run(shorter, cfg.steps, m) /\ (pos' = NextScan(pos) \/ pos' = pos + 1)
    BY <1>6 DEF TryFault
  <2>2. pc = "faults" /\ pos <= Len(cfg.faults) /\ UNCHANGED <<pc, want, span>>
    BY <1>6 DEF TryFault
  <2>3. Len(cfg.faults) <= MaxFaults /\ Len(cfg.faults) \in Nat
    BY <1>0, SwarmIs
  <2>4. shorter \in swarm
    BY <1>0, <2>2, <2>3, SwarmWithout
  <2> HIDE DEF shorter
  <2>5. /\ run'.end \in {"finished", "crashed", "injected", "broken"}
        /\ msg' \in Messages /\ \A o \in DOMAIN verdict' : verdict'[o] \in Messages
    BY <1>0, <2>1, <2>4, RunTypes
  <2>6. pos' \in 1 .. Fuel + MaxFaults
    BY <1>0, <1>3, <2>1, <2>2, <2>3 DEF NextScan
  <2> QED BY <1>0, <1>2, <2>2, <2>5, <2>6 DEF TypeOK
<1>7. CASE FaultsDone
  <2>1. /\ pc' = "steps" /\ span' = cfg.steps \div 2
        /\ UNCHANGED <<run, verdict, msg, want, pos>>
    BY <1>7 DEF FaultsDone
  <2>2. span' \in 0 .. DefaultSteps
    <3>1. cfg.steps \in 1 .. DefaultSteps
      BY <1>0
    <3> QED BY <2>1, <3>1
  <2> QED BY <1>0, <1>2, <2>1, <2>2 DEF TypeOK
<1>8. CASE TrySpan
  <2>1. pc = "steps" /\ pc' = pc /\ span >= 1 /\ span' = span \div 2 /\ UNCHANGED <<want, pos>>
    BY <1>8 DEF TrySpan, NextSpan
  <2>2. span' \in 0 .. DefaultSteps
    BY <1>0, <1>3, <2>1
  <2>3. /\ run' = NewFS \/ run'.end \in {"finished", "crashed", "injected", "broken"}
        /\ msg' \in Messages /\ \A o \in DOMAIN verdict' : verdict'[o] \in Messages
    <3>1. CASE cfg.steps - span > 0
      <4>1. PICK m \in Messages : Run(cfg.faults, cfg.steps - span, m)
        BY <1>8, <3>1 DEF TrySpan
      <4>2. cfg.steps - span \in 1 .. DefaultSteps
        BY <1>0, <1>3, <2>1, <3>1
      <4> QED BY <1>0, <4>1, <4>2, RunTypes
    <3>2. CASE ~(cfg.steps - span > 0)
      <4>1. UNCHANGED <<run, verdict, msg>>
        BY <1>8, <3>2 DEF TrySpan
      <4> QED BY <1>0, <4>1
    <3> QED BY <3>1, <3>2
  <2> QED BY <1>0, <1>2, <2>1, <2>2, <2>3 DEF TypeOK
<1>9. CASE Minimized
  <2>1. PICK m \in Messages : Run(cfg.faults, cfg.steps, m)
    BY <1>9 DEF Minimized
  <2>2. pc' = "minimized" /\ UNCHANGED <<want, pos, span>>
    BY <1>9 DEF Minimized
  <2>3. /\ run'.end \in {"finished", "crashed", "injected", "broken"}
        /\ msg' \in Messages /\ \A o \in DOMAIN verdict' : verdict'[o] \in Messages
    BY <1>0, <2>1, RunTypes
  <2> QED BY <1>0, <1>2, <2>2, <2>3 DEF TypeOK
<1>10. CASE simCorpus
  <2>1. PICK m \in Messages : Run(entry.faults, entry.steps, m)
    BY <1>10 DEF simCorpus
  <2>2. pc = "corpus" /\ pc' = "replayed" /\ UNCHANGED <<want, pos, span>>
    BY <1>10 DEF simCorpus
  <2>3. entry.faults \in swarm /\ entry.steps \in 1 .. DefaultSteps
    BY <2>2 DEF InvRuns
  <2>4. /\ run'.end \in {"finished", "crashed", "injected", "broken"}
        /\ msg' \in Messages /\ \A o \in DOMAIN verdict' : verdict'[o] \in Messages
    BY <1>0, <2>1, <2>3, RunTypes
  <2> QED BY <1>0, <1>2, <2>2, <2>4 DEF TypeOK
<1>11. CASE MatrixDone \/ writeCorpusEntry \/ ChangeLog
  <2>1. pc' \in {"exhausted", "written", "corpus"} /\ UNCHANGED <<run, msg, want, pos, span>>
    BY <1>11 DEF MatrixDone, writeCorpusEntry, ChangeLog
  <2>2. verdict' = verdict \/ verdict' = <<>>
    BY <1>11 DEF MatrixDone, writeCorpusEntry, ChangeLog
  <2>3. \A o \in DOMAIN verdict' : verdict'[o] \in Messages
    BY <1>0, <2>2
  <2> QED BY <1>0, <1>2, <2>1, <2>3 DEF TypeOK
<1>12. CASE UNCHANGED vars
  BY <1>12 DEF vars, TypeOK
<1> QED BY <1>4, <1>5, <1>6, <1>7, <1>8, <1>9, <1>10, <1>11, <1>12 DEF Next, Step, Finished

(***************************************************************************)
(* Every variable has its type, and every run of the sweep, the matrix,    *)
(* the minimizer and the corpus ends of itself.                            *)
(***************************************************************************)
THEOREM HarnessTypes ==
  ASSUME MaxFaults > 0, ShortSteps
  PROVE  Spec => []TypeOK
BY InvInit, InvNext, RunsInit, RunsNext, TypesInit, TypesNext, PTL DEF Spec

=============================================================================
