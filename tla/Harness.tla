------------------------------- MODULE Harness -------------------------------
(***************************************************************************)
(* The simulation harness as a program: the fault schedule of the harness  *)
(* filesystem (fs.go), one run of a configuration, the crash matrix, the   *)
(* swarm sweep with its minimizer (run.go), and the corpus of seed files   *)
(* that replays what a sweep found (cmd/spine/sim.go).                     *)
(*                                                                         *)
(* A run is deterministic, so it is an operator: Outcome folds one         *)
(* filesystem operation after another over what the faults did so far.     *)
(* What the log and its workload do is a parameter, NextOp, that may       *)
(* depend on the faults that fired and on the operations that failed: an   *)
(* error is theirs to answer, by cleaning up, by going on or by returning. *)
(* What the checks say of an outcome is unknown: each outcome gets an      *)
(* arbitrary message the first time it is met, and keeps it.               *)
(***************************************************************************)
EXTENDS Integers, Sequences, FiniteSets, FiniteSetsExt

CONSTANTS
  DefaultSteps,          \* steps of a run that names none
  MaxFaults,             \* bound on the faults of one swarm configuration
  Versions,              \* the log as recorded (1) and as later changed
  NextOp(_, _, _, _, _)  \* version, step (0 is Open), index, faults fired,
                         \* <<step, index>> of the operations that failed

ASSUME HarnessAssumption ==
  DefaultSteps \in Nat \ {0} /\ MaxFaults \in Nat /\ 1 \in Versions

VARIABLES
  pc,       \* which loop of the harness is running
  version,  \* the log under test
  cfg,      \* Config: its faults and its steps
  tried,    \* the configuration of the latest Run
  run,      \* and its outcome
  verdict,  \* the message of every outcome met so far: "none" is no failure
  msg,      \* what the latest Run returned
  want,     \* the message Minimize has to reproduce
  pos,      \* Minimize: the fault to leave out next; Matrix: the operation
  span,     \* Minimize: the steps to leave out next
  report,   \* Report: runs, failures, operations the machine stopped at
  entry     \* the corpus entry written for the failure, or NoEntry

vars == <<pc, version, cfg, tried, run, verdict, msg, want, pos, span, report, entry>>

-----------------------------------------------------------------------------
(* The fault catalogue and the filesystem that applies it. *)

Kinds == <<"Crash", "WriteError", "ShortWrite", "SyncError", "BitFlip",
           "ClockBack", "CrashZeros", "CrashTorn">>

Crashes == <<"Crash", "CrashZeros", "CrashTorn">>

isCrash(kind) == \E i \in DOMAIN Crashes : Crashes[i] = kind

\* The faults at the positions I of a list, in list order (SelectSeq, written so
\* that the provers can unfold it).
Pick(s, I) ==
  LET upTo[n \in 0 .. Len(s)] ==
        IF n = 0 THEN <<>>
        ELSE IF n \in I THEN Append(upTo[n - 1], s[n]) ELSE upTo[n - 1]
  IN upTo[Len(s)]

\* Disk faults are keyed by the operation they fire on, several to one
\* operation if need be; clock faults are the workload's, keyed by step.
byOp(faults, n) ==
  {i \in DOMAIN faults : faults[i].kind # "ClockBack" /\ faults[i].at = n}

clockFaults(faults, step) ==
  {i \in DOMAIN faults : faults[i].kind = "ClockBack" /\ faults[i].at = step}

\* The files that hold something: a flip needs one, and it needs the file last
\* appended to.  A snapshot's temporary file is gone once it is renamed.
Stored(files, op) ==
  CASE op.kind = "append" -> files \cup {op.name}
    [] op.kind \in {"remove", "rename"} -> files \ {op.name}
    [] OTHER -> files

\* FS.op looks at the faults of its operation in list order, up to the first
\* that makes the operation fail; the two late crash shapes match no case.
Failing(faults, here) ==
  {i \in here : faults[i].kind \in {"Crash", "WriteError", "SyncError"}}

Looked(faults, here) == {i \in here : \A j \in Failing(faults, here) : i <= j}

\* A flip that finds nothing to corrupt is a fault that did not fire.
Takes(f, written, files) ==
  \/ f.kind \in {"Crash", "WriteError", "SyncError"}
  \/ f.kind = "BitFlip" /\ written \in files

\* Mutant: the fault that fires is never recorded when it is a short write.
ShortUnrecorded(fired, fault) == fired

\* shortWrite records the first short write of an append that got through.
shortWrite(fired, fault) == Append(fired, fault)

\* What note folds into the signature of the stream: the kind and the file.
note(o) == [kind |-> o.kind, name |-> o.name]

\* One counted operation: the append wrapper's note of the file, op, the short
\* write, and the operation itself when nothing stopped it.  Only a crash stops
\* the machine; any other failure is an error handed to the caller.
op(faults, r, o) ==
  LET here    == byOp(faults, r.ops + 1)
      failing == Failing(faults, here)
      short   == {i \in here : faults[i].kind = "ShortWrite"}
      written == IF o.kind = "append" THEN o.name ELSE r.written
      fires   == {i \in Looked(faults, here) : Takes(faults[i], written, r.files)}
      fired   == r.fired \o Pick(faults, fires)
      seen    == [r EXCEPT !.ops = @ + 1, !.stream = Append(@, note(o)),
                           !.written = written, !.fired = fired, !.i = @ + 1]
      failed  == r.failed \cup {<<r.step, r.i>>}
  IN IF failing # {}
       THEN [seen EXCEPT !.failed = failed,
                         !.end = IF faults[Min(failing)].kind = "Crash"
                                   THEN "crashed" ELSE @]
     ELSE IF o.kind = "append" /\ short # {}
       THEN [seen EXCEPT !.fired = shortWrite(fired, faults[Min(short)]),
                         !.files = Stored(@, o), !.failed = failed]
     ELSE [seen EXCEPT !.files = Stored(@, o)]

\* Mutant: the step counter stays where it is.
SameStep(faults, r) == [r EXCEPT !.i = 1]

\* The next step begins with its clock faults, and every one of them counts.
NextStep(faults, r) ==
  [r EXCEPT !.step = @ + 1, !.i = 1,
            !.fired = @ \o Pick(faults, clockFaults(faults, r.step))]

\* observeWorkload, one operation at a time; "end" closes a step, "return" hands
\* an error back and ends the workload, "broken" is an invariant the log broke
\* while it ran.
Advance(v, faults, steps, r) ==
  LET o == NextOp(v, r.step, r.i, r.fired, r.failed)
  IN CASE r.end # "running" -> r
       [] r.end = "running" /\ o.kind = "broken" -> [r EXCEPT !.end = "broken"]
       [] r.end = "running" /\ o.kind = "return" -> [r EXCEPT !.end = "injected"]
       [] r.end = "running" /\ o.kind = "end" ->
            IF r.step < steps THEN NextStep(faults, r) ELSE [r EXCEPT !.end = "finished"]
       [] OTHER -> op(faults, r, o)

NewFS == [ops |-> 0, stream |-> <<>>, fired |-> <<>>, failed |-> {},
          written |-> "none", files |-> {}, step |-> 0, i |-> 1, end |-> "running"]

\* Bound on the iterations of one run; TypeOK checks that no run exhausts it.
Fuel == 5 * (DefaultSteps + 1)

Simulate(v, faults, steps) ==
  LET after[n \in 0 .. Fuel] ==
        IF n = 0 THEN NewFS ELSE Advance(v, faults, steps, after[n - 1])
  IN after[Fuel]

-----------------------------------------------------------------------------
(* The configurations, and Run. *)

Positions(kind) ==
  IF kind = "ClockBack" THEN 0 .. DefaultSteps - 1
  ELSE 1 .. Simulate(1, <<>>, DefaultSteps).ops

Faults == UNION {{[kind |-> Kinds[k], at |-> n] : n \in Positions(Kinds[k])} :
                   k \in DOMAIN Kinds}

Rank(kind) == CHOOSE k \in DOMAIN Kinds : Kinds[k] = kind

\* swarm takes the kinds in their order, each in or out, one crash of a kind
\* and up to three of any other.
swarm ==
  {s \in UNION {[1 .. n -> Faults] : n \in 0 .. MaxFaults} :
     \A i, j \in DOMAIN s : i < j =>
       \/ Rank(s[i].kind) < Rank(s[j].kind)
       \/ s[i].kind = s[j].kind /\ ~ isCrash(s[i].kind)}

\* A function, value by value: the comparison makes TLC compute every value once
\* and keep it.
Tabled(f) == CHOOSE g \in {f} : g = f

\* Every run there is.
RunsOf(v, steps) == Tabled([s \in swarm |-> Simulate(v, s, steps)])

Outcomes == Tabled([c \in Versions \X (1 .. DefaultSteps) |-> RunsOf(c[1], c[2])])

Outcome(v, faults, steps) == Outcomes[<<v, steps>>][faults]

CleanOps(v, steps) == Outcome(v, <<>>, steps).stream

Messages == {"none", "bug", "other"}

\* One execution: its outcome, and the message the checks always give that
\* outcome.
Run(faults, steps, m) ==
  LET o == Outcome(version, faults, steps)
  IN /\ m \in IF o \in DOMAIN verdict THEN {verdict[o]} ELSE Messages
     /\ tried' = [faults |-> faults, steps |-> steps]
     /\ run' = o
     /\ verdict' = [x \in DOMAIN verdict \cup {o} |-> IF x = o THEN m ELSE verdict[x]]
     /\ msg' = m

\* The fault that fired first, and the operations up to it.
First(r) == IF r.fired = <<>> THEN <<>> ELSE <<r.fired[1]>>

Met(r) == IF r.fired = <<>> THEN r.stream ELSE SubSeq(r.stream, 1, r.fired[1].at)

NoEntry == [faults |-> <<>>, steps |-> 0, clean |-> <<>>, first |-> <<>>, met |-> <<>>]

Init ==
  /\ version = 1
  /\ \/ pc = "matrix" /\ cfg = [faults |-> <<>>, steps |-> DefaultSteps]
     \/ pc = "sweep" /\ \E s \in swarm : cfg = [faults |-> s, steps |-> DefaultSteps]
  /\ tried = cfg
  /\ run = NewFS
  /\ verdict = <<>>
  /\ msg = "none"
  /\ want = "none"
  /\ pos = 1
  /\ span = 1
  /\ report = [runs |-> 0, failures |-> 0, drifted |-> 0, stops |-> {}]
  /\ entry = NoEntry

-----------------------------------------------------------------------------
(* Matrix (with no limit on its points): every operation of the clean run,   *)
(* in every crash shape; span counts the shapes.  The checks' verdicts are   *)
(* only counted, so none is remembered.                                      *)

MorePoints(n) == n <= Len(CleanOps(version, DefaultSteps))

MatrixPoint ==
  /\ pc = "matrix" /\ MorePoints(pos)
  /\ cfg' = [cfg EXCEPT !.faults = <<[kind |-> Crashes[span], at |-> pos]>>]
  /\ tried' = cfg'
  /\ run' = Outcome(version, cfg'.faults, DefaultSteps)
  /\ \E failed \in 0 .. 1 :
       report' = [report EXCEPT !.runs = @ + 1,
                                !.failures = IF @ = 0 THEN failed ELSE @,
                                !.stops = IF run'.end = "crashed"
                                            THEN @ \cup {run'.ops} ELSE @]
  /\ IF span < Len(Crashes) THEN span' = span + 1 /\ pos' = pos
     ELSE span' = 1 /\ pos' = pos + 1
  /\ UNCHANGED <<pc, version, verdict, msg, want, entry>>

MatrixDone ==
  /\ pc = "matrix" /\ ~ MorePoints(pos)
  /\ pc' = "exhausted"
  /\ UNCHANGED <<version, cfg, tried, run, verdict, msg, want, pos, span, report, entry>>

-----------------------------------------------------------------------------
(* Sweep and Minimize. *)

\* One seed of a sweep, which is independent of the others: the seed fixes the
\* configuration, and only a failing run is minimized.
Sweep ==
  /\ pc = "sweep"
  /\ \E m \in Messages :
       /\ Run(cfg.faults, cfg.steps, m)
       /\ IF m = "none" THEN pc' = "done" /\ want' = want
          ELSE pc' = "faults" /\ want' = m
  /\ report' = [report EXCEPT !.runs = @ + 1]
  /\ UNCHANGED <<version, cfg, pos, span, entry>>

Without(faults, i) == SubSeq(faults, 1, i - 1) \o SubSeq(faults, i + 1, Len(faults))

\* Mutant: any failure at all counts as the one being minimized.
AnyFailure(m) == m # "none"

reproduces(m) == m = want

\* Mutant: the scan goes on behind the fault it left out.
GoesOn(i) == i

\* A removal that reproduces starts the scan over.
NextScan(i) == 1

TryFault ==
  /\ pc = "faults" /\ pos <= Len(cfg.faults)
  /\ LET shorter == Without(cfg.faults, pos)
     IN \E m \in Messages :
          /\ Run(shorter, cfg.steps, m)
          /\ IF reproduces(m)
               THEN cfg' = [cfg EXCEPT !.faults = shorter] /\ pos' = NextScan(pos)
               ELSE cfg' = cfg /\ pos' = pos + 1
  /\ UNCHANGED <<pc, version, want, span, report, entry>>

FaultsDone ==
  /\ pc = "faults" /\ pos > Len(cfg.faults)
  /\ pc' = "steps"
  /\ span' = cfg.steps \div 2
  /\ UNCHANGED <<version, cfg, tried, run, verdict, msg, want, pos, report, entry>>

\* Mutant: a span that reproduced is tried again at the same size.
KeepsSpan(n) == IF msg = want THEN n ELSE n \div 2

NextSpan(n) == n \div 2

TrySpan ==
  /\ pc = "steps" /\ span >= 1
  /\ IF cfg.steps - span > 0
       THEN \E m \in Messages :
              /\ Run(cfg.faults, cfg.steps - span, m)
              /\ cfg' = IF reproduces(m) THEN [cfg EXCEPT !.steps = @ - span] ELSE cfg
       ELSE UNCHANGED <<tried, run, verdict, msg, cfg>>
  /\ span' = NextSpan(span)
  /\ UNCHANGED <<pc, version, want, pos, report, entry>>

\* Minimize returns the configuration and runs it once more.
Minimized ==
  /\ pc = "steps" /\ span < 1
  /\ \E m \in Messages : Run(cfg.faults, cfg.steps, m)
  /\ report' = [report EXCEPT !.failures = @ + 1]
  /\ pc' = "minimized"
  /\ UNCHANGED <<version, cfg, want, pos, span, entry>>

-----------------------------------------------------------------------------
(* The corpus: a seed file per failure, replayed against a later log. *)

\* The seed file keeps the configuration and the clean stream; the first fault
\* that fired, and what led up to it, are remembered for the properties only.
writeCorpusEntry ==
  /\ pc = "minimized"
  /\ entry' = [faults |-> cfg.faults, steps |-> cfg.steps,
               clean |-> CleanOps(version, cfg.steps),
               first |-> First(run), met |-> Met(run)]
  /\ pc' = "written"
  /\ verdict' = <<>>
  /\ UNCHANGED <<version, cfg, tried, run, msg, want, pos, span, report>>

\* The log is changed, and the corpus is replayed against it.
ChangeLog ==
  /\ pc = "written"
  /\ version' \in Versions
  /\ pc' = "corpus"
  /\ UNCHANGED <<cfg, tried, run, verdict, msg, want, pos, span, report, entry>>

\* Mutant: only the number of operations is compared.
CountOnly(recorded, now) == Len(recorded) # Len(now)

\* The count and the signature of the clean stream; the hash is the stream.
Drifted(recorded, now) == recorded # now

simCorpus ==
  /\ pc = "corpus"
  /\ \E m \in Messages :
       /\ Run(entry.faults, entry.steps, m)
       /\ report' = [report EXCEPT
            !.drifted = IF m = "none" /\ Drifted(entry.clean, CleanOps(version, entry.steps))
                          THEN 1 ELSE 0]
  /\ pc' = "replayed"
  /\ UNCHANGED <<version, cfg, want, pos, span, entry>>

Finished == pc \in {"exhausted", "done", "replayed"} /\ UNCHANGED vars

Step ==
  \/ MatrixPoint \/ MatrixDone \/ Sweep
  \/ TryFault \/ FaultsDone \/ TrySpan \/ Minimized
  \/ writeCorpusEntry \/ ChangeLog \/ simCorpus

Next == Step \/ Finished

Spec == Init /\ [][Next]_vars

\* The harness is one sequential program: it keeps running while it can.
FairSpec == Spec /\ WF_vars(Step)

-----------------------------------------------------------------------------
(* Properties. *)

\* Every variable has its type, and no run needs more operations than Fuel.
TypeOK ==
  /\ pc \in {"matrix", "sweep", "faults", "steps", "minimized", "written",
             "corpus", "replayed", "exhausted", "done"}
  /\ version \in Versions
  /\ Len(cfg.faults) <= MaxFaults /\ \A i \in DOMAIN cfg.faults : cfg.faults[i] \in Faults
  /\ cfg.steps \in 1 .. DefaultSteps
  /\ run = NewFS \/ run.end \in {"finished", "crashed", "injected", "broken"}
  /\ msg \in Messages /\ want \in Messages
  /\ \A o \in DOMAIN verdict : verdict[o] \in Messages
  /\ pos \in 1 .. Fuel + MaxFaults
  /\ span \in (0 .. DefaultSteps) \cup (1 .. Len(Crashes))

\* The faults a run reports as fired (fs.go, Fired) are all that mattered: the
\* same run with only those scheduled is the same execution, whatever shared an
\* operation with them, found nothing to flip, or came after the run stopped.
FiredSuffices ==
  LET fired == Pick(tried.faults, {i \in DOMAIN tried.faults :
                      \E j \in DOMAIN run.fired : run.fired[j] = tried.faults[i]})
  IN pc \in {"matrix", "faults", "done"} /\ run # NewFS => Outcome(version, fired, tried.steps) = run

\* When Minimize starts on the steps, no single fault can be left out of the
\* configuration without losing the failure (run.go, Minimize).
OneMinimal ==
  pc = "steps" /\ span = DefaultSteps \div 2 =>
    \A i \in DOMAIN cfg.faults :
      LET o == Outcome(version, Without(cfg.faults, i), cfg.steps)
      IN o \in DOMAIN verdict /\ verdict[o] # want

\* What Minimize hands back fails, and with the very message the sweep saw,
\* although faults and steps have gone and each run asks the checks anew.
MinimizeReproduces == pc = "minimized" => msg = want

\* The matrix runs "every point, in all three crash shapes" (run.go): each of
\* its runs stops the machine at the point it names.
MatrixCrashes ==
  pc \in {"matrix", "exhausted"} /\ run # NewFS => run.end = "crashed"

\* A corpus entry that passes and is not reported as drifted still strikes where
\* it was recorded: the same fault fires first, on the same operation, after the
\* same operations (sim.go, simCorpus), provided none of its faults changes what
\* the log does without failing an operation (no flip and no clock jump).  How
\* the log answers the error is not in the recorded signature and may change.
NoSilentDrift ==
  /\ pc = "replayed" /\ msg = "none" /\ report.drifted = 0
  /\ \A i \in DOMAIN entry.faults : entry.faults[i].kind \notin {"BitFlip", "ClockBack"}
  => First(run) = entry.first /\ Met(run) = entry.met

\* Every sweep, matrix and minimization ends.
Terminates == <>(pc \in {"exhausted", "done", "replayed"})

=============================================================================
