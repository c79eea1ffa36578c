------------------------------ MODULE MCHarness ------------------------------
(* A log small enough for the harness model: what each step of the workload  *)
(* does to the disk, in the version the sweep ran and in later ones, and how *)
(* it answers an operation that failed.                                      *)
EXTENDS Harness

O(kind, name) == [kind |-> kind, name |-> name]

\* Version 2 syncs the directory when it opens, version 3 renames a snapshot
\* before it syncs it, version 4 syncs where a clock that jumped used not to.
Open(v) == <<O("create", "seg")>> \o IF v = 2 THEN <<O("syncdir", "dir")>> ELSE <<>>

TakeSnapshot(v) ==
  <<O("append", "tmp")>>
  \o IF v = 3 THEN <<O("rename", "tmp"), O("sync", "tmp")>>
     ELSE <<O("sync", "tmp"), O("rename", "tmp")>>

\* A restart looks for the snapshot before and after it opens the log.  An error
\* of the first look is swallowed and makes the second one pointless; version 5
\* answers it by writing.
Restart(v, failed) ==
  IF <<4, 1>> \notin failed
    THEN <<O("open", "snap"), O("open", "seg"), O("open", "snap")>>
  ELSE <<O("open", "snap"), O("open", "seg")>>
       \o IF v = 5 THEN <<O("append", "seg")>> ELSE <<>>

Fired(fired, kind) == \E i \in DOMAIN fired : fired[i].kind = kind

StepOps(v, step, fired, failed) ==
  CASE step = 0 -> Open(v)
    [] step = 2 -> IF Fired(fired, "ClockBack") /\ v # 4 THEN <<O("append", "seg")>>
                   ELSE <<O("append", "seg"), O("sync", "seg")>>
    [] step = 3 -> IF Fired(fired, "BitFlip") THEN <<>> ELSE TakeSnapshot(v)
    [] step = 4 -> Restart(v, failed)
    [] OTHER -> <<O("append", "seg")>>

\* A snapshot that failed removes its temporary file and then returns the error,
\* every other error but the swallowed one is returned at once.  A flip and a
\* clock jump together make this log break an invariant.
MCNextOp(v, step, i, fired, failed) ==
  LET ops    == StepOps(v, step, fired, failed)
      errors == {e \in failed \ {<<4, 1>>} : e[1] = step /\ e[2] < i}
  IN CASE errors # {} ->
            IF step = 3 /\ errors = {<<3, i - 1>>} THEN O("remove", "tmp")
            ELSE O("return", "none")
       [] errors = {} /\ i <= Len(ops) -> ops[i]
       [] OTHER ->
            IF step = 4 /\ Fired(fired, "ClockBack") /\ Fired(fired, "BitFlip")
              THEN O("broken", "none") ELSE O("end", "none")

\* What HarnessProofs asks of a log, over the faults and failures this one tells
\* apart: a step makes at most four operations.
FiredSoFar == {<<>>} \cup {<<[kind |-> k, at |-> 1]>> : k \in {"ClockBack", "BitFlip"}}
              \cup {<<[kind |-> "BitFlip", at |-> 1], [kind |-> "ClockBack", at |-> 1]>>}

ASSUME StepsAreShort ==
  \A v \in 1 .. 5, step \in 0 .. 4, fired \in FiredSoFar :
    \A failed \in SUBSET ({step} \X (1 .. 4)) :
      (\A e \in failed : MCNextOp(v, step, e[2], fired, {d \in failed : d[2] < e[2]}).kind
                          \notin {"end", "broken", "return"}) =>
        MCNextOp(v, step, 5, fired, failed).kind \in {"end", "broken", "return"}
=============================================================================
