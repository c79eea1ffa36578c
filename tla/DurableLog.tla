----------------------------- MODULE DurableLog -----------------------------
(***************************************************************************)
(* What the log promises its caller (docs/log-design.md, log/log.go): an   *)
(* append-only sequence of events, of which a failure may remove a suffix  *)
(* but never an event that was acknowledged as durable, and which never    *)
(* shows an acknowledged offset holding another event.                     *)
(***************************************************************************)
EXTENDS Integers, Sequences

CONSTANT Events

VARIABLES
    log,      \* the events, the one at offset o being log[o + 1]
    promised  \* the prefix acknowledged as durable

Init == log = <<>> /\ promised = <<>>

(***************************************************************************)
(* A batch, or a prefix of it, joins the log.                              *)
(***************************************************************************)
Extend ==
    /\ log' \in Seq(Events)
    /\ Len(log') > Len(log)
    /\ SubSeq(log', 1, Len(log)) = log
    /\ UNCHANGED promised

(***************************************************************************)
(* A sync acknowledges a longer prefix of the log.                         *)
(***************************************************************************)
Acknowledge ==
    /\ \E n \in Len(promised) .. Len(log) : promised' = SubSeq(log, 1, n)
    /\ UNCHANGED log

(***************************************************************************)
(* A failure loses a suffix that was never acknowledged.                   *)
(***************************************************************************)
Lose ==
    /\ \E n \in Len(promised) .. Len(log) : log' = SubSeq(log, 1, n)
    /\ UNCHANGED promised

Next == Extend \/ Acknowledge \/ Lose

Spec == Init /\ [][Next]_<<log, promised>>

(***************************************************************************)
(* The promise itself, of a log of events: what was acknowledged is still  *)
(* where it was.                                                           *)
(***************************************************************************)
TypeOK == log \in Seq(Events) /\ promised \in Seq(Events)

Honoured == promised = SubSeq(log, 1, Len(promised))
=============================================================================
