----------------------------- MODULE RecordFile -----------------------------
(***************************************************************************)
(* A file of framed records (log/record.go, log/segment.go), the scan that *)
(* recovery makes of it (log/recovery.go) and what a power cut leaves of   *)
(* it (sim/fs.go).                                                         *)
(*                                                                         *)
(* A file is a sequence of cells, each the room of one record.  A cell     *)
(* holds a whole record, the first bytes of one (a torn write), or zeros   *)
(* (a length that reached the disk before its bytes).  Bytes, checksums    *)
(* and lengths are abstracted to that distinction: it is the one the       *)
(* framing checks make.                                                    *)
(***************************************************************************)
EXTENDS Integers, Sequences, FiniteSets, FiniteSetsExt, SequencesExt

CONSTANTS
    Events,     \* the events a caller may append
    Invalid     \* an event that core.Event.Validate rejects

ASSUME InvalidAssumption == Invalid \notin Events

Rec(off, ev) == [kind |-> "rec", off |-> off, ev |-> ev]
Torn == [kind |-> "torn", off |-> 0, ev |-> Invalid]
Zeros == [kind |-> "zeros", off |-> 0, ev |-> Invalid]

Cell == [kind : {"rec", "torn", "zeros"}, off : Nat, ev : Events \cup {Invalid}]

(***************************************************************************)
(* The records AppendAll stages for a prefix of a batch: consecutive       *)
(* offsets from the segment's next.                                        *)
(***************************************************************************)
Staged(first, events, n) == [i \in 1 .. n |-> Rec(first + i - 1, events[i])]

(***************************************************************************)
(* What a write that fails midway stores: k whole records and, where half  *)
(* is 1, the first bytes of the next.                                      *)
(***************************************************************************)
ShortWrite(first, events, k, half) ==
    Staged(first, events, k) \o [i \in 1 .. half |-> Torn]

(***************************************************************************)
(* readRecordFrom during a scan of a file whose first record may carry     *)
(* offset base: cell i is a whole record whose offset is at least the one  *)
(* after its predecessor's.                                                *)
(***************************************************************************)
Accepts(cells, base, i) ==
    /\ cells[i].kind = "rec"
    /\ cells[i].off >= (IF i = 1 THEN base ELSE cells[i - 1].off + 1)

ValidTo(cells, base, n) == \A i \in 1 .. n : Accepts(cells, base, i)

(***************************************************************************)
(* The scan of recovery.go accepts the first n cells and stops there: at   *)
(* the end of the file or at the first cell that is not the next record.   *)
(* Exactly one n satisfies it.                                             *)
(***************************************************************************)
ScanStops(cells, base, n) ==
    /\ n \in 0 .. Len(cells)
    /\ ValidTo(cells, base, n)
    /\ n < Len(cells) => ~Accepts(cells, base, n + 1)

(***************************************************************************)
(* Mutant of NextAfter: the last offset found instead of the next one.     *)
(***************************************************************************)
LastFound(cells, base, n) == IF n = 0 THEN base - 1 ELSE cells[n].off

(***************************************************************************)
(* Recovery.Next after a scan that accepted n cells.                       *)
(***************************************************************************)
NextAfter(cells, base, n) == IF n = 0 THEN base ELSE cells[n].off + 1

(***************************************************************************)
(* What the scan may report of a tail it stops at.  Bytes that end inside  *)
(* a record are torn; whole records of zeros have a bad length and are     *)
(* corrupt; half a record with other bytes after it is read as a record of *)
(* the length its header claims, so either it fails its checksum or it     *)
(* runs past the end of the file.                                          *)
(***************************************************************************)
Verdicts(cells, n) ==
    CASE n = Len(cells) -> {"clean"}
      [] n < Len(cells) /\ cells[n + 1].kind = "torn" ->
            IF n + 1 = Len(cells) THEN {"torn"} ELSE {"torn", "corrupt"}
      [] OTHER -> {"corrupt"}

(***************************************************************************)
(* The records a scan of file f[b] returns, for every name b of a          *)
(* directory dir.                                                          *)
(***************************************************************************)
InFile(cells, base, r) ==
    \E i \in 1 .. Len(cells) : cells[i] = r /\ ValidTo(cells, base, i)

Recovered(dir, f, r) == \E b \in dir : InFile(f[b], b, r)

(***************************************************************************)
(* What a power cut leaves of a file that reads "cells" and whose synced   *)
(* contents are "synced".  sim.FS has three shapes: Crash reverts to what  *)
(* was synced, CrashExtend keeps the length and zeroes the rest,           *)
(* CrashTorn(percent) keeps a prefix of the unsynced bytes: k whole cells  *)
(* and perhaps half of the next one.  A synced half record keeps its cell  *)
(* whatever was written over it since.                                     *)
(***************************************************************************)
Unsynced(cells, synced) == SubSeq(cells, Len(synced) + 1, Len(cells))

CrashExtend(cells, synced) ==
    synced \o [i \in DOMAIN Unsynced(cells, synced) |-> Zeros]

CrashTorn(cells, synced, k, half) ==
    LET extra == Unsynced(cells, synced)
        kept  == SubSeq(extra, 1, k)
    IN  IF k < Len(extra)
        THEN synced \o kept \o (IF half THEN <<Torn>> ELSE <<>>)
        ELSE synced \o extra

(***************************************************************************)
(* What invariants say of a file.  In a positional file that begins at     *)
(* offset b, a whole record in cell i carries offset b + i - 1.            *)
(***************************************************************************)
Positional(cells, b) ==
    \A i \in 1 .. Len(cells) : cells[i].kind = "rec" => cells[i].off = b + i - 1

OnlyRecords(cells, n) == \A i \in 1 .. n : cells[i].kind = "rec"
=============================================================================
