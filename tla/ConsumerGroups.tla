--------------------------- MODULE ConsumerGroups ---------------------------
(***************************************************************************)
(* Consumer groups (log/group.go): the commits file, the positions that a  *)
(* process replays from it, and the consumers that read the log, commit    *)
(* and resume.  The log itself is what DurableLog promises: a sequence of  *)
(* records of which a power cut may take the part that no Sync covered.    *)
(*                                                                         *)
(* A record is told apart from another at the same offset by its epoch,    *)
(* the number of power cuts before it was appended.                        *)
(***************************************************************************)
EXTENDS Integers, Sequences, FiniteSets, FiniteSetsExt, SequencesExt

CONSTANTS
    Groups,       \* consumer group names
    MaxOffset,    \* bound: records in the log
    MaxCommits,   \* bound: records in the commits file
    MaxEpoch,     \* bound: power cuts
    CommitAhead,  \* TRUE when consumers commit records that no Sync covered
    Env           \* what the environment may do, see GroupEnv

GroupEnv ==
    { "close", "kill", "power", "extend", "tear",  \* as in SegmentedLog
      "orphan",     \* openCommits finds the file under a name not yet durable
      "writeerr",   \* the append of a commit fails
      "syncerr",    \* the sync of a commit fails
      "direrr" }    \* the directory sync of a new commits file fails

ASSUME GroupBoundsAssumption ==
    MaxOffset \in Nat /\ MaxCommits \in Nat /\ MaxEpoch \in Nat
ASSUME CommitAheadAssumption == CommitAhead \in BOOLEAN
ASSUME GroupEnvAssumption == Env \subseteq GroupEnv

None == -1
Offsets == 0 .. MaxOffset

(***************************************************************************)
(* The payload of a commit record, and the one that none carries.          *)
(***************************************************************************)
Commits == [group : Groups, off : Offsets]
NoCommit == [group |-> "", off |-> None]

INSTANCE RecordFile WITH Events <- Commits, Invalid <- NoCommit

VARIABLES
    log,       \* the log's records: log[o + 1] is the epoch of the one at o
    safe,      \* how many of them a returned Sync covered
    epoch,     \* power cuts so far
    exists,    \* the directory holds commits.groups
    named,     \* a power cut would leave it
    cells,     \* its contents
    synced,    \* its synced contents
    pc,        \* the filesystem call the process makes next
    opened,    \* Log.commits # nil
    at,        \* commits.at
    next,      \* commits.seg.next
    sealed,    \* commits.seg.sealed
    want,      \* the commit in progress
    pos,       \* each consumer's cursor, None when it has none
    seen,      \* observer: the records each consumer has processed
    returned,  \* observer: the last commit of each group that returned
    since      \* observer: what each group tried to commit after it

logVars == <<log, safe, epoch>>
fileVars == <<exists, named, cells, synced>>
memVars == <<pc, opened, at, next, sealed, want, pos>>
obsVars == <<seen, returned, since>>
vars == <<logVars, fileVars, memVars, obsVars>>

-----------------------------------------------------------------------------
(***************************************************************************)
(* commits.replay: the last commit of group g among the records that a     *)
(* scan of the file accepts.                                               *)
(***************************************************************************)
Replay(file, g) ==
    LET n == CHOOSE m \in 0 .. Len(file) : ScanStops(file, 0, m)
        S == {i \in 1 .. n : file[i].ev.group = g}
    IN  IF S = {} THEN None ELSE file[Max(S)].ev.off

Forget ==
    /\ pc' = "down"
    /\ opened' = FALSE
    /\ at' = [g \in Groups |-> None]
    /\ next' = 0
    /\ sealed' = FALSE
    /\ want' = NoCommit
    /\ pos' = [g \in Groups |-> None]

Init ==
    /\ log = <<>> /\ safe = 0 /\ epoch = 0
    /\ exists = FALSE /\ named = FALSE /\ cells = <<>> /\ synced = <<>>
    /\ pc = "down" /\ opened = FALSE /\ next = 0 /\ sealed = FALSE /\ want = NoCommit
    /\ at = [g \in Groups |-> None]
    /\ pos = [g \in Groups |-> None]
    /\ seen = [g \in Groups |-> {}]
    /\ returned = [g \in Groups |-> None]
    /\ since = [g \in Groups |-> {}]

(***************************************************************************)
(* The log: opened, appended to, synced, and its directory synced by a     *)
(* roll, a compaction or a snapshot.                                       *)
(***************************************************************************)
Open ==
    /\ pc = "down"
    /\ pc' = "idle"
    /\ UNCHANGED <<logVars, fileVars, opened, at, next, sealed, want, pos, obsVars>>

LogAppend ==
    /\ pc = "idle"
    /\ Len(log) < MaxOffset
    /\ log' = log \o <<epoch>>
    /\ UNCHANGED <<safe, epoch, fileVars, memVars, obsVars>>

LogSync ==
    /\ pc = "idle"
    /\ safe' = Len(log)
    /\ UNCHANGED <<log, epoch, fileVars, memVars, obsVars>>

LogDirSync ==
    /\ pc = "idle"
    /\ named' = exists
    /\ UNCHANGED <<logVars, exists, cells, synced, memVars, obsVars>>

-----------------------------------------------------------------------------
(***************************************************************************)
(* openCommits: an existing file is scanned, truncated to what the scan    *)
(* accepts and replayed; one that does not exist is created, and then its  *)
(* directory is synced.  Instances without "orphan" assume that an         *)
(* existing file has a durable name.                                       *)
(***************************************************************************)
OpenCommits ==
    /\ pc = "idle"
    /\ ~opened
    /\ exists
    /\ named \/ "orphan" \in Env
    /\ \E n \in 0 .. Len(cells) :
        /\ ScanStops(cells, 0, n)
        /\ cells' = SubSeq(cells, 1, n)
        /\ next' = NextAfter(cells, 0, n)
    /\ at' = [g \in Groups |-> Replay(cells, g)]
    /\ sealed' = FALSE
    /\ opened' = TRUE
    /\ UNCHANGED <<logVars, exists, named, synced, pc, want, pos, obsVars>>

CreateCommits ==
    /\ pc = "idle"
    /\ ~opened
    /\ ~exists
    /\ exists' = TRUE
    /\ cells' = <<>>
    /\ synced' = <<>>
    /\ pc' = "dirsync"
    /\ UNCHANGED <<logVars, named, opened, at, next, sealed, want, pos, obsVars>>

(***************************************************************************)
(* Mutant of SyncCommitsDir: the name is never made durable.               *)
(***************************************************************************)
NoCommitsDirSync ==
    /\ pc = "dirsync"
    /\ opened' = TRUE
    /\ pc' = "idle"
    /\ UNCHANGED <<logVars, fileVars, at, next, sealed, want, pos, obsVars>>

SyncCommitsDir ==
    /\ pc = "dirsync"
    /\ named' = TRUE
    /\ opened' = TRUE
    /\ pc' = "idle"
    /\ UNCHANGED <<logVars, exists, cells, synced, at, next, sealed, want, pos, obsVars>>

(***************************************************************************)
(* The directory sync fails: openCommits returns the error and the next    *)
(* call finds a file that exists.                                          *)
(***************************************************************************)
SyncCommitsDirFails ==
    /\ "direrr" \in Env
    /\ pc = "dirsync"
    /\ pc' = "idle"
    /\ UNCHANGED <<logVars, fileVars, opened, at, next, sealed, want, pos, obsVars>>

-----------------------------------------------------------------------------
(***************************************************************************)
(* Group.Reader: a cursor at the committed offset, or at the first record  *)
(* for a group that never committed.  A position past the tail is refused. *)
(* The mutant ResumeAfter takes the offset for the last record processed.  *)
(***************************************************************************)
ResumeAfter(g) ==
    /\ pc = "idle"
    /\ opened
    /\ pos[g] = None
    /\ at[g] <= Len(log)
    /\ pos' = [pos EXCEPT ![g] = at[g] + 1]
    /\ UNCHANGED <<logVars, fileVars, pc, opened, at, next, sealed, want, obsVars>>

Resume(g) ==
    /\ pc = "idle"
    /\ opened
    /\ pos[g] = None
    /\ at[g] <= Len(log)
    /\ pos' = [pos EXCEPT ![g] = IF at[g] = None THEN 0 ELSE at[g]]
    /\ UNCHANGED <<logVars, fileVars, pc, opened, at, next, sealed, want, obsVars>>

(***************************************************************************)
(* Reader.Next, and the consumer processing what it returned.              *)
(***************************************************************************)
Consume(g) ==
    /\ pc = "idle"
    /\ pos[g] \in 0 .. Len(log) - 1
    /\ seen' = [seen EXCEPT ![g] = @ \cup {<<pos[g], log[pos[g] + 1]>>}]
    /\ pos' = [pos EXCEPT ![g] = @ + 1]
    /\ UNCHANGED <<logVars, fileVars, pc, opened, at, next, sealed, want, returned, since>>

(***************************************************************************)
(* Group.Commit at an offset the consumer has processed up to.  It appends *)
(* the commit record; the sync follows.  CommitsUnsynced is a mutant of    *)
(* MayCommit.                                                              *)
(***************************************************************************)
CommitsUnsynced(g, off) ==
    /\ pc = "idle"
    /\ opened
    /\ ~sealed
    /\ off <= pos[g]
    /\ Len(cells) < MaxCommits

MayCommit(g, off) ==
    /\ pc = "idle"
    /\ opened
    /\ ~sealed
    /\ off <= pos[g]
    /\ off <= Len(log)
    /\ CommitAhead \/ off <= safe
    /\ Len(cells) < MaxCommits

Commit(g, off) ==
    /\ MayCommit(g, off)
    /\ cells' = cells \o <<Rec(next, [group |-> g, off |-> off])>>
    /\ next' = next + 1
    /\ want' = [group |-> g, off |-> off]
    /\ since' = [since EXCEPT ![g] = @ \cup {off}]
    /\ pc' = "commitsync"
    /\ UNCHANGED <<logVars, exists, named, synced, opened, at, sealed, pos, seen, returned>>

(***************************************************************************)
(* The append fails, leaving nothing or half a record; the commits file    *)
(* refuses further commits until the log is opened again.                  *)
(***************************************************************************)
CommitAppendFails(g, off) ==
    /\ "writeerr" \in Env
    /\ MayCommit(g, off)
    /\ \E tail \in {<<>>, <<Torn>>} : cells' = cells \o tail
    /\ sealed' = TRUE
    /\ since' = [since EXCEPT ![g] = @ \cup {off}]
    /\ UNCHANGED <<logVars, exists, named, synced, pc, opened, at, next, want, pos, seen, returned>>

(***************************************************************************)
(* The sync, after which the commit is remembered and Commit returns.      *)
(***************************************************************************)
CommitSync ==
    /\ pc = "commitsync"
    /\ synced' = cells
    /\ at' = [at EXCEPT ![want.group] = want.off]
    /\ returned' = [returned EXCEPT ![want.group] = want.off]
    /\ since' = [since EXCEPT ![want.group] = {}]
    /\ want' = NoCommit
    /\ pc' = "idle"
    /\ UNCHANGED <<logVars, exists, named, cells, opened, next, sealed, pos, seen>>

CommitSyncFails ==
    /\ "syncerr" \in Env
    /\ pc = "commitsync"
    /\ want' = NoCommit
    /\ pc' = "idle"
    /\ UNCHANGED <<logVars, fileVars, opened, at, next, sealed, pos, obsVars>>

-----------------------------------------------------------------------------
Close ==
    /\ "close" \in Env
    /\ pc = "idle"
    /\ Forget
    /\ UNCHANGED <<logVars, fileVars, obsVars>>

Kill ==
    /\ "kill" \in Env
    /\ pc # "down"
    /\ Forget
    /\ UNCHANGED <<logVars, fileVars, obsVars>>

(***************************************************************************)
(* A power cut takes records of the log that no Sync covered, and the      *)
(* commits file too when its name is not durable.                          *)
(***************************************************************************)
PowerCut(left) ==
    /\ epoch < MaxEpoch
    /\ epoch' = epoch + 1
    /\ \E n \in safe .. Len(log) : log' = SubSeq(log, 1, n)
    /\ exists' = named
    /\ cells' = IF named THEN left ELSE <<>>
    /\ synced' = IF named THEN synced ELSE <<>>
    /\ Forget
    /\ UNCHANGED <<safe, named, obsVars>>

Crash == "power" \in Env /\ PowerCut(synced)
Extend == "extend" \in Env /\ PowerCut(CrashExtend(cells, synced))
Tear ==
    /\ "tear" \in Env
    /\ \E k \in 0 .. MaxCommits, half \in BOOLEAN : PowerCut(CrashTorn(cells, synced, k, half))

Next ==
    \/ Open \/ LogAppend \/ LogSync \/ LogDirSync
    \/ OpenCommits \/ CreateCommits \/ SyncCommitsDir \/ SyncCommitsDirFails
    \/ \E g \in Groups :
        \/ Resume(g) \/ Consume(g)
        \/ \E off \in Offsets : Commit(g, off) \/ CommitAppendFails(g, off)
    \/ CommitSync \/ CommitSyncFails
    \/ Close \/ Kill \/ Crash \/ Extend \/ Tear

Spec == Init /\ [][Next]_vars

(***************************************************************************)
(* The process that owns the log keeps opening it and finishes the calls   *)
(* it began, and each consumer keeps asking for a cursor and reading.      *)
(* Nothing makes the environment stop or restart the process.              *)
(***************************************************************************)
Fairness ==
    /\ WF_vars(Open) /\ WF_vars(OpenCommits) /\ WF_vars(CreateCommits)
    /\ WF_vars(SyncCommitsDir) /\ WF_vars(CommitSync)
    /\ \A g \in Groups : WF_vars(Resume(g)) /\ WF_vars(Consume(g))

LiveSpec == Spec /\ Fairness

-----------------------------------------------------------------------------
(***************************************************************************)
(* The type of every variable.                                             *)
(***************************************************************************)
TypeOK ==
    /\ log \in Seq(0 .. MaxEpoch) /\ safe \in 0 .. Len(log) /\ epoch \in 0 .. MaxEpoch
    /\ exists \in BOOLEAN /\ named \in BOOLEAN
    /\ cells \in Seq(Cell) /\ synced \in Seq(Cell)
    /\ pc \in {"down", "idle", "dirsync", "commitsync"}
    /\ opened \in BOOLEAN /\ sealed \in BOOLEAN /\ next \in Nat
    /\ at \in [Groups -> Offsets \cup {None}]
    /\ want \in Commits \cup {NoCommit}
    /\ pos \in [Groups -> Offsets \cup {None}]
    /\ seen \in [Groups -> SUBSET (Offsets \X (0 .. MaxEpoch))]
    /\ returned \in [Groups -> Offsets \cup {None}]
    /\ since \in [Groups -> SUBSET Offsets]

(***************************************************************************)
(* A commit that returned survives (group.go: Commit "makes that record    *)
(* durable before returning"; harness/check.go, checkGroups): whether the  *)
(* process restarts or the power fails, the group resumes at the last      *)
(* commit that returned or at one it asked for since, never elsewhere.     *)
(***************************************************************************)
CommitSurvives ==
    \A g \in Groups :
        /\ returned[g] # None => named
        /\ Replay(cells, g) \in {returned[g]} \cup since[g]
        /\ Replay(synced, g) \in {returned[g]} \cup since[g]

(***************************************************************************)
(* At-least-once delivery (docs/adopting.md, section 5): every record the  *)
(* log holds below a position the group would resume from has been         *)
(* processed by it, in this epoch or an earlier one.                       *)
(***************************************************************************)
AtLeastOnce ==
    \A g \in Groups : \A c \in {Replay(cells, g), Replay(synced, g)} :
        \A o \in 0 .. c - 1 : o < Len(log) => <<o, log[o + 1]>> \in seen[g]

(***************************************************************************)
(* A consumer can always resume: no group stands past the tail of the log  *)
(* (harness/check.go: "is committed at %d, past the log's tail").          *)
(***************************************************************************)
ResumesInsideLog == opened => \A g \in Groups : at[g] <= Len(log)

(***************************************************************************)
(* Every record that a Sync covered is processed by every group in the     *)
(* end, whatever power cuts come between, as long as they are finitely many.*)
(***************************************************************************)
EventuallyConsumed ==
    \A g \in Groups, o \in 0 .. MaxOffset - 1 :
        o < safe ~> o < safe /\ <<o, log[o + 1]>> \in seen[g]
=============================================================================
