-------------------------------- MODULE Cycle --------------------------------
(***************************************************************************)
(* The command cycle (core/cycle.go) and its hash chain (core/chain.go),   *)
(* running the ledger (internal/devtools/ledger): a command is decided     *)
(* against the projection, its events are applied and chained, and the     *)
(* caller appends them to a log.  A process that starts again folds the    *)
(* log, in batches of any size, before it takes commands.                  *)
(*                                                                         *)
(* The log and the caller are not part of core ("Appending events to a     *)
(* durable log is the caller's job", cycle.go).  Here the log is what      *)
(* DurableLog promises, and a crash may keep any part of an append that    *)
(* was under way: Append is not atomic.                                    *)
(***************************************************************************)
EXTENDS Integers, Sequences, FiniteSets, FiniteSetsExt

CONSTANTS
    Accounts,     \* Workload.Accounts
    IndexSpace,   \* how many account indices a payload can carry: 2^16
    Amounts,      \* the amounts that commands carry
    MaxCommands,  \* bound: commands submitted, and readings of the clock
    MaxRestarts,  \* bound: crashes
    MaxForeign    \* bound: events in the log that the ledger cannot apply

ASSUME AccountsAssumption == Accounts \in Nat /\ Accounts >= 2
ASSUME IndexAssumption == IndexSpace \in Nat /\ Accounts <= IndexSpace
ASSUME AmountsAssumption == Amounts \subseteq Nat
ASSUME CycleBoundsAssumption ==
    MaxCommands \in Nat /\ MaxRestarts \in Nat /\ MaxForeign \in Nat

Indices == 0 .. Accounts - 1
CommandNames == {"credit", "debit", "transfer"}

(***************************************************************************)
(* A command names its operation and account; "close" stands for a name    *)
(* the decider does not know, and index Accounts for one that is outside.  *)
(***************************************************************************)
Commands == [name : CommandNames \cup {"close"}, idx : 0 .. Accounts, amount : Amounts]

(***************************************************************************)
(* An event: the partition key, the time the cycle stamps, and the payload.*)
(* NoKey is the empty key.  A foreign event is valid for core and the log, *)
(* but its operation is not one that the ledger knows.                     *)
(***************************************************************************)
NoKey == -1
Event(op, key, idx, amount) ==
    [op |-> op, key |-> key, idx |-> idx % IndexSpace, amount |-> amount, time |-> 0]
Foreign == [op |-> "foreign", key |-> 0, idx |-> 0, amount |-> 0, time |-> 0]
Events ==
    [op : {"credit", "debit", "foreign"}, key : Indices, idx : Indices,
     amount : Amounts \cup {0}, time : 0 .. MaxCommands]

VARIABLES
    cycle,     \* the Cycle: projection, chain and poison
    pos,       \* how many events of the log the cycle was given
    pending,   \* events that Submit returned and the caller has yet to append
    log,       \* the events of the log
    safe,      \* how many of them a crash cannot take
    clock,     \* the injected clock: commands submitted
    restarts,  \* crashes so far
    accepted   \* observer: the name of the command accepted at each time

vars == <<cycle, pos, pending, log, safe, clock, restarts, accepted>>

-----------------------------------------------------------------------------
(***************************************************************************)
(* NewCycle and NewChain over an empty ledger.  A chain's digest is the    *)
(* sequence of what was hashed into it: SHA-256 is taken to be injective.  *)
(***************************************************************************)
NewCycle ==
    [ balances |-> [i \in Indices |-> 0],
      applied  |-> 0,
      chain    |-> [digest |-> <<>>, steps |-> 0, lastChange |-> 0, last |-> <<>>],
      poison   |-> FALSE ]

(***************************************************************************)
(* ledger.Apply refuses an event it cannot decode; otherwise it moves the  *)
(* balance and counts.  Digest covers every field.                         *)
(***************************************************************************)
Refuses(e) == e.op \notin {"credit", "debit"} \/ e.idx \notin Indices

Apply(c, e) ==
    [c EXCEPT !.balances[e.idx] = IF e.op = "credit" THEN @ + e.amount ELSE @ - e.amount,
              !.applied = @ + 1]

Digest(c) == <<c.balances, c.applied>>

(***************************************************************************)
(* Chain.Advance, and its mutant that notes only the first change.         *)
(***************************************************************************)
NotesFirstChange(ch, e, d) ==
    [ digest     |-> Append(ch.digest, <<e, d>>),
      steps      |-> ch.steps + 1,
      lastChange |-> IF ch.steps = 0 THEN 1 ELSE ch.lastChange,
      last       |-> d ]

Advance(ch, e, d) ==
    [ digest     |-> Append(ch.digest, <<e, d>>),
      steps      |-> ch.steps + 1,
      lastChange |-> IF d # ch.last THEN ch.steps + 1 ELSE ch.lastChange,
      last       |-> d ]

StepsSinceChange(ch) == ch.steps - ch.lastChange

(***************************************************************************)
(* Cycle.apply: one event after the other until one is refused, which      *)
(* poisons the cycle and leaves the events before it applied.              *)
(***************************************************************************)
ApplyNext(c, e) ==
    IF c.poison THEN c
    ELSE IF Refuses(e) THEN [c EXCEPT !.poison = TRUE]
    ELSE LET d == Apply(c, e) IN [d EXCEPT !.chain = Advance(@, e, Digest(d))]

ApplyAll(c, events) ==
    LET after[i \in 0 .. Len(events)] ==
            IF i = 0 THEN c ELSE ApplyNext(after[i - 1], events[i])
    IN  after[Len(events)]

-----------------------------------------------------------------------------
(***************************************************************************)
(* teller.Decide: the commands it rejects, and the events of the others.   *)
(* A transfer goes to the next account, the debit first.  The mutant       *)
(* CoversDebitsOnly lets a transfer overdraw its source.                   *)
(***************************************************************************)
CoversDebitsOnly(c, cmd) ==
    ~( /\ cmd.idx \in Indices
       /\ cmd.name \in CommandNames
       /\ cmd.name = "debit" => c.balances[cmd.idx] >= cmd.amount )

Rejects(c, cmd) ==
    ~( /\ cmd.idx \in Indices
       /\ cmd.name \in CommandNames
       /\ cmd.name \in {"debit", "transfer"} => c.balances[cmd.idx] >= cmd.amount )

(***************************************************************************)
(* Mutants of Decide: a transfer that credits first, and one whose         *)
(* destination runs past the last account.                                 *)
(***************************************************************************)
CreditsFirst(cmd) ==
    LET dst == (cmd.idx + 1) % Accounts IN
    IF cmd.name = "transfer"
    THEN <<Event("credit", dst, dst, cmd.amount), Event("debit", cmd.idx, cmd.idx, cmd.amount)>>
    ELSE <<Event(cmd.name, cmd.idx, cmd.idx, cmd.amount)>>

PaysPastTheLast(cmd) ==
    LET dst == cmd.idx + 1 IN
    IF cmd.name = "transfer"
    THEN <<Event("debit", cmd.idx, cmd.idx, cmd.amount), Event("credit", dst, dst, cmd.amount)>>
    ELSE <<Event(cmd.name, cmd.idx, cmd.idx, cmd.amount)>>

Decide(cmd) ==
    LET dst == (cmd.idx + 1) % Accounts IN
    IF cmd.name = "transfer"
    THEN <<Event("debit", cmd.idx, cmd.idx, cmd.amount), Event("credit", dst, dst, cmd.amount)>>
    ELSE <<Event(cmd.name, cmd.idx, cmd.idx, cmd.amount)>>

(***************************************************************************)
(* Submit's loop over the decided events: the time of the clock, and the   *)
(* command's key where the decider set none.  The events it returns are    *)
(* the ones it applied.                                                    *)
(***************************************************************************)
Stamp(events, cmd, now) ==
    [i \in DOMAIN events |->
        [events[i] EXCEPT !.time = now, !.key = IF @ = NoKey THEN cmd.idx ELSE @]]

-----------------------------------------------------------------------------
Init ==
    /\ cycle = NewCycle
    /\ pos = 0 /\ pending = <<>>
    /\ log = <<>> /\ safe = 0
    /\ clock = 0 /\ restarts = 0
    /\ accepted = [t \in 1 .. MaxCommands |-> "none"]

Idle == pos = Len(log) /\ pending = <<>>

(***************************************************************************)
(* Submit of a command that is accepted: its events are applied, and       *)
(* returned unless one of them is refused.                                 *)
(***************************************************************************)
Submit(cmd) ==
    LET events == Stamp(Decide(cmd), cmd, clock + 1) IN
    /\ Idle
    /\ ~cycle.poison
    /\ clock < MaxCommands
    /\ ~Rejects(cycle, cmd)
    /\ cycle' = ApplyAll(cycle, events)
    /\ pending' = IF cycle'.poison THEN <<>> ELSE events
    /\ clock' = clock + 1
    /\ accepted' = [accepted EXCEPT ![clock'] = cmd.name]
    /\ UNCHANGED <<pos, log, safe, restarts>>

(***************************************************************************)
(* Submit of a command that the decider rejects, or on a poisoned cycle:   *)
(* only the clock has moved.                                               *)
(***************************************************************************)
SubmitFails(cmd) ==
    /\ Idle \/ cycle.poison
    /\ clock < MaxCommands
    /\ cycle.poison \/ Rejects(cycle, cmd)
    /\ clock' = clock + 1
    /\ UNCHANGED <<cycle, pos, pending, log, safe, restarts, accepted>>

(***************************************************************************)
(* The caller appends the events that Submit returned, and syncs.          *)
(***************************************************************************)
Persist ==
    /\ pending # <<>>
    /\ log' = log \o pending
    /\ pos' = Len(log')
    /\ pending' = <<>>
    /\ UNCHANGED <<cycle, safe, clock, restarts, accepted>>

Sync ==
    /\ safe # Len(log)
    /\ safe' = Len(log)
    /\ UNCHANGED <<cycle, pos, pending, log, clock, restarts, accepted>>

(***************************************************************************)
(* Another writer's event, which this ledger cannot apply.                 *)
(***************************************************************************)
Intrude ==
    /\ Idle
    /\ Cardinality({i \in DOMAIN log : log[i] = Foreign}) < MaxForeign
    /\ log' = Append(log, Foreign)
    /\ UNCHANGED <<cycle, pos, pending, safe, clock, restarts, accepted>>

(***************************************************************************)
(* Fold of the next n events of the log.  Its mutants: RestampsTime stamps *)
(* them as Submit does; FoldsPastTail counts events that the log does not  *)
(* have.                                                                   *)
(***************************************************************************)
FoldsPastTail(n) ==
    LET batch == SubSeq(log, pos + 1, Min({pos + n, Len(log)})) IN
    /\ ~cycle.poison
    /\ cycle' = ApplyAll(cycle, batch)
    /\ pos' = pos + n
    /\ UNCHANGED <<pending, log, safe, clock, restarts, accepted>>

RestampsTime(n) ==
    LET batch == Stamp(SubSeq(log, pos + 1, pos + n), [idx |-> 0], clock) IN
    /\ ~cycle.poison
    /\ n <= Len(log) - pos
    /\ cycle' = ApplyAll(cycle, batch)
    /\ pos' = IF cycle'.poison THEN pos ELSE pos + n
    /\ UNCHANGED <<pending, log, safe, clock, restarts, accepted>>

Fold(n) ==
    LET batch == SubSeq(log, pos + 1, pos + n) IN
    /\ ~cycle.poison
    /\ n <= Len(log) - pos
    /\ cycle' = ApplyAll(cycle, batch)
    /\ pos' = IF cycle'.poison THEN pos ELSE pos + n
    /\ UNCHANGED <<pending, log, safe, clock, restarts, accepted>>

(***************************************************************************)
(* The process dies, or the power fails: the cycle is gone, and the log    *)
(* keeps some prefix of what was appended or being appended.               *)
(***************************************************************************)
Crash ==
    /\ restarts < MaxRestarts
    /\ restarts' = restarts + 1
    /\ \E n \in safe .. Len(log \o pending) : log' = SubSeq(log \o pending, 1, n)
    /\ cycle' = NewCycle
    /\ pos' = 0
    /\ pending' = <<>>
    /\ UNCHANGED <<safe, clock, accepted>>

Next ==
    \/ \E cmd \in Commands : Submit(cmd) \/ SubmitFails(cmd)
    \/ Persist \/ Sync \/ Intrude \/ Crash
    \/ \E n \in 1 .. 2 * MaxCommands + MaxForeign : Fold(n)

Spec == Init /\ [][Next]_vars

-----------------------------------------------------------------------------
(***************************************************************************)
(* The type of every variable.                                             *)
(***************************************************************************)
TypeOK ==
    /\ cycle.balances \in [Indices -> Int] /\ cycle.applied \in Nat /\ cycle.poison \in BOOLEAN
    /\ cycle.chain.steps = Len(cycle.chain.digest)
    /\ log \in Seq(Events) /\ pending \in Seq(Events)
    /\ pos \in 0 .. Len(log) /\ safe \in 0 .. Len(log)
    /\ clock \in 0 .. MaxCommands /\ restarts \in 0 .. MaxRestarts
    /\ accepted \in [1 .. MaxCommands -> CommandNames \cup {"none"}]

(***************************************************************************)
(* The history a cycle has been given; the sum of d[1] .. d[n]; what the   *)
(* first n events of a history add to an account, what all the accounts    *)
(* hold, and what the commands of one name asked to move.                  *)
(***************************************************************************)
History == log \o pending

Total(d, n) ==
    LET sum[i \in 0 .. n] == IF i = 0 THEN 0 ELSE sum[i - 1] + d[i]
    IN  sum[n]

Moves(e) ==
    CASE e.op = "credit" -> e.amount [] e.op = "debit" -> -e.amount [] OTHER -> 0

Balance(h, a, n) ==
    Total([i \in 1 .. n |-> IF h[i].idx = a THEN Moves(h[i]) ELSE 0], n)

Holdings(balances) == Total([i \in 1 .. Accounts |-> balances[i - 1]], Accounts)

Asked(h, name, n) ==
    Total([i \in 1 .. n |-> IF h[i].time > 0 /\ accepted[h[i].time] = name
                            THEN h[i].amount ELSE 0], n)

(***************************************************************************)
(* "Same events, same projection, same digest, regardless of batching,     *)
(* restarts, or replay" (cycle.go, Projection): in every state, poisoned   *)
(* ones included, the chain lists the first events of the history exactly  *)
(* as they are stored, the balances are what those events sum to, and no   *)
(* event that the ledger refuses has been passed over.                     *)
(***************************************************************************)
FoldOfHistory ==
    LET n == cycle.chain.steps IN
    /\ n <= Len(History)
    /\ \A i \in 1 .. n : cycle.chain.digest[i][1] = History[i] /\ ~Refuses(History[i])
    /\ \A a \in Indices : cycle.balances[a] = Balance(History, a, n)
    /\ ~cycle.poison => n = pos + Len(pending)

(***************************************************************************)
(* A command the teller accepts never fails to apply (ledger.go, Decide:   *)
(* "a transfer is decided as a unit"): only an event from elsewhere        *)
(* poisons a cycle, at the place in the log where it stands.               *)
(***************************************************************************)
DecidedApplies ==
    cycle.poison => cycle.chain.steps < Len(log) /\ log[cycle.chain.steps + 1] = Foreign

(***************************************************************************)
(* No account is overdrawn, whatever part of a transfer a crash kept and   *)
(* at whatever event a replay stands (ledger.go, ErrInsufficientFunds).    *)
(***************************************************************************)
NoOverdraft == \A a \in Indices : cycle.balances[a] >= 0

(***************************************************************************)
(* A transfer moves an amount and nothing else (ledger_test.go): the       *)
(* accounts together never hold more than was credited less what was       *)
(* debited, even when a crash kept half of a transfer.                     *)
(***************************************************************************)
NoMoneyCreated ==
    LET n == cycle.chain.steps
    IN  Holdings(cycle.balances) <= Asked(History, "credit", n) - Asked(History, "debit", n)

(***************************************************************************)
(* The ledger never looks absorbed (chain.go, Absorbed; ledger.go,         *)
(* absorbedWindow: "a ledger that applies an event always moves a          *)
(* balance").                                                              *)
(***************************************************************************)
NeverAbsorbed ==
    /\ StepsSinceChange(cycle.chain) = 0
    /\ \A i \in 2 .. cycle.chain.steps :
        cycle.chain.digest[i][2][1] # cycle.chain.digest[i - 1][2][1]
=============================================================================
