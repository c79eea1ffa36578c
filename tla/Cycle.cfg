\* Two accounts, four commands, a crash, one event the ledger cannot apply.
SPECIFICATION Spec
CONSTANTS
    Accounts = 2
    IndexSpace = 4
    Amounts = {1, 2}
    MaxCommands = 4
    MaxRestarts = 1
    MaxForeign = 1
CHECK_DEADLOCK FALSE
INVARIANTS
    TypeOK
    FoldOfHistory
    DecidedApplies
    NoOverdraft
    NoMoneyCreated
    NeverAbsorbed
