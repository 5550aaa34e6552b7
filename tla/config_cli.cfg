SPECIFICATION Spec
CONSTANTS
    user = user
    other = other
    v1 = v1
    v2 = v2
    NoValue = NoValue
    Junk = Junk
    Absent = Absent
    Broken = Broken
    NoProc = NoProc
    NotYet = NotYet
    DefaultMode = DefaultMode
    Procs = {user, other}
    Keys <- MCKeys
    DefaultsKeys <- MCKeys
    Values = {v1, v2}
    InitialFiles <- MCFiles
    Invocations <- MCInvocations
    MaxCommands <- MCMaxCommands
INVARIANTS
    ActsWhereTold
    RemovalsConfirmed
PROPERTY
    EachChangeIsOneRequest
CHECK_DEADLOCK FALSE
