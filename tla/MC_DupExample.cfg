SPECIFICATION LoggingSpec
CONSTANTS
    l0 = l0
    l1 = l1
    l2 = l2
    pay1 = pay1
    pay2 = pay2
    NoLogger = NoLogger
    Unused = Unused
    \* the registry
    rg_Loggers = {l0, l1, l2}
    rg_Default = l0
    rg_Name <- LoggerNames
    rg_LevelsUsed = {1, 6}
    rg_Formatters = {"default", "own"}
    rg_Handlers = {"none", "mine"}
    rg_NoHandler = "none"
    rg_Inputs <- EnvTexts
    rg_TraceSizes = {0, 2}
    rg_MaxCalls = 4
    \* three rotating files, messages below, at and above the size
    ro_MaxFiles = 2
    ro_MaxSize = 3
    ro_Sizes = {1, 2, 4}
    ro_MaxMessages = 5
    ro_MaxFaults = 2
    ro_MaxOpens = 2
    \* two daily files kept, rotated at midnight or at noon, four days
    da_MaxFiles = 2
    da_RotationHalves = {0, 1}
    da_Truncate = FALSE
    da_LastDay = 4
    da_MaxFaults = 1
    da_Delay = 1
    \* the consoles, around midnight
    co_Midnight = 30
    co_MaxWidth = 12
    co_Refresh = 10
    co_FirstPatterns <- Patterns
    co_OtherPatterns <- Others
    co_FirstKinds = {"ansi", "stdout", "win"}
    co_Messages <- MessageKinds
    co_Times = {24, 29, 35}
    co_MaxMessages = 2
    \* the filters: two payloads, four messages, a fault and a change of sinks
    fi_Payloads = {pay1, pay2}
    fi_SkipMax = 1
    fi_RingItems = 2
    fi_LastTime = 3
    fi_Delay = 1
    fi_MaxLogged = 4
    fi_MaxFaults = 1
    fi_MaxChanges = 1
    \* both TCP clients, two addresses, messages of three parts
    tc_Builds = {FALSE, TRUE}
    tc_Addresses = 2
    tc_Parts = 3
    tc_MaxMessages = 4
    tc_MaxSockets = 4
SYMMETRY Symmetry
INVARIANT TheExampleSkipsThree
CHECK_DEADLOCK FALSE
