SPECIFICATION Spec
CONSTANTS
    Calls <- MCCalls
    Keys <- MCKeys
    Declared <- MCDeclared
    Entries <- MCEntries
    Harnesses <- MCHarnesses
    MaxRules = 2
    MaxUnsolicited = 3
    Buffer = 3
    MaxRequests = 2
    MaxCommands = 2
    Threads = {1, 2}
    Fds = {3, 4}
    Answers <- MCAnswers
    Ports = {0, 80, 81}
    Ephemeral = {99}
    Sessions <- MCSessions
    MaxPolicyRules = 4
    MaxBinds = 1
    MaxQueries = 3
    MaxSockets = 2
    MaxSent = 2
CHECK_DEADLOCK FALSE
INVARIANTS OnceMeansOnce AnswersReachAsker
PROPERTIES FailsForCause EveryCallEnds
