SPECIFICATION Spec
CONSTANTS
    Operations <- SupportOperations
    Clock <- MCClock
    Ids <- MCIds
    Cases <- MCCases
    Requests <- MCRequests
    Calls <- MCCalls
    Intents <- MCIntents
    Described <- MCDescribed
    Script <- MCScript
    KeyParts = {"destination"}
    MaxTurns = 3
INVARIANTS
    OneCallAndItsEffects
    ActsOnGroundedIntent
    JudgesAgree
    CallsAreBounded
CHECK_DEADLOCK FALSE
