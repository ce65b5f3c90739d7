\* Two overlapping requests for one credential, each a save or a removal,
\* over an empty or a filled store, with at most one refused backend call.
SPECIFICATION FairSpec
CONSTANTS
    anthropic = anthropic
    elevenlabs = elevenlabs
    keyA = keyA
    keyB = keyB
    keyC = keyC
    q1 = q1
    q2 = q2
    NoKey = NoKey
    Unknown = Unknown
    NoEntry = NoEntry
    Users = {anthropic}
    Keys = {keyA, keyB, keyC}
    Requests = {q1, q2}
    Wish <- MCOneUser
    Seeds <- MCSeeds
    MaxFaults = 1
INVARIANTS
    LatestIntentWins
    KeysAreKept
PROPERTIES
    EveryRequestReturns
\* The system stops once every request has returned and its jobs are done.
CHECK_DEADLOCK FALSE
