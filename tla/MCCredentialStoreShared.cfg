\* Two credentials behind the backend's one plain target, and no
\* refusal at all: the rule under
\* which _discard_superseded deletes a copy.
SPECIFICATION Spec
CONSTANTS
    anthropic = anthropic
    elevenlabs = elevenlabs
    keyA = keyA
    keyB = keyB
    keyC = keyC
    q1 = q1
    q2 = q2
    NoKey = NoKey
    Unknown = Unknown
    NoEntry = NoEntry
    Users = {anthropic, elevenlabs}
    Keys = {keyA, keyB, keyC}
    Requests = {q1, q2}
    Wish <- MCTwoUsers
    Seeds <- MCSeeds
    MaxFaults = 0
PROPERTY
    CopyIsNeverTheLastKey
\* The system stops once every request has returned and its jobs are done.
CHECK_DEADLOCK FALSE
