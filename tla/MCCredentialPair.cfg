\* A save and a removal in either order, one reader that uses what it reads,
\* and up to two store calls or preference writes that fail.
SPECIFICATION FairSpec
CONSTANTS
    save = save
    remove = remove
    chat = chat
    keyA = keyA
    keyB = keyB
    NoKey = NoKey
    Free = Free
    Saves = {save}
    Removals = {remove}
    Readers = {chat}
    Keys = {keyA, keyB}
    NewKey <- MCNewKey
    Seeds <- MCSeeds
    MaxFaults = 2
INVARIANTS
    ReadsNeverMixed
    LatestAdmittedWins
    NoFalseDowngrade
    OutcomeIsHonest
PROPERTIES
    EveryChangeReturns
