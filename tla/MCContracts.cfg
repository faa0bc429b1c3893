SPECIFICATION BlocksSpec
CONSTANTS
    Accounts <- MCAccounts
    Calls <- MCCalls
    Start <- MCStart
    HashRank <- MCHashRank
    Unwritten <- MCUnwritten
    PriceUnit = 2
    ChallengeTime = 1
    MaxHeight <- MCMaxHeight
    MaxInt = 10
    StartSize = 3
    MaxSize = 4
    MaxLimit = 4
INVARIANTS
    NoReplay
    EscrowBacked
    OncePerBlock
CHECK_DEADLOCK FALSE
