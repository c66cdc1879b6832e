SPECIFICATION FairSpec
CONSTANTS
    Kind = {"http", "grpc", "rpc"}
    Client = {c1, c2}
    Failure = {"NOT_FOUND", "VALIDATION_ERROR", "CONFLICT", "UNAUTHORIZED", "INTERNAL_ERROR", "other"}
    None = None
INVARIANTS
    TypeOK
    NobodyIsCutOff
    NobodyMeetsAClosedDatabase
    LeavesOpenOnlyInTrouble
    ToldAndCounted
PROPERTIES
    StopsInTheEnd
