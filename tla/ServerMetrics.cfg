SPECIFICATION Spec
CONSTANTS
    Kind = {"rpc"}
    Client = {c1, c2}
    Failure = {"NOT_FOUND", "VALIDATION_ERROR", "CONFLICT", "UNAUTHORIZED", "INTERNAL_ERROR", "other"}
    None = None
SYMMETRY Interchangeable
INVARIANTS
    FailuresAreReported
