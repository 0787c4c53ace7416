SPECIFICATION Spec
CONSTANTS
    MAX_TAGS = 2
    ValidTags = {"a", "b", "c"}
    RIFF_LEN = 2
    CHUNK_HEAD_LEN = 1
    FMT_BODY_LEN = 2
    max_upload_bytes = 9
    MAX_TEXT_FIELD_BYTES = 3
    HEADER_SCAN_BYTES = 8
    MAX_RECORDED_AT_SKEW = 1
    RawConfigs <- MCRawConfigs
    Requests <- MCRequests
INVARIANTS
    BudgetHeld
    DecidedAsSpecified
CHECK_DEADLOCK FALSE
