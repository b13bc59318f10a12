CONSTANTS
    NumBlocks = 4
    Payloads <- MCPayloads
    PayloadLen <- MCPayloadLen
SPECIFICATION Spec
INVARIANT TypeOK
INVARIANT IndexLeadsToPayload
CHECK_DEADLOCK FALSE
