CONSTANTS
    p1 = p1
    p2 = p2
    None = None
    MaxRecords = 3
    Payload <- MCPayload
SPECIFICATION Spec
INVARIANT AcceptedIsRecoverable
