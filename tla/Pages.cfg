SPECIFICATION Spec
CONSTANTS
    p1 = p1
    p2 = p2
    Pagers = {p1, p2}
    Batches <- MCBatches
    EmbedCap = 2
    MaxClicks = 2
INVARIANTS
    TypeOK
    EndedMessagesSettle
PROPERTIES
    ClicksStayApart
CHECK_DEADLOCK FALSE
