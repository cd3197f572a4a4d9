CONSTANTS
    Deliveries = {d1, d2, d3}
    Ids = {i1, i2}
    Bodies = {b1, b2}
    NoValue = NoValue
SYMMETRY Symmetry
SPECIFICATION WebhookSpec
INVARIANTS WebhooksFit
PROPERTY ImplementsInbox
