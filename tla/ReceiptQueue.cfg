CONSTANTS
    Receipts = {a, b, c}
    NoReceipt = NoReceipt
    MaxReceiptCount = 2
    MaxEnqueued = 6
SPECIFICATION Spec
INVARIANTS
    CellsMatchCounters
PROPERTIES
    ImplementsFIFO
