\* Commands are finite in number: when the last one ends, the system stops.
SPECIFICATION ScanSpec
CONSTANTS
    p1 = p1
    Person = {p1}
    TypeOf <- MCTypeOf
    OthersKinds = {"StartScan"}
    Minute = 3
    MaxCommands = 3
    MaxLosses = 1
    DoubleReadingThreshold = 1
    Word = {"a", "b", "t"}
    Punctuation = {";"}
    Barcodes <- MCBarcodes
    Tags <- MCTags
    TestCode <- MCTestCode
    BarcodeLength = 1
    TagLength = 2
    MaxTyped = 2
    MaxAcks = 2
CONSTRAINTS FewWait FewRows
CHECK_DEADLOCK FALSE
INVARIANT OutcomeIsItsOwn
