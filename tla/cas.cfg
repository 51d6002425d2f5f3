\* One call against a server that may show any certificates.
CONSTANTS
    Host <- CasHost
    Entries <- CasEntries
SPECIFICATION FairSpec
CHECK_DEADLOCK FALSE
INVARIANTS
    TypeOK
    CarrierNamesHost
    OnlyTheRefusedIsLeft
    OnlyParsersEscape
PROPERTIES
    CallSettles
