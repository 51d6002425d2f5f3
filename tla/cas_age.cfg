\* One call; the certificate of the second connection may have other flaws than its age.
CONSTANTS
    Host <- CasHost
    Entries <- CasEntries
SPECIFICATION Spec
CHECK_DEADLOCK FALSE
INVARIANTS
    ToleratedForAgeAlone
