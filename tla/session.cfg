\* Two tasks, two domains, two logins accepted out of five calls.
CONSTANTS
    Tasks = {t1, t2}
    Domains = {d1, d2}
    NoDomain = NoDomain
    MaxLogins = 2
    MaxCalls = 5
SPECIFICATION Spec
SYMMETRY Symmetry
CHECK_DEADLOCK FALSE
INVARIANTS
    TypeOK
    SessionStaysHome
    PreparedTogether
    CasIsOwn
    PulseEndsStill
PROPERTIES
    CasSessionIsCurrent
