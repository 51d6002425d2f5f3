\* One generator after another, two sessions a camera may issue.
CONSTANTS
    Tokens = {tok1, tok2}
    NoToken = NoToken
SPECIFICATION FairSpec
INVARIANTS
    TypeOK
    OneLinkAtATime
    MediaIsOfThisWindow
PROPERTIES
    ImplementsSession
    PlaybackSettles
