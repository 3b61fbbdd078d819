SPECIFICATION Spec
CONSTANTS
    Request = {r1, r2}
    File = {oauth, build}
    Oauth = oauth
    Authority = {a1, a2}
    CacheSettings = {TRUE, FALSE}
    None = None
    Error = Error
    MaxChanges = 2
SYMMETRY Requests
INVARIANTS
    TypeOK
    AnswersNameAuthority
    UncachedAnswersAreFresh
PROPERTIES
    CacheSettles
CHECK_DEADLOCK FALSE
