SPECIFICATION Spec
CONSTANTS
    Clients = {c1, c2}
    Redirects = {u1, u2}
    AllowedRedirects = {u1}
    Verifiers = {v1, v2}
    Codes = {k1}
    Tokens = {t1, t2}
    Requests = {r1, r2}
    CodeTTL = 1
    TokenTTL = 2
    StaleAge = 1
    MaxRedirects = 1
    MaxNow = 3
SYMMETRY Symmetry
INVARIANTS
    TypeOK
    HandoverIsApproved
    TracesOnlyByTick
    OneAnswerUnlessOverlapped
    RevokedStaysDead
    HoldersAreListed
PROPERTIES
    GrantsAreTheOwners
