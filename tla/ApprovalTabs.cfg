SPECIFICATION Spec
CONSTANTS
    Sessions = {1, 2, 3, 4}
    Challenges = {c1, c2}
    Policies = {p1}
    Requests = {r1, r2}
    NoSession = NoSession
    NoChallenge = NoChallenge
    NoPolicy = NoPolicy
    MaxLogins = 2
    MaxRequests = 4
    MaxLapses = 1
SYMMETRY Symmetry
CHECK_DEADLOCK FALSE
INVARIANTS
    TypeOK
    ChainsAreLinear
    DecidedSessionIsSpent
    DecidedOnce
    AnswersAreTrue
PROPERTIES
    DecidesOnCurrentGround
    EndedStaysEnded
