CONSTANTS
    Request = {q1, q2}
    Challenge = {h1}
    None = None
    MaxSecrets = 2
    MaxCodes = 2
    CodesPerSet = 1
    MaxTime = 3
    MaxStep = 3
    SetupTtl = 1
    ChallengeTtl = 1
    ChallengeLimit = 1
    FailureLimit = 2
    WindowTime = 0
    BlockTime = 1
SPECIFICATION Spec
SYMMETRY Ids
CHECK_DEADLOCK FALSE
PROPERTIES
    SetupKeepsActive
