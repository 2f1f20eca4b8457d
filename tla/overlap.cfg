CONSTANTS
    p1 = p1  p2 = p2  p3 = p3
    s1 = s1  s2 = s2  s3 = s3
    r1 = r1  r2 = r2  r3 = r3  r4 = r4
    Players <- TwoPlayers
    Systems <- TwoSystems
    Requests <- ThreeRequests
    NoOne = NoOne
    Organizer = Organizer
    NoSignup = NoSignup
    Handlers <- AllButAmend
    PatchStatuses <- Edits
    Overlap = TRUE
    Crashes = TRUE
SPECIFICATION SignedUpPublishedSpec
INVARIANTS TypeOK PlayersExist TruthfulMail RegenerateRecovers NotifiedOnce PublishedStands
SYMMETRY Symmetry
CHECK_DEADLOCK FALSE
