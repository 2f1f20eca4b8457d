CONSTANTS
    p1 = p1  p2 = p2  p3 = p3
    s1 = s1  s2 = s2  s3 = s3
    r1 = r1  r2 = r2  r3 = r3  r4 = r4
    Players <- ThreePlayers
    Systems <- ThreeSystems
    Requests <- FourRequests
    NoOne = NoOne
    Organizer = Organizer
    NoSignup = NoSignup
    Handlers <- Withdrawals
    PatchStatuses <- NoStatus
    Overlap = FALSE
    Crashes = TRUE
SPECIFICATION SignedUpPublishedSpec
INVARIANTS OneOddPerSystem OnlyOrphansDoubleBooked NotifiedOnce RegenerateRecovers
PROPERTIES KeepsPromise
SYMMETRY FullSymmetry
CHECK_DEADLOCK FALSE
