CONSTANTS
    p1 = p1  p2 = p2  p3 = p3
    s1 = s1  s2 = s2  s3 = s3
    r1 = r1  r2 = r2  r3 = r3  r4 = r4
    Players <- TwoPlayers
    Systems <- TwoSystems
    Requests <- ThreeRequests
    NoOne = NoOne
    Organizer = Organizer
    NoSignup = NoSignup
    Handlers <- Workflow
    PatchStatuses <- NoStatus
    Overlap = TRUE
    Crashes = FALSE
SPECIFICATION Spec
INVARIANTS OneNotice
SYMMETRY Symmetry
CHECK_DEADLOCK FALSE
