CONSTANTS
    ana = ana
    ben = ben
    s1 = s1
    Emails <- TwoEmails
    Systems <- OneSystem
    Organizer = Organizer
    NoItem = NoItem
    Requests <- ThreeRequests
    NoToken = NoToken
    None = None
    MaxCalls = 1
SPECIFICATION Spec
SYMMETRY Symmetry
INVARIANTS
    TypeOK
    SettledShowsOwn
    WithdrawnIsCancelled
PROPERTIES
    CodeStepStands
