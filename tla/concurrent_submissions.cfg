CONSTANTS
    ana = ana
    ben = ben
    s1 = s1
    s2 = s2
    Emails <- TwoEmails
    Systems <- TwoSystems
    Organizer = Organizer
    NoItem = NoItem
    Requests <- ThreeRequests
SPECIFICATION Spec
SYMMETRY Symmetry
CHECK_DEADLOCK FALSE
INVARIANTS
    OnePerEmail
