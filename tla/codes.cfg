CONSTANTS
    ana = ana
    ben = ben
    c1 = c1
    c2 = c2
    t1 = t1
    t2 = t2
    Emails <- TwoEmails
    Codes <- TwoCodes
    Tabs <- TwoTabs
    NoEmail = NoEmail
    NoCode = NoCode
    CodeTtl = 2
    MaxTime = 3
    MaxCodes = 2
SPECIFICATION Spec
SYMMETRY Symmetry
INVARIANTS
    TypeOK
    SessionEarned
    SingleUse
    LatestCodeStands
