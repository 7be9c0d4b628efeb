CONSTANTS
    NULL = NULL
    Clients = {c1, c2, r}
    Local = {c1, c2}
    Nicks = {n1, n2}
    Hash0 = {n2}
    MaxPersons = 2
    MAXACCEPTED = 2
    MAXDCCALLOW = 2
    MaxInformed = 1
    Blocks = {b1, b2}
    Bucket0 = {n2}
    NICKNAMEHISTORYLENGTH = 2
SPECIFICATION Spec
INVARIANTS ListsMirrored WatchMirrored OwnersLive ChaseFindsLast
SYMMETRY Symmetry
