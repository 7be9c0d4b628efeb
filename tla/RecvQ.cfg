CONSTANTS
    a = a
    b = b
    eol = eol
    Text = {a, b}
    EOL = eol
    BUF_DATA_SIZE = 3
    client_flood = 2
    MaxRead = 4
    MaxBytes = 7
SPECIFICATION RecvSpec
SYMMETRY Symmetry
CHECK_DEADLOCK FALSE
INVARIANTS LinesFaithful ReaderMatches
