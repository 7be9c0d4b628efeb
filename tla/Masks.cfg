SPECIFICATION MaskSpec
CONSTANTS
    wide = wide
    exact = exact
    u = u
    v = v
    Strings = {wide, exact}
    Users = {u, v}
    Wider <- MCWider
    Hits <- MCHits
    Asked = {"KLINE"}
    Lengths <- MCLengths
    MaskFiles <- MCFiles
    Forever = Forever
    MaxHups = 2
INVARIANTS BansBite FileInForce
