SPECIFICATION SessionSpec
CONSTANTS
    t1 = t1
    t2 = t2
    k1 = k1
    k2 = k2
    c1 = c1
    Token <- MCToken
    Tick <- MCTick
    Call <- MCCall
    Nothing = Nothing
    MaxLost = 1
    MaxRestarts = 1
    MaxReloads = 1
INVARIANT SessionTypeOK
PROPERTIES
    OnlyStaleRefusalsLogOut
    BackToLogin
