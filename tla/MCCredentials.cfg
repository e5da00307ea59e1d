\* Three starts, with and without keychain; two connects, which may overlap.
CONSTANTS
    Value = {v1, v2}
    NoValue = NoValue
    Unread = Unread
    Failed = Failed
    Request = {r1, r2}
    Main = Main
    NoConn = NoConn
    MaxStarts = 3
    MaxConnects = 2
    MaxFaults = 2
SPECIFICATION Spec
SYMMETRY Interchangeable
INVARIANT TypeOK
INVARIANT NothingIsLost
INVARIANT CertificateStays
INVARIANT ConnectedIsServed
PROPERTY StartFindsNewest
\* The last start ends.
CHECK_DEADLOCK FALSE
