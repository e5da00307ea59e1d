\* Three applies, alone or at once, beside a connect; two failures, two restarts.
CONSTANTS
    short = short
    long = long
    Applier = {a1, a2, a3}
    Connector = {c1}
    Inode = {i1, i2, i3, i4}
    NoInode = NoInode
    Value <- MCValue
    NoValue = NoValue
    Size <- MCSize
    MaxFailures = 2
    MaxRestarts = 2
SPECIFICATION Spec
SYMMETRY Interchangeable
INVARIANT TypeOK
INVARIANT NoHalfFile
PROPERTY ManifestIsRegister
PROPERTY CredentialsAreRegister
\* Every handler runs once and ends.
CHECK_DEADLOCK FALSE
