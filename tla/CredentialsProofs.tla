-------------------------- MODULE CredentialsProofs -------------------------
(***************************************************************************)
(* What holds of Credentials for any values, requests and bounds.  Three   *)
(* invariants, each inductive with the types: what the stores keep, what   *)
(* the certificate's files hold, and which connector is registered.        *)
(***************************************************************************)
EXTENDS Credentials, TLAPS

\* What was kept last is in the store of the mode in which it was kept; and
\* the migration holds a value that it read from the file.
StoresInv ==
    /\ \A k \in Key :
        /\ keptMode[k] = "keychain" => ring[k] = kept[k] /\ kept[k] # NoValue
        /\ keptMode[k] = "file" => file[k] = kept[k]
    /\ main = "set" => got[key] \in Value
    /\ main = "remove" => got[key] \in Value /\ keptMode[key] = "keychain"
    /\ \A r \in Request : pc[r] # "idle" => val[r] \in Value /\ main = "ready"

\* A certificate that was served is the one in both files, and no start makes
\* another; one being made carries the number of this start.
Making == {"openCert", "writeCert", "openKey", "writeKey"}
CertificateInv ==
    /\ served # {} => served = {cert} /\ certKey = cert /\ cert # 0 /\ main \notin Making
    /\ main \in {"writeCert", "openKey", "writeKey"} => cert = starts
    /\ main = "writeKey" => certKey = starts
    /\ main # "down" => starts # 0

\* Without a second Open, whoever is about to register holds erpConn, and
\* whoever has connected has connected erpConn.
ConnectorsInv ==
    /\ raced \/ registered = erpConn \/ \E q \in Request : pc[q] \in {"describe", "register"}
    /\ \A r \in Request :
        /\ pc[r] \in {"describe", "register", "connect"} => erpConn # NoConn
        /\ pc[r] \in {"describe", "register"} => raced \/ erpConn = r
        /\ pc[r] = "register" => raced \/ conn[r] = erpConn
        /\ pc[r] \in {"verify", "save", "ok"} /\ want[r] = "erpnext" =>
            erpConn # NoConn /\ conn[r] # NoConn /\ (raced \/ conn[r] = erpConn)
        /\ pc[r] \in {"save", "ok"} /\ want[r] = "erpnext" => conn[r] \in connected

-----------------------------------------------------------------------------
\* The end of a load sets what it sets to values of its type.
LEMMA LoadedKeyTypes ==
    ASSUME TypeOK, NEW v \in Maybe \cup {Unread, Failed}, LoadedKey(v)
    PROVE  /\ main' \in {"load", "cert"} /\ key' \in Key
           /\ got' \in [Key -> Maybe \cup {Unread, Failed}]
           /\ erpConn' \in Conn \cup {NoConn} /\ registered' \in Conn \cup {NoConn}
           /\ connected' \subseteq Conn /\ raced' \in BOOLEAN
BY ConnectorsAssumption DEF TypeOK, LoadedKey, Conn, Key, connVars

\* What is in memory keeps its types when it stays and when it is gone.
LEMMA MemoryTypes ==
    ASSUME TypeOK, UNCHANGED memory \/ Fatal
    PROVE  /\ got' \in [Key -> Maybe \cup {Unread, Failed}]
           /\ erpConn' \in Conn \cup {NoConn} /\ registered' \in Conn \cup {NoConn}
           /\ connected' \subseteq Conn /\ raced' \in BOOLEAN
<1>1. CASE UNCHANGED memory
  BY <1>1 DEF TypeOK, memory, connVars
<1>2. CASE Fatal
  BY <1>2 DEF TypeOK, Fatal
<1> QED
  BY <1>1, <1>2

\* Each step keeps the types.
LEMMA TypeStep == TypeOK /\ StoresInv /\ CertificateInv /\ [Next]_vars => TypeOK'
<1> SUFFICES ASSUME TypeOK, StoresInv, CertificateInv, [Next]_vars PROVE TypeOK'
    OBVIOUS
<1> USE ValuesAssumption, ConnectorsAssumption, BoundsAssumption
    DEF TypeOK, Key, Conn, Maybe, stores, certVars, connVars, requests, history, startVars,
        Goto, Fault, Taken
<1>1. CASE Start
  BY <1>1 DEF Start
<1>2. CASE LoadEnv
  BY <1>2, LoadedKeyTypes DEF LoadEnv
<1>3. CASE LoadFile
  BY <1>3, LoadedKeyTypes DEF LoadFile
<1>4. CASE LoadRing
  BY <1>4, LoadedKeyTypes DEF LoadRing
<1>5. CASE Migrate
  BY <1>5, LoadedKeyTypes DEF Migrate, StoresInv
<1>6. CASE RemoveFile
  BY <1>6, LoadedKeyTypes DEF RemoveFile, StoresInv
<1>7. CASE CheckCertificate
  <2>1. served' \subseteq 1 .. MaxStarts
    <3>1. \A p \in served' : p \in served \/ (p = cert /\ cert # 0)
      BY <1>7 DEF CheckCertificate, Serve
    <3>2. cert # 0 => cert \in 1 .. MaxStarts
      OBVIOUS
    <3>3. \A p \in served : p \in 1 .. MaxStarts
      OBVIOUS
    <3>4. \A p \in served' : p \in 1 .. MaxStarts
      BY <3>1, <3>2, <3>3
    <3> QED
      BY <3>4
  <2>2. main' \in {"openCert", "ready", "down"}
    BY <1>7 DEF CheckCertificate, Serve, Fatal
  <2>3. /\ erpConn' \in Conn \cup {NoConn} /\ registered' \in Conn \cup {NoConn}
        /\ connected' \subseteq Conn /\ raced' \in BOOLEAN
        /\ got' \in [Key -> Maybe \cup {Unread, Failed}]
    <3>1. UNCHANGED memory \/ Fatal
      BY <1>7 DEF CheckCertificate, memory
    <3> QED
      BY <3>1, MemoryTypes
  <2>4. UNCHANGED <<stores, env, cert, certKey, torn, key, mode, requests, history,
                    starts, connects, faults>>
    BY <1>7 DEF CheckCertificate
  <2> QED
    BY <2>1, <2>2, <2>3, <2>4
<1>8. CASE NewCertificate
  <2>1. /\ UNCHANGED <<served, stores, env, key, mode, requests, history, starts, connects>>
        /\ UNCHANGED memory \/ Fatal
        /\ cert' \in {cert, starts} /\ certKey' \in {certKey, starts}
        /\ torn' \subseteq torn \cup {"cert", "key"} /\ faults' \in {faults, faults + 1}
        /\ faults' # faults => faults < MaxFaults
        /\ main' \in {"writeCert", "openKey", "writeKey", "down"}
    BY <1>8 DEF NewCertificate, OpenCert, WriteCert, OpenKey, WriteFails, Fatal, memory
  <2>2. faults' \in 0 .. MaxFaults
    BY <2>1
  <2>3. /\ erpConn' \in Conn \cup {NoConn} /\ registered' \in Conn \cup {NoConn}
        /\ connected' \subseteq Conn /\ raced' \in BOOLEAN
        /\ got' \in [Key -> Maybe \cup {Unread, Failed}]
    BY <2>1, MemoryTypes
  <2> QED
    BY <2>1, <2>2, <2>3
<1>9. CASE ServeNew
  BY <1>9 DEF ServeNew, Serve, CertificateInv
<1>10. ASSUME NEW r \in Request, Handle(r) PROVE TypeOK'
  <2>1. CASE Begin(r)
    BY <2>1 DEF Begin
  <2>2. CASE Check(r)
    BY <2>2 DEF Check
  <2>3. CASE Open(r)
    BY <2>3 DEF Open
  <2>4. CASE Describe(r)
    BY <2>4 DEF Describe
  <2>5. CASE Register(r)
    BY <2>5 DEF Register
  <2>6. CASE Connect(r)
    BY <2>6 DEF Connect
  <2>7. CASE Verify(r)
    BY <2>7 DEF Verify
  <2>8. CASE Save(r)
    BY <2>8 DEF Save, SaveTo
  <2> QED
    BY <1>10, <2>1, <2>2, <2>3, <2>4, <2>5, <2>6, <2>7, <2>8 DEF Handle
<1>11. CASE Die
  BY <1>11 DEF Die, Fatal
<1>12. CASE UNCHANGED vars
  BY <1>12 DEF vars
<1> QED
  BY <1>1, <1>2, <1>3, <1>4, <1>5, <1>6, <1>7, <1>8, <1>9, <1>10, <1>11, <1>12
  DEF Next, StartUp

\* Each step keeps what the stores hold.
LEMMA StoresStep == TypeOK /\ StoresInv /\ [Next]_vars => StoresInv'
<1> SUFFICES ASSUME TypeOK, StoresInv, [Next]_vars PROVE StoresInv'
    OBVIOUS
<1> USE ValuesAssumption, ConnectorsAssumption, BoundsAssumption
    DEF TypeOK, Key, Conn, Maybe, stores, certVars, connVars, requests, history, startVars,
        Goto, Fault, Taken, StoresInv, Migrates
<1>1. CASE Start
  BY <1>1 DEF Start
<1>2. CASE LoadEnv
  BY <1>2 DEF LoadEnv, LoadedKey
<1>3. CASE LoadFile
  BY <1>3 DEF LoadFile, LoadedKey
<1>4. CASE LoadRing
  BY <1>4 DEF LoadRing, LoadedKey
<1>5. CASE Migrate
  BY <1>5 DEF Migrate, LoadedKey
<1>6. CASE RemoveFile
  BY <1>6 DEF RemoveFile, LoadedKey
<1>7. CASE CheckCertificate
  BY <1>7 DEF CheckCertificate, Serve, Fatal, memory
<1>8. CASE NewCertificate
  BY <1>8 DEF NewCertificate, OpenCert, WriteCert, OpenKey, WriteFails, Fatal, memory
<1>9. CASE ServeNew
  BY <1>9 DEF ServeNew, Serve
<1>10. ASSUME NEW r \in Request, Handle(r) PROVE StoresInv'
  <2>1. CASE Begin(r)
    BY <2>1 DEF Begin
  <2>2. CASE Check(r)
    BY <2>2 DEF Check
  <2>3. CASE Open(r)
    BY <2>3 DEF Open
  <2>4. CASE Describe(r)
    BY <2>4 DEF Describe
  <2>5. CASE Register(r)
    BY <2>5 DEF Register
  <2>6. CASE Connect(r)
    BY <2>6 DEF Connect
  <2>7. CASE Verify(r)
    BY <2>7 DEF Verify
  <2>8. CASE Save(r)
    <3>1. mode = "keychain" \/ mode = "file"
      OBVIOUS
    <3>2. /\ pc[r] = "save" /\ val[r] \in Value /\ want[r] \in Key
          /\ main' = main /\ key' = key /\ got' = got /\ val' = val
          /\ \A q \in Request : pc'[q] # "idle" => pc[q] # "idle"
      BY <2>8 DEF Save
    <3>3. CASE mode = "keychain" /\ SaveTo(r, mode)
      BY <2>8, <3>2, <3>3 DEF SaveTo
    <3>4. CASE mode = "file" /\ SaveTo(r, mode)
      BY <2>8, <3>2, <3>4 DEF SaveTo
    <3>5. CASE UNCHANGED <<stores, history>>
      BY <3>2, <3>5
    <3> QED
      BY <2>8, <3>1, <3>3, <3>4, <3>5 DEF Save
  <2> QED
    BY <1>10, <2>1, <2>2, <2>3, <2>4, <2>5, <2>6, <2>7, <2>8 DEF Handle
<1>11. CASE Die
  BY <1>11 DEF Die, Fatal
<1>12. CASE UNCHANGED vars
  BY <1>12 DEF vars
<1> QED
  BY <1>1, <1>2, <1>3, <1>4, <1>5, <1>6, <1>7, <1>8, <1>9, <1>10, <1>11, <1>12
  DEF Next, StartUp

\* Each step keeps the certificate that was served.
LEMMA CertificateStep == TypeOK /\ CertificateInv /\ [Next]_vars => CertificateInv'
<1> SUFFICES ASSUME TypeOK, CertificateInv, [Next]_vars PROVE CertificateInv'
    OBVIOUS
<1> USE ValuesAssumption, ConnectorsAssumption, BoundsAssumption
    DEF TypeOK, Key, Conn, Maybe, stores, certVars, connVars, requests, history, startVars,
        Goto, Fault, Taken, CertificateInv, Making
<1>1. CASE Start
  BY <1>1 DEF Start
<1>2. CASE LoadEnv
  BY <1>2 DEF LoadEnv, LoadedKey
<1>3. CASE LoadFile
  BY <1>3 DEF LoadFile, LoadedKey
<1>4. CASE LoadRing
  BY <1>4 DEF LoadRing, LoadedKey
<1>5. CASE Migrate
  BY <1>5 DEF Migrate, LoadedKey
<1>6. CASE RemoveFile
  BY <1>6 DEF RemoveFile, LoadedKey
<1>7. CASE CheckCertificate
  BY <1>7 DEF CheckCertificate, Serve, Fatal, memory
<1>8. CASE NewCertificate
  BY <1>8 DEF NewCertificate, OpenCert, WriteCert, OpenKey, WriteFails, Fatal, memory
<1>9. CASE ServeNew
  BY <1>9 DEF ServeNew, Serve
<1>10. ASSUME NEW r \in Request, Handle(r) PROVE CertificateInv'
  <2>1. CASE Begin(r)
    BY <2>1 DEF Begin
  <2>2. CASE Check(r)
    BY <2>2 DEF Check
  <2>3. CASE Open(r)
    BY <2>3 DEF Open
  <2>4. CASE Describe(r)
    BY <2>4 DEF Describe
  <2>5. CASE Register(r)
    BY <2>5 DEF Register
  <2>6. CASE Connect(r)
    BY <2>6 DEF Connect
  <2>7. CASE Verify(r)
    BY <2>7 DEF Verify
  <2>8. CASE Save(r)
    BY <2>8 DEF Save, SaveTo
  <2> QED
    BY <1>10, <2>1, <2>2, <2>3, <2>4, <2>5, <2>6, <2>7, <2>8 DEF Handle
<1>11. CASE Die
  BY <1>11 DEF Die, Fatal
<1>12. CASE UNCHANGED vars
  BY <1>12 DEF vars
<1> QED
  BY <1>1, <1>2, <1>3, <1>4, <1>5, <1>6, <1>7, <1>8, <1>9, <1>10, <1>11, <1>12
  DEF Next, StartUp

\* Each step keeps the connectors in order.
LEMMA ConnectorsStep == TypeOK /\ StoresInv /\ ConnectorsInv /\ [Next]_vars => ConnectorsInv'
<1> SUFFICES ASSUME TypeOK, StoresInv, ConnectorsInv, [Next]_vars PROVE ConnectorsInv'
    OBVIOUS
<1> USE ValuesAssumption, ConnectorsAssumption, BoundsAssumption
    DEF TypeOK, Key, Conn, Maybe, stores, certVars, connVars, requests, history, startVars,
        Goto, Fault, Taken, StoresInv, ConnectorsInv
<1>1. CASE Start
  BY <1>1 DEF Start
<1>2. CASE LoadEnv
  BY <1>2 DEF LoadEnv, LoadedKey
<1>3. CASE LoadFile
  BY <1>3 DEF LoadFile, LoadedKey
<1>4. CASE LoadRing
  BY <1>4 DEF LoadRing, LoadedKey
<1>5. CASE Migrate
  BY <1>5 DEF Migrate, LoadedKey
<1>6. CASE RemoveFile
  BY <1>6 DEF RemoveFile, LoadedKey
<1>7. CASE CheckCertificate
  BY <1>7 DEF CheckCertificate, Serve, Fatal, memory
<1>8. CASE NewCertificate
  BY <1>8 DEF NewCertificate, OpenCert, WriteCert, OpenKey, WriteFails, Fatal, memory
<1>9. CASE ServeNew
  BY <1>9 DEF ServeNew, Serve
<1>10. ASSUME NEW r \in Request, Handle(r) PROVE ConnectorsInv'
  <2>1. CASE Begin(r)
    BY <2>1 DEF Begin
  <2>2. CASE Check(r)
    BY <2>2 DEF Check
  <2>3. CASE Open(r)
    BY <2>3 DEF Open
  <2>4. CASE Describe(r)
    BY <2>4 DEF Describe
  <2>5. CASE Register(r)
    BY <2>5 DEF Register
  <2>6. CASE Connect(r)
    BY <2>6 DEF Connect
  <2>7. CASE Verify(r)
    <3>1. /\ pc[r] = "verify" /\ connected \subseteq connected'
          /\ UNCHANGED <<main, erpConn, registered, raced, want, conn>>
          /\ \A q \in Request \ {r} : pc'[q] = pc[q]
          /\ \/ pc'[r] = "save" /\ conn[r] \in connected' \cup {NoConn}
             \/ pc'[r] = "error"
      BY <2>7 DEF Verify
    <3>2. want[r] = "erpnext" =>
            erpConn # NoConn /\ conn[r] # NoConn /\ (raced \/ conn[r] = erpConn)
      BY <3>1
    <3> QED
      BY <3>1, <3>2
  <2>8. CASE Save(r)
    BY <2>8 DEF Save, SaveTo
  <2> QED
    BY <1>10, <2>1, <2>2, <2>3, <2>4, <2>5, <2>6, <2>7, <2>8 DEF Handle
<1>11. CASE Die
  BY <1>11 DEF Die, Fatal
<1>12. CASE UNCHANGED vars
  BY <1>12 DEF vars
<1> QED
  BY <1>1, <1>2, <1>3, <1>4, <1>5, <1>6, <1>7, <1>8, <1>9, <1>10, <1>11, <1>12
  DEF Next, StartUp

-----------------------------------------------------------------------------
\* The four invariants hold of every behaviour, for any values, handlers and
\* bounds on starts, connects and faults.
IInv == TypeOK /\ StoresInv /\ CertificateInv /\ ConnectorsInv

THEOREM Invariance == Spec => []IInv
<1>1. Init => IInv
  <2> USE ValuesAssumption, ConnectorsAssumption, BoundsAssumption DEF Init, Key, Maybe
  <2>1. Init => TypeOK
    <3> SUFFICES ASSUME Init PROVE TypeOK
      OBVIOUS
    <3>1. /\ ring \in [Key -> Maybe] /\ file \in [Key -> Maybe] /\ kept \in [Key -> Maybe]
          /\ got \in [Key -> Maybe \cup {Unread, Failed}]
          /\ keptMode \in [Key -> {"keychain", "file"}]
      OBVIOUS
    <3>2. /\ pc \in [Request -> {"idle"}] /\ want \in [Request -> Key]
          /\ val \in [Request -> Maybe] /\ conn \in [Request -> {NoConn}]
      OBVIOUS
    <3>3. /\ env \subseteq Key /\ cert \in 0 .. MaxStarts /\ certKey \in 0 .. MaxStarts
          /\ torn \subseteq {"cert", "key"} /\ served \subseteq 1 .. MaxStarts
          /\ starts \in 0 .. MaxStarts /\ connects \in 0 .. MaxConnects
          /\ faults \in 0 .. MaxFaults
      OBVIOUS
    <3>4. /\ erpConn = NoConn /\ registered = NoConn /\ connected = {} /\ raced = FALSE
          /\ main = "down" /\ key = "db" /\ mode = "file"
      OBVIOUS
    <3> QED
      BY <3>1, <3>2, <3>3, <3>4 DEF TypeOK
  <2>2. Init => StoresInv
    BY DEF StoresInv
  <2>3. Init => CertificateInv /\ ConnectorsInv
    BY DEF CertificateInv, ConnectorsInv
  <2> QED
    BY <2>1, <2>2, <2>3 DEF IInv
<1>2. IInv /\ [Next]_vars => IInv'
  BY TypeStep, StoresStep, CertificateStep, ConnectorsStep DEF IInv
<1> QED
  BY <1>1, <1>2, PTL DEF Spec

\* Every variable keeps its type, whatever the bounds.
THEOREM Types == Spec => []TypeOK
<1>1. IInv => TypeOK
  BY DEF IInv
<1> QED
  BY <1>1, Invariance, PTL

\* The migration from the file to the keychain loses no credentials, wherever
\* it fails or crashes (creds.go:203-209).
THEOREM NoLoss == Spec => []NothingIsLost
<1>1. IInv => NothingIsLost
  BY DEF IInv, TypeOK, StoresInv, NothingIsLost
<1> QED
  BY <1>1, Invariance, PTL

\* Every start serves the certificate that the first one served
\* (selfcert.go:23).
THEOREM SameCertificate == Spec => []CertificateStays
<1>1. IInv => CertificateStays
  BY DEF IInv, CertificateInv, CertificateStays
<1> QED
  BY <1>1, Invariance, PTL

\* Unless two requests both created one, a connected ErpNext is the one the
\* registry serves (main.go:305-320).
THEOREM Connected == Spec => []ConnectedIsServed
<1>1. IInv => ConnectedIsServed
  BY DEF IInv, ConnectorsInv, ConnectedIsServed, Settled
<1> QED
  BY <1>1, Invariance, PTL

\* A start finds the newest credentials if the store is still of the kind they
\* were kept in (creds.go:182-211).
THEOREM Newest == Spec => StartFindsNewest
<1>1. IInv /\ [Next]_vars => [\A k \in Key : FindsNewest(k)]_vars
  <2> SUFFICES ASSUME IInv, Next, NEW k \in Key PROVE FindsNewest(k)
    BY DEF vars, FindsNewest, Key
  <2> USE ValuesAssumption DEF IInv, TypeOK, StoresInv, FindsNewest, Key, Maybe
  <2>1. CASE LoadFile
    BY <2>1 DEF LoadFile, LoadedKey
  <2>2. CASE LoadRing
    BY <2>2 DEF LoadRing, LoadedKey, Migrates
  <2>3. CASE LoadEnv
    BY <2>3 DEF LoadEnv, LoadedKey
  <2>4. CASE Migrate
    BY <2>4 DEF Migrate, LoadedKey
  <2>5. CASE RemoveFile
    BY <2>5 DEF RemoveFile, LoadedKey
  <2>6. CASE Die
    BY <2>6 DEF Die, Fatal
  <2>7. CASE got' = got
    BY <2>7
  <2>8. Start \/ CheckCertificate \/ NewCertificate \/ ServeNew => got' = got \/ Fatal
    BY DEF Start, CheckCertificate, NewCertificate, OpenCert, WriteCert, OpenKey, WriteFails,
           ServeNew, memory
  <2>10. CASE Fatal
    BY <2>10 DEF Fatal
  <2>9. ASSUME NEW r \in Request, Handle(r) PROVE got' = got
    BY <2>9 DEF Handle, Begin, Check, Open, Describe, Register, Connect, Verify, Save,
                startVars
  <2> QED
    BY <2>1, <2>2, <2>3, <2>4, <2>5, <2>6, <2>7, <2>8, <2>9, <2>10 DEF Next, StartUp
<1> QED
  BY <1>1, Invariance, PTL DEF Spec, StartFindsNewest
=============================================================================
