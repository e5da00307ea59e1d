----------------------------- MODULE Credentials ----------------------------
(***************************************************************************)
(* What a start of the agent finds again (runServe in main.go): the        *)
(* credentials of the database and of ErpNext (internal/creds: the system's*)
(* keychain, or one file each, and the migration from the file to the      *)
(* keychain), and the certificate of the panel (internal/selfcert, two     *)
(* files).  Between starts run the handlers that keep new credentials,     *)
(* /db/connect and /connections/erpnext; the latter also creates and       *)
(* registers the ErpNext connector (internal/registry) when there is none. *)
(*                                                                         *)
(* Start-up is one thread.  Handlers are goroutines without a lock, and    *)
(* each access of the shared erpConn is an action.  A write of a           *)
(* credential file is whole: ConfigStore has its system calls.             *)
(***************************************************************************)
EXTENDS Naturals

CONSTANTS
    Value, NoValue,     \* credentials; none
    Unread, Failed,     \* a load not made yet; one that ended in an error
    Request,            \* handlers, each once in a run; a connector is named
    Main, NoConn,       \* after the thread that opened it
    MaxStarts, MaxConnects, MaxFaults   \* bounds

Key == {"db", "erpnext"}

ASSUME ValuesAssumption ==
    NoValue \notin Value /\ {Unread, Failed} \cap (Value \cup {NoValue}) = {}
ASSUME ConnectorsAssumption ==
    Main \notin Request /\ NoConn \notin Request \cup {Main}
ASSUME BoundsAssumption == {MaxStarts, MaxConnects, MaxFaults} \subseteq Nat

Conn == Request \cup {Main}
Maybe == Value \cup {NoValue}

VARIABLES
    ring, file,     \* per key: the keychain's entry; the legacy file
    env,            \* keys that the environment gives (MASHA_DB_DSN, ...)
    cert, certKey,  \* the start that generated web-cert.pem and web-key.pem; 0: no file
    torn,           \* the files of these two that are cut short
    main, key,      \* start-up: its step, and the key it loads
    mode,           \* CredManager.Store of this run
    got,            \* what Load has returned
    erpConn, registered,    \* main.go's erpConn; the registry's connector
    connected,      \* connectors whose conf is set
    pc, want, val, conn,    \* handlers: step, key, value, the connector held
    kept, keptMode, \* history: the newest value a store took, and in which mode
    served,         \* history: certificates the panel has served
    raced,          \* history, of a run: a second connector was opened
    starts, connects, faults    \* counters

stores   == <<ring, file>>
certVars == <<cert, certKey, torn, served>>
connVars == <<erpConn, registered, connected, raced>>
requests == <<pc, want, val, conn>>
history  == <<kept, keptMode>>
vars == <<stores, env, certVars, main, key, mode, got, connVars, requests, history,
          starts, connects, faults>>

Init ==
    /\ ring = [k \in Key |-> NoValue] /\ file \in [Key -> Maybe]
    /\ env \in SUBSET Key
    /\ cert = 0 /\ certKey = 0 /\ torn = {} /\ served = {}
    /\ main = "down" /\ key = "db" /\ mode = "file"
    /\ got = [k \in Key |-> Unread]
    /\ erpConn = NoConn /\ registered = NoConn /\ connected = {} /\ raced = FALSE
    /\ pc = [r \in Request |-> "idle"] /\ want = [r \in Request |-> "db"]
    /\ val = [r \in Request |-> NoValue] /\ conn = [r \in Request |-> NoConn]
    /\ kept = file /\ keptMode = [k \in Key |-> "file"]
    /\ starts = 0 /\ connects = 0 /\ faults = 0

\* One of the faults the bound allows.
Fault == faults < MaxFaults /\ faults' = faults + 1

-----------------------------------------------------------------------------
(* Start-up: Resolve, then Load for each key.                              *)

\* probeKeyring answers as the system does today; MASHA_KEYRING=0 forces files.
Start ==
    /\ main = "down" /\ starts < MaxStarts /\ starts' = starts + 1
    /\ mode' \in {"keychain", "file"}
    /\ main' = "load" /\ key' = "db"
    /\ UNCHANGED <<stores, env, certVars, got, connVars, requests, history,
                   connects, faults>>

\* Load is over for this key; after the last one ErpNext is registered when it
\* has an address, connected or not.
LoadedKey(v) ==
    /\ got' = [got EXCEPT ![key] = v]
    /\ IF key = "db"
         THEN main' = "load" /\ key' = "erpnext" /\ UNCHANGED connVars
         ELSE /\ main' = "cert" /\ UNCHANGED <<key, raced>>
              /\ IF v \in Value \/ key \in env
                   THEN erpConn' = Main /\ registered' = Main /\ connected' = {Main}
                   ELSE UNCHANGED <<erpConn, registered, connected>>

\* The environment comes before what is kept, and is not kept.
LoadEnv ==
    /\ main = "load" /\ key \in env
    /\ LoadedKey(NoValue)
    /\ UNCHANGED <<stores, env, certVars, mode, requests, history, starts, connects, faults>>

LoadFile ==
    /\ main = "load" /\ key \notin env /\ mode = "file"
    /\ \/ LoadedKey(file[key]) /\ UNCHANGED faults
       \/ Fault /\ LoadedKey(Failed)
    /\ UNCHANGED <<stores, env, certVars, mode, requests, history, starts, connects>>

\* The keychain's entry counts; only without one is the file looked at.
FileFirst == file[key] # NoValue
Migrates == ring[key] = NoValue /\ file[key] # NoValue

LoadRing ==
    /\ main = "load" /\ key \notin env /\ mode = "keychain"
    /\ \/ ~Migrates /\ LoadedKey(ring[key]) /\ UNCHANGED faults
       \/ Fault /\ LoadedKey(Failed)
       \/ /\ Migrates
          /\ got' = [got EXCEPT ![key] = file[key]] /\ main' = "set"
          /\ UNCHANGED <<key, connVars, faults>>
    /\ UNCHANGED <<stores, env, certVars, mode, requests, history, starts, connects>>

\* The migration: Set, then Remove.  A Set that fails may have taken effect.
Taken(k, v, m) == kept' = [kept EXCEPT ![k] = v] /\ keptMode' = [keptMode EXCEPT ![k] = m]

MigrateUnchecked ==
    /\ main = "set"
    /\ \/ ring' = [ring EXCEPT ![key] = got[key]]
          /\ Taken(key, got[key], "keychain") /\ UNCHANGED faults
       \/ Fault /\ UNCHANGED <<ring, history>>
    /\ main' = "remove"
    /\ UNCHANGED <<file, env, certVars, key, mode, got, connVars, requests, starts, connects>>
Migrate ==
    /\ main = "set"
    /\ \/ /\ ring' = [ring EXCEPT ![key] = got[key]]
          /\ Taken(key, got[key], "keychain")
          /\ \/ main' = "remove" /\ UNCHANGED <<key, got, connVars, faults>>
             \/ Fault /\ LoadedKey(got[key])
       \/ Fault /\ LoadedKey(got[key]) /\ UNCHANGED <<ring, history>>
    /\ UNCHANGED <<file, env, certVars, mode, requests, starts, connects>>

RemoveFile ==
    /\ main = "remove"
    /\ \/ file' = [file EXCEPT ![key] = NoValue] /\ UNCHANGED faults
       \/ Fault /\ UNCHANGED file
    /\ LoadedKey(got[key])
    /\ UNCHANGED <<ring, env, certVars, mode, requests, history, starts, connects>>

-----------------------------------------------------------------------------
(* LoadOrCreate: the certificate, then the listeners.                      *)

Serve(p) == main' = "ready" /\ served' = served \cup {p}

\* The process ends; what it had in memory is gone.
memory == <<got, connVars>>
Fatal ==
    /\ main' = "down"
    /\ got' = [k \in Key |-> Unread]
    /\ erpConn' = NoConn /\ registered' = NoConn /\ connected' = {} /\ raced' = FALSE

CheckCertificate ==
    /\ main = "cert"
    /\ IF cert = 0 \/ certKey = 0
         THEN main' = "openCert" /\ UNCHANGED <<served, memory>>
         ELSE IF cert = certKey /\ torn = {}
                THEN Serve(cert) /\ UNCHANGED memory
                ELSE Fatal /\ UNCHANGED served
    /\ UNCHANGED <<stores, env, cert, certKey, torn, key, mode, requests, history,
                   starts, connects, faults>>

\* os.WriteFile truncates, then writes; each may fail, and then start-up ends.
OpenCert ==
    /\ main = "openCert"
    /\ cert' = starts /\ torn' = torn \cup {"cert"} /\ main' = "writeCert"
    /\ UNCHANGED <<certKey, memory, faults>>
WriteCert ==
    /\ main = "writeCert"
    /\ torn' = torn \ {"cert"} /\ main' = "openKey"
    /\ UNCHANGED <<cert, certKey, memory, faults>>
OpenKey ==
    /\ main = "openKey"
    /\ certKey' = starts /\ torn' = torn \cup {"key"} /\ main' = "writeKey"
    /\ UNCHANGED <<cert, memory, faults>>
WriteFails ==
    /\ main \in {"openCert", "writeCert", "openKey", "writeKey"}
    /\ Fault /\ Fatal
    /\ UNCHANGED <<cert, certKey, torn>>

NewCertificate ==
    /\ OpenCert \/ WriteCert \/ OpenKey \/ WriteFails
    /\ UNCHANGED <<served, stores, env, key, mode, requests, history, starts, connects>>

\* The pair just generated is the one served.
ServeUnwritten ==
    /\ main = "openKey"
    /\ Serve(starts)
    /\ UNCHANGED <<cert, certKey, torn, stores, env, key, mode, got, connVars, requests,
                   history, starts, connects, faults>>
ServeNew ==
    /\ main = "writeKey"
    /\ torn' = torn \ {"key"} /\ Serve(starts)
    /\ UNCHANGED <<cert, certKey, stores, env, key, mode, got, connVars, requests, history,
                   starts, connects, faults>>

-----------------------------------------------------------------------------
(* /db/connect and /connections/erpnext.                                   *)

Goto(r, where) == pc' = [pc EXCEPT ![r] = where]
startVars == <<env, certVars, main, key, mode, got, starts>>

Begin(r) ==
    /\ main = "ready" /\ pc[r] = "idle"
    /\ connects < MaxConnects /\ connects' = connects + 1
    /\ \E k \in Key, v \in Value :
        /\ want' = [want EXCEPT ![r] = k] /\ val' = [val EXCEPT ![r] = v]
        /\ Goto(r, IF k = "db" THEN "verify" ELSE "check")
    /\ UNCHANGED <<startVars, stores, connVars, conn, history, faults>>

\* if erpConn == nil
Check(r) ==
    /\ pc[r] = "check"
    /\ Goto(r, IF erpConn = NoConn THEN "open" ELSE "connect")
    /\ UNCHANGED <<startVars, stores, connVars, want, val, conn, history, connects, faults>>

\* erpConn = Open(...); SetWrite changes nothing that is modelled here.
OpenUnregistered(r) ==
    /\ pc[r] = "open"
    /\ erpConn' = r /\ raced' = (raced \/ erpConn # NoConn)
    /\ Goto(r, "connect")
    /\ UNCHANGED <<startVars, stores, registered, connected, want, val, conn, history,
                   connects, faults>>
Open(r) ==
    /\ pc[r] = "open"
    /\ erpConn' = r /\ raced' = (raced \/ erpConn # NoConn)
    /\ Goto(r, "describe")
    /\ UNCHANGED <<startVars, stores, registered, connected, want, val, conn, history,
                   connects, faults>>

\* The Connection is built from erpConn as it is now; then Add locks.
Describe(r) ==
    /\ pc[r] = "describe"
    /\ conn' = [conn EXCEPT ![r] = erpConn]
    /\ Goto(r, "register")
    /\ UNCHANGED <<startVars, stores, connVars, want, val, history, connects, faults>>

Register(r) ==
    /\ pc[r] = "register"
    /\ registered' = conn[r]
    /\ Goto(r, "connect")
    /\ UNCHANGED <<startVars, stores, erpConn, connected, raced, want, val, conn, history,
                   connects, faults>>

Connect(r) ==
    /\ pc[r] = "connect"
    /\ conn' = [conn EXCEPT ![r] = erpConn]
    /\ Goto(r, "verify")
    /\ UNCHANGED <<startVars, stores, connVars, want, val, history, connects, faults>>

\* The server answers (a ping, or the user's name) and the connector changes
\* over, or it does not and the handler ends.
VerifyAny(r) ==
    /\ pc[r] = "verify"
    /\ connected' = connected \cup {conn[r]} /\ Goto(r, "save")
    /\ UNCHANGED <<startVars, stores, erpConn, registered, raced, want, val, conn, history,
                   connects, faults>>
Verify(r) ==
    /\ pc[r] = "verify"
    /\ \/ /\ connected' = connected \cup ({conn[r]} \ {NoConn})
          /\ Goto(r, "save")
       \/ Goto(r, "error") /\ UNCHANGED connected
    /\ UNCHANGED <<startVars, stores, erpConn, registered, raced, want, val, conn, history,
                   connects, faults>>

\* Save to the store of this run; an error is only logged.
SaveTo(r, m) ==
    /\ IF m = "keychain"
         THEN ring' = [ring EXCEPT ![want[r]] = val[r]] /\ UNCHANGED file
         ELSE file' = [file EXCEPT ![want[r]] = val[r]] /\ UNCHANGED ring
    /\ Taken(want[r], val[r], m)
Save(r) ==
    /\ pc[r] = "save"
    /\ \/ SaveTo(r, mode) /\ UNCHANGED faults
       \/ Fault /\ UNCHANGED <<stores, history>>
    /\ Goto(r, "ok")
    /\ UNCHANGED <<startVars, connVars, want, val, conn, connects>>

-----------------------------------------------------------------------------
\* The process ends, at any step.
Die ==
    /\ main # "down" /\ Fatal
    /\ pc' = [r \in Request |-> "idle"] /\ conn' = [r \in Request |-> NoConn]
    /\ UNCHANGED <<stores, env, certVars, key, mode, want, val, history,
                   starts, connects, faults>>

StartUp ==
    \/ Start \/ LoadEnv \/ LoadFile \/ LoadRing \/ Migrate \/ RemoveFile
    \/ CheckCertificate \/ NewCertificate \/ ServeNew
Handle(r) ==
    \/ Begin(r) \/ Check(r) \/ Open(r) \/ Describe(r) \/ Register(r)
    \/ Connect(r) \/ Verify(r) \/ Save(r)

Next == StartUp \/ (\E r \in Request : Handle(r)) \/ Die

Spec == Init /\ [][Next]_vars

-----------------------------------------------------------------------------
(* Properties.                                                             *)

\* Every variable has its type.
TypeOK ==
    /\ ring \in [Key -> Maybe] /\ file \in [Key -> Maybe] /\ env \subseteq Key
    /\ cert \in 0 .. MaxStarts /\ certKey \in 0 .. MaxStarts
    /\ torn \subseteq {"cert", "key"} /\ served \subseteq 1 .. MaxStarts
    /\ main \in {"down", "load", "set", "remove", "cert", "openCert", "writeCert",
                 "openKey", "writeKey", "ready"}
    /\ key \in Key /\ mode \in {"keychain", "file"}
    /\ got \in [Key -> Maybe \cup {Unread, Failed}]
    /\ erpConn \in Conn \cup {NoConn} /\ registered \in Conn \cup {NoConn}
    /\ connected \subseteq Conn /\ raced \in BOOLEAN
    /\ pc \in [Request -> {"idle", "check", "open", "describe", "register", "connect",
                           "verify", "save", "ok", "error"}]
    /\ want \in [Request -> Key] /\ val \in [Request -> Maybe]
    /\ conn \in [Request -> Conn \cup {NoConn}]
    /\ kept \in [Key -> Maybe] /\ keptMode \in [Key -> {"keychain", "file"}]
    /\ starts \in 0 .. MaxStarts /\ connects \in 0 .. MaxConnects
    /\ faults \in 0 .. MaxFaults

\* No step of the migration, and no failure or crash between two, loses the
\* newest credentials: the keychain or the file has them (creds.go:205, the
\* file is not removed, so that no data is lost).
NothingIsLost == \A k \in Key : kept[k] \in {ring[k], file[k]}

\* A start that can read the store finds the newest credentials, unless the
\* keychain has come or gone since they were kept: then it may find older ones
\* or none, for the two stores are never compared (creds.go, Load).
FindsNewest(k) ==
    (got[k] = Unread /\ got'[k] \notin {Unread, Failed} /\ k \notin env) =>
        got'[k] = kept[k] \/ mode # keptMode[k]
StartFindsNewest == [][\A k \in Key : FindsNewest(k)]_vars

\* The browser trusts the certificate once: whatever crashes during its
\* making, every start serves the same one (selfcert.go:23).
CertificateStays == \A p, q \in served : p = q

\* A connect that was answered "connected" is of use: the registry serves the
\* connector that was connected, once nobody is between creating erpConn and
\* registering it.  Two requests that both create one may break this (erpConn
\* is tested, set and registered without a lock, main.go:305), nothing else.
Settled == ~raced /\ \A q \in Request : pc[q] \notin {"describe", "register"}
ConnectedIsServed ==
    \A r \in Request : pc[r] = "ok" /\ want[r] = "erpnext" /\ Settled =>
        registered = erpConn /\ registered \in connected
=============================================================================
