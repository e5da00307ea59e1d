-------------------------------- MODULE Audit --------------------------------
(***************************************************************************)
(* The audit log (internal/audit): every record is chained to the one      *)
(* before it by its hash, appended to a file, and kept in a short window   *)
(* the panel shows.  Record runs under the mutex and is one action.        *)
(*                                                                         *)
(* Runs of the agent share the file: a run ends in any state, with no      *)
(* farewell, and the next one may begin while a killed one still lives     *)
(* (supervisor.go, Restart).  A hash tells its record from every other and *)
(* is named by it: the n-th record of a run.                               *)
(***************************************************************************)
EXTENDS Places, Sequences, Functions

CONSTANTS
    Run,            \* runs of the agent
    Server,         \* server labels of records
    Genesis,
    Garbled,        \* what is left of a line that was cut short, and of the
                    \* one appended to it
    recentCap,
    MaxRecords,     \* bound: records of a run
    MaxFailures     \* bound: failed or partial writes

ASSUME AuditAssumption ==
    /\ recentCap \in Nat \ {0} /\ MaxRecords \in Nat /\ MaxFailures \in Nat

Hash == Run \X (1 .. MaxRecords)
Line == [hash : Hash, prev : Hash \cup {Genesis}]

ASSUME NamesAssumption == Genesis \notin Hash /\ Garbled \notin Line

VARIABLES
    run,        \* "new", "open", "closed" (Close was called), "dead"
    prev,       \* Auditor.prev of each run
    count,      \* records each run has made
    recent,     \* Auditor.recent
    file,       \* the lines of the file
    ragged,     \* the file does not end with a newline
    lost,       \* history: records that are in no line
    failures    \* counter

vars == <<run, prev, count, recent, file, ragged, lost, failures>>

Init ==
    /\ run = [p \in Run |-> "new"]
    /\ prev = [p \in Run |-> Genesis]
    /\ count = [p \in Run |-> 0]
    /\ recent = [p \in Run |-> <<>>]
    /\ file = <<>> /\ ragged = FALSE /\ lost = {} /\ failures = 0

\* New: the chain of every run begins at genesis.
New(p) ==
    /\ run[p] = "new"
    /\ run' = [run EXCEPT ![p] = "open"]
    /\ UNCHANGED <<prev, count, recent, file, ragged, lost, failures>>

-----------------------------------------------------------------------------
(* Record.                                                                 *)

\* One of the failures the bound allows.
Fails == failures < MaxFailures /\ failures' = failures + 1

\* file.Write of a whole line: one appended to a ragged end is garbled too.
Written(line) ==
    /\ ragged' = FALSE
    /\ IF ragged
         THEN UNCHANGED file /\ lost' = lost \cup {line.hash}
         ELSE file' = Append(file, line) /\ UNCHANGED lost
\* A part of it is written.
CutShort(line) ==
    /\ ragged' = TRUE
    /\ file' = IF ragged THEN file ELSE Append(file, Garbled)
    /\ lost' = lost \cup {line.hash}
\* Nothing is written: an error, which is ignored.
NotWritten(line) == lost' = lost \cup {line.hash} /\ UNCHANGED <<file, ragged>>

TrimmedToOldest(s) == IF Len(s) > recentCap THEN SubSeq(s, 1, recentCap) ELSE s
Trimmed(s) == IF Len(s) > recentCap THEN SubSeq(s, Len(s) - recentCap + 1, Len(s)) ELSE s

RecordAdvancesWhenWritten(p, s) ==
    LET h == <<p, count[p] + 1>>
        line == [hash |-> h, prev |-> prev[p]]
    IN  /\ run[p] = "open" /\ count[p] < MaxRecords
        /\ count' = [count EXCEPT ![p] = @ + 1]
        /\ recent' = [recent EXCEPT ![p] = Trimmed(Append(@, [hash |-> h, server |-> s]))]
        /\ \/ Written(line) /\ prev' = [prev EXCEPT ![p] = h] /\ UNCHANGED failures
           \/ Fails /\ NotWritten(line) /\ UNCHANGED prev
        /\ UNCHANGED run
Record(p, s) ==
    LET h == <<p, count[p] + 1>>
        line == [hash |-> h, prev |-> prev[p]]
    IN  /\ run[p] \in {"open", "closed"} /\ count[p] < MaxRecords
        /\ count' = [count EXCEPT ![p] = @ + 1]
        /\ prev' = [prev EXCEPT ![p] = h]
        /\ recent' = [recent EXCEPT ![p] = Trimmed(Append(@, [hash |-> h, server |-> s]))]
        /\ \/ run[p] = "open" /\ Written(line) /\ UNCHANGED failures
           \/ run[p] = "open" /\ Fails /\ (CutShort(line) \/ NotWritten(line))
           \/ run[p] = "closed" /\ NotWritten(line) /\ UNCHANGED failures
        /\ UNCHANGED run

\* Recent(limit, server): newest first; "" asks for every server, a limit of 0
\* for all that there is.
AnyServer == ""

Asked(p, server) ==
    {i \in DOMAIN recent[p] : server = AnyServer \/ recent[p][i].server = server}

Recent(p, limit, server) ==
    LET asked == Picked(recent[p], Asked(p, server))
        all == Len(asked)
    IN  [k \in 1 .. IF limit = 0 \/ all <= limit THEN all ELSE limit |-> asked[all + 1 - k]]

-----------------------------------------------------------------------------
\* Close, deferred by runServe: handlers that outlive the 5s of the servers'
\* Shutdown may still record.
Close(p) ==
    /\ run[p] = "open"
    /\ run' = [run EXCEPT ![p] = "closed"]
    /\ UNCHANGED <<prev, count, recent, file, ragged, lost, failures>>

Die(p) ==
    /\ run[p] \in {"open", "closed"}
    /\ run' = [run EXCEPT ![p] = "dead"]
    /\ UNCHANGED <<prev, count, recent, file, ragged, lost, failures>>

Next == \E p \in Run :
    New(p) \/ (\E s \in Server : Record(p, s)) \/ Close(p) \/ Die(p)

Spec == Init /\ [][Next]_vars

-----------------------------------------------------------------------------
(* Properties.                                                             *)

\* Every variable has its type.
TypeOK ==
    /\ run \in [Run -> {"new", "open", "closed", "dead"}]
    /\ prev \in [Run -> Hash \cup {Genesis}]
    /\ count \in [Run -> 0 .. MaxRecords]
    /\ recent \in [Run -> Seq([hash : Hash, server : Server])]
    /\ \A p \in Run : Len(recent[p]) <= recentCap
    /\ file \in Seq(Line \cup {Garbled})
    /\ ragged \in BOOLEAN /\ lost \subseteq Hash /\ failures \in 0 .. MaxFailures

\* What a reader of the file checks: every line can be read, and is linked to
\* genesis or to a line before it (of two runs at once the lines alternate).
Lines == {i \in 1 .. Len(file) : file[i] # Garbled}
LinkedAt(i) ==
    \/ file[i].prev = Genesis
    \/ \E j \in Lines : j < i /\ file[j].hash = file[i].prev
Verifies == Lines = 1 .. Len(file) /\ \A i \in Lines : LinkedAt(i)

\* The chain tells of every record lost before another of its run, and raises
\* no false alarm, whatever runs share the file.
FollowedByLine(h) == \E i \in Lines : file[i].hash[1] = h[1] /\ file[i].hash[2] > h[2]
LossIsNoticed ==
    /\ (\E h \in lost : FollowedByLine(h)) => ~Verifies
    /\ lost = {} => Verifies

\* The window shows the newest records of the run, newest first, whether or
\* not the file has them; asked for some of one server's it answers the newest
\* of those in the window, in the same order, and leaves none out.
IsTail(p, shown) ==
    /\ Len(shown) = IF count[p] > recentCap THEN recentCap ELSE count[p]
    /\ \A i \in 1 .. Len(shown) : shown[i].hash = <<p, count[p] + 1 - i>>
    /\ shown # <<>> => shown[1].hash = prev[p]
IsNewestOf(asked, shown, s, limit) ==
    /\ Len(asked) <= limit
    /\ \A i \in 1 .. Len(asked) : asked[i].server = s /\ asked[i] \in Range(shown)
    /\ \A i, j \in 1 .. Len(asked) : i < j => asked[i].hash[2] > asked[j].hash[2]
    /\ \A e \in Range(shown) \ Range(asked) :
          e.server = s => /\ Len(asked) = limit
                          /\ \A i \in 1 .. limit : asked[i].hash[2] > e.hash[2]
WindowIsTail ==
    \A p \in Run :
        LET shown == Recent(p, 0, AnyServer) IN
        /\ IsTail(p, shown)
        /\ \A s \in Server \ {AnyServer}, limit \in 1 .. recentCap :
             IsNewestOf(Recent(p, limit, s), shown, s, limit)
=============================================================================
