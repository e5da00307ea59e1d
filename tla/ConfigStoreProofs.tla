-------------------------- MODULE ConfigStoreProofs -------------------------
(***************************************************************************)
(* What holds of ConfigStore for any values, handlers, failures and        *)
(* restarts, and however requests meet: the types; no half file but one    *)
(* that requests that met have left, until one saves alone; and either     *)
(* store is the register it promises.                                      *)
(***************************************************************************)
EXTENDS ConfigStore, TLAPS

ValuesInv == \A h \in Handler : pc[h] # "idle" => val[h] \in Value

AtWork(h) == pc[h] \notin Ended
\* At work, and no other of its kind has been since it began.
Lone(h) == AtWork(h) /\ h \notin company

Complete(b) == b.begins \in Value /\ b.len = Size[b.begins]

\* Unless handlers have met, what a path names is complete.
FilesInv == \A k \in Store : ~met[k] /\ path[k] # NoInode => Complete(data[path[k]])

\* What a temporary name names, no path does, nor the other temporary name;
\* a file opened for a store is none of the other store's.
NamesInv ==
    /\ \A k, j \in Store : tmp[k] # NoInode => tmp[k] # path[j] /\ (k # j => tmp[k] # tmp[j])
    /\ \A h \in Handler, k \in Store :
         fd[h] # NoInode /\ k # StoreOf(h) => fd[h] # path[k] /\ fd[h] # tmp[k]

\* A lone handler is the only one of its store at work; one in company is of
\* a store that requests have met at; and any runs while the agent is up.
MeetingInv ==
    /\ \A g, h \in Handler : StoreOf(g) = StoreOf(h) /\ AtWork(g) /\ Lone(h) => g = h
    /\ \A h \in Handler : AtWork(h) /\ h \in company => met[StoreOf(h)]
    /\ \A h \in Handler : AtWork(h) => up
    /\ \A h \in company : pc[h] # "idle"

\* A lone handler has its store's temporary file open, knows what is in it,
\* and whatever it has made live or kept so far is its value.
HandlerInv(h) ==
    /\ pc[h] = "connect" => h \in Connector
    /\ pc[h] = "publish" => h \in Applier
    /\ Lone(h) =>
        /\ pc[h] = "write" => fd[h] = tmp[StoreOf(h)] /\ data[fd[h]] = Empty
        /\ pc[h] = "rename" =>
             /\ tmp[StoreOf(h)] # NoInode
             /\ data[tmp[StoreOf(h)]] = [begins |-> val[h], len |-> Size[val[h]]]
        /\ pc[h] = "publish" => /\ path["manifest"] # NoInode /\ ~met["manifest"]
                                /\ data[path["manifest"]].begins = val[h]
        /\ h \in Connector /\ pc[h] \in {"open", "write", "rename"} => live["credentials"] = val[h]

IInv == FilesInv /\ NamesInv /\ MeetingInv /\ \A h \in Handler : HandlerInv(h)
TInv == TypeOK /\ ValuesInv

-----------------------------------------------------------------------------
(* The types.                                                              *)

LEMMA TypeInit == Init => TInv
BY SettingsAssumption, ValuesAssumption DEF Init, TInv, TypeOK, ValuesInv, Bytes, Empty

LEMMA TypeStep == TInv /\ [Next]_vars => TInv'
<1> SUFFICES ASSUME TInv, [Next]_vars PROVE TInv'
    OBVIOUS
<1> USE SettingsAssumption, ValuesAssumption, InodesAssumption
    DEF TInv, TypeOK, ValuesInv, Goto, Fails, SaveFails, Unsaved, dir, history, Handler
<1>1. ASSUME NEW h \in Handler, Begin(h) PROVE TInv'
  <2>1. company' \subseteq Handler /\ met' \in [Store -> BOOLEAN]
    BY <1>1 DEF Begin, Meets, Others
  <2>2. UNCHANGED <<up, live, path, tmp, data, fd, failures, restarts>> /\ pc[h] = "idle"
    BY <1>1 DEF Begin
  <2> QED
    BY <1>1, <2>1, <2>2 DEF Begin
<1>2. ASSUME NEW h \in Handler, Connect(h) PROVE TInv'
  BY <1>2 DEF Connect
<1>3. ASSUME NEW h \in Handler, Open(h) PROVE TInv'
  <2>1. CASE Truncated(h)
    <3>1. PICK i \in Inode :
            /\ tmp' = [tmp EXCEPT ![StoreOf(h)] = i] /\ fd' = [fd EXCEPT ![h] = i]
            /\ data' = [data EXCEPT ![i] = Empty]
      <4>1. StoreOf(h) \in Store
        BY DEF StoreOf, Store
      <4>2. tmp[StoreOf(h)] \in Inode \cup {NoInode}
        BY <4>1
      <4>3. CASE tmp[StoreOf(h)] = NoInode
        BY <2>1, <4>3, Zenon DEF Truncated, Unused
      <4>4. CASE tmp[StoreOf(h)] # NoInode
        BY <2>1, <4>2, <4>4, Zenon DEF Truncated
      <4> QED
        BY <4>3, <4>4
    <3>2. data' \in [Inode -> Bytes]
      BY <3>1 DEF Bytes, Empty
    <3>3. /\ tmp' \in [Store -> Inode \cup {NoInode}] /\ fd' \in [Handler -> Inode \cup {NoInode}]
          /\ fd'[h] # NoInode /\ \A g \in Handler : g # h => fd'[g] = fd[g]
      BY <3>1
    <3>4. /\ UNCHANGED <<up, live, path, val, restarts, company, met>>
          /\ \E w \in {"write", "unsaved", "error"} : pc' = [pc EXCEPT ![h] = w]
          /\ failures' \in 0 .. MaxFailures /\ pc[h] # "idle"
      BY <1>3 DEF Open
    <3>5. /\ \A g \in Handler : pc'[g] # "idle" => pc[g] # "idle"
          /\ \A g \in Handler : g # h => pc'[g] = pc[g]
          /\ pc' \in [Handler -> {"idle", "connect", "open", "write", "rename",
                                 "publish", "saved", "unsaved", "error"}]
      BY <3>4
    <3>6. ValuesInv'
      BY <3>4, <3>5
    <3>7. \A g \in Handler : pc'[g] \in {"write", "rename"} => fd'[g] # NoInode
      BY <3>3, <3>5
    <3> QED
      BY <3>2, <3>3, <3>4, <3>5, <3>6, <3>7
  <2>2. CASE ~Truncated(h)
    BY <1>3, <2>2 DEF Open
  <2> QED
    BY <2>1, <2>2
<1>4. ASSUME NEW h \in Handler, Write(h) PROVE TInv'
  <2>1. fd[h] \in Inode /\ val[h] \in Value
    BY <1>4 DEF Write
  <2>2. Over(data[fd[h]], val[h]) \in Bytes /\ Part(data[fd[h]]) \in Bytes
    BY <2>1 DEF Over, Part, Bytes
  <2>3. data' \in [Inode -> Bytes]
    BY <1>4, <2>1, <2>2 DEF Write
  <2> QED
    BY <1>4, <2>3 DEF Write
<1>5. ASSUME NEW h \in Handler, Rename(h) PROVE TInv'
  <2>1. path' \in [Store -> Inode \cup {NoInode}] /\ tmp' \in [Store -> Inode \cup {NoInode}]
    BY <1>5 DEF Rename, Moved, StoreOf, Store
  <2>2. UNCHANGED <<up, live, data, val, fd, restarts, company>> /\ pc[h] = "rename"
    BY <1>5 DEF Rename
  <2>3. met' \in [Store -> BOOLEAN]
    <3>1. met' = met \/ met' = [met EXCEPT ![StoreOf(h)] = @ /\ h \in company]
      BY <1>5 DEF Rename, Saved
    <3> QED
      BY <3>1, Zenon
  <2>4. /\ \E w \in {"saved", "publish", "unsaved", "error"} : pc' = [pc EXCEPT ![h] = w]
        /\ failures' \in 0 .. MaxFailures
    BY <1>5 DEF Rename, Saved
  <2> QED
    BY <2>1, <2>2, <2>3, <2>4
<1>6. ASSUME NEW h \in Handler, Publish(h) PROVE TInv'
  BY <1>6 DEF Publish
<1>7. CASE Restart
  <2>1. \A k \in Store : Loaded(k) \in Value \cup {NoValue}
    BY DEF Loaded, Decodes, Bytes
  <2>2. live' \in [Store -> Value \cup {NoValue}] /\ up' \in BOOLEAN
    BY <1>7, <2>1, Zenon DEF Restart, Loads
  <2>3. pc' \in [Handler -> {"idle", "connect", "open", "write", "rename",
                             "publish", "saved", "unsaved", "error"}]
    BY <1>7 DEF Restart
  <2>4. \A h \in Handler : pc'[h] \notin {"write", "rename"} /\ (pc'[h] = "idle" => pc[h] = "idle")
                           /\ (pc[h] = "idle" => pc'[h] = "idle")
    BY <1>7 DEF Restart, Ended
  <2>5. fd' \in [Handler -> Inode \cup {NoInode}] /\ UNCHANGED <<path, tmp, data, val, failures, company, met>>
        /\ restarts' \in 0 .. MaxRestarts
    BY <1>7 DEF Restart
  <2> QED
    BY <2>2, <2>3, <2>4, <2>5
<1>8. CASE UNCHANGED vars
  BY <1>8 DEF vars
<1> QED
  BY <1>1, <1>2, <1>3, <1>4, <1>5, <1>6, <1>7, <1>8 DEF Next, ApplyStep, ConnectStep

-----------------------------------------------------------------------------
(* The files.                                                              *)

LEMMA Stores == \A h \in Handler : /\ StoreOf(h) \in Store
                                   /\ h \in Connector => StoreOf(h) = "credentials"
                                   /\ h \notin Connector => StoreOf(h) = "manifest"
BY HandlersAssumption DEF StoreOf, Store, Handler

\* A handler at work beside a lone one serves the other store.
LEMMA Apart ==
    ASSUME IInv, NEW g \in Handler, NEW h \in Handler, g # h, AtWork(g), Lone(h)
    PROVE  StoreOf(g) # StoreOf(h)
BY DEF IInv, MeetingInv

\* While no request arrives and no meeting ends, who has met stays known.
LEMMA MeetingKept ==
    ASSUME TInv, MeetingInv, UNCHANGED <<company, met, up>>,
           \A h \in Handler : (pc[h] \in Ended => pc'[h] \in Ended) /\ (pc[h] # "idle" => pc'[h] # "idle")
    PROVE  MeetingInv'
<1>1. company' = company /\ met' = met /\ up' = up /\ company \subseteq Handler
  BY DEF TInv, TypeOK
<1>2. \A h \in Handler : AtWork(h)' => AtWork(h)
  BY DEF AtWork
<1>3. \A h \in Handler : Lone(h)' => Lone(h)
  BY <1>1, <1>2 DEF Lone
<1> QED
  BY <1>1, <1>2, <1>3 DEF MeetingInv

\* What a lone handler of one store knows, no step at the other store changes.
LEMMA Elsewhere ==
    ASSUME NEW g \in Handler, HandlerInv(g),
           UNCHANGED <<pc[g], val[g], fd[g]>>,
           Lone(g)' =>
              /\ Lone(g)
              /\ UNCHANGED tmp[StoreOf(g)]
              /\ pc[g] = "write" => UNCHANGED data[fd[g]]
              /\ pc[g] = "rename" => UNCHANGED data[tmp[StoreOf(g)]]
              /\ pc[g] = "publish" => /\ UNCHANGED <<path["manifest"], met["manifest"]>>
                                      /\ UNCHANGED data[path["manifest"]]
              /\ g \in Connector => UNCHANGED live["credentials"]
    PROVE  HandlerInv(g)'
BY DEF HandlerInv

LEMMA BeginStep ==
    ASSUME TInv, IInv, NEW h \in Handler, Begin(h)
    PROVE  IInv'
<1> USE DEF TInv, TypeOK, Goto, dir, history
<1>1. /\ UNCHANGED <<up, live, path, tmp, data, fd>> /\ up /\ pc[h] = "idle" /\ h \notin company
      /\ pc' = [pc EXCEPT ![h] = IF h \in Connector THEN "connect" ELSE "open"]
      /\ \A g \in Handler : g # h => val'[g] = val[g] /\ pc'[g] = pc[g]
      /\ AtWork(h)' /\ StoreOf(h) \in Store
  BY Stores DEF Begin, IInv, MeetingInv, AtWork, Ended
<1>2. \A g \in Handler : /\ g # h => (AtWork(g)' <=> AtWork(g))
                         /\ g \in Others(h) <=> (StoreOf(g) = StoreOf(h) /\ AtWork(g))
  BY <1>1 DEF AtWork, Others
<1>3. Meets(h)
  BY DEF Begin
<1>4. NamesInv'
  BY <1>1 DEF IInv, NamesInv
<1>5. CASE Others(h) = {} /\ UNCHANGED history
  <2>1. company' = company /\ met' = met /\ \A g \in Handler : g # h => (Lone(g)' <=> Lone(g))
    BY <1>2, <1>5 DEF Lone
  <2>2. \A g \in Handler : StoreOf(g) = StoreOf(h) => ~AtWork(g)
    BY <1>2, <1>5
  <2>3. MeetingInv'
    <3>1. \A g, f \in Handler : StoreOf(g) = StoreOf(f) /\ AtWork(g)' /\ Lone(f)' => g = f
      BY <1>1, <1>2, <2>1, <2>2 DEF IInv, MeetingInv, Lone
    <3>2. \A g \in Handler : AtWork(g)' /\ g \in company' => met'[StoreOf(g)]
      BY <1>1, <1>2, <2>1 DEF IInv, MeetingInv
    <3>3. \A g \in company' : pc'[g] # "idle"
      BY <1>1, <2>1 DEF IInv, MeetingInv
    <3> QED
      BY <1>1, <3>1, <3>2, <3>3 DEF MeetingInv
  <2>4. FilesInv'
    BY <1>1, <2>1 DEF IInv, FilesInv
  <2>5. ASSUME NEW g \in Handler PROVE HandlerInv(g)'
    <3>1. CASE g = h
      BY <1>1, <3>1 DEF HandlerInv
    <3>2. CASE g # h
      BY <1>1, <2>1, <3>2, Elsewhere DEF IInv
    <3> QED
      BY <3>1, <3>2
  <2> QED
    BY <1>4, <2>3, <2>4, <2>5 DEF IInv
<1>6. CASE /\ Others(h) # {}
           /\ company' = company \cup Others(h) \cup {h}
           /\ met' = [met EXCEPT ![StoreOf(h)] = TRUE]
  <2>1. /\ \A g \in Handler : Lone(g)' => Lone(g) /\ g # h /\ StoreOf(g) # StoreOf(h)
        /\ met'[StoreOf(h)] = TRUE
        /\ \A k \in Store : k # StoreOf(h) => met'[k] = met[k]
        /\ \A k \in Store : met[k] => met'[k]
    BY <1>1, <1>2, <1>6 DEF Lone
  <2>2. MeetingInv'
    <3>1. \A g, f \in Handler : StoreOf(g) = StoreOf(f) /\ AtWork(g)' /\ Lone(f)' => g = f
      BY <1>2, <2>1 DEF IInv, MeetingInv
    <3>2. \A g \in Handler : AtWork(g)' /\ g \in company' => met'[StoreOf(g)]
      BY <1>1, <1>2, <1>6, <2>1, Stores DEF IInv, MeetingInv
    <3>3. \A g \in company' : pc'[g] # "idle"
      BY <1>1, <1>2, <1>6 DEF IInv, MeetingInv, AtWork, Ended, Others
    <3> QED
      BY <1>1, <3>1, <3>2, <3>3 DEF MeetingInv
  <2>3. FilesInv'
    BY <1>1, <2>1 DEF IInv, FilesInv
  <2>4. ASSUME NEW g \in Handler PROVE HandlerInv(g)'
    <3>1. CASE g = h
      BY <1>1, <2>1, <3>1 DEF HandlerInv
    <3>2. CASE g # h
      <4>1. Lone(g)' /\ pc[g] = "publish" => UNCHANGED met["manifest"]
        <5>1. pc[g] = "publish" => StoreOf(g) = "manifest"
          BY DEF IInv, HandlerInv, StoreOf
        <5> QED
          BY <2>1, <5>1, Stores
      <4> QED
        BY <1>1, <2>1, <3>2, <4>1, Elsewhere DEF IInv
    <3> QED
      BY <3>1, <3>2
  <2> QED
    BY <1>4, <2>2, <2>3, <2>4 DEF IInv
<1> QED
  BY <1>3, <1>5, <1>6 DEF Meets

LEMMA ConnectPreserves ==
    ASSUME TInv, IInv, NEW h \in Handler, Connect(h)
    PROVE  IInv'
<1> USE DEF TInv, TypeOK, Goto, dir, history
<1>1. /\ UNCHANGED <<up, path, tmp, data, val, fd, company, met>>
      /\ pc[h] = "connect" /\ h \in Connector
      /\ \/ live' = [live EXCEPT !["credentials"] = val[h]] /\ pc' = [pc EXCEPT ![h] = "open"]
         \/ live' = live /\ pc' = [pc EXCEPT ![h] = "error"]
  BY Stores DEF Connect, IInv, HandlerInv
<1>2. FilesInv' /\ NamesInv'
  BY <1>1 DEF IInv, FilesInv, NamesInv
<1>3. MeetingInv'
  BY <1>1, MeetingKept DEF IInv, Ended
<1>4. \A g \in Handler : HandlerInv(g)'
  <2> TAKE g \in Handler
  <2>1. CASE g = h
    BY <1>1, <2>1 DEF HandlerInv, Store
  <2>2. CASE g # h
    <3>1. AtWork(h) /\ UNCHANGED pc[g]
      BY <1>1, <2>2 DEF AtWork, Ended
    <3>2. Lone(g)' => Lone(g)
      BY <1>1, <3>1 DEF Lone, AtWork
    <3>3. Lone(g) /\ g \in Connector => FALSE
      BY <1>1, <2>2, <3>1, Apart, Stores
    <3> QED
      BY <1>1, <3>1, <3>2, <3>3, Elsewhere DEF IInv
  <2> QED
    BY <2>1, <2>2
<1> QED
  BY <1>2, <1>3, <1>4 DEF IInv

LEMMA OpenPreserves ==
    ASSUME TInv, IInv, NEW h \in Handler, Open(h)
    PROVE  IInv'
<1> USE DEF TInv, TypeOK, Goto, dir, history
<1>1. /\ UNCHANGED <<up, live, path, val, company, met>> /\ pc[h] = "open" /\ AtWork(h)
      /\ \E w \in {"write", "unsaved", "error"} :
            pc' = [pc EXCEPT ![h] = w] /\ (w = "write" \/ UNCHANGED <<tmp, fd, data>>)
      /\ Truncated(h) \/ UNCHANGED <<tmp, fd, data>>
      /\ pc'[h] = "write" => Truncated(h)
      /\ \A g \in Handler : g # h => pc'[g] = pc[g]
  BY DEF Open, SaveFails, Unsaved, AtWork, Ended
<1>2. MeetingInv'
  BY <1>1, MeetingKept DEF IInv, Ended
<1>3. \A g \in Handler : g # h => (Lone(g)' <=> Lone(g))
  BY <1>1 DEF Lone, AtWork
<1>4. CASE UNCHANGED <<tmp, fd, data>> /\ pc'[h] # "write"
  <2>1. FilesInv' /\ NamesInv'
    BY <1>1, <1>4 DEF IInv, FilesInv, NamesInv
  <2>2. ASSUME NEW g \in Handler PROVE HandlerInv(g)'
    <3>1. CASE g = h
      BY <1>1, <1>4, <3>1 DEF HandlerInv, Lone, AtWork, Ended
    <3>2. CASE g # h
      BY <1>1, <1>3, <1>4, <3>2, Elsewhere DEF IInv
    <3> QED
      BY <3>1, <3>2
  <2> QED
    BY <1>2, <2>1, <2>2 DEF IInv
<1>5. CASE Truncated(h)
  <2>1. PICK i \in IF tmp[StoreOf(h)] = NoInode THEN Unused ELSE {tmp[StoreOf(h)]} :
          /\ tmp' = [tmp EXCEPT ![StoreOf(h)] = i] /\ fd' = [fd EXCEPT ![h] = i]
          /\ data' = [data EXCEPT ![i] = Empty]
    BY <1>5, Zenon DEF Truncated
  <2>2. i \in Inode /\ i # NoInode
    BY <2>1, Stores, InodesAssumption DEF Unused
  <2>3. \A k \in Store : path[k] # i
    BY <2>1, Stores DEF IInv, NamesInv, Unused
  <2>4. \A k \in Store : k # StoreOf(h) => tmp[k] # i
    BY <2>1, Stores DEF IInv, NamesInv, Unused
  <2>5. \A g \in Handler : StoreOf(g) # StoreOf(h) => fd[g] # i
    BY <2>1, <2>2, Stores DEF IInv, NamesInv, Unused
  <2>6. FilesInv'
    BY <1>1, <2>1, <2>2, <2>3 DEF IInv, FilesInv
  <2>7. NamesInv'
    BY <1>1, <2>1, <2>2, <2>3, <2>4, <2>5, Stores DEF IInv, NamesInv
  <2>8. \A g \in Handler : HandlerInv(g)'
    <3> TAKE g \in Handler
    <3>1. CASE g = h
      <4>1. HandlerInv(h) /\ (Lone(h)' => Lone(h)) /\ StoreOf(h) \in Store
        BY <1>1, Stores DEF IInv, Lone
      <4>2. fd'[h] = i /\ tmp'[StoreOf(h)] = i /\ data'[i] = Empty
        BY <2>1, <2>2, <4>1
      <4> QED
        BY <1>1, <3>1, <4>1, <4>2 DEF HandlerInv, Lone, AtWork, Ended
    <3>2. CASE g # h
      <4>1. pc'[g] = pc[g] /\ fd'[g] = fd[g]
        BY <1>1, <2>1, <3>2
      <4>2. Lone(g) => StoreOf(g) # StoreOf(h)
        BY <1>1, <3>2, Apart
      <4>3. Lone(g) => tmp'[StoreOf(g)] = tmp[StoreOf(g)] /\ tmp[StoreOf(g)] # i /\ fd[g] # i
        BY <2>1, <2>4, <2>5, <4>2, Stores
      <4>4. path["manifest"] # i
        BY <2>3 DEF Store
      <4>5. \A x \in Inode : x # i => data'[x] = data[x]
        BY <2>1, <2>2
      <4>6. Lone(g) /\ pc[g] = "publish" => path["manifest"] \in Inode
        BY DEF IInv, HandlerInv, Store
      <4>7. pc[g] = "write" => fd[g] \in Inode
        OBVIOUS
      <4>8. Lone(g) /\ pc[g] = "rename" => tmp[StoreOf(g)] \in Inode
        <5>1. HandlerInv(g) /\ StoreOf(g) \in Store
          BY Stores DEF IInv
        <5> QED
          BY <5>1 DEF HandlerInv
      <4>9. HandlerInv(g)
        BY DEF IInv
      <4> HIDE DEF TInv, TypeOK
      <4> QED
        BY <1>1, <1>3, <3>2, <4>1, <4>3, <4>4, <4>5, <4>6, <4>7, <4>8, <4>9, Elsewhere
    <3> QED
      BY <3>1, <3>2
  <2> QED
    BY <1>2, <2>6, <2>7, <2>8 DEF IInv
<1> QED
  BY <1>1, <1>4, <1>5

LEMMA WritePreserves ==
    ASSUME TInv, IInv, NEW h \in Handler, Write(h)
    PROVE  IInv'
<1> USE DEF TInv, TypeOK, Goto, dir, history
<1>1. /\ UNCHANGED <<up, live, path, tmp, val, fd, company, met>> /\ pc[h] = "write" /\ AtWork(h)
      /\ \/ data' = [data EXCEPT ![fd[h]] = Over(@, val[h])] /\ pc' = [pc EXCEPT ![h] = "rename"]
         \/ /\ data' \in {data, [data EXCEPT ![fd[h]] = Part(@)]}
            /\ pc' \in {[pc EXCEPT ![h] = "error"], [pc EXCEPT ![h] = "unsaved"]}
  BY DEF Write, SaveFails, Unsaved, AtWork, Ended
<1>2. fd[h] \in Inode /\ fd[h] # NoInode /\ val[h] \in Value /\ StoreOf(h) \in Store
  BY <1>1, InodesAssumption, Stores DEF ValuesInv
<1>3. Over(Empty, val[h]) = [begins |-> val[h], len |-> Size[val[h]]]
  BY <1>2, ValuesAssumption DEF Over, Empty
<1>4. \A i \in Inode : i # fd[h] => data'[i] = data[i]
  BY <1>1, <1>2
<1>5. Lone(h) => fd[h] = tmp[StoreOf(h)] /\ data[fd[h]] = Empty
  BY <1>1 DEF IInv, HandlerInv
<1>6. \A k \in Store : k # StoreOf(h) => fd[h] # path[k] /\ fd[h] # tmp[k]
  BY <1>2 DEF IInv, NamesInv
<1>7. ~met[StoreOf(h)] => Lone(h)
  BY <1>1 DEF IInv, MeetingInv, Lone
<1>8. FilesInv'
  <2>1. \A k \in Store : ~met[k] /\ path[k] # NoInode => path[k] # fd[h]
    BY <1>2, <1>5, <1>6, <1>7 DEF IInv, NamesInv
  <2> QED
    BY <1>1, <1>4, <2>1 DEF IInv, FilesInv
<1>9. NamesInv' /\ MeetingInv'
  BY <1>1, MeetingKept DEF IInv, NamesInv, Ended
<1>10. \A g \in Handler : HandlerInv(g)'
  <2> TAKE g \in Handler
  <2>1. CASE g = h
    <3>1. HandlerInv(h) /\ (Lone(h)' => Lone(h))
      BY <1>1 DEF IInv, Lone
    <3>2. Lone(h) /\ pc'[h] = "rename"
            => data'[tmp[StoreOf(h)]] = [begins |-> val[h], len |-> Size[val[h]]]
      BY <1>1, <1>2, <1>3, <1>5
    <3> QED
      BY <1>1, <1>2, <1>5, <2>1, <3>1, <3>2 DEF HandlerInv, Lone, AtWork, Ended
  <2>2. CASE g # h
    <3>1. pc'[g] = pc[g]
      BY <1>1, <2>2
    <3>2. Lone(g)' <=> Lone(g)
      BY <1>1, <3>1 DEF Lone, AtWork
    <3>3. Lone(g) => StoreOf(g) # StoreOf(h) /\ StoreOf(g) \in Store
      BY <1>1, <2>2, Apart, Stores
    <3>4. Lone(g) /\ pc[g] = "write" => UNCHANGED data[fd[g]]
      <4>1. Lone(g) /\ pc[g] = "write" => fd[g] = tmp[StoreOf(g)] /\ fd[g] \in Inode
        BY DEF IInv, HandlerInv
      <4> QED
        BY <1>1, <1>4, <1>6, <3>3, <4>1
    <3>5. Lone(g) /\ pc[g] = "rename" => UNCHANGED data[tmp[StoreOf(g)]]
      <4>1. Lone(g) /\ pc[g] = "rename" => tmp[StoreOf(g)] \in Inode
        <5>1. HandlerInv(g)
          BY DEF IInv
        <5> QED
          BY <3>3, <5>1 DEF HandlerInv
      <4> QED
        BY <1>1, <1>4, <1>6, <3>3, <4>1
    <3>6. Lone(g) /\ pc[g] = "publish" => UNCHANGED data[path["manifest"]]
      <4>1. Lone(g) /\ pc[g] = "publish" => path["manifest"] \in Inode /\ StoreOf(g) = "manifest"
        BY DEF IInv, HandlerInv, Store, StoreOf
      <4> QED
        BY <1>1, <1>4, <1>6, <3>3, <4>1
    <3>7. HandlerInv(g)
      BY DEF IInv
    <3> HIDE DEF TInv, TypeOK
    <3> QED
      BY <1>1, <3>1, <3>2, <3>4, <3>5, <3>6, <3>7, Elsewhere
  <2> QED
    BY <2>1, <2>2
<1> QED
  BY <1>8, <1>9, <1>10 DEF IInv

LEMMA RenamePreserves ==
    ASSUME TInv, IInv, NEW h \in Handler, Rename(h)
    PROVE  IInv'
<1> USE DEF TInv, TypeOK, Goto, dir, history
<1>1. /\ UNCHANGED <<up, live, data, val, fd, company>> /\ pc[h] = "rename" /\ AtWork(h)
      /\ StoreOf(h) \in Store /\ val[h] \in Value
      /\ \/ Moved(StoreOf(h)) /\ Saved(h)
         \/ Unsaved(h) /\ UNCHANGED <<path, tmp, met>>
  BY Stores DEF Rename, SaveFails, AtWork, Ended, ValuesInv
<1>2. Lone(h) => /\ tmp[StoreOf(h)] # NoInode
                 /\ data[tmp[StoreOf(h)]] = [begins |-> val[h], len |-> Size[val[h]]]
  BY <1>1 DEF IInv, HandlerInv
<1>3. \A g \in Handler : g # h => /\ pc'[g] = pc[g] /\ (AtWork(g)' <=> AtWork(g))
                                  /\ Lone(g)' <=> Lone(g)
  BY <1>1 DEF Saved, Unsaved, AtWork, Lone
<1>4. CASE Unsaved(h) /\ UNCHANGED <<path, tmp, met>>
  <2>1. FilesInv' /\ NamesInv'
    BY <1>1, <1>4 DEF IInv, FilesInv, NamesInv
  <2>2. MeetingInv'
    BY <1>1, <1>4, MeetingKept DEF IInv, Ended, Unsaved
  <2>3. ASSUME NEW g \in Handler PROVE HandlerInv(g)'
    <3>1. CASE g = h
      BY <1>1, <1>4, <3>1 DEF HandlerInv, Unsaved, Lone, AtWork, Ended
    <3>2. CASE g # h
      BY <1>1, <1>3, <1>4, <3>2, Elsewhere DEF IInv
    <3> QED
      BY <3>1, <3>2
  <2> QED
    BY <2>1, <2>2, <2>3 DEF IInv
<1>5. CASE Moved(StoreOf(h)) /\ Saved(h)
  <2>1. /\ path' = [path EXCEPT ![StoreOf(h)] = tmp[StoreOf(h)]]
        /\ tmp' = [tmp EXCEPT ![StoreOf(h)] = NoInode] /\ tmp[StoreOf(h)] # NoInode
        /\ pc' = [pc EXCEPT ![h] = IF h \in Connector THEN "saved" ELSE "publish"]
    BY <1>5 DEF Moved, Saved
  <2>2. /\ met'[StoreOf(h)] <=> met[StoreOf(h)] /\ h \in company
        /\ \A k \in Store : k # StoreOf(h) => met'[k] = met[k]
    BY <1>1, <1>5 DEF Saved
  <2>3. FilesInv'
    <3>1. ~met[StoreOf(h)] => Lone(h)
      BY <1>1 DEF IInv, MeetingInv, Lone
    <3>2. ~met'[StoreOf(h)] => Complete(data[tmp[StoreOf(h)]])
      BY <1>1, <1>2, <2>2, <3>1 DEF Complete, Lone
    <3>3. \A k \in Store : k # StoreOf(h) => path'[k] = path[k]
      BY <1>1, <2>1
    <3>4. path'[StoreOf(h)] = tmp[StoreOf(h)]
      BY <1>1, <2>1
    <3> QED
      BY <1>1, <2>2, <3>2, <3>3, <3>4 DEF IInv, FilesInv
  <2>4. NamesInv'
    <3>1. \A k \in Store : tmp'[k] = (IF k = StoreOf(h) THEN NoInode ELSE tmp[k])
      BY <1>1, <2>1
    <3>2. \A j \in Store : path'[j] = (IF j = StoreOf(h) THEN tmp[j] ELSE path[j])
      BY <1>1, <2>1
    <3>3. NamesInv
      BY DEF IInv
    <3> HIDE DEF TInv, TypeOK
    <3> QED
      BY <1>1, <3>1, <3>2, <3>3 DEF NamesInv
  <2>5. MeetingInv'
    <3>1. \A g, f \in Handler : StoreOf(g) = StoreOf(f) /\ AtWork(g)' /\ Lone(f)' => g = f
      BY <1>1, <1>3 DEF IInv, MeetingInv, Lone
    <3>2. \A g \in Handler : AtWork(g)' /\ g \in company' => met'[StoreOf(g)]
      <4> SUFFICES ASSUME NEW g \in Handler, AtWork(g)', g \in company' PROVE met'[StoreOf(g)]
          OBVIOUS
      <4>1. AtWork(g) /\ g \in company /\ met[StoreOf(g)] /\ StoreOf(g) \in Store
        BY <1>1, <1>3, Stores DEF IInv, MeetingInv
      <4>2. StoreOf(g) = StoreOf(h) => h \in company
        BY <1>1, <4>1 DEF IInv, MeetingInv, Lone
      <4> QED
        BY <2>2, <4>1, <4>2
    <3>3. /\ \A g \in company' : pc'[g] # "idle"
          /\ \A g \in Handler : AtWork(g)' => up'
      BY <1>1, <1>3, <2>1 DEF IInv, MeetingInv
    <3> QED
      BY <3>1, <3>2, <3>3 DEF MeetingInv
  <2>6. \A g \in Handler : HandlerInv(g)'
    <3> TAKE g \in Handler
    <3>1. CASE g = h
      <4>1. pc'[h] = "publish" => h \in Applier /\ StoreOf(h) = "manifest"
        BY <2>1, Stores DEF Handler
      <4>2. Lone(h)' => Lone(h)
        BY <1>1 DEF Lone
      <4>3. Lone(h) /\ pc'[h] = "publish" =>
              /\ path'["manifest"] # NoInode /\ ~met'["manifest"]
              /\ data'[path'["manifest"]].begins = val'[h]
        BY <1>1, <1>2, <2>1, <2>2, <4>1 DEF Lone
      <4>4. pc'[h] \in {"saved", "publish"}
        BY <2>1
      <4> QED
        BY <3>1, <4>1, <4>2, <4>3, <4>4 DEF HandlerInv
    <3>2. CASE g # h
      <4>1. Lone(g) => StoreOf(g) # StoreOf(h) /\ StoreOf(g) \in Store
        BY <1>1, <3>2, Apart, Stores
      <4>2. Lone(g) => tmp'[StoreOf(g)] = tmp[StoreOf(g)] /\ path'[StoreOf(g)] = path[StoreOf(g)]
                       /\ met'[StoreOf(g)] = met[StoreOf(g)]
        BY <1>1, <2>1, <2>2, <4>1
      <4>3. HandlerInv(g)
        BY DEF IInv
      <4>4. pc[g] = "publish" => StoreOf(g) = "manifest"
        BY <4>3 DEF HandlerInv, StoreOf
      <4> HIDE DEF TInv, TypeOK
      <4> QED
        BY <1>1, <1>3, <3>2, <4>2, <4>3, <4>4, Elsewhere
    <3> QED
      BY <3>1, <3>2
  <2> QED
    BY <2>3, <2>4, <2>5, <2>6 DEF IInv
<1> QED
  BY <1>1, <1>4, <1>5

LEMMA PublishPreserves ==
    ASSUME TInv, IInv, NEW h \in Handler, Publish(h)
    PROVE  IInv'
<1> USE DEF TInv, TypeOK, Goto, dir, history
<1>1. /\ UNCHANGED <<up, path, tmp, data, val, fd, company, met>> /\ pc[h] = "publish"
      /\ live'["credentials"] = live["credentials"] /\ pc' = [pc EXCEPT ![h] = "saved"]
  BY DEF Publish, Store
<1>2. FilesInv' /\ NamesInv'
  BY <1>1 DEF IInv, FilesInv, NamesInv
<1>3. MeetingInv'
  BY <1>1, MeetingKept DEF IInv, Ended
<1>4. \A g \in Handler : HandlerInv(g)'
  <2> TAKE g \in Handler
  <2>1. CASE g = h
    BY <1>1, <2>1 DEF HandlerInv, Lone, AtWork, Ended
  <2>2. CASE g # h
    BY <1>1, <2>2, Elsewhere DEF IInv, Lone, AtWork
  <2> QED
    BY <2>1, <2>2
<1> QED
  BY <1>2, <1>3, <1>4 DEF IInv

LEMMA RestartPreserves ==
    ASSUME TInv, IInv, Restart
    PROVE  IInv'
<1>1. /\ UNCHANGED <<path, tmp, data, val, company, met>> /\ fd' = [h \in Handler |-> NoInode]
      /\ \A h \in Handler : pc'[h] \in Ended /\ (pc[h] # "idle" => pc'[h] # "idle")
  BY DEF Restart, dir, history, Ended
<1>2. FilesInv' /\ NamesInv'
  BY <1>1 DEF IInv, FilesInv, NamesInv
<1>3. MeetingInv' /\ \A h \in Handler : HandlerInv(h)'
  BY <1>1 DEF IInv, TInv, TypeOK, MeetingInv, HandlerInv, Lone, AtWork, Ended
<1> QED
  BY <1>2, <1>3 DEF IInv

\* The invariant is one, however requests meet.
LEMMA Invariance == Spec => []TInv /\ []IInv
<1>1. Init => IInv
  BY InodesAssumption
  DEF Init, IInv, FilesInv, NamesInv, MeetingInv, HandlerInv, Lone, AtWork, Ended
<1>2. TInv /\ IInv /\ [Next]_vars => IInv'
  <2> SUFFICES ASSUME TInv, IInv, [Next]_vars PROVE IInv'
      OBVIOUS
  <2>1. CASE UNCHANGED vars
    BY <2>1 DEF vars, dir, history, IInv, FilesInv, NamesInv, MeetingInv, HandlerInv, Lone, AtWork
  <2> QED
    BY <2>1, BeginStep, ConnectPreserves, OpenPreserves, WritePreserves, RenamePreserves,
       PublishPreserves, RestartPreserves
    DEF Next, ApplyStep, ConnectStep, Handler
<1> QED
  BY <1>1, <1>2, TypeInit, TypeStep, PTL DEF Spec

-----------------------------------------------------------------------------
\* Every variable has its type; no handler writes without an open file.
THEOREM Types == Spec => []TypeOK
<1>1. TInv => TypeOK
  BY DEF TInv
<1> QED
  BY <1>1, Invariance, PTL

\* What the disk keeps loads at every moment, whatever fails and whenever the
\* agent dies (main.go:160); requests that meet may spoil it, and the next
\* one to save alone mends it.
THEOREM NoHalves == Spec => []NoHalfFile
<1>1. IInv => NoHalfFile
  BY ValuesAssumption DEF IInv, FilesInv, Complete, NoHalfFile, Loads, Decodes
<1> QED
  BY <1>1, Invariance, PTL

-----------------------------------------------------------------------------
(* The registers.                                                          *)

\* What a start-up would load is what the path names, if no requests met.
LEMMA LoadedValue ==
    ASSUME IInv, NEW k \in Store, ~met[k]
    PROVE  Loaded(k) = IF path[k] = NoInode THEN NoValue ELSE data[path[k]].begins
BY ValuesAssumption DEF IInv, FilesInv, Complete, Loaded, Decodes

\* Whatever a step does, both cells then hold a value or none.
LEMMA CellTypes ==
    ASSUME TInv', NEW k \in Store
    PROVE  {Loaded(k)', Serving(k)'} \subseteq Value \cup {NoValue}
BY DEF TInv, TypeOK, Loaded, Decodes, Serving, Bytes

\* Requests meet when one begins; only a lone save ends it.
LEMMA MeetingSteps ==
    ASSUME TInv, IInv, [Next]_vars, NEW k \in Store
    PROVE  \/ met'[k] = met[k]
           \/ ~met[k] /\ met'[k] /\ UNCHANGED <<live, up, path, data>>
           \/ /\ met[k] /\ ~met'[k]
              /\ \E h \in Handler : Rename(h) /\ StoreOf(h) = k /\ Lone(h) /\ Moved(k)
<1> USE DEF TInv, TypeOK, dir, history
<1>1. ASSUME NEW h \in Handler, Begin(h)
      PROVE  met'[k] = met[k] \/ (~met[k] /\ met'[k] /\ UNCHANGED <<live, up, path, data>>)
  <2>1. UNCHANGED <<live, up, path, data>> /\ StoreOf(h) \in Store
    BY <1>1, Stores DEF Begin
  <2>2. met' = met \/ met' = [met EXCEPT ![StoreOf(h)] = TRUE]
    BY <1>1 DEF Begin, Meets
  <2> QED
    BY <2>1, <2>2
<1>2. ASSUME NEW h \in Handler, Connect(h) \/ Open(h) \/ Write(h) \/ Publish(h) PROVE met' = met
  BY <1>2 DEF Connect, Open, Write, Publish
<1>3. ASSUME NEW h \in Handler, Rename(h)
      PROVE  \/ met'[k] = met[k]
             \/ met[k] /\ ~met'[k] /\ StoreOf(h) = k /\ Lone(h) /\ Moved(k)
  <2>1. \/ met' = met
        \/ Moved(StoreOf(h)) /\ met' = [met EXCEPT ![StoreOf(h)] = @ /\ h \in company]
    BY <1>3 DEF Rename, Saved
  <2>2. pc[h] = "rename" /\ StoreOf(h) \in Store
    BY <1>3, Stores DEF Rename
  <2> QED
    BY <2>1, <2>2 DEF Lone, AtWork, Ended
<1>4. CASE Restart
  BY <1>4 DEF Restart
<1>5. CASE UNCHANGED vars
  BY <1>5 DEF vars
<1> QED
  BY <1>1, <1>2, <1>3, <1>4, <1>5 DEF Next, ApplyStep, ConnectStep, Handler

\* A lone save keeps the handler's value and changes nothing that is live.
LEMMA LoneSave ==
    ASSUME TInv, IInv, NEW h \in Handler, Rename(h), Lone(h), Moved(StoreOf(h))
    PROVE  /\ val[h] \in Value /\ Loaded(StoreOf(h))' = val[h]
           /\ Serving(StoreOf(h))' = Serving(StoreOf(h))
           /\ StoreOf(h) = "credentials" => Serving("credentials") = val[h]
<1> USE DEF TInv, TypeOK, dir
<1>1. /\ pc[h] = "rename" /\ UNCHANGED <<data, live, up>> /\ up /\ StoreOf(h) \in Store
      /\ val[h] \in Value
  BY Stores DEF Rename, IInv, MeetingInv, Lone, ValuesInv
<1>2. HandlerInv(h)
  BY DEF IInv
<1>3. /\ tmp[StoreOf(h)] # NoInode
      /\ data[tmp[StoreOf(h)]] = [begins |-> val[h], len |-> Size[val[h]]]
      /\ h \in Connector => live["credentials"] = val[h]
  BY <1>1, <1>2 DEF HandlerInv
<1>4. path'[StoreOf(h)] = tmp[StoreOf(h)]
  BY <1>1 DEF Moved
<1>5. Loaded(StoreOf(h))' = val[h]
  <2>1. Decodes(StoreOf(h), data[tmp[StoreOf(h)]])
    BY <1>1, <1>3, ValuesAssumption DEF Decodes
  <2> QED
    BY <1>1, <1>3, <1>4, <2>1 DEF Loaded, Decodes
<1>6. StoreOf(h) = "credentials" => h \in Connector
  BY Stores
<1> QED
  BY <1>1, <1>3, <1>5, <1>6 DEF Serving

\* Where no requests have met, no step but a lone save changes what is kept.
LEMMA KeptSteps ==
    ASSUME TInv, IInv, IInv', [Next]_vars, NEW k \in Store, ~met[k], ~met'[k]
    PROVE  \/ Loaded(k)' = Loaded(k)
           \/ \E h \in Handler : Rename(h) /\ StoreOf(h) = k /\ Lone(h) /\ Moved(k)
<1> USE DEF TInv, TypeOK, dir
<1>1. /\ Loaded(k) = IF path[k] = NoInode THEN NoValue ELSE data[path[k]].begins
      /\ Loaded(k)' = IF path'[k] = NoInode THEN NoValue ELSE data'[path'[k]].begins
  BY LoadedValue, ValuesAssumption DEF IInv, FilesInv, Complete, Loaded, Decodes
<1>2. CASE UNCHANGED <<path, data>>
  BY <1>1, <1>2
<1>3. ASSUME NEW h \in Handler, Open(h) PROVE Loaded(k)' = Loaded(k)
  <2>1. path' = path
    BY <1>3 DEF Open
  <2>2. path[k] # NoInode => data'[path[k]] = data[path[k]]
    <3>1. CASE UNCHANGED data
      BY <3>1
    <3>2. CASE Truncated(h)
      <4>1. PICK i \in IF tmp[StoreOf(h)] = NoInode THEN Unused ELSE {tmp[StoreOf(h)]} :
              data' = [data EXCEPT ![i] = Empty]
        BY <3>2, Zenon DEF Truncated
      <4>2. path[k] # i
        BY <4>1, Stores DEF IInv, NamesInv, Unused
      <4> QED
        BY <4>1, <4>2
    <3> QED
      BY <1>3, <3>1, <3>2 DEF Open
  <2> QED
    BY <1>1, <2>1, <2>2
<1>4. ASSUME NEW h \in Handler, Write(h) PROVE Loaded(k)' = Loaded(k)
  <2>1. pc[h] = "write" /\ path' = path /\ fd[h] # NoInode /\ fd[h] \in Inode
    BY <1>4, InodesAssumption DEF Write
  <2>2. StoreOf(h) = k => fd[h] = tmp[k]
    <3>1. HandlerInv(h) /\ AtWork(h) /\ (h \in company => met[StoreOf(h)])
      BY <2>1 DEF IInv, MeetingInv, AtWork, Ended
    <3> QED
      BY <2>1, <3>1 DEF HandlerInv, Lone
  <2>3. path[k] # fd[h]
    BY <2>1, <2>2, Stores DEF IInv, NamesInv
  <2>4. path[k] # NoInode => data'[path[k]] = data[path[k]]
    BY <1>4, <2>1, <2>3 DEF Write
  <2> QED
    BY <1>1, <2>1, <2>4
<1>5. ASSUME NEW h \in Handler, Rename(h)
      PROVE  Loaded(k)' = Loaded(k) \/ (StoreOf(h) = k /\ Lone(h) /\ Moved(k))
  <2>1. data' = data /\ (path' = path \/ Moved(StoreOf(h))) /\ pc[h] = "rename"
    BY <1>5 DEF Rename
  <2>2. StoreOf(h) = k => Lone(h)
    BY <2>1 DEF IInv, MeetingInv, Lone, AtWork, Ended
  <2>3. CASE path'[k] = path[k]
    BY <1>1, <2>1, <2>3
  <2>4. CASE StoreOf(h) # k /\ Moved(StoreOf(h))
    <3>1. path'[k] = path[k]
      BY <2>4, Stores DEF Moved
    <3> QED
      BY <2>3, <3>1
  <2> QED
    BY <2>1, <2>2, <2>3, <2>4
<1>6. ASSUME NEW h \in Handler, Begin(h) \/ Connect(h) \/ Publish(h) PROVE Loaded(k)' = Loaded(k)
  BY <1>1, <1>6 DEF Begin, Connect, Publish
<1>7. CASE Restart
  BY <1>1, <1>7 DEF Restart
<1>8. CASE UNCHANGED vars
  BY <1>1, <1>8 DEF vars
<1> QED
  BY <1>3, <1>4, <1>5, <1>6, <1>7, <1>8 DEF Next, ApplyStep, ConnectStep, Handler

\* What is live changes by a connect, a publish or a restart.
LEMMA ServingSteps ==
    ASSUME TInv, IInv, IInv', [Next]_vars, NEW k \in Store, ~met[k], ~met'[k],
           Loaded(k)' = Loaded(k)
    PROVE  \/ Serving(k)' = Serving(k)
           \/ Serving(k)' = Loaded(k)
           \/ k = "credentials" /\ Serving(k)' \in Value
<1> USE DEF TInv, TypeOK, dir
<1>1. ASSUME NEW h \in Handler, Connect(h)
      PROVE  \/ Serving(k)' = Serving(k)
             \/ k = "credentials" /\ Serving(k)' \in Value
  <2>1. h \in Connector /\ StoreOf(h) = "credentials" /\ val[h] \in Value /\ up' = up
    BY <1>1, Stores DEF Connect, IInv, HandlerInv, ValuesInv
  <2>2. UNCHANGED live \/ live' = [live EXCEPT !["credentials"] = val[h]]
    BY <1>1, <2>1 DEF Connect
  <2>3. CASE live'[k] = live[k]
    BY <2>1, <2>3 DEF Serving
  <2>4. CASE k = "credentials" /\ live'[k] = val[h] /\ up
    BY <2>1, <2>4 DEF Serving
  <2>5. up
    BY <1>1 DEF Connect, IInv, MeetingInv, AtWork, Ended
  <2> QED
    BY <2>2, <2>3, <2>4, <2>5 DEF Store
<1>2. ASSUME NEW h \in Handler, Publish(h)
      PROVE  Serving(k)' = Serving(k) \/ Serving(k)' = Loaded(k)
  <2>1. /\ live' = [live EXCEPT !["manifest"] = val[h]] /\ pc[h] = "publish"
        /\ UNCHANGED <<up, path, data>>
    BY <1>2 DEF Publish
  <2>2. CASE k = "manifest"
    <3>1. StoreOf(h) = "manifest"
      BY <2>1 DEF IInv, HandlerInv, StoreOf
    <3>2. Lone(h)
      BY <2>1, <2>2, <3>1 DEF IInv, MeetingInv, Lone, AtWork, Ended
    <3>3. Loaded("manifest") = val[h]
      <4>1. HandlerInv(h)
        BY DEF IInv
      <4>2. path["manifest"] # NoInode /\ data[path["manifest"]].begins = val[h]
        BY <2>1, <3>2, <4>1 DEF HandlerInv
      <4> QED
        BY <2>2, <4>2, LoadedValue
    <3> QED
      BY <2>1, <2>2, <3>3 DEF Serving, Store
  <2>3. CASE k # "manifest"
    BY <2>1, <2>3 DEF Serving, Store
  <2> QED
    BY <2>2, <2>3
<1>3. ASSUME NEW h \in Handler, Begin(h) \/ Open(h) \/ Write(h) \/ Rename(h)
      PROVE  Serving(k)' = Serving(k)
  <2>1. UNCHANGED <<live, up>>
    BY <1>3 DEF Begin, Open, Write, Rename
  <2> QED
    BY <2>1 DEF Serving
<1>4. CASE Restart
  BY <1>4 DEF Restart, Serving
<1>5. CASE UNCHANGED vars
  BY <1>5 DEF vars, Serving
<1> QED
  BY <1>1, <1>2, <1>3, <1>4, <1>5 DEF Next, ApplyStep, ConnectStep, Handler

\* The manifest that is kept and the one that is live are the register's, for
\* any number of applies, failures and restarts, and however applies meet.
THEOREM ManifestRegister == Spec => ManifestIsRegister
<1>1. Init => Manifest!Init
  BY DEF Init, Manifest!Init, Loaded, Serving, Store
<1>2. TInv /\ IInv /\ TInv' /\ IInv' /\ [Next]_vars
        => [Manifest!Next]_<<Loaded("manifest"), Serving("manifest"), met["manifest"]>>
  <2> SUFFICES ASSUME TInv, IInv, TInv', IInv', [Next]_vars
               PROVE  \/ Manifest!Next
                      \/ UNCHANGED <<Loaded("manifest"), Serving("manifest"), met["manifest"]>>
      OBVIOUS
  <2>0. /\ "manifest" \in Store /\ met["manifest"] \in BOOLEAN /\ met'["manifest"] \in BOOLEAN
        /\ {Loaded("manifest")', Serving("manifest")'} \subseteq Value \cup {NoValue}
    BY CellTypes DEF Store, TInv, TypeOK
  <2>1. CASE met["manifest"] /\ met'["manifest"]
    BY <2>0, <2>1 DEF Manifest!Next, Manifest!Upset
  <2>2. CASE ~met["manifest"] /\ met'["manifest"]
    <3>1. UNCHANGED <<live, up, path, data>>
      BY <2>0, <2>2, MeetingSteps
    <3> QED
      BY <2>2, <3>1 DEF Manifest!Next, Manifest!Meet, Loaded, Decodes, Serving
  <2>3. CASE met["manifest"] /\ ~met'["manifest"]
    <3>1. PICK h \in Handler : Rename(h) /\ StoreOf(h) = "manifest" /\ Lone(h) /\ Moved("manifest")
      BY <2>0, <2>3, MeetingSteps
    <3>2. /\ val[h] \in Value /\ Loaded("manifest")' = val[h]
          /\ Serving("manifest")' = Serving("manifest")
      BY <3>1, LoneSave
    <3> QED
      BY <2>3, <3>2 DEF Manifest!Next, Manifest!Settle, Manifest!Enter
  <2>4. CASE ~met["manifest"] /\ ~met'["manifest"]
    <3>1. CASE Loaded("manifest")' = Loaded("manifest")
      <4>1. Serving("manifest")' = Serving("manifest") \/ Serving("manifest")' = Loaded("manifest")
        BY <2>0, <2>4, <3>1, ServingSteps
      <4> QED
        BY <2>0, <2>4, <3>1, <4>1 DEF Manifest!Next, Manifest!Calm, Manifest!Follow
    <3>2. ASSUME NEW h \in Handler, Rename(h), StoreOf(h) = "manifest", Lone(h), Moved("manifest")
          PROVE  Manifest!Next
      <4>1. /\ val[h] \in Value /\ Loaded("manifest")' = val[h]
            /\ Serving("manifest")' = Serving("manifest")
        BY <3>2, LoneSave
      <4> QED
        BY <2>0, <2>4, <4>1 DEF Manifest!Next, Manifest!Calm, Manifest!Enter
    <3> QED
      BY <2>0, <2>4, <3>1, <3>2, KeptSteps
  <2> QED
    BY <2>0, <2>1, <2>2, <2>3, <2>4
<1> QED
  BY <1>1, <1>2, Invariance, PTL DEF Spec, ManifestIsRegister, Manifest!Spec

\* So are the credentials, however connects meet.
THEOREM CredentialsRegister == Spec => CredentialsAreRegister
<1>1. Init => Credentials!Init
  BY DEF Init, Credentials!Init, Loaded, Serving, Store
<1>2. TInv /\ IInv /\ TInv' /\ IInv' /\ [Next]_vars
        => [Credentials!Next]_<<Loaded("credentials"), Serving("credentials"), met["credentials"]>>
  <2> SUFFICES ASSUME TInv, IInv, TInv', IInv', [Next]_vars
               PROVE  \/ Credentials!Next
                      \/ UNCHANGED <<Loaded("credentials"), Serving("credentials"), met["credentials"]>>
      OBVIOUS
  <2>0. /\ "credentials" \in Store /\ met["credentials"] \in BOOLEAN /\ met'["credentials"] \in BOOLEAN
        /\ {Loaded("credentials")', Serving("credentials")'} \subseteq Value \cup {NoValue}
    BY CellTypes DEF Store, TInv, TypeOK
  <2>1. CASE met["credentials"] /\ met'["credentials"]
    BY <2>0, <2>1 DEF Credentials!Next, Credentials!Upset
  <2>2. CASE ~met["credentials"] /\ met'["credentials"]
    <3>1. UNCHANGED <<live, up, path, data>>
      BY <2>0, <2>2, MeetingSteps
    <3> QED
      BY <2>2, <3>1 DEF Credentials!Next, Credentials!Meet, Loaded, Decodes, Serving
  <2>3. CASE met["credentials"] /\ ~met'["credentials"]
    <3>1. PICK h \in Handler : Rename(h) /\ StoreOf(h) = "credentials" /\ Lone(h) /\ Moved("credentials")
      BY <2>0, <2>3, MeetingSteps
    <3>2. /\ val[h] \in Value /\ Loaded("credentials")' = val[h]
          /\ Serving("credentials")' = Serving("credentials") /\ Serving("credentials") = val[h]
      BY <3>1, LoneSave
    <3> QED
      BY <2>3, <3>2 DEF Credentials!Next, Credentials!Settle, Credentials!Follow
  <2>4. CASE ~met["credentials"] /\ ~met'["credentials"]
    <3>1. CASE Loaded("credentials")' = Loaded("credentials")
      <4>1. \/ Serving("credentials")' = Serving("credentials")
            \/ Serving("credentials")' = Loaded("credentials")
            \/ Serving("credentials")' \in Value
        BY <2>0, <2>4, <3>1, ServingSteps
      <4> QED
        BY <2>0, <2>4, <3>1, <4>1
        DEF Credentials!Next, Credentials!Calm, Credentials!Enter, Credentials!Restart
    <3>2. ASSUME NEW h \in Handler, Rename(h), StoreOf(h) = "credentials", Lone(h), Moved("credentials")
          PROVE  Credentials!Next
      <4>1. /\ val[h] \in Value /\ Loaded("credentials")' = val[h]
            /\ Serving("credentials")' = Serving("credentials") /\ Serving("credentials") = val[h]
        BY <3>2, LoneSave
      <4> QED
        BY <2>0, <2>4, <4>1 DEF Credentials!Next, Credentials!Calm, Credentials!Follow
    <3> QED
      BY <2>0, <2>4, <3>1, <3>2, KeptSteps
  <2> QED
    BY <2>0, <2>1, <2>2, <2>3, <2>4
<1> QED
  BY <1>1, <1>2, Invariance, PTL DEF Spec, CredentialsAreRegister, Credentials!Spec
=============================================================================
