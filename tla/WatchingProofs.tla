--------------------------- MODULE WatchingProofs ---------------------------
(* What Watching promises for any chats, addresses, transactions and       *)
(* requests: its types, that a goroutine's name is used once, and that no  *)
(* chat is told of a transaction, or of its confirmation, twice; then that *)
(* what the feed is matched against follows what is watched.               *)
EXTENDS Watching, TLAPS

\* A request that is at work has a call of the right shape.
LEMMA CallShape ==
    ASSUME TypeOK, NEW r \in Requests, InFlight(r)
    PROVE  /\ req[r].call.chat \in Chats
           /\ req[r].call.alias \in Aliases
           /\ ~IsTxID(r) => req[r].call.target \in Addrs /\ KeyOf(r) \in Keys
           /\ IsTxID(r) => req[r].call.target \in Txs
BY CallsType DEF TypeOK, Call, IsTxID, KeyOf, Keys, Targets

\* An address step has a key.
LEMMA KeyShape ==
    ASSUME TypeOK, NEW r \in Requests, req[r].at \in AddrSteps
    PROVE  KeyOf(r) \in Keys /\ req[r].call.alias \in Aliases /\ req[r].call.chat \in Chats
           /\ req[r].call.target \in Addrs
BY CallsType DEF TypeOK, Call, KeyOf, Keys, Targets, AddrSteps, InFlight

\* Moving a request to another of its steps keeps its record well formed.
LEMMA GotoType ==
    ASSUME TypeOK, NEW r \in Requests, InFlight(r), NEW step \in ReqSteps \ {"idle", "done"},
           Goto(r, step), step \in AddrSteps => req[r].call.target \in Addrs
    PROVE  /\ req' \in [Requests -> ReqState]
           /\ \A q \in Requests : InFlight(q)' => req'[q].call \in Calls
           /\ \A q \in Requests : req'[q].at \in AddrSteps => req'[q].call.target \in Addrs
BY DEF TypeOK, Goto, ReqState, InFlight

LEMMA FinishType ==
    ASSUME TypeOK, NEW r \in Requests, Finish(r)
    PROVE  /\ req' \in [Requests -> ReqState]
           /\ \A q \in Requests : InFlight(q)' => req'[q].call \in Calls
           /\ \A q \in Requests : req'[q].at \in AddrSteps => req'[q].call.target \in Addrs
BY DEF TypeOK, Finish, Done, ReqState, ReqSteps, InFlight, AddrSteps

THEOREM InitType == Init => TypeOK
BY StartType DEF Init, TypeOK, Idle, NoWorker, NoBcast, BcastAt, NoSeed, SeedAt, NoConfirm, ConfirmAt, ReqState, ReqSteps,
   NotifierState, BcastState, SeedState, ConfirmState, InFlight, AddrSteps

\* The two locked operations on the notifies map keep it, and the goroutines,
\* well formed.
LEMMA StartNotifyType ==
    ASSUME TypeOK, NEW g \in Workers, NEW k \in Keys, NEW al \in Aliases, StartNotifyChat(g, k, al)
    PROVE  /\ notifies' \in [Keys -> Workers \cup {None}]
           /\ notifier' \in [Workers -> NotifierState]
           /\ \A h \in Workers : notifier'[h].at # "none" => notifier'[h].key \in Keys /\ notifier'[h].alias \in Aliases
           /\ \A h \in Workers : notifier'[h].at \in {"sending", "noting"} => notifier'[h].tx \in Txs
BY DEF TypeOK, StartNotifyChat, NewWorker, NotifierState

LEMMA StopNotifyType ==
    ASSUME TypeOK, NEW k \in Keys, StopNotifyChat(k)
    PROVE  /\ notifies' \in [Keys -> Workers \cup {None}]
           /\ notifier' \in [Workers -> NotifierState]
           /\ \A h \in Workers : notifier'[h].at # "none" => notifier'[h].key \in Keys /\ notifier'[h].alias \in Aliases
           /\ \A h \in Workers : notifier'[h].at \in {"sending", "noting"} => notifier'[h].tx \in Txs
BY DEF TypeOK, StopNotifyChat, Stopped, NotifierState

LEMMA RequestType == ASSUME TypeOK, NEW r \in Requests, Request(r) PROVE TypeOK'
<1>1. CASE Begin(r)
  BY <1>1, CallsType DEF Begin, TypeOK, InFlight, ReqState, ReqSteps, AddrSteps, Call, store, notify, match, confirm, env, told
<1>2. CASE CheckWatching(r)
  <2>1. InFlight(r) BY <1>2 DEF CheckWatching, InFlight
  <2>2. faults' = faults \/ Fault BY <1>2 DEF CheckWatching
  <2>3. faults' \in Nat BY <2>2 DEF Fault, TypeOK
  <2>4. Goto(r, "limit") \/ Finish(r) BY <1>2 DEF CheckWatching
  <2>5. /\ req' \in [Requests -> ReqState]
        /\ \A q \in Requests : InFlight(q)' => req'[q].call \in Calls
        /\ \A q \in Requests : req'[q].at \in AddrSteps => req'[q].call.target \in Addrs
    BY <2>1, <2>4, GotoType, FinishType DEF ReqSteps, AddrSteps
  <2> QED BY <1>2, <2>3, <2>5 DEF CheckWatching, TypeOK, store, notify, match, confirm, env, told
<1>3. CASE AtWatchLimit(r)
  BY <1>3, GotoType, FinishType DEF AtWatchLimit, TypeOK, InFlight, ReqSteps, AddrSteps, store, notify, match, confirm, env, told
<1>4. CASE AddWatch(r)
  <2>1. InFlight(r) BY <1>4 DEF AddWatch, InFlight
  <2>2. pending' \subseteq Entries
    BY <1>4, <2>1, CallShape DEF AddWatch, AddEntry, Entry, Entries, TypeOK
  <2>3. stored' \in [Keys -> Aliases \cup {Absent}]
    BY <1>4, <2>1, CallShape DEF AddWatch, TypeOK
  <2> QED
    BY <1>4, <2>1, <2>2, <2>3, CallShape, GotoType, FinishType DEF AddWatch, TypeOK, ReqSteps, AddrSteps, notify, match, env, told
<1>5. CASE StartNotifier(r)
  <2>1. req[r].at \in AddrSteps BY <1>5 DEF StartNotifier, AddrSteps
  <2>2. KeyOf(r) \in Keys /\ req[r].call.alias \in Aliases /\ r \in Workers
    BY <2>1, KeyShape DEF Workers
  <2> QED
    BY <1>5, <2>1, <2>2, KeyShape, StartNotifyType, GotoType DEF StartNotifier, TypeOK, InFlight, ReqSteps, AddrSteps, store, match, confirm, env, told
<1>6. CASE StartSeed(r)
  <2>1. req[r].at \in AddrSteps BY <1>6 DEF StartSeed, AddrSteps
  <2>2. seed' \in [Requests \cup {Boot} -> SeedState]
    BY <1>6, <2>1, KeyShape DEF StartSeed, TypeOK, NewSeed, NoSeed, SeedAt, SeedState
  <2> QED
    BY <1>6, <2>1, <2>2, FinishType DEF StartSeed, TypeOK, store, notify, confirm, env, told
<1>7. CASE RemoveWatch(r)
  <2>1. InFlight(r) BY <1>7 DEF RemoveWatch, InFlight
  <2>2. pending' \subseteq Entries /\ stored' \in [Keys -> Aliases \cup {Absent}]
    BY <1>7, <2>1, CallShape DEF RemoveWatch, TypeOK
  <2> QED
    BY <1>7, <2>1, <2>2, CallShape, GotoType, FinishType DEF RemoveWatch, TypeOK, ReqSteps, AddrSteps, notify, match, env, told
<1>8. CASE SetAlias(r)
  <2>1. InFlight(r) BY <1>8 DEF SetAlias, InFlight
  <2>2. pending' \subseteq Entries
    BY <1>8, <2>1, CallShape DEF SetAlias, TypeOK, Direct, Renamed, Entry, Entries
  <2>3. stored' \in [Keys -> Aliases \cup {Absent}]
    BY <1>8, <2>1, CallShape DEF SetAlias, TypeOK
  <2> QED
    BY <1>8, <2>1, <2>2, <2>3, CallShape, GotoType, FinishType DEF SetAlias, TypeOK, ReqSteps, AddrSteps, notify, match, env, told
<1>9. CASE StopNotifier(r)
  <2>1. req[r].at \in AddrSteps BY <1>9 DEF StopNotifier, AddrSteps
  <2> QED
    BY <1>9, <2>1, KeyShape, StopNotifyType, GotoType DEF StopNotifier, TypeOK, InFlight, ReqSteps, AddrSteps, store, match, confirm, env, told
<1>10. CASE RemoveAddrConfirms(r)
  <2>1. req[r].at \in AddrSteps BY <1>10 DEF RemoveAddrConfirms, AddrSteps
  <2> QED
    BY <1>10, <2>1, KeyShape, GotoType DEF RemoveAddrConfirms, TypeOK, InFlight, ReqSteps, AddrSteps, store, notify, match, env, told
<1>11. CASE UnwatchScripts(r)
  BY <1>11, FinishType DEF UnwatchScripts, TypeOK, store, notify, confirm, env, told
<1>12. CASE SetAddrAlias(r)
  <2>1. req[r].at \in AddrSteps BY <1>12 DEF SetAddrAlias, AddrSteps
  <2>2. pending' \subseteq Entries
    BY <1>12, <2>1, KeyShape DEF SetAddrAlias, TypeOK, AddrConfirms, Renamed, Entry, Entries
  <2> QED
    BY <1>12, <2>2, FinishType DEF SetAddrAlias, TypeOK, store, notify, match, env, told
<1>13. CASE DbError(r)
  BY <1>13, FinishType DEF DbError, Fault, TypeOK, store, notify, match, confirm, env, told
<1> QED
  BY <1>1, <1>2, <1>3, <1>4, <1>5, <1>6, <1>7, <1>8, <1>9, <1>10, <1>11, <1>12, <1>13 DEF Request

LEMMA SeedType == ASSUME TypeOK, NEW j \in Requests \cup {Boot}, Seed(j) PROVE TypeOK'
<1>1. CASE WatchScript(j)
  <2>1. PICK a \in seed[j].todo :
          /\ \/ Advance(j, seed[j].todo \ {a}, seed[j].own \cup {a})
             \/ Advance(j, seed[j].todo \ {a}, seed[j].own)
          /\ scripts' = scripts \cup {a} \/ UNCHANGED scripts
          /\ Fault \/ UNCHANGED faults
    BY <1>1 DEF WatchScript
  <2>2. a \in Addrs BY <2>1 DEF TypeOK, SeedState
  <2>3. seed' \in [Requests \cup {Boot} -> SeedState]
    <3>1. /\ seed \in [Requests \cup {Boot} -> SeedState]
          /\ seed[j].todo \ {a} \in SUBSET Addrs
          /\ seed[j].own \in SUBSET Addrs /\ seed[j].own \cup {a} \in SUBSET Addrs
      BY <2>2 DEF TypeOK, SeedState
    <3>2. ASSUME NEW todo \in SUBSET Addrs, NEW own \in SUBSET Addrs, Advance(j, todo, own)
          PROVE  seed' \in [Requests \cup {Boot} -> SeedState]
      <4>1. /\ NoSeed \in SeedState /\ SeedAt("validate", todo, own, {}) \in SeedState
            /\ SeedAt("scan", {}, own, {}) \in SeedState
        BY DEF NoSeed, SeedAt, SeedState
      <4> QED BY <3>1, <3>2, <4>1 DEF Advance
    <3> QED BY <2>1, <3>1, <3>2
  <2>4. scripts' \subseteq Addrs /\ faults' \in Nat BY <2>1, <2>2 DEF Fault, TypeOK
  <2> QED BY <1>1, <2>3, <2>4 DEF WatchScript, TypeOK, InFlight, store, notify, confirm, env, told
<1>2. CASE ScanTxOutSet(j)
  <2>1. {o \in ConfirmedOutputs : o[2] \in seed[j].own} \subseteq Outputs BY DEF ConfirmedOutputs
  <2>2. seed' \in [Requests \cup {Boot} -> SeedState]
    <3>1. seed \in [Requests \cup {Boot} -> SeedState] /\ seed[j].own \in SUBSET Addrs
      BY DEF TypeOK, SeedState
    <3>2. ASSUME NEW hits \in SUBSET Outputs
          PROVE  NoSeed \in SeedState /\ SeedAt("load", {}, seed[j].own, hits) \in SeedState
      BY <3>1 DEF NoSeed, SeedAt, SeedState
    <3> QED BY <1>2, <2>1, <3>1, <3>2 DEF ScanTxOutSet
  <2>3. faults' \in Nat BY <1>2 DEF ScanTxOutSet, Fault, TypeOK
  <2>4. slipped' \subseteq Outputs BY <1>2 DEF ScanTxOutSet, Unscanned, TypeOK
  <2> QED BY <1>2, <2>2, <2>3, <2>4 DEF ScanTxOutSet, TypeOK, InFlight, store, notify, confirm, env
<1>3. CASE WatchOutpoint(j)
  BY <1>3 DEF WatchOutpoint, NoSeed, SeedAt, SeedState, TypeOK, InFlight, store, notify, confirm, env, told
<1> QED BY <1>1, <1>2, <1>3 DEF Seed

LEMMA StartUpType == ASSUME TypeOK, StartUp PROVE TypeOK'
<1>1. CASE ListWatches
  BY <1>1 DEF ListWatches, Fault, TypeOK, InFlight, store, notify, match, confirm, told
<1>2. CASE StartListed
  <2>1. PICK row \in boot.rows : StartNotifyChat(row[1], row[1], row[2]) /\ boot' = [boot EXCEPT !.rows = boot.rows \ {row}]
    BY <1>2 DEF StartListed
  <2>2. row[1] \in Keys /\ row[1] \in Workers /\ row[2] \in Aliases
    BY <2>1 DEF TypeOK, Workers
  <2> QED
    BY <1>2, <2>1, <2>2, StartNotifyType DEF StartListed, TypeOK, InFlight, store, match, confirm, told
<1>3. CASE SeedListed
  <2>1. {k[2] : k \in {j \in Keys : notifies[j] # None}} \subseteq Addrs BY DEF Keys
  <2>2. seed' \in [Requests \cup {Boot} -> SeedState]
    BY <1>3, <2>1 DEF SeedListed, TypeOK, NewSeed, NoSeed, SeedAt, SeedState
  <2> QED BY <1>3, <2>2 DEF SeedListed, TypeOK, InFlight, store, notify, confirm, told
<1>4. CASE StartZMQ
  BY <1>4 DEF StartZMQ, TypeOK, InFlight, store, notify, match, confirm, told
<1> QED BY <1>1, <1>2, <1>3, <1>4 DEF StartUp

LEMMA BroadcastType == ASSUME TypeOK, NEW b \in Bcasts, Broadcast(b) PROVE TypeOK'
<1>1. CASE AlreadyNotified(b)
  <2>1. bcast' \in [Bcasts -> BcastState] /\ notified' \subseteq Txs
    <3>1. bcast \in [Bcasts -> BcastState] /\ notified \subseteq Txs /\ b[1] \in Txs
      BY DEF TypeOK, Bcasts
    <3>2. NoBcast \in BcastState /\ BcastAt("record", FALSE, {}) \in BcastState
      BY DEF NoBcast, BcastAt, BcastState
    <3> QED BY <1>1, <3>1, <3>2 DEF AlreadyNotified
  <2>2. faults' \in Nat
    <3>1. faults \in Nat BY DEF TypeOK
    <3>2. faults' = faults \/ Fault BY <1>1 DEF AlreadyNotified
    <3> QED BY <3>1, <3>2 DEF Fault
  <2> QED BY <1>1, <2>1, <2>2 DEF AlreadyNotified, TypeOK, InFlight, store, match, confirm, env, told
<1>2. CASE RecordOutpoints(b)
  <2>1. {<<b[1], a>> : a \in Pays[b[1]] \cap scripts} \subseteq Outputs
    BY PaysType DEF Outputs, Bcasts, TypeOK
  <2> QED BY <1>2, <2>1 DEF RecordOutpoints, BcastAt, BcastState, TypeOK, InFlight, store, confirm, env, told
<1>3. CASE SnapshotChannels(b)
  <2>1. {notifies[k] : k \in Keys} \ {None} \subseteq Workers BY DEF TypeOK
  <2> QED BY <1>3, <2>1 DEF SnapshotChannels, NoBcast, BcastAt, BcastState, Fault, TypeOK, InFlight, store, match, confirm, env, told
<1>4. ASSUME NEW g \in Workers, Deliver(b, g) PROVE TypeOK'
  BY <1>4 DEF Deliver, WorkerAt, Without, NoBcast, BcastAt, BcastState, NotifierState, Bcasts, TypeOK, InFlight, store, match, confirm, env, told
<1>5. ASSUME NEW g \in Workers, GiveUp(b, g) PROVE TypeOK'
  <2>1. missed' \subseteq Keys \X Txs
    BY <1>5 DEF GiveUp, Bcasts, TypeOK, NotifierState
  <2> QED
  BY <1>5, <2>1 DEF GiveUp, Without, NoBcast, BcastAt, BcastState, TypeOK, InFlight, store, match, confirm, env
<1> QED BY <1>1, <1>2, <1>3, <1>4, <1>5 DEF Broadcast

LEMMA NotifierType == ASSUME TypeOK, NEW g \in Workers, Notifier(g) PROVE TypeOK'
<1>1. CASE Send(g)
  BY <1>1 DEF Send, WorkerAt, NotifierState, TypeOK, InFlight, store, match, confirm, env
<1>2. CASE AddAddrConfirm(g)
  <2>1. notifier[g].key \in Keys /\ notifier[g].alias \in Aliases /\ notifier[g].tx \in Txs
    BY <1>2 DEF AddAddrConfirm, TypeOK
  <2>2. Entry(notifier[g].tx, notifier[g].key[1], notifier[g].key[2], notifier[g].alias) \in Entries
    BY <2>1 DEF Entry, Entries, Keys
  <2>3. pending' \subseteq Entries
    BY <1>2, <2>2 DEF AddAddrConfirm, AddEntry, TypeOK
  <2> QED BY <1>2, <2>3 DEF AddAddrConfirm, WorkerAt, NotifierState, TypeOK, InFlight, store, match, env, told
<1>3. CASE Exit(g)
  BY <1>3 DEF Exit, NoWorker, NotifierState, TypeOK, InFlight, store, match, confirm, env, told
<1> QED BY <1>1, <1>2, <1>3 DEF Notifier

LEMMA ConfirmType == ASSUME TypeOK, NEW t \in Txs, ProcessConfirms(t) PROVE TypeOK'
<1>1. CASE AnyPending(t)
  BY <1>1 DEF AnyPending, NoConfirm, ConfirmAt, ConfirmState, TypeOK, InFlight, store, notify, match, env, told
<1>2. CASE TakeConfirms(t)
  <2>1. confirms' \in [Txs -> ConfirmState] /\ pending' \subseteq Entries
    <3>1. confirms \in [Txs -> ConfirmState] /\ pending \subseteq Entries BY DEF TypeOK
    <3>2. NoConfirm \in ConfirmState /\ \A out \in SUBSET Entries : ConfirmAt("send", out) \in ConfirmState
      BY DEF NoConfirm, ConfirmAt, ConfirmState
    <3> QED BY <1>2, <3>1, <3>2 DEF TakeConfirms
  <2>2. faults' \in Nat BY <1>2 DEF TakeConfirms, Fault, TypeOK
  <2> QED BY <1>2, <2>1, <2>2 DEF TakeConfirms, TypeOK, InFlight, store, notify, match, env, told
<1>3. CASE SendConfirm(t)
  <2>1. PICK e \in confirms[t].out :
          /\ confd' = [confd EXCEPT ![<<<<e.chat, e.addr>>, t>>] = @ + 1]
          /\ confirms' = [confirms EXCEPT ![t] = IF confirms[t].out = {e} THEN NoConfirm ELSE ConfirmAt("send", confirms[t].out \ {e})]
    BY <1>3 DEF SendConfirm
  <2>2. <<<<e.chat, e.addr>>, t>> \in Owners \X Txs
    BY <2>1 DEF TypeOK, ConfirmState, Entries, Owners
  <2>3. confd' \in [Owners \X Txs -> Nat] BY <2>1, <2>2 DEF TypeOK
  <2>4. confirms' \in [Txs -> ConfirmState] BY <2>1 DEF TypeOK, ConfirmState, NoConfirm, ConfirmAt
  <2> QED BY <1>3, <2>3, <2>4 DEF SendConfirm, TypeOK, InFlight, store, notify, match, env
<1> QED BY <1>1, <1>2, <1>3 DEF ProcessConfirms

LEMMA EnvType ==
    ASSUME TypeOK, ReceiveTx \/ ReceiveBlock \/ LoseMessage \/ Restart \/ \E t \in Txs : Core(t)
    PROVE  TypeOK'
<1>1. CASE ReceiveTx
  <2>1. Head(rawq) \in Txs /\ rawq' \in Seq(Txs) BY <1>1 DEF ReceiveTx, TypeOK
  <2>2. bcast' \in [Bcasts -> BcastState] BY <1>1, <2>1 DEF ReceiveTx, TypeOK, BcastAt, BcastState, Bcasts, Sightings
  <2> QED BY <1>1, <2>1, <2>2 DEF ReceiveTx, TypeOK, InFlight, store, match, confirm, told
<1>2. CASE ReceiveBlock
  <2>1. Head(blockq) \in Txs /\ blockq' \in Seq(Txs) BY <1>2 DEF ReceiveBlock, TypeOK
  <2> QED BY <1>2, <2>1 DEF ReceiveBlock, ConfirmAt, ConfirmState, TypeOK, InFlight, store, notify, match, told
<1>3. CASE LoseMessage
  <2>1. /\ rawq \in Seq(Txs) /\ blockq \in Seq(Txs)
        /\ \/ rawq # <<>> /\ rawq' = Tail(rawq) /\ blockq' = blockq
           \/ blockq # <<>> /\ blockq' = Tail(blockq) /\ rawq' = rawq
    BY <1>3 DEF LoseMessage, TypeOK
  <2>2. \A q \in Seq(Txs) : q # <<>> => Tail(q) \in Seq(Txs) OBVIOUS
  <2>3. rawq' \in Seq(Txs) /\ blockq' \in Seq(Txs) BY <2>1, <2>2
  <2> QED BY <1>3, <2>3 DEF LoseMessage, Fault, TypeOK, InFlight, store, notify, match, confirm, told
<1>4. CASE Restart
  BY <1>4 DEF Restart, TypeOK, Idle, Done, NoWorker, NoBcast, BcastAt, NoSeed, SeedAt, NoConfirm, ConfirmAt, ReqState, ReqSteps,
     NotifierState, BcastState, SeedState, ConfirmState, InFlight, AddrSteps
<1>5. ASSUME NEW t \in Txs, Core(t) PROVE TypeOK'
  <2>1. \A q \in Seq(Txs) : Published(q, t) \in Seq(Txs) BY DEF Published
  <2>2. CASE EnterMempool(t)
    BY <2>1, <2>2 DEF EnterMempool, TypeOK, InFlight, store, notify, match, confirm, told
  <2>4. CASE Mine(t)
    <3>1. slipped' \subseteq Outputs
      <4>1. \A a \in Pays[t] : <<t, a>> \in Outputs
        BY PaysType DEF Outputs
      <4> QED
        BY <2>4, <4>1 DEF Mine, TypeOK
    <3> QED
      BY <2>1, <2>4, <3>1 DEF Mine, TypeOK, InFlight, store, notify, match, confirm
  <2>3. CASE Disconnect(t)
    BY <2>1, <2>3 DEF Disconnect, Fault, TypeOK, InFlight, store, notify, match, confirm, told
  <2> QED BY <1>5, <2>2, <2>3, <2>4 DEF Core
<1> QED BY <1>1, <1>2, <1>3, <1>4, <1>5

LEMMA StepType == TypeOK /\ [Next]_vars => TypeOK'
<1> SUFFICES ASSUME TypeOK, [Next]_vars PROVE TypeOK' OBVIOUS
<1>1. CASE UNCHANGED vars
  BY <1>1 DEF vars, TypeOK, InFlight, store, notify, match, confirm, env, told
<1>2. CASE Next
  BY <1>2, RequestType, SeedType, StartUpType, BroadcastType, NotifierType, ConfirmType, EnvType DEF Next
<1> QED BY <1>1, <1>2

\* Every variable stays what the code's types and maps can hold.
THEOREM TypeCorrect == Spec => []TypeOK
BY InitType, StepType, PTL DEF Spec

-----------------------------------------------------------------------------
(* Nobody is told or sent a confirmation twice.                            *)

AtMostOne(S) == \A x, y \in S : x = y

\* A name of a goroutine that startNotifyChat has not given away yet.
Unused(g) ==
    /\ notifier[g] = NoWorker
    /\ \A b \in Bcasts : g \notin bcast[b].left
    /\ \A k \in Keys : notifies[k] # g

\* The notifies map holds the running goroutine of its key, and a goroutine is
\* started at most once under its name.
Names ==
    /\ \A g \in Workers : notifier[g].at = "none" => notifier[g] = NoWorker
    /\ \A k \in Keys : notifies[k] # None =>
          /\ notifier[notifies[k]].key = k
          /\ ~notifier[notifies[k]].stopped
    /\ \A r \in Requests : req[r].at \notin {"done", "seed", "renameConfirms"} => Unused(r)
    /\ boot.at = "list" => \A k \in Keys : Unused(k)
    /\ \A row \in boot.rows : Unused(row[1])
    /\ \A row, other \in boot.rows : row[1] = other[1] => row = other

\* Of the sightings of a transaction, one at most is past alreadyNotified.
Past(b) == bcast[b].at \in {"record", "inputs", "deliver"}
OnePass ==
    /\ \A b \in Bcasts : Past(b) => b[1] \in notified
    /\ \A b \in Bcasts : bcast[b].left # {} => bcast[b].at = "deliver"
    /\ \A b, d \in Bcasts : b[1] = d[1] /\ Past(b) /\ Past(d) => b = d

\* Where the message about t for key k can be: not yet with a channel, with a
\* channel that is still to be served, with a notifier that sends it or notes it
\* down, with a pending confirmation, with one about to be sent.
Early(t) == t \notin notified \/ \E s \in Sightings : bcast[<<t, s>>].at \in {"record", "inputs"}
LeftOf(k, t) == {g \in Workers : notifier[g].key = k /\ \E s \in Sightings : g \in bcast[<<t, s>>].left}
AtStep(step, k, t) == {g \in Workers : notifier[g].at = step /\ notifier[g].key = k /\ notifier[g].tx = t}
PendingOf(k, t) == {e \in pending : e.tx = t /\ e.chat = k[1] /\ e.addr = k[2]}
OutOf(k, t) == {e \in confirms[t].out : e.chat = k[1] /\ e.addr = k[2]}

\* It is at one place at a time, and passes them in this order.
Singles(k, t) ==
    /\ AtMostOne(LeftOf(k, t)) /\ AtMostOne(AtStep("sending", k, t)) /\ AtMostOne(AtStep("noting", k, t))
    /\ AtMostOne(PendingOf(k, t)) /\ AtMostOne(OutOf(k, t))
    /\ seen[<<k, t>>] <= 1 /\ confd[<<k, t>>] <= 1
Untold(k, t) ==
    /\ Early(t) => LeftOf(k, t) = {} /\ AtStep("sending", k, t) = {} /\ seen[<<k, t>>] = 0
    /\ LeftOf(k, t) # {} => AtStep("sending", k, t) = {} /\ seen[<<k, t>>] = 0
    /\ AtStep("sending", k, t) # {} => seen[<<k, t>>] = 0
    /\ seen[<<k, t>>] = 0 => /\ AtStep("noting", k, t) = {} /\ PendingOf(k, t) = {} /\ OutOf(k, t) = {}
                             /\ confd[<<k, t>>] = 0
Unconfirmed(k, t) ==
    /\ AtStep("noting", k, t) # {} => PendingOf(k, t) = {} /\ OutOf(k, t) = {} /\ confd[<<k, t>>] = 0
    /\ PendingOf(k, t) # {} => OutOf(k, t) = {} /\ confd[<<k, t>>] = 0
    /\ OutOf(k, t) # {} => confd[<<k, t>>] = 0
Life(k, t) == Singles(k, t) /\ Untold(k, t) /\ Unconfirmed(k, t)

ToldInv == Names /\ OnePass /\ \A k \in Keys, t \in Txs : Life(k, t)

LEMMA Keeps ==
    ASSUME NEW k, NEW t, Life(k, t),
           LeftOf(k, t)' \subseteq LeftOf(k, t),
           AtStep("sending", k, t)' \subseteq AtStep("sending", k, t),
           AtStep("noting", k, t)' \subseteq AtStep("noting", k, t),
           PendingOf(k, t)' \subseteq PendingOf(k, t), OutOf(k, t)' \subseteq OutOf(k, t),
           seen'[<<k, t>>] = seen[<<k, t>>], confd'[<<k, t>>] = confd[<<k, t>>],
           Early(t)' => Early(t)
    PROVE  Life(k, t)'
<1>1. Singles(k, t)'
  BY Zenon DEF Life, Singles, AtMostOne
<1>2. Untold(k, t)'
  BY SMT DEF Life, Untold
<1>3. Unconfirmed(k, t)'
  BY SMT DEF Life, Unconfirmed
<1> QED
  BY <1>1, <1>2, <1>3 DEF Life

\* One lemma for the steps that leave the goroutines and their messages alone.
LEMMA Elsewhere ==
    ASSUME NEW k, NEW t, Life(k, t),
           UNCHANGED <<notifier, notified, bcast, pending, confirms, seen, confd>>
    PROVE  Life(k, t)'
<1>1. /\ LeftOf(k, t)' = LeftOf(k, t) /\ PendingOf(k, t)' = PendingOf(k, t) /\ OutOf(k, t)' = OutOf(k, t)
      /\ AtStep("sending", k, t)' = AtStep("sending", k, t)
      /\ AtStep("noting", k, t)' = AtStep("noting", k, t)
      /\ Early(t)' = Early(t)
  BY DEF LeftOf, AtStep, PendingOf, OutOf, Early
<1> QED
  BY <1>1, Keeps

LEMMA StartLife ==
    ASSUME TypeOK, NEW g \in Workers, Unused(g), NEW j \in Keys, NEW al, StartNotifyChat(g, j, al),
           UNCHANGED <<notified, bcast, pending, confirms, seen, confd>>,
           NEW k \in Keys, NEW t \in Txs, Life(k, t)
    PROVE  Life(k, t)'
<1>1. notifier' = [notifier EXCEPT ![g] = NewWorker(j, al)] /\ notifier \in [Workers -> NotifierState]
  BY DEF StartNotifyChat, TypeOK
<1>2. LeftOf(k, t)' \subseteq LeftOf(k, t)
  <2>1. \A s \in Sightings : g \notin bcast[<<t, s>>].left
    BY DEF Unused, Bcasts
  <2> QED
    BY <1>1, <2>1 DEF LeftOf
<1>3. \A step \in {"sending", "noting"} : AtStep(step, k, t)' \subseteq AtStep(step, k, t)
  BY <1>1 DEF AtStep, NewWorker
<1>4. /\ PendingOf(k, t)' = PendingOf(k, t) /\ OutOf(k, t)' = OutOf(k, t) /\ Early(t)' = Early(t)
  BY DEF PendingOf, OutOf, Early
<1> QED
  BY <1>2, <1>3, <1>4, Keeps

\* What stays of a goroutine, when its record changes to one with the same key.
LEMMA StopLife ==
    ASSUME TypeOK, NEW j \in Keys, StopNotifyChat(j),
           UNCHANGED <<notified, bcast, pending, confirms, seen, confd>>,
           NEW k \in Keys, NEW t \in Txs, Life(k, t)
    PROVE  Life(k, t)'
<1>1. \A h \in Workers : /\ notifier'[h].key = notifier[h].key /\ notifier'[h].at = notifier[h].at
                         /\ notifier'[h].tx = notifier[h].tx
  BY DEF StopNotifyChat, Stopped
<1>2. LeftOf(k, t)' = LeftOf(k, t)
  BY <1>1 DEF LeftOf
<1>3. \A step \in {"sending", "noting"} : AtStep(step, k, t)' = AtStep(step, k, t)
  BY <1>1 DEF AtStep
<1>4. /\ PendingOf(k, t)' = PendingOf(k, t) /\ OutOf(k, t)' = OutOf(k, t) /\ Early(t)' = Early(t)
  BY DEF PendingOf, OutOf, Early
<1> QED
  BY <1>2, <1>3, <1>4, Keeps

\* Steps on the pending confirmations: what is removed, and what is added for a
\* transaction that is watched itself, moves no message about an address.
LEMMA PendingLife ==
    ASSUME UNCHANGED <<notifier, notified, bcast, confirms, seen, confd>>,
           NEW k, NEW t, Life(k, t),
           PendingOf(k, t)' \subseteq PendingOf(k, t)
    PROVE  Life(k, t)'
<1>1. /\ LeftOf(k, t)' = LeftOf(k, t) /\ OutOf(k, t)' = OutOf(k, t)
      /\ AtStep("sending", k, t)' = AtStep("sending", k, t)
      /\ AtStep("noting", k, t)' = AtStep("noting", k, t)
      /\ Early(t)' = Early(t)
  BY DEF LeftOf, AtStep, OutOf, Early
<1> QED
  BY <1>1, Keeps

LEMMA RequestLife ==
    ASSUME TypeOK, Names, NEW r \in Requests, Request(r), NEW k \in Keys, NEW t \in Txs, Life(k, t)
    PROVE  Life(k, t)'
<1> USE DEF store, notify, match, confirm, env, told
<1>k. k[2] # NoAddr
  BY Fresh DEF Keys
<1>1. CASE Begin(r) \/ CheckWatching(r) \/ AtWatchLimit(r) \/ StartSeed(r) \/ UnwatchScripts(r) \/ DbError(r)
  BY <1>1, Elsewhere DEF Begin, CheckWatching, AtWatchLimit, StartSeed, UnwatchScripts, DbError
<1>2. CASE AddWatch(r)
  <2>1. pending' = pending \/ pending' = AddEntry(Entry(req[r].call.target, req[r].call.chat, NoAddr, req[r].call.alias))
    BY <1>2 DEF AddWatch
  <2>2. PendingOf(k, t)' \subseteq PendingOf(k, t)
    BY <1>k, <2>1 DEF PendingOf, AddEntry, Entry
  <2> QED
    BY <1>2, <2>2, PendingLife DEF AddWatch
<1>3. CASE StartNotifier(r)
  <2>1. req[r].at \in AddrSteps /\ r \in Workers /\ Unused(r)
    BY <1>3 DEF StartNotifier, AddrSteps, Workers, Names
  <2>2. KeyOf(r) \in Keys
    BY <2>1, KeyShape
  <2> QED
    BY <1>3, <2>1, <2>2, StartLife DEF StartNotifier
<1>4. CASE StopNotifier(r)
  <2>1. KeyOf(r) \in Keys
    BY <1>4, KeyShape DEF StopNotifier, AddrSteps
  <2> QED
    BY <1>4, <2>1, StopLife DEF StopNotifier
<1>5. CASE RemoveWatch(r) \/ RemoveAddrConfirms(r)
  <2>1. pending' \subseteq pending
    BY <1>5 DEF RemoveWatch, RemoveAddrConfirms
  <2>2. PendingOf(k, t)' \subseteq PendingOf(k, t)
    BY <2>1 DEF PendingOf
  <2> QED
    BY <1>5, <2>2, PendingLife DEF RemoveWatch, RemoveAddrConfirms
<1>6. CASE SetAlias(r)
  <2>1. \A e \in pending' : e \in pending \/ e.addr = NoAddr
    BY <1>6 DEF SetAlias, Direct, Renamed, Entry
  <2>2. PendingOf(k, t)' \subseteq PendingOf(k, t)
    BY <1>k, <2>1 DEF PendingOf
  <2> QED
    BY <1>6, <2>2, PendingLife DEF SetAlias
<1>7. CASE SetAddrAlias(r)
  <2> DEFINE al == req[r].call.alias
             es == AddrConfirms(KeyOf(r))
  <2>1. pending' = (pending \ es) \cup Renamed(es, al)
    BY <1>7 DEF SetAddrAlias
  <2>2. CASE k # KeyOf(r)
    <3>1. KeyOf(r) \in Keys
      BY <1>7, KeyShape DEF SetAddrAlias, AddrSteps
    <3>2. \A e \in Renamed(es, al) : e.chat = KeyOf(r)[1] /\ e.addr = KeyOf(r)[2]
      BY DEF Renamed, AddrConfirms, Entry
    <3>3. k[1] # KeyOf(r)[1] \/ k[2] # KeyOf(r)[2]
      BY <2>2, <3>1 DEF Keys
    <3>4. PendingOf(k, t)' \subseteq PendingOf(k, t)
      BY <2>1, <3>2, <3>3 DEF PendingOf
    <3> QED
      BY <1>7, <3>4, PendingLife DEF SetAddrAlias
  <2>3. CASE k = KeyOf(r)
    <3>1. PendingOf(k, t)' = {Entry(e.tx, e.chat, e.addr, al) : e \in PendingOf(k, t)}
      <4>1. es = {e \in pending : e.chat = k[1] /\ e.addr = k[2]}
        BY <2>3 DEF AddrConfirms
      <4>2. PendingOf(k, t)' = {f \in Renamed(es, al) : f.tx = t}
        BY <2>1, <4>1 DEF PendingOf, Renamed, Entry
      <4> HIDE DEF es, al
      <4>3. PendingOf(k, t) = {e \in es : e.tx = t}
        BY <4>1 DEF PendingOf
      <4> QED
        BY <4>2, <4>3 DEF Renamed, Entry
    <3>2. AtMostOne(PendingOf(k, t)) => AtMostOne(PendingOf(k, t)')
      BY <3>1 DEF AtMostOne
    <3>3. PendingOf(k, t) = {} <=> PendingOf(k, t)' = {}
      BY <3>1
    <3>4. /\ LeftOf(k, t)' = LeftOf(k, t) /\ OutOf(k, t)' = OutOf(k, t)
          /\ AtStep("sending", k, t)' = AtStep("sending", k, t)
          /\ AtStep("noting", k, t)' = AtStep("noting", k, t)
          /\ Early(t)' = Early(t) /\ seen' = seen /\ confd' = confd
      BY <1>7 DEF SetAddrAlias, LeftOf, AtStep, OutOf, Early
    <3>5. Singles(k, t)'
      BY <3>2, <3>4, Zenon DEF Life, Singles
    <3> QED
      BY <3>3, <3>4, <3>5 DEF Life, Untold, Unconfirmed
  <2> QED
    BY <2>2, <2>3
<1> QED
  BY <1>1, <1>2, <1>3, <1>4, <1>5, <1>6, <1>7 DEF Request

LEMMA BroadcastLife ==
    ASSUME TypeOK, ~Expiring, Names, OnePass, NEW b \in Bcasts, Broadcast(b),
           NEW k \in Keys, NEW t \in Txs, Life(k, t)
    PROVE  Life(k, t)'
<1> USE DEF store, match, confirm, env, told
<1>b. /\ b = <<b[1], b[2]>> /\ b[1] \in Txs /\ b[2] \in Sightings /\ bcast \in [Bcasts -> BcastState]
      /\ \A s \in Sightings : <<t, s>> \in Bcasts
  BY DEF Bcasts, TypeOK
<1>1. CASE AlreadyNotified(b)
  <2>1. \A d \in Bcasts : bcast'[d].left \subseteq bcast[d].left
    BY <1>1, <1>b DEF AlreadyNotified, NoBcast, BcastAt
  <2>2. LeftOf(k, t)' \subseteq LeftOf(k, t)
    BY <1>1, <1>b, <2>1 DEF AlreadyNotified, LeftOf
  <2>3. Early(t)' => Early(t)
    <3>1. notified \subseteq notified'
      BY <1>1 DEF AlreadyNotified
    <3>2. \A s \in Sightings : t \in notified /\ bcast'[<<t, s>>].at \in {"record", "inputs"}
                                => bcast[<<t, s>>].at \in {"record", "inputs"}
      <4>1. SUFFICES ASSUME NEW s \in Sightings, t \in notified, <<t, s>> = b
                     PROVE  bcast'[<<t, s>>].at \notin {"record", "inputs"}
        BY <1>1, <1>b DEF AlreadyNotified
      <4>2. b[1] \in notified
        BY <4>1
      <4>3. bcast'[b] = NoBcast
        BY <1>1, <1>b, <4>2 DEF AlreadyNotified
      <4> QED
        BY <4>1, <4>3 DEF NoBcast, BcastAt
    <3> QED
      BY <3>1, <3>2 DEF Early
  <2>4. \A step \in {"sending", "noting"} : AtStep(step, k, t)' = AtStep(step, k, t)
    BY <1>1 DEF AlreadyNotified, AtStep
  <2>5. PendingOf(k, t)' = PendingOf(k, t) /\ OutOf(k, t)' = OutOf(k, t)
    BY <1>1 DEF AlreadyNotified, PendingOf, OutOf
  <2> QED
    BY <1>1, <2>2, <2>3, <2>4, <2>5, Keeps DEF AlreadyNotified
<1>2. CASE RecordOutpoints(b)
  <2>1. /\ bcast' = [bcast EXCEPT ![b] = BcastAt("inputs", FALSE, {})] /\ bcast[b].at = "record"
        /\ UNCHANGED <<notifier, notified, pending, confirms, seen, confd>>
    BY <1>2 DEF RecordOutpoints
  <2>2. \A d \in Bcasts : bcast'[d].left \subseteq bcast[d].left
    BY <2>1, <1>b DEF BcastAt
  <2>3. LeftOf(k, t)' \subseteq LeftOf(k, t)
    BY <1>b, <2>1, <2>2 DEF LeftOf
  <2>4. \A s \in Sightings : bcast'[<<t, s>>].at \in {"record", "inputs"}
                              => bcast[<<t, s>>].at \in {"record", "inputs"}
    BY <1>b, <2>1 DEF BcastAt
  <2>5. Early(t)' => Early(t)
    BY <2>1, <2>4 DEF Early
  <2>6. \A step \in {"sending", "noting"} : AtStep(step, k, t)' = AtStep(step, k, t)
    BY <2>1 DEF AtStep
  <2>7. PendingOf(k, t)' = PendingOf(k, t) /\ OutOf(k, t)' = OutOf(k, t)
    BY <2>1 DEF PendingOf, OutOf
  <2> QED
    BY <2>1, <2>3, <2>5, <2>6, <2>7, Keeps
<1>3. CASE SnapshotChannels(b)
  <2> DEFINE to == {notifies[j] : j \in Keys} \ {None}
  <2>1. PICK sent \in BOOLEAN : bcast' = [bcast EXCEPT ![b] = IF to = {} THEN NoBcast ELSE BcastAt("deliver", sent, to)]
    BY <1>3 DEF SnapshotChannels
  <2>2. bcast[b].at = "inputs" /\ UNCHANGED <<notifier, notified, pending, confirms, seen, confd>>
    BY <1>3 DEF SnapshotChannels
  <2>3. \A step \in {"sending", "noting"} : AtStep(step, k, t)' = AtStep(step, k, t)
    BY <2>2 DEF AtStep
  <2>4. PendingOf(k, t)' = PendingOf(k, t) /\ OutOf(k, t)' = OutOf(k, t)
    BY <2>2 DEF PendingOf, OutOf
  <2>5. bcast'[b].at \notin {"record", "inputs"} /\ bcast'[b].left = to
    BY <1>b, <2>1 DEF NoBcast, BcastAt
  <2>6. \A d \in Bcasts : d # b => bcast'[d] = bcast[d]
    BY <1>b, <2>1
  <2>7. CASE t # b[1]
    <3>1. \A s \in Sightings : bcast'[<<t, s>>] = bcast[<<t, s>>]
      BY <1>b, <2>6, <2>7
    <3>2. LeftOf(k, t)' = LeftOf(k, t) /\ Early(t)' = Early(t)
      BY <2>2, <3>1 DEF LeftOf, Early
    <3> QED
      BY <2>2, <2>3, <2>4, <3>2, Keeps
  <2>8. CASE t = b[1]
    <3>1. Early(t)
      BY <1>b, <2>2, <2>8 DEF Early
    <3>2. \A d \in Bcasts : d[1] = t /\ d # b => ~Past(d) /\ bcast[d].left = {}
      BY <2>2, <2>8 DEF OnePass, Past
    <3>3. \A s \in Sightings : /\ bcast'[<<t, s>>].at \notin {"record", "inputs"}
                               /\ bcast'[<<t, s>>].left \subseteq to
      BY <1>b, <2>5, <2>6, <3>2 DEF Past
    <3>4. ~Early(t)'
      BY <2>2, <2>8, <3>3 DEF Early, OnePass, Past
    <3>5. LeftOf(k, t)' \subseteq {notifies[k]}
      <4>1. SUFFICES ASSUME NEW g \in Workers, notifier[g].key = k, g \in to PROVE g = notifies[k]
        BY <2>2, <3>3 DEF LeftOf
      <4>2. PICK j \in Keys : g = notifies[j] /\ notifies[j] # None
        BY <4>1
      <4> QED
        BY <4>1, <4>2 DEF Names
    <3>6. AtStep("sending", k, t) = {} /\ seen[<<k, t>>] = 0
      BY <3>1 DEF Life, Untold
    <3>7. AtMostOne(LeftOf(k, t)')
      BY <3>5, Zenon DEF AtMostOne
    <3>8. Singles(k, t)'
      BY <2>2, <2>3, <2>4, <3>7, Zenon DEF Life, Singles
    <3> QED
      BY <2>2, <2>3, <2>4, <3>4, <3>6, <3>8 DEF Life, Untold, Unconfirmed
  <2> QED
    BY <2>7, <2>8
<1>4. ASSUME NEW g \in Workers, Deliver(b, g) PROVE Life(k, t)'
  <2>1. /\ g \in bcast[b].left /\ notifier[g].at = "idle" /\ bcast' = Without(b, g)
        /\ \/ notifier' = [notifier EXCEPT ![g] = WorkerAt(notifier[g], "sending", b[1])]
           \/ notifier' = notifier
        /\ UNCHANGED <<notified, pending, confirms, seen, confd>>
    BY <1>4 DEF Deliver
  <2>2. /\ \A d \in Bcasts : d # b => bcast'[d] = bcast[d]
        /\ bcast'[b].left = bcast[b].left \ {g} /\ bcast'[b].at \notin {"record", "inputs"}
        /\ bcast[b].at = "deliver"
    BY <1>b, <2>1 DEF Without, NoBcast, BcastAt, OnePass
  <2>3. notifier \in [Workers -> NotifierState]
    BY DEF TypeOK
  <2>4. \A h \in Workers : notifier'[h].key = notifier[h].key
    BY <2>1, <2>3 DEF WorkerAt
  <2>5. \A s \in Sightings : /\ bcast'[<<t, s>>].left \subseteq bcast[<<t, s>>].left
                             /\ bcast'[<<t, s>>].at \in {"record", "inputs"} => bcast[<<t, s>>].at \in {"record", "inputs"}
    BY <1>b, <2>2
  <2>6. LeftOf(k, t)' \subseteq LeftOf(k, t) /\ (Early(t)' => Early(t))
    <3>1. LeftOf(k, t)' \subseteq LeftOf(k, t)
      BY <2>4, <2>5 DEF LeftOf
    <3>2. Early(t)' => Early(t)
      BY <2>1, <2>5, Zenon DEF Early
    <3> QED
      BY <3>1, <3>2
  <2>7. AtStep("noting", k, t)' \subseteq AtStep("noting", k, t)
    BY <2>1, <2>3 DEF AtStep, WorkerAt
  <2>8. PendingOf(k, t)' = PendingOf(k, t) /\ OutOf(k, t)' = OutOf(k, t)
    BY <2>1 DEF PendingOf, OutOf
  <2>9. CASE notifier' = notifier \/ notifier[g].key # k \/ b[1] # t
    <3>1. AtStep("sending", k, t)' \subseteq AtStep("sending", k, t)
      BY <2>1, <2>3, <2>9 DEF AtStep, WorkerAt
    <3> QED
      BY <2>1, <2>6, <2>7, <2>8, <3>1, Keeps
  <2>10. CASE notifier' # notifier /\ notifier[g].key = k /\ b[1] = t
    <3>1. AtStep("sending", k, t)' \subseteq AtStep("sending", k, t) \cup {g}
      BY <2>1, <2>3 DEF AtStep, WorkerAt
    <3>2. g \in LeftOf(k, t)
      BY <1>b, <2>1, <2>10 DEF LeftOf
    <3>3. AtStep("sending", k, t) = {} /\ seen[<<k, t>>] = 0 /\ ~Early(t)
      BY <3>2 DEF Life, Untold
    <3>4. LeftOf(k, t)' = {}
      <4>1. LeftOf(k, t) \subseteq {g}
        BY <3>2, Zenon DEF Life, Singles, AtMostOne
      <4>2. g \notin LeftOf(k, t)'
        <5>1. \A s \in Sightings : <<t, s>> # b => bcast[<<t, s>>].left = {}
          BY <1>b, <2>2, <2>10 DEF OnePass, Past
        <5>2. \A s \in Sightings : g \notin bcast'[<<t, s>>].left
          BY <1>b, <2>2, <5>1
        <5> QED
          BY <5>2 DEF LeftOf
      <4> QED
        BY <2>6, <4>1, <4>2
    <3>5. AtMostOne(AtStep("sending", k, t)') /\ AtMostOne(LeftOf(k, t)')
      BY <3>1, <3>3, <3>4 DEF AtMostOne
    <3>6. AtMostOne(AtStep("noting", k, t)')
      BY <2>7, Zenon DEF AtMostOne, Life, Singles
    <3>7. Singles(k, t)'
      BY <2>1, <2>8, <3>5, <3>6 DEF Life, Singles
    <3> QED
      BY <2>1, <2>6, <2>7, <2>8, <3>3, <3>4, <3>7 DEF Life, Untold, Unconfirmed
  <2> QED
    BY <2>9, <2>10
<1>5. ASSUME NEW g \in Workers, GiveUp(b, g) PROVE Life(k, t)'
  <2>1. bcast' = Without(b, g) /\ UNCHANGED <<notifier, notified, pending, confirms, seen, confd>>
        /\ g \in bcast[b].left
    BY <1>5 DEF GiveUp
  <2>2. /\ \A d \in Bcasts : d # b => bcast'[d] = bcast[d]
        /\ bcast'[b].left = bcast[b].left \ {g} /\ bcast'[b].at \notin {"record", "inputs"}
    BY <1>b, <2>1 DEF Without, NoBcast, BcastAt
  <2>3. \A s \in Sightings : /\ bcast'[<<t, s>>].left \subseteq bcast[<<t, s>>].left
                             /\ bcast'[<<t, s>>].at \in {"record", "inputs"} => bcast[<<t, s>>].at \in {"record", "inputs"}
    BY <1>b, <2>2
  <2>4. LeftOf(k, t)' \subseteq LeftOf(k, t) /\ (Early(t)' => Early(t))
    <3>1. LeftOf(k, t)' \subseteq LeftOf(k, t)
      BY <2>1, <2>3 DEF LeftOf
    <3>2. Early(t)' => Early(t)
      BY <2>1, <2>3, Zenon DEF Early
    <3> QED
      BY <3>1, <3>2
  <2>5. \A step \in {"sending", "noting"} : AtStep(step, k, t)' = AtStep(step, k, t)
    BY <2>1 DEF AtStep
  <2>6. PendingOf(k, t)' = PendingOf(k, t) /\ OutOf(k, t)' = OutOf(k, t)
    BY <2>1 DEF PendingOf, OutOf
  <2> QED
    BY <2>1, <2>4, <2>5, <2>6, Keeps
<1> QED
  BY <1>1, <1>2, <1>3, <1>4, <1>5 DEF Broadcast

LEMMA NotifierLife ==
    ASSUME TypeOK, NEW g \in Workers, Notifier(g), NEW k \in Keys, NEW t \in Txs, Life(k, t)
    PROVE  Life(k, t)'
<1> USE DEF store, match, confirm, env, told
<1>n. notifier \in [Workers -> NotifierState] /\ seen \in [Keys \X Txs -> Nat]
  BY DEF TypeOK
<1>1. CASE Send(g)
  <2>1. /\ notifier[g].at = "sending"
        /\ seen' = [seen EXCEPT ![<<notifier[g].key, notifier[g].tx>>] = @ + 1]
        /\ notifier' = [notifier EXCEPT ![g] = WorkerAt(notifier[g], "noting", notifier[g].tx)]
        /\ UNCHANGED <<notified, bcast, pending, confirms, confd>>
    BY <1>1 DEF Send
  <2>2. LeftOf(k, t)' \subseteq LeftOf(k, t)
    BY <1>n, <2>1 DEF LeftOf, WorkerAt
  <2>3. Early(t)' = Early(t)
    BY <2>1 DEF Early
  <2>4. PendingOf(k, t)' = PendingOf(k, t) /\ OutOf(k, t)' = OutOf(k, t)
    BY <2>1 DEF PendingOf, OutOf
  <2>5. AtStep("sending", k, t)' \subseteq AtStep("sending", k, t) \ {g}
    BY <1>n, <2>1 DEF AtStep, WorkerAt
  <2>6. AtStep("noting", k, t)' \subseteq AtStep("noting", k, t) \cup {g}
    BY <1>n, <2>1 DEF AtStep, WorkerAt
  <2>7. CASE notifier[g].key # k \/ notifier[g].tx # t
    <3>1. AtStep("noting", k, t)' \subseteq AtStep("noting", k, t)
      BY <1>n, <2>1, <2>7 DEF AtStep, WorkerAt
    <3>2. seen'[<<k, t>>] = seen[<<k, t>>]
      BY <1>n, <2>1, <2>7
    <3> QED
      BY <2>1, <2>2, <2>3, <2>4, <2>5, <3>1, <3>2, Keeps
  <2>8. CASE notifier[g].key = k /\ notifier[g].tx = t
    <3>1. g \in AtStep("sending", k, t)
      BY <2>1, <2>8 DEF AtStep
    <3>2. seen[<<k, t>>] = 0 /\ LeftOf(k, t) = {} /\ ~Early(t)
      BY <3>1 DEF Life, Untold
    <3>3. seen'[<<k, t>>] = 1
      BY <1>n, <2>1, <2>8, <3>2
    <3>4. AtStep("sending", k, t)' = {}
      BY <2>5, <3>1, Zenon DEF Life, Singles, AtMostOne
    <3>5. /\ AtStep("noting", k, t) = {} /\ PendingOf(k, t) = {} /\ OutOf(k, t) = {}
          /\ confd[<<k, t>>] = 0
      BY <3>2 DEF Life, Untold
    <3>6. AtMostOne(AtStep("noting", k, t)')
      BY <2>6, <3>5 DEF AtMostOne
    <3>7. LeftOf(k, t)' = {} /\ ~Early(t)' /\ PendingOf(k, t)' = {} /\ OutOf(k, t)' = {} /\ confd'[<<k, t>>] = 0
      BY <2>1, <2>2, <2>3, <2>4, <3>2, <3>5
    <3>8. Singles(k, t)'
      BY <3>3, <3>4, <3>6, <3>7 DEF Singles, AtMostOne
    <3> QED
      BY <3>3, <3>4, <3>7, <3>8 DEF Life, Untold, Unconfirmed
  <2> QED
    BY <2>7, <2>8
<1>2. CASE AddAddrConfirm(g)
  <2> DEFINE new == Entry(notifier[g].tx, notifier[g].key[1], notifier[g].key[2], notifier[g].alias)
  <2>1. /\ notifier[g].at = "noting" /\ pending' = AddEntry(new)
        /\ notifier' = [notifier EXCEPT ![g] = WorkerAt(notifier[g], "idle", None)]
        /\ UNCHANGED <<notified, bcast, confirms, seen, confd>>
    BY <1>2 DEF AddAddrConfirm
  <2>2. LeftOf(k, t)' \subseteq LeftOf(k, t)
    BY <1>n, <2>1 DEF LeftOf, WorkerAt
  <2>3. Early(t)' = Early(t) /\ OutOf(k, t)' = OutOf(k, t)
    BY <2>1 DEF Early, OutOf
  <2>4. AtStep("sending", k, t)' \subseteq AtStep("sending", k, t)
    BY <1>n, <2>1 DEF AtStep, WorkerAt
  <2>5. AtStep("noting", k, t)' \subseteq AtStep("noting", k, t) \ {g}
    BY <1>n, <2>1 DEF AtStep, WorkerAt
  <2>6. PendingOf(k, t)' \subseteq PendingOf(k, t) \cup {new}
    BY <2>1 DEF PendingOf, AddEntry
  <2>k. notifier[g].key \in Keys
    BY <2>1 DEF TypeOK
  <2>7. CASE notifier[g].key # k \/ notifier[g].tx # t
    <3>1. k[1] # new.chat \/ k[2] # new.addr \/ t # new.tx
      BY <2>7, <2>k DEF Keys, Entry
    <3>2. PendingOf(k, t)' \subseteq PendingOf(k, t)
      BY <2>6, <3>1 DEF PendingOf
    <3> QED
      BY <2>1, <2>2, <2>3, <2>4, <2>5, <3>2, Keeps
  <2>8. CASE notifier[g].key = k /\ notifier[g].tx = t
    <3>1. g \in AtStep("noting", k, t)
      BY <2>1, <2>8 DEF AtStep
    <3>2. PendingOf(k, t) = {} /\ OutOf(k, t) = {} /\ confd[<<k, t>>] = 0 /\ seen[<<k, t>>] # 0
      BY <3>1 DEF Life, Untold, Unconfirmed
    <3>3. LeftOf(k, t) = {} /\ AtStep("sending", k, t) = {} /\ ~Early(t)
      BY <3>2 DEF Life, Untold
    <3>4. AtStep("noting", k, t)' = {}
      BY <2>5, <3>1, Zenon DEF Life, Singles, AtMostOne
    <3>5. AtMostOne(PendingOf(k, t)')
      BY <2>6, <3>2 DEF AtMostOne
    <3>6. LeftOf(k, t)' = {} /\ AtStep("sending", k, t)' = {} /\ ~Early(t)' /\ OutOf(k, t)' = {}
          /\ confd'[<<k, t>>] = 0 /\ seen'[<<k, t>>] = seen[<<k, t>>] /\ seen[<<k, t>>] <= 1
      BY <2>1, <2>2, <2>3, <2>4, <3>2, <3>3 DEF Life, Singles
    <3>7. Singles(k, t)'
      BY <3>4, <3>5, <3>6 DEF Singles, AtMostOne
    <3> QED
      BY <3>2, <3>4, <3>6, <3>7 DEF Life, Untold, Unconfirmed
  <2> QED
    BY <2>7, <2>8
<1>3. CASE Exit(g)
  <2>1. notifier' = [notifier EXCEPT ![g] = NoWorker]
        /\ UNCHANGED <<notified, bcast, pending, confirms, seen, confd>>
    BY <1>3 DEF Exit
  <2>2. LeftOf(k, t)' \subseteq LeftOf(k, t)
    BY <1>n, <2>1, Fresh DEF LeftOf, NoWorker
  <2>3. \A step \in {"sending", "noting"} : AtStep(step, k, t)' \subseteq AtStep(step, k, t)
    BY <1>n, <2>1 DEF AtStep, NoWorker
  <2>4. PendingOf(k, t)' = PendingOf(k, t) /\ OutOf(k, t)' = OutOf(k, t) /\ Early(t)' = Early(t)
    BY <2>1 DEF PendingOf, OutOf, Early
  <2> QED
    BY <2>1, <2>2, <2>3, <2>4, Keeps
<1> QED
  BY <1>1, <1>2, <1>3 DEF Notifier

LEMMA ConfirmLife ==
    ASSUME TypeOK, NEW u \in Txs, ProcessConfirms(u), NEW k \in Keys, NEW t \in Txs, Life(k, t)
    PROVE  Life(k, t)'
<1> USE DEF store, notify, match, env, told
<1>c. confirms \in [Txs -> ConfirmState] /\ confd \in [Owners \X Txs -> Nat] /\ <<k, t>> \in Owners \X Txs
  BY DEF TypeOK, Owners, Keys
<1>s. ASSUME UNCHANGED <<notifier, notified, bcast, seen>>
      PROVE  /\ LeftOf(k, t)' = LeftOf(k, t) /\ Early(t)' = Early(t) /\ seen'[<<k, t>>] = seen[<<k, t>>]
             /\ AtStep("sending", k, t)' = AtStep("sending", k, t)
             /\ AtStep("noting", k, t)' = AtStep("noting", k, t)
  BY <1>s DEF LeftOf, AtStep, Early
<1>1. CASE AnyPending(u)
  <2>1. OutOf(k, t)' \subseteq OutOf(k, t)
    BY <1>1, <1>c DEF AnyPending, OutOf, NoConfirm, ConfirmAt
  <2>2. PendingOf(k, t)' = PendingOf(k, t)
    BY <1>1 DEF AnyPending, PendingOf
  <2> QED
    BY <1>1, <1>s, <2>1, <2>2, Keeps DEF AnyPending
<1>2. CASE TakeConfirms(u)
  <2> DEFINE taken == {e \in pending : e.tx = u}
  <2>1. UNCHANGED <<notifier, notified, bcast, seen, confd>>
    BY <1>2 DEF TakeConfirms
  <2>2. \/ /\ pending' = pending \ taken
           /\ confirms' = [confirms EXCEPT ![u] = IF taken = {} THEN NoConfirm ELSE ConfirmAt("send", taken)]
        \/ pending' = pending /\ confirms' = [confirms EXCEPT ![u] = NoConfirm]
    BY <1>2 DEF TakeConfirms
  <2>3. CASE u # t \/ (pending' = pending /\ confirms' = [confirms EXCEPT ![u] = NoConfirm])
    <3>1. OutOf(k, t)' \subseteq OutOf(k, t)
      BY <1>c, <2>2, <2>3 DEF OutOf, NoConfirm, ConfirmAt
    <3>2. PendingOf(k, t)' \subseteq PendingOf(k, t)
      BY <2>2, <2>3 DEF PendingOf
    <3> QED
      BY <1>s, <2>1, <3>1, <3>2, Keeps
  <2>4. CASE /\ u = t /\ pending' = pending \ taken
             /\ confirms' = [confirms EXCEPT ![u] = IF taken = {} THEN NoConfirm ELSE ConfirmAt("send", taken)]
    <3>1. PendingOf(k, t)' = {}
      BY <2>4 DEF PendingOf
    <3>2. confirms'[t].out = taken
      BY <1>c, <2>4 DEF NoConfirm, ConfirmAt
    <3>3. OutOf(k, t)' = PendingOf(k, t)
      BY <2>4, <3>2 DEF OutOf, PendingOf
    <3>4. Singles(k, t)'
      BY <1>s, <2>1, <3>1, <3>3 DEF Life, Singles, AtMostOne
    <3>5. Untold(k, t)'
      BY <1>s, <2>1, <3>1, <3>3 DEF Life, Untold
    <3>6. Unconfirmed(k, t)'
      BY <1>s, <2>1, <3>1, <3>3 DEF Life, Unconfirmed
    <3> QED
      BY <3>4, <3>5, <3>6 DEF Life
  <2> QED
    BY <2>2, <2>3, <2>4, Zenon
<1>3. CASE SendConfirm(u)
  <2>1. PICK e \in confirms[u].out :
          /\ confd' = [confd EXCEPT ![<<<<e.chat, e.addr>>, u>>] = @ + 1]
          /\ confirms' = [confirms EXCEPT ![u] = IF confirms[u].out = {e} THEN NoConfirm
                                                 ELSE ConfirmAt("send", confirms[u].out \ {e})]
    BY <1>3 DEF SendConfirm
  <2>2. UNCHANGED <<notifier, notified, bcast, seen, pending>>
    BY <1>3 DEF SendConfirm
  <2>3. PendingOf(k, t)' = PendingOf(k, t)
    BY <2>2 DEF PendingOf
  <2>4. confirms'[u].out = confirms[u].out \ {e} /\ \A w \in Txs : w # u => confirms'[w] = confirms[w]
    BY <1>c, <2>1 DEF NoConfirm, ConfirmAt
  <2>5. OutOf(k, t)' \subseteq OutOf(k, t) /\ (u = t => e \notin OutOf(k, t)')
    BY <2>4 DEF OutOf
  <2>6. CASE <<<<e.chat, e.addr>>, u>> # <<k, t>>
    <3>1. confd'[<<k, t>>] = confd[<<k, t>>]
      BY <1>c, <2>1, <2>6
    <3> QED
      BY <1>s, <2>2, <2>3, <2>5, <3>1, Keeps
  <2>7. CASE <<<<e.chat, e.addr>>, u>> = <<k, t>>
    <3>1. e \in OutOf(k, t)
      BY <2>1, <2>7 DEF OutOf
    <3>2. /\ confd[<<k, t>>] = 0 /\ PendingOf(k, t) = {} /\ AtStep("noting", k, t) = {}
          /\ seen[<<k, t>>] # 0
      BY <3>1 DEF Life, Untold, Unconfirmed
    <3>3. confd'[<<k, t>>] = 1
      <4>1. confd' = [confd EXCEPT ![<<k, t>>] = confd[<<k, t>>] + 1]
        BY <2>1, <2>7, Zenon
      <4> QED
        BY <1>c, <3>2, <4>1
    <3>4. OutOf(k, t)' = {}
      BY <2>5, <2>7, <3>1, Zenon DEF Life, Singles, AtMostOne
    <3>5. Singles(k, t)'
      BY <1>s, <2>2, <2>3, <3>3, <3>4 DEF Life, Singles, AtMostOne
    <3>6. Untold(k, t)'
      BY <1>s, <2>2, <2>3, <3>2, <3>4 DEF Life, Untold
    <3>7. Unconfirmed(k, t)'
      BY <1>s, <2>2, <2>3, <3>2, <3>4 DEF Life, Unconfirmed
    <3> QED
      BY <3>5, <3>6, <3>7 DEF Life
  <2> QED
    BY <2>6, <2>7
<1> QED
  BY <1>1, <1>2, <1>3 DEF ProcessConfirms

LEMMA EnvLife ==
    ASSUME TypeOK, ReceiveTx \/ ReceiveBlock \/ LoseMessage \/ Restart \/ \E u \in Txs : Core(u),
           NEW k \in Keys, NEW t \in Txs, Life(k, t)
    PROVE  Life(k, t)'
<1> USE DEF store, notify, match, confirm, told
<1>1. CASE ReceiveTx
  <2>1. UNCHANGED <<notifier, notified, pending, confirms, seen, confd>> /\ Head(rawq) \in Txs
    BY <1>1 DEF ReceiveTx, TypeOK
  <2>2. \A d \in Bcasts : \/ bcast'[d] = bcast[d]
                          \/ bcast'[d].left = {} /\ bcast'[d].at = "decode"
    BY <1>1 DEF ReceiveTx, BcastAt, TypeOK
  <2>3. \A s \in Sightings : <<t, s>> \in Bcasts
    BY DEF Bcasts
  <2>4. LeftOf(k, t)' \subseteq LeftOf(k, t)
    BY <2>1, <2>2, <2>3 DEF LeftOf
  <2>5. Early(t)' => Early(t)
    BY <2>1, <2>2, <2>3 DEF Early
  <2>6. \A step \in {"sending", "noting"} : AtStep(step, k, t)' = AtStep(step, k, t)
    BY <2>1 DEF AtStep
  <2>7. PendingOf(k, t)' = PendingOf(k, t) /\ OutOf(k, t)' = OutOf(k, t)
    BY <2>1 DEF PendingOf, OutOf
  <2> QED
    BY <2>1, <2>4, <2>5, <2>6, <2>7, Keeps
<1>2. CASE ReceiveBlock
  <2>1. UNCHANGED <<notifier, notified, bcast, pending, seen, confd>>
    BY <1>2 DEF ReceiveBlock
  <2>2. OutOf(k, t)' \subseteq OutOf(k, t)
    BY <1>2 DEF ReceiveBlock, OutOf, ConfirmAt, TypeOK
  <2>3. /\ LeftOf(k, t)' = LeftOf(k, t) /\ Early(t)' = Early(t) /\ PendingOf(k, t)' = PendingOf(k, t)
        /\ AtStep("sending", k, t)' = AtStep("sending", k, t)
        /\ AtStep("noting", k, t)' = AtStep("noting", k, t)
    BY <2>1 DEF LeftOf, Early, PendingOf, AtStep
  <2> QED
    BY <2>1, <2>2, <2>3, Keeps
<1>3. CASE LoseMessage
  BY <1>3, Elsewhere DEF LoseMessage
<1>4. CASE \E u \in Txs : Core(u)
  BY <1>4, Elsewhere DEF Core, EnterMempool, Mine, Disconnect
<1>5. CASE Restart
  <2>1. /\ LeftOf(k, t)' = {} /\ AtStep("sending", k, t)' = {} /\ AtStep("noting", k, t)' = {}
    BY <1>5 DEF Restart, LeftOf, AtStep, NoBcast, BcastAt, NoWorker, Bcasts
  <2>2. PendingOf(k, t)' = {} /\ OutOf(k, t)' = {}
    BY <1>5 DEF Restart, PendingOf, OutOf, NoConfirm, ConfirmAt
  <2>3. seen'[<<k, t>>] = 0 /\ confd'[<<k, t>>] = 0
    BY <1>5 DEF Restart, Owners, Keys
  <2> QED
    BY <2>1, <2>2, <2>3 DEF Life, Singles, Untold, Unconfirmed, AtMostOne
<1> QED
  BY <1>1, <1>2, <1>3, <1>4, <1>5

\* A step that starts and stops no goroutine and takes no channel to deliver to.
LEMMA NamesKept ==
    ASSUME Names, UNCHANGED <<notifies, notifier, boot>>,
           \A b \in Bcasts : bcast'[b].left \subseteq bcast[b].left,
           \A q \in Requests : req'[q].at \in {"done", "seed", "renameConfirms"} \/ req'[q].at = req[q].at
                               \/ req[q].at \notin {"done", "seed", "renameConfirms"}
    PROVE  Names'
<1>1. \A g : Unused(g) => Unused(g)'
  BY Zenon DEF Unused
<1> QED
  BY <1>1 DEF Names

LEMMA RequestNames == ASSUME TypeOK, Names, NEW r \in Requests, Request(r) PROVE Names'
<1> USE DEF store, notify, match, confirm, env, told
<1>q. req \in [Requests -> ReqState] /\ notifier \in [Workers -> NotifierState]
  BY DEF TypeOK
<1>1. CASE StartNotifier(r)
  <2>1. /\ req[r].at = "start" /\ StartNotifyChat(r, KeyOf(r), req[r].call.alias)
        /\ Goto(r, IF req[r].call.kind = "rename" THEN "renameConfirms" ELSE "seed")
        /\ UNCHANGED <<bcast, boot>>
    BY <1>1 DEF StartNotifier
  <2>2. r \in Workers /\ KeyOf(r) \in Keys /\ Unused(r) /\ r \notin Keys
    BY <2>1, KeyShape, Fresh DEF AddrSteps, Workers, Names
  <2>3. notifies' = [notifies EXCEPT ![KeyOf(r)] = r] /\ notifies \in [Keys -> Workers \cup {None}]
    BY <2>1 DEF StartNotifyChat, TypeOK
  <2>4. notifier' = [notifier EXCEPT ![r] = NewWorker(KeyOf(r), req[r].call.alias)]
    BY <2>1 DEF StartNotifyChat
  <2>5. \A g \in Workers : g # r /\ Unused(g) => Unused(g)'
    BY <1>q, <2>1, <2>3, <2>4 DEF Unused
  <2>6. req'[r].at \in {"done", "seed", "renameConfirms"} /\ \A q \in Requests : q # r => req'[q] = req[q]
    BY <1>q, <2>1 DEF Goto
  <2>7. \A q \in Requests : req'[q].at \notin {"done", "seed", "renameConfirms"} => Unused(q)'
    BY <2>5, <2>6 DEF Names, Workers
  <2>8. \A g \in Workers : notifier'[g].at = "none" => notifier'[g] = NoWorker
    BY <1>q, <2>2, <2>4 DEF Names, NewWorker
  <2>9. \A k \in Keys : notifies'[k] # None => notifier'[notifies'[k]].key = k /\ ~notifier'[notifies'[k]].stopped
    BY <1>q, <2>2, <2>3, <2>4 DEF Names, NewWorker, Unused
  <2>10. \A row \in boot.rows : row[1] \in Keys
    BY DEF TypeOK
  <2>11. /\ boot.at = "list" => \A k \in Keys : Unused(k)'
         /\ \A row \in boot.rows : Unused(row[1])'
    BY <2>2, <2>5, <2>10 DEF Names, Workers
  <2> QED
    BY <2>1, <2>7, <2>8, <2>9, <2>11 DEF Names
<1>2. CASE StopNotifier(r)
  <2>1. /\ req[r].at = "stop" /\ StopNotifyChat(KeyOf(r))
        /\ Goto(r, IF req[r].call.kind = "rename" THEN "start" ELSE "confirms")
        /\ UNCHANGED <<bcast, boot>>
    BY <1>2 DEF StopNotifier
  <2>2. KeyOf(r) \in Keys
    BY <2>1, KeyShape DEF AddrSteps
  <2>3. notifies' = [notifies EXCEPT ![KeyOf(r)] = None] /\ notifies \in [Keys -> Workers \cup {None}]
    BY <2>1 DEF StopNotifyChat, TypeOK
  <2>4. /\ DOMAIN notifier' = Workers
        /\ \A g \in Workers : notifier'[g] = IF g = notifies[KeyOf(r)] THEN Stopped(notifier[g]) ELSE notifier[g]
    BY <2>1 DEF StopNotifyChat
  <2>5. \A k \in Keys : k # KeyOf(r) /\ notifies[k] # None => notifies[k] # notifies[KeyOf(r)]
    BY <2>2 DEF Names
  <2>6. \A g \in Workers : Unused(g) => Unused(g)'
    BY <2>1, <2>2, <2>3, <2>4, Fresh DEF Unused, Workers
  <2>7. \A q \in Requests : req'[q].at \notin {"done", "seed", "renameConfirms"} => Unused(q)'
    BY <1>q, <2>1, <2>6 DEF Names, Workers, Goto
  <2>8. \A g \in Workers : notifier'[g].at = "none" => notifier'[g] = NoWorker
    <3>1. SUFFICES ASSUME NEW g \in Workers, g = notifies[KeyOf(r)], notifier[g].at = "none" PROVE FALSE
      BY <2>4 DEF Names, Stopped
    <3>2. notifier[g].key = KeyOf(r) /\ notifier[g] = NoWorker
      BY <2>2, <3>1, Fresh DEF Names, Workers
    <3> QED
      BY <2>2, <3>2, Fresh DEF NoWorker
  <2>9. \A k \in Keys : notifies'[k] # None => notifier'[notifies'[k]].key = k /\ ~notifier'[notifies'[k]].stopped
    BY <2>3, <2>4, <2>5 DEF Names
  <2>10. /\ boot.at = "list" => \A k \in Keys : Unused(k)'
         /\ \A row \in boot.rows : Unused(row[1])'
    BY <2>6 DEF Names, Workers, TypeOK
  <2> QED
    BY <2>1, <2>7, <2>8, <2>9, <2>10 DEF Names
<1>3. CASE ~StartNotifier(r) /\ ~StopNotifier(r)
  <2>1. UNCHANGED <<notifies, notifier, bcast, boot>>
    BY <1>3 DEF Request, Begin, CheckWatching, AtWatchLimit, AddWatch, StartSeed, RemoveWatch, SetAlias,
                RemoveAddrConfirms, UnwatchScripts, SetAddrAlias, DbError
  <2>2. \A q \in Requests : q # r => req'[q] = req[q]
    BY <1>3, <1>q DEF Request, Begin, CheckWatching, AtWatchLimit, AddWatch, StartSeed, RemoveWatch, SetAlias,
                RemoveAddrConfirms, UnwatchScripts, SetAddrAlias, DbError, Goto, Finish
  <2>3. req'[r].at = "done" \/ req[r].at \notin {"done", "seed", "renameConfirms"}
    BY <1>3, <1>q DEF Request, Begin, CheckWatching, AtWatchLimit, AddWatch, StartSeed, RemoveWatch, SetAlias,
                RemoveAddrConfirms, UnwatchScripts, SetAddrAlias, DbError, Goto, Finish, Done
  <2> QED
    BY <2>1, <2>2, <2>3, NamesKept
<1> QED
  BY <1>1, <1>2, <1>3

LEMMA StartUpNames == ASSUME TypeOK, Names, StartUp PROVE Names'
<1> USE DEF store, notify, match, confirm, env, told
<1>1. CASE ListWatches
  <2>1. /\ boot.at = "list" /\ boot'.at # "list" /\ UNCHANGED <<notifies, notifier, bcast, req>>
        /\ boot'.rows = {} \/ boot'.rows = {<<k, stored[k]>> : k \in {j \in Keys : stored[j] # Absent}}
    BY <1>1 DEF ListWatches
  <2>2. \A g : Unused(g) => Unused(g)'
    BY <2>1 DEF Unused
  <2>3. \A row \in boot'.rows : row[1] \in Keys /\ row = <<row[1], stored[row[1]]>>
    BY <2>1
  <2>4. \A row \in boot'.rows : Unused(row[1])'
    BY <2>1, <2>2, <2>3 DEF Names
  <2>5. \A row, other \in boot'.rows : row[1] = other[1] => row = other
    BY <2>3
  <2> QED
    BY <2>1, <2>2, <2>4, <2>5 DEF Names
<1>2. CASE StartListed
  <2>1. PICK row \in boot.rows : StartNotifyChat(row[1], row[1], row[2]) /\ boot' = [boot EXCEPT !.rows = boot.rows \ {row}]
    BY <1>2 DEF StartListed
  <2>2. row[1] \in Keys /\ row[1] \in Workers /\ row[1] \notin Requests /\ Unused(row[1])
    BY <2>1, Fresh DEF TypeOK, Workers, Names
  <2>3. notifies' = [notifies EXCEPT ![row[1]] = row[1]] /\ notifies \in [Keys -> Workers \cup {None}]
    BY <2>1 DEF StartNotifyChat, TypeOK
  <2>4. notifier' = [notifier EXCEPT ![row[1]] = NewWorker(row[1], row[2])] /\ notifier \in [Workers -> NotifierState]
    BY <2>1 DEF StartNotifyChat, TypeOK
  <2>5. boot.at = "start" /\ UNCHANGED <<bcast, req>>
    BY <1>2 DEF StartListed
  <2>6. boot'.at = "start" /\ boot'.rows = boot.rows \ {row}
    BY <2>1, <2>5 DEF TypeOK
  <2>7. \A g \in Workers : g # row[1] /\ Unused(g) => Unused(g)'
    BY <2>2, <2>3, <2>4, <2>5 DEF Unused
  <2>8. \A q \in Requests : req'[q].at \notin {"done", "seed", "renameConfirms"} => Unused(q)'
    BY <2>2, <2>5, <2>7 DEF Names, Workers
  <2>9. \A other \in boot'.rows : Unused(other[1])'
    BY <2>1, <2>6, <2>7 DEF Names, Workers, TypeOK
  <2>10. \A g \in Workers : notifier'[g].at = "none" => notifier'[g] = NoWorker
    BY <2>2, <2>4 DEF Names, NewWorker
  <2>11. \A k \in Keys : notifies'[k] # None => notifier'[notifies'[k]].key = k /\ ~notifier'[notifies'[k]].stopped
    BY <2>2, <2>3, <2>4 DEF Names, NewWorker, Unused
  <2> QED
    BY <2>6, <2>8, <2>9, <2>10, <2>11 DEF Names
<1>3. CASE SeedListed \/ StartZMQ
  <2>1. UNCHANGED <<notifies, notifier, bcast, req>> /\ boot'.at # "list" /\ boot'.rows = boot.rows
    BY <1>3 DEF SeedListed, StartZMQ, TypeOK
  <2>2. \A g : Unused(g) => Unused(g)'
    BY <2>1 DEF Unused
  <2> QED
    BY <2>1, <2>2 DEF Names
<1> QED
  BY <1>1, <1>2, <1>3 DEF StartUp

\* An idle goroutine that is given something to send is not one that was never started.
LEMMA BroadcastNames == ASSUME TypeOK, Names, NEW b \in Bcasts, Broadcast(b) PROVE Names'
<1> USE DEF store, match, confirm, env, told
<1>b. bcast \in [Bcasts -> BcastState] /\ notifier \in [Workers -> NotifierState]
  BY DEF TypeOK
<1>1. CASE AlreadyNotified(b) \/ RecordOutpoints(b) \/ \E g \in Workers : GiveUp(b, g)
  <2>1. \A d \in Bcasts : bcast'[d].left \subseteq bcast[d].left
    <3>1. CASE AlreadyNotified(b)
      BY <1>b, <3>1 DEF AlreadyNotified, NoBcast, BcastAt
    <3>2. CASE RecordOutpoints(b)
      BY <1>b, <3>2 DEF RecordOutpoints, BcastAt
    <3>3. CASE \E g \in Workers : GiveUp(b, g)
      BY <1>b, <3>3 DEF GiveUp, Without, NoBcast, BcastAt
    <3> QED
      BY <1>1, <3>1, <3>2, <3>3
  <2>2. UNCHANGED <<notifies, notifier, boot, req>>
    BY <1>1 DEF AlreadyNotified, RecordOutpoints, GiveUp
  <2> QED
    BY <2>1, <2>2, NamesKept
<1>2. CASE SnapshotChannels(b)
  <2> DEFINE to == {notifies[j] : j \in Keys} \ {None}
  <2>1. /\ \A d \in Bcasts : bcast'[d].left \subseteq bcast[d].left \cup to
        /\ UNCHANGED <<notifies, notifier, boot, req>>
    BY <1>2, <1>b DEF SnapshotChannels, NoBcast, BcastAt
  <2>2. \A g : Unused(g) => Unused(g)'
    BY <2>1 DEF Unused
  <2> QED
    BY <2>1, <2>2 DEF Names
<1>3. ASSUME NEW g \in Workers, Deliver(b, g) PROVE Names'
  <2>1. /\ g \in bcast[b].left /\ notifier[g].at = "idle" /\ bcast' = Without(b, g)
        /\ \/ notifier' = [notifier EXCEPT ![g] = WorkerAt(notifier[g], "sending", b[1])]
           \/ notifier' = notifier
        /\ UNCHANGED <<notifies, boot, req>>
    BY <1>3 DEF Deliver
  <2>2. \A d \in Bcasts : bcast'[d].left \subseteq bcast[d].left
    BY <1>b, <2>1 DEF Without, NoBcast, BcastAt
  <2>3. \A h \in Workers : /\ notifier'[h].key = notifier[h].key /\ notifier'[h].stopped = notifier[h].stopped
                           /\ h # g => notifier'[h] = notifier[h]
    BY <1>b, <2>1 DEF WorkerAt
  <2>4. ~Unused(g)
    BY <2>1 DEF Unused
  <2>5. \A h \in Workers : Unused(h) => Unused(h)'
    BY <2>1, <2>2, <2>3, <2>4 DEF Unused
  <2>6. \A h \in Workers : notifier'[h].at = "none" => notifier'[h] = NoWorker
    BY <1>b, <2>1 DEF Names, WorkerAt
  <2>7. \A k \in Keys : notifies'[k] # None => notifier'[notifies'[k]].key = k /\ ~notifier'[notifies'[k]].stopped
    BY <2>1, <2>3 DEF Names, TypeOK
  <2>8. \A row \in boot.rows : row[1] \in Workers
    BY DEF TypeOK, Workers
  <2>9. /\ \A r \in Requests : req'[r].at \notin {"done", "seed", "renameConfirms"} => Unused(r)'
        /\ boot'.at = "list" => \A k \in Keys : Unused(k)'
        /\ \A row \in boot'.rows : Unused(row[1])'
    BY <2>1, <2>5, <2>8 DEF Names, Workers
  <2> QED
    BY <2>1, <2>6, <2>7, <2>9 DEF Names
<1> QED
  BY <1>1, <1>2, <1>3 DEF Broadcast

LEMMA NotifierNames == ASSUME TypeOK, Names, NEW g \in Workers, Notifier(g) PROVE Names'
<1> USE DEF store, match, confirm, env, told
<1>1. /\ notifier[g].at # "none" /\ notifier \in [Workers -> NotifierState]
      /\ UNCHANGED <<notifies, bcast, boot, req>>
  BY DEF Notifier, Send, AddAddrConfirm, Exit, TypeOK
<1>2. \/ notifier' = [notifier EXCEPT ![g] = NoWorker] /\ notifier[g].stopped
      \/ notifier' = [notifier EXCEPT ![g] = WorkerAt(notifier[g], "noting", notifier[g].tx)]
      \/ notifier' = [notifier EXCEPT ![g] = WorkerAt(notifier[g], "idle", None)]
  BY DEF Notifier, Send, AddAddrConfirm, Exit
<1>3. \A h \in Workers : h # g => notifier'[h] = notifier[h]
  BY <1>1, <1>2
<1>4. ~Unused(g)
  BY <1>1 DEF Unused, NoWorker
<1>5. \A h \in Workers : Unused(h) => Unused(h)'
  BY <1>1, <1>3, <1>4 DEF Unused
<1>6. \A h \in Workers : notifier'[h].at = "none" => notifier'[h] = NoWorker
  BY <1>1, <1>2, <1>3 DEF Names, WorkerAt
<1>7. \A k \in Keys : notifies[k] = g => ~notifier[g].stopped /\ notifier[g].key = k
  BY Fresh DEF Names, Workers
<1>8. \A k \in Keys : notifies'[k] # None => notifier'[notifies'[k]].key = k /\ ~notifier'[notifies'[k]].stopped
  BY <1>1, <1>2, <1>3, <1>7 DEF Names, TypeOK, WorkerAt
<1>9. \A row \in boot.rows : row[1] \in Workers
  BY DEF TypeOK, Workers
<1>10. /\ \A r \in Requests : req'[r].at \notin {"done", "seed", "renameConfirms"} => Unused(r)'
       /\ boot'.at = "list" => \A k \in Keys : Unused(k)'
       /\ \A row \in boot'.rows : Unused(row[1])'
  BY <1>1, <1>5, <1>9 DEF Names, Workers
<1> QED
  BY <1>1, <1>6, <1>8, <1>10 DEF Names

LEMMA EnvNames ==
    ASSUME TypeOK, Names, ReceiveTx \/ ReceiveBlock \/ LoseMessage \/ Restart \/ \E u \in Txs : Core(u)
    PROVE  Names'
<1> USE DEF store, notify, match, confirm, told
<1>1. CASE ReceiveTx
  <2>1. \A d \in Bcasts : bcast'[d].left \subseteq bcast[d].left
    BY <1>1 DEF ReceiveTx, BcastAt, TypeOK
  <2> QED
    BY <1>1, <2>1, NamesKept DEF ReceiveTx
<1>2. CASE ReceiveBlock \/ LoseMessage \/ \E u \in Txs : Core(u)
  BY <1>2, NamesKept DEF ReceiveBlock, LoseMessage, Core, EnterMempool, Mine, Disconnect
<1>3. CASE Restart
  <2>1. \A g \in Workers : Unused(g)'
    BY <1>3, Fresh DEF Restart, Unused, NoBcast, BcastAt, Workers
  <2>2. boot'.rows = {} /\ \A k \in Keys : notifies'[k] = None
    BY <1>3 DEF Restart
  <2>3. \A g \in Workers : notifier'[g] = NoWorker
    BY <1>3 DEF Restart
  <2> QED
    BY <2>1, <2>2, <2>3 DEF Names, Workers
<1> QED
  BY <1>1, <1>2, <1>3

LEMMA BroadcastOnePass ==
    ASSUME TypeOK, ~Expiring, OnePass, NEW b \in Bcasts, Broadcast(b)
    PROVE  OnePass'
<1> USE DEF store, match, confirm, env, told
<1>b. bcast \in [Bcasts -> BcastState]
  BY DEF TypeOK
<1>1. CASE AlreadyNotified(b)
  <2>1. \/ notified' = notified \cup {b[1]} /\ bcast' = [bcast EXCEPT ![b] = IF b[1] \in notified THEN NoBcast ELSE BcastAt("record", FALSE, {})]
        \/ notified' = notified /\ bcast' = [bcast EXCEPT ![b] = NoBcast]
    BY <1>1 DEF AlreadyNotified
  <2>2. \A d \in Bcasts : d # b => bcast'[d] = bcast[d]
    BY <1>b, <2>1
  <2>3. bcast'[b].left = {} /\ (Past(b)' => b[1] \notin notified /\ b[1] \in notified')
    BY <1>b, <2>1 DEF Past, NoBcast, BcastAt
  <2>4. \A d \in Bcasts : d # b => (Past(d)' <=> Past(d))
    BY <2>2 DEF Past
  <2>5. notified \subseteq notified'
    BY <2>1
  <2> QED
    BY <2>2, <2>3, <2>4, <2>5 DEF OnePass
<1>2. CASE RecordOutpoints(b) \/ SnapshotChannels(b) \/ \E g \in Workers : Deliver(b, g) \/ GiveUp(b, g)
  <2>1. /\ Past(b) /\ notified' = notified
        /\ \A d \in Bcasts : d # b => bcast'[d] = bcast[d]
        /\ bcast'[b].left # {} => bcast'[b].at = "deliver"
    <3>1. CASE RecordOutpoints(b)
      BY <1>b, <3>1 DEF RecordOutpoints, BcastAt, Past
    <3>2. CASE SnapshotChannels(b)
      BY <1>b, <3>2 DEF SnapshotChannels, NoBcast, BcastAt, Past
    <3>3. ASSUME NEW g \in Workers, Deliver(b, g) \/ GiveUp(b, g)
          PROVE  /\ Past(b) /\ notified' = notified
                 /\ \A d \in Bcasts : d # b => bcast'[d] = bcast[d]
                 /\ bcast'[b].left # {} => bcast'[b].at = "deliver"
      BY <1>b, <3>3 DEF Deliver, GiveUp, Without, NoBcast, BcastAt, Past, OnePass
    <3> QED
      BY <1>2, <3>1, <3>2, <3>3
  <2>2. \A d \in Bcasts : Past(d)' => Past(d)
    BY <2>1 DEF Past
  <2> QED
    BY <2>1, <2>2 DEF OnePass
<1> QED
  BY <1>1, <1>2 DEF Broadcast

LEMMA EnvOnePass ==
    ASSUME TypeOK, OnePass, ReceiveTx \/ Restart
    PROVE  OnePass'
<1> USE DEF store, match, confirm, told
<1>1. CASE ReceiveTx
  <2>1. \A d \in Bcasts : \/ bcast'[d] = bcast[d]
                          \/ bcast'[d].left = {} /\ bcast'[d].at = "decode"
    BY <1>1 DEF ReceiveTx, BcastAt, TypeOK
  <2>2. \A d \in Bcasts : Past(d)' => Past(d)
    BY <2>1 DEF Past
  <2> QED
    BY <1>1, <2>1, <2>2 DEF ReceiveTx, OnePass
<1>2. CASE Restart
  BY <1>2 DEF Restart, OnePass, Past, NoBcast, BcastAt
<1> QED
  BY <1>1, <1>2

LEMMA InitTold == Init => ToldInv
<1> SUFFICES ASSUME Init PROVE ToldInv
  OBVIOUS
<1>1. \A g \in Workers : Unused(g)
  BY Fresh DEF Init, Unused, NoBcast, BcastAt, Workers
<1>2. Names
  <2>1. boot.rows = {} /\ (\A k \in Keys : notifies[k] = None) /\ \A g \in Workers : notifier[g] = NoWorker
    BY DEF Init
  <2> QED
    BY <1>1, <2>1 DEF Names, Workers
<1>3. OnePass
  BY DEF Init, OnePass, Past, NoBcast, BcastAt
<1>4. ASSUME NEW k \in Keys, NEW t \in Txs PROVE Life(k, t)
  <2>1. LeftOf(k, t) = {} /\ AtStep("sending", k, t) = {} /\ AtStep("noting", k, t) = {}
    BY DEF Init, LeftOf, AtStep, NoBcast, BcastAt, NoWorker, Bcasts
  <2>2. PendingOf(k, t) = {} /\ OutOf(k, t) = {}
    BY DEF Init, PendingOf, OutOf, NoConfirm, ConfirmAt
  <2>3. seen[<<k, t>>] = 0 /\ confd[<<k, t>>] = 0
    BY DEF Init, Owners, Keys
  <2> QED
    BY <2>1, <2>2, <2>3 DEF Life, Singles, Untold, Unconfirmed, AtMostOne
<1> QED
  BY <1>2, <1>3, <1>4 DEF ToldInv

LEMMA StepTold == ASSUME ~Expiring, TypeOK, ToldInv, [Next]_vars PROVE ToldInv'
<1>1. CASE \E r \in Requests : Request(r)
  <2>1. PICK r \in Requests : Request(r)
    BY <1>1
  <2>2. UNCHANGED <<notified, bcast>>
    BY <2>1 DEF Request, Begin, CheckWatching, AtWatchLimit, AddWatch, StartNotifier, StartSeed, RemoveWatch, SetAlias,
                StopNotifier, RemoveAddrConfirms, UnwatchScripts, SetAddrAlias, DbError, notify
  <2>3. OnePass'
    BY <2>2 DEF ToldInv, OnePass, Past
  <2> QED
    BY <2>1, <2>3, RequestNames, RequestLife DEF ToldInv
<1>2. CASE \/ \E j \in Requests \cup {Boot} : Seed(j)
           \/ UNCHANGED vars
  <2>1. UNCHANGED <<req, notifies, notifier, notified, bcast, pending, confirms, seen, confd, boot>>
    BY <1>2 DEF Seed, WatchScript, ScanTxOutSet, WatchOutpoint, vars, store, notify, match, confirm, env, told
  <2>2. Names'
    <3>1. UNCHANGED <<notifies, notifier, boot>> /\ bcast' = bcast /\ req' = req /\ Names
      BY <2>1 DEF ToldInv
    <3> QED
      BY <3>1, NamesKept, Zenon
  <2>3. OnePass'
    BY <2>1 DEF ToldInv, OnePass, Past
  <2>4. \A k \in Keys, t \in Txs : Life(k, t)'
    BY <2>1, Elsewhere DEF ToldInv
  <2> QED
    BY <2>2, <2>3, <2>4 DEF ToldInv
<1>3. CASE StartUp
  <2>1. OnePass'
    BY <1>3 DEF StartUp, ListWatches, StartListed, SeedListed, StartZMQ, notify, ToldInv, OnePass, Past
  <2>2. ASSUME NEW k \in Keys, NEW t \in Txs PROVE Life(k, t)'
    <3>1. Life(k, t)
      BY DEF ToldInv
    <3>2. CASE ListWatches \/ SeedListed \/ StartZMQ
      BY <3>1, <3>2, Elsewhere DEF ListWatches, SeedListed, StartZMQ, notify, confirm, told
    <3>3. CASE StartListed
      <4>1. PICK row \in boot.rows : StartNotifyChat(row[1], row[1], row[2])
        BY <3>3 DEF StartListed
      <4>2. row[1] \in Keys /\ row[1] \in Workers /\ Unused(row[1])
        BY <4>1 DEF TypeOK, Workers, ToldInv, Names
      <4> QED
        BY <3>1, <3>3, <4>1, <4>2, StartLife DEF StartListed, confirm, told
    <3> QED
      BY <1>3, <3>2, <3>3 DEF StartUp
  <2> QED
    BY <1>3, <2>1, <2>2, StartUpNames DEF ToldInv
<1>4. CASE \E b \in Bcasts : Broadcast(b)
  BY <1>4, BroadcastNames, BroadcastOnePass, BroadcastLife DEF ToldInv
<1>5. CASE \E g \in Workers : Notifier(g)
  <2>1. OnePass'
    BY <1>5 DEF Notifier, Send, AddAddrConfirm, Exit, ToldInv, OnePass, Past
  <2> QED
    BY <1>5, <2>1, NotifierNames, NotifierLife DEF ToldInv
<1>6. CASE \E t \in Txs : ProcessConfirms(t)
  <2>1. UNCHANGED <<req, notifies, notifier, notified, bcast, boot>>
    BY <1>6 DEF ProcessConfirms, AnyPending, TakeConfirms, SendConfirm, notify, env
  <2>2. Names'
    <3>1. UNCHANGED <<notifies, notifier, boot>> /\ bcast' = bcast /\ req' = req /\ Names
      BY <2>1 DEF ToldInv
    <3> QED
      BY <3>1, NamesKept, Zenon
  <2>3. OnePass'
    BY <2>1 DEF ToldInv, OnePass, Past
  <2> QED
    BY <1>6, <2>2, <2>3, ConfirmLife DEF ToldInv
<1>7. CASE ReceiveTx \/ ReceiveBlock \/ LoseMessage \/ Restart \/ \E t \in Txs : Core(t)
  <2>1. OnePass'
    <3>1. CASE ReceiveTx \/ Restart
      BY <3>1, EnvOnePass DEF ToldInv
    <3>2. CASE ReceiveBlock \/ LoseMessage \/ \E t \in Txs : Core(t)
      BY <3>2 DEF ReceiveBlock, LoseMessage, Core, EnterMempool, Mine, Disconnect, notify, ToldInv, OnePass, Past
    <3> QED
      BY <1>7, <3>1, <3>2
  <2> QED
    BY <1>7, <2>1, EnvNames, EnvLife DEF ToldInv
<1> QED
  BY <1>1, <1>2, <1>3, <1>4, <1>5, <1>6, <1>7 DEF Next

\* A chat hears of an address's transaction in one message, then in at most one
\* confirmation, and in none without the message: whatever is renamed, stopped,
\* published again or lost, while notifiedTTL has not run out.
THEOREM ToldOnceEach == ~Expiring /\ Spec => []ToldAndConfirmedOnce
<1> SUFFICES ASSUME ~Expiring PROVE Spec => []ToldAndConfirmedOnce
  OBVIOUS
<1>1. TypeOK /\ ToldInv => ToldAndConfirmedOnce
  <2> SUFFICES ASSUME TypeOK, ToldInv PROVE ToldAndConfirmedOnce
    OBVIOUS
  <2>1. \A k \in Keys, t \in Txs : seen[<<k, t>>] <= 1 /\ confd[<<k, t>>] <= 1
    BY DEF ToldInv, Life, Singles
  <2>2. \A k \in Keys, t \in Txs : seen[<<k, t>>] = 0 => confd[<<k, t>>] = 0
    BY DEF ToldInv, Life, Untold
  <2>3. seen \in [Keys \X Txs -> Nat] /\ \A k \in Keys, t \in Txs : <<k, t>> \in Keys \X Txs
    BY DEF TypeOK
  <2> QED
    BY <2>1, <2>2, <2>3 DEF ToldAndConfirmedOnce, ToldOnce, ConfirmedOnce, ConfirmedWasTold
<1>2. Init => ToldInv
  BY InitTold
<1>3. TypeOK /\ ToldInv /\ [Next]_vars => ToldInv'
  BY StepTold
<1> QED
  BY <1>1, <1>2, <1>3, TypeCorrect, PTL DEF Spec

-----------------------------------------------------------------------------
(* Once nobody is at work on a watch, its row, its notifier, the script    *)
(* the feed is matched against and the coins it knows say the same: the    *)
(* invariants of the steps in between, for requests that do not overlap    *)
(* within a chat and while no call fails.                                  *)

LEMMA InitNames == Init => Names
BY InitTold DEF ToldInv

LEMMA StepNames == ASSUME TypeOK, Names, [Next]_vars PROVE Names'
<1>1. CASE \E r \in Requests : Request(r)
  BY <1>1, RequestNames
<1>2. CASE \/ \E j \in Requests \cup {Boot} : Seed(j)
           \/ \E t \in Txs : ProcessConfirms(t)
           \/ UNCHANGED vars
  <2>1. UNCHANGED <<notifies, notifier, boot>> /\ bcast' = bcast /\ req' = req
    BY <1>2 DEF Seed, WatchScript, ScanTxOutSet, WatchOutpoint, ProcessConfirms, AnyPending, TakeConfirms, SendConfirm,
                vars, store, notify, match, confirm, env, told
  <2> QED
    BY <2>1, NamesKept, Zenon
<1>3. CASE StartUp
  BY <1>3, StartUpNames
<1>4. CASE \E b \in Bcasts : Broadcast(b)
  BY <1>4, BroadcastNames
<1>5. CASE \E g \in Workers : Notifier(g)
  BY <1>5, NotifierNames
<1>6. CASE ReceiveTx \/ ReceiveBlock \/ LoseMessage \/ Restart \/ \E t \in Txs : Core(t)
  BY <1>6, EnvNames
<1> QED
  BY <1>1, <1>2, <1>3, <1>4, <1>5, <1>6 DEF Next

\* No step takes a fault back.
LEMMA FaultsGrow ==
    ASSUME TypeOK, [Next]_vars, faults' = 0
    PROVE  faults = 0 /\ ~Fault
<1>1. faults' = faults \/ Fault
  BY DEF Next, vars, Request, Begin, CheckWatching, AtWatchLimit, AddWatch, StartNotifier, StartSeed, RemoveWatch, SetAlias,
         StopNotifier, RemoveAddrConfirms, UnwatchScripts, SetAddrAlias, DbError, Seed, WatchScript, ScanTxOutSet,
         WatchOutpoint, StartUp, ListWatches, StartListed, SeedListed, StartZMQ, ReceiveTx, ReceiveBlock, LoseMessage,
         Broadcast, AlreadyNotified, RecordOutpoints, SnapshotChannels, Deliver, GiveUp, Notifier, Send, AddAddrConfirm,
         Exit, ProcessConfirms, AnyPending, TakeConfirms, SendConfirm, Core, EnterMempool, Mine, Disconnect, Restart
<1>2. faults \in Nat
  BY DEF TypeOK
<1> QED
  BY <1>1, <1>2 DEF Fault

-----------------------------------------------------------------------------
(* The row of a key and its notifier.                                      *)

Agree(k) ==
    /\ Watched(k) <=> notifies[k] # None
    /\ Watched(k) => notifier[notifies[k]].alias = stored[k]

\* What holds of the key of an address request before its next step.
Halfway(r) ==
    LET k == KeyOf(r)  call == req[r].call IN
    /\ req[r].at = "stop" => stored[k] = IF call.kind = "rename" THEN call.alias ELSE Absent
    /\ req[r].at = "start" => stored[k] = call.alias
    /\ req[r].at \in {"confirms", "scripts"} => ~Watched(k)
    /\ req[r].at \notin {"stop", "start"} => Agree(k)
    /\ req[r].at = "remove" => call.kind = "unwatch"
    /\ req[r].at = "rename" => call.kind = "rename"

OnePerChat == /\ \A q, r \in Requests : InFlight(q) /\ InFlight(r) /\ req[q].call.chat = req[r].call.chat => q = r
              /\ boot.at # "up" => \A r \in Requests : ~InFlight(r)
Loaded ==
    /\ boot.at = "list" => \A k \in Keys : notifies[k] = None
    /\ boot.at = "start" => \A k \in Keys :
           /\ (\A row \in boot.rows : row[1] # k) => Agree(k)
           /\ \A row \in boot.rows : row[1] = k => Watched(k) /\ stored[k] = row[2] /\ notifies[k] = None
    /\ boot.at \in {"subscribe", "up"} => \A k \in Keys : Quiet(k) => Agree(k)

Following == /\ OnePerChat /\ Loaded
             /\ \A r \in Requests : InFlight(r) /\ req[r].call.target \in Addrs => Halfway(r)

FollowInv == faults = 0 => Following

\* What a goroutine does to itself.
LEMMA FollowKept ==
    ASSUME Following, UNCHANGED <<stored, req, notifies, boot>>,
           \A k \in Keys : Agree(k) => Agree(k)', TypeOK
    PROVE  Following'
<1>1. OnePerChat'
  BY DEF Following, OnePerChat, InFlight
<1>2. \A k \in Keys : Quiet(k)' => Quiet(k)
  BY DEF Quiet, InFlight
<1>3. Loaded'
  BY <1>2 DEF Following, Loaded, Watched
<1>4. ASSUME NEW r \in Requests, InFlight(r)', req'[r].call.target \in Addrs
      PROVE  Halfway(r)'
  <2>1. InFlight(r) /\ Halfway(r) /\ ~IsTxID(r)
    BY <1>4, Fresh DEF Following, InFlight, IsTxID
  <2>2. KeyOf(r) \in Keys /\ KeyOf(r)' = KeyOf(r)
    BY <2>1, CallShape DEF KeyOf
  <2> QED
    BY <2>1, <2>2 DEF Halfway, Watched
<1> QED
  BY <1>1, <1>3, <1>4 DEF Following

\* A request goes on, or ends, and disturbs no other key.
LEMMA MoveOn ==
    ASSUME TypeOK, Following, NEW r \in Requests, InFlight(r), boot' = boot,
           \A q \in Requests : q # r => req'[q] = req[q],
           InFlight(r)' => req'[r].call = req[r].call,
           \A k \in Keys : k # KeyOf(r) => stored'[k] = stored[k] /\ (Agree(k) => Agree(k)'),
           InFlight(r)' /\ req[r].call.target \in Addrs => Halfway(r)',
           \A k \in Keys : k = KeyOf(r) /\ ~InFlight(r)' => Agree(k)'
    PROVE  Following'
<1>1. boot.at = "up" /\ OnePerChat
  BY DEF Following, OnePerChat
<1>2. \A q \in Requests : InFlight(q)' => InFlight(q) /\ req'[q].call = req[q].call
  BY DEF InFlight
<1>3. OnePerChat'
  BY <1>1, <1>2 DEF OnePerChat
<1>4. ASSUME NEW k \in Keys, Quiet(k)' PROVE Agree(k)'
  <2>1. CASE k = KeyOf(r)
    BY <1>2, <1>4, <2>1 DEF Quiet, KeyOf
  <2>2. CASE k # KeyOf(r)
    <3>1. Quiet(k)
      BY <1>4, <2>2 DEF Quiet, KeyOf, InFlight
    <3> QED
      BY <1>1, <2>2, <3>1 DEF Following, Loaded
  <2> QED
    BY <2>1, <2>2
<1>5. Loaded'
  BY <1>1, <1>4 DEF Loaded
<1>6. ASSUME NEW q \in Requests, q # r, InFlight(q)', req'[q].call.target \in Addrs
      PROVE  Halfway(q)'
  <2>1. InFlight(q) /\ req'[q] = req[q] /\ Halfway(q) /\ ~IsTxID(q)
    BY <1>2, <1>6, Fresh DEF Following, IsTxID
  <2>2. KeyOf(q) \in Keys /\ KeyOf(q)' = KeyOf(q)
    BY <2>1, CallShape DEF KeyOf
  <2>3. KeyOf(q) # KeyOf(r)
    BY <1>1, <1>6, <2>1 DEF OnePerChat, KeyOf
  <2>4. stored'[KeyOf(q)] = stored[KeyOf(q)] /\ (Agree(KeyOf(q)) => Agree(KeyOf(q))')
    BY <2>2, <2>3
  <2> QED
    BY <2>1, <2>2, <2>4 DEF Halfway, Watched
<1> QED
  BY <1>2, <1>3, <1>5, <1>6 DEF Following

\* The step that does not touch what Agree says.
LEMMA AgreeFrame ==
    ASSUME NEW k, Agree(k), stored'[k] = stored[k], notifies'[k] = notifies[k],
           notifies[k] # None => notifier'[notifies[k]].alias = notifier[notifies[k]].alias
    PROVE  Agree(k)'
BY DEF Agree, Watched

\* A goroutine is stopped, or ends, under the name of no key but its own.
LEMMA StopAgree ==
    ASSUME TypeOK, Names, NEW j \in Keys, StopNotifyChat(j), NEW k \in Keys, k # j,
           Agree(k), stored'[k] = stored[k]
    PROVE  Agree(k)'
<1>1. notifies'[k] = notifies[k]
  BY DEF StopNotifyChat, TypeOK
<1>2. notifies[k] # None => notifier'[notifies[k]].alias = notifier[notifies[k]].alias
  BY DEF StopNotifyChat, TypeOK, Stopped
<1> QED
  BY <1>1, <1>2, AgreeFrame

LEMMA StartAgree ==
    ASSUME TypeOK, NEW g \in Workers, Unused(g), NEW j \in Keys, NEW al, StartNotifyChat(g, j, al),
           NEW k \in Keys, stored'[k] = stored[k]
    PROVE  /\ k # j /\ Agree(k) => Agree(k)'
           /\ k = j /\ stored[k] = al /\ al \in Aliases => Agree(k)'
<1>1. /\ notifies' = [notifies EXCEPT ![j] = g] /\ notifies \in [Keys -> Workers \cup {None}]
      /\ notifier' = [notifier EXCEPT ![g] = NewWorker(j, al)] /\ notifier \in [Workers -> NotifierState]
  BY DEF StartNotifyChat, TypeOK
<1>2. notifies[k] # g
  BY DEF Unused
<1>3. ASSUME k # j, Agree(k) PROVE Agree(k)'
  <2>1. notifies'[k] = notifies[k]
    BY <1>1, <1>3
  <2>2. notifies[k] # None => notifier'[notifies[k]].alias = notifier[notifies[k]].alias
    BY <1>1, <1>2
  <2> QED
    BY <1>3, <2>1, <2>2, AgreeFrame
<1>4. ASSUME k = j, stored[k] = al, al \in Aliases PROVE Agree(k)'
  <2>1. notifies'[k] = g /\ g # None /\ notifier'[g].alias = al
    BY <1>1, <1>4, Fresh DEF NewWorker, Workers
  <2> QED
    BY <1>4, <2>1, Fresh DEF Agree, Watched
<1> QED
  BY <1>3, <1>4

\* The address request's key, and that a transaction request has none.
LEMMA RequestKey ==
    ASSUME TypeOK, NEW r \in Requests, InFlight(r)
    PROVE  /\ IsTxID(r) => KeyOf(r) \notin Keys /\ req[r].call.target \notin Addrs
           /\ ~IsTxID(r) => KeyOf(r) \in Keys /\ req[r].call.target \in Addrs
           /\ req[r].call.alias \in Aliases
BY CallShape, Fresh DEF KeyOf, Keys

LEMMA GotoMoves ==
    ASSUME TypeOK, NEW r \in Requests, NEW step, step \notin {"idle", "done"}, Goto(r, step)
    PROVE  /\ req'[r].at = step /\ InFlight(r)' /\ req'[r].call = req[r].call /\ KeyOf(r)' = KeyOf(r)
           /\ \A q \in Requests : q # r => req'[q] = req[q]
BY DEF TypeOK, Goto, InFlight, KeyOf, ReqState

LEMMA FinishEnds ==
    ASSUME TypeOK, NEW r \in Requests, Finish(r)
    PROVE  ~InFlight(r)' /\ req'[r].at = "done" /\ \A q \in Requests : q # r => req'[q] = req[q]
BY DEF TypeOK, Finish, Done, InFlight

\* Nothing that Agree reads moves, and the request goes on to a step that
\* expects as much as the last one.
LEMMA WalkOn ==
    ASSUME TypeOK, Following, NEW r \in Requests, InFlight(r), UNCHANGED <<stored, notifies, notifier, boot>>,
           KeyOf(r) \in Keys => Agree(KeyOf(r)),
           \/ Finish(r)
           \/ \E step \in {"limit", "add"} : Goto(r, step)
           \/ Goto(r, "scripts") /\ (KeyOf(r) \in Keys => ~Watched(KeyOf(r)))
    PROVE  Following'
<1>1. \A k \in Keys : Agree(k) => Agree(k)'
  BY AgreeFrame
<1>2. CASE Finish(r)
  BY <1>1, <1>2, FinishEnds, MoveOn
<1>3. CASE \E step \in {"limit", "add"} : Goto(r, step)
  <2>1. PICK step \in {"limit", "add"} : Goto(r, step)
    BY <1>3
  <2>2. /\ req'[r].at = step /\ InFlight(r)' /\ req'[r].call = req[r].call /\ KeyOf(r)' = KeyOf(r)
        /\ \A q \in Requests : q # r => req'[q] = req[q]
    BY <2>1, GotoMoves
  <2>3. req[r].call.target \in Addrs => Halfway(r)'
    BY <1>1, <2>1, <2>2, RequestKey DEF Halfway
  <2> QED
    BY <1>1, <2>2, <2>3, MoveOn
<1>4. CASE Goto(r, "scripts") /\ (KeyOf(r) \in Keys => ~Watched(KeyOf(r)))
  <2>1. /\ req'[r].at = "scripts" /\ InFlight(r)' /\ req'[r].call = req[r].call /\ KeyOf(r)' = KeyOf(r)
        /\ \A q \in Requests : q # r => req'[q] = req[q]
    BY <1>4, GotoMoves
  <2>2. req[r].call.target \in Addrs => Halfway(r)'
    BY <1>1, <1>4, <2>1, RequestKey DEF Halfway, Watched
  <2> QED
    BY <1>1, <2>1, <2>2, MoveOn
<1> QED
  BY <1>2, <1>3, <1>4

LEMMA RequestFollow ==
    ASSUME Orderly, TypeOK, Names, Following, ~Fault, NEW r \in Requests, Request(r)
    PROVE  Following'
<1> USE DEF store, notify, match, confirm, env, told
<1>h. InFlight(r) => /\ KeyOf(r) \in Keys => req[r].call.target \in Addrs
                     /\ req[r].call.target \in Addrs => Halfway(r)
  BY RequestKey DEF Following
<1>1. CASE Begin(r)
  <2>1. PICK call \in Calls :
          /\ boot.at = "up" /\ \A q \in Requests : InFlight(q) => req[q].call.chat # call.chat
          /\ req' = [req EXCEPT ![r] = [call |-> call,
               at |-> CASE call.kind = "watch"   -> "limit"
                        [] call.kind = "bell"    -> "watching"
                        [] call.kind = "unwatch" -> "remove"
                        [] call.kind = "rename"  -> "rename"]]
    BY <1>1 DEF Begin
  <2>2. /\ req[r].at = "idle" /\ ~InFlight(r) /\ UNCHANGED <<stored, notifies, notifier, boot>>
        /\ call.kind \in {"watch", "bell", "unwatch", "rename"} /\ call.chat \in Chats
    BY <1>1, CallsType DEF Begin, Call, InFlight
  <2>3. /\ req'[r].call = call
        /\ \A q \in Requests : q # r => req'[q] = req[q]
        /\ req'[r].at \in {"limit", "watching", "remove", "rename"}
        /\ req'[r].at = "remove" => call.kind = "unwatch"
        /\ req'[r].at = "rename" => call.kind = "rename"
    BY <2>1, <2>2 DEF TypeOK
  <2>4. \A k \in Keys : Agree(k) => Agree(k)'
    BY <2>2, AgreeFrame
  <2>5. OnePerChat'
    BY <2>1, <2>2, <2>3 DEF Following, OnePerChat, InFlight
  <2>6. \A k \in Keys : Quiet(k)' => Quiet(k)
    BY <2>2, <2>3 DEF Quiet, InFlight
  <2>7. Loaded'
    BY <2>1, <2>2, <2>4, <2>6 DEF Following, Loaded
  <2>8. call.target \in Addrs => Halfway(r)'
    <3>1. SUFFICES ASSUME call.target \in Addrs PROVE Agree(<<call.chat, call.target>>)
      BY <2>2, <2>3, <2>4 DEF Halfway, KeyOf, Keys
    <3>2. Quiet(<<call.chat, call.target>>)
      BY <2>1 DEF Quiet
    <3> QED
      BY <2>1, <2>2, <3>1, <3>2 DEF Following, Loaded, Keys
  <2>9. ASSUME NEW q \in Requests, q # r, InFlight(q)', req'[q].call.target \in Addrs PROVE Halfway(q)'
    <3>1. InFlight(q) /\ req'[q] = req[q] /\ Halfway(q) /\ ~IsTxID(q)
      BY <2>3, <2>9, Fresh DEF Following, IsTxID, InFlight
    <3>2. KeyOf(q) \in Keys /\ KeyOf(q)' = KeyOf(q)
      BY <3>1, CallShape DEF KeyOf
    <3> QED
      BY <2>2, <2>4, <3>1, <3>2 DEF Halfway, Watched
  <2> QED
    BY <2>3, <2>5, <2>7, <2>8, <2>9 DEF Following
<1>2. CASE CheckWatching(r)
  <2>1. req[r].at = "watching" /\ UNCHANGED <<stored, notifies, notifier, boot>> /\ (Finish(r) \/ Goto(r, "limit"))
    BY <1>2 DEF CheckWatching
  <2> QED
    BY <1>h, <2>1, WalkOn DEF InFlight, Halfway
<1>3. CASE AtWatchLimit(r)
  <2>1. req[r].at = "limit" /\ UNCHANGED <<stored, notifies, notifier, boot>> /\ (Finish(r) \/ Goto(r, "add"))
    BY <1>3 DEF AtWatchLimit
  <2> QED
    BY <1>h, <2>1, WalkOn DEF InFlight, Halfway
<1>4. CASE AddWatch(r)
  <2>1. InFlight(r) /\ req[r].at = "add" /\ UNCHANGED <<notifies, notifier, boot>>
    BY <1>4 DEF AddWatch, InFlight
  <2>2. CASE IsTxID(r)
    <3>1. Finish(r) /\ stored' = stored
      BY <1>4, <2>2 DEF AddWatch
    <3> QED
      BY <2>1, <2>2, <3>1, RequestKey, WalkOn
  <2>3. CASE ~IsTxID(r)
    <3>1. Goto(r, "start") /\ stored' = [stored EXCEPT ![KeyOf(r)] = req[r].call.alias] /\ KeyOf(r) \in Keys
      BY <1>4, <2>1, <2>3, RequestKey DEF AddWatch
    <3>2. /\ req'[r].at = "start" /\ InFlight(r)' /\ req'[r].call = req[r].call /\ KeyOf(r)' = KeyOf(r)
          /\ \A q \in Requests : q # r => req'[q] = req[q]
      BY <3>1, GotoMoves
    <3>3. \A k \in Keys : k # KeyOf(r) => stored'[k] = stored[k] /\ (Agree(k) => Agree(k)')
      BY <2>1, <3>1, AgreeFrame DEF TypeOK
    <3>4. Halfway(r)'
      BY <3>1, <3>2 DEF Halfway, TypeOK
    <3> QED
      BY <2>1, <3>2, <3>3, <3>4, MoveOn
  <2> QED
    BY <2>2, <2>3
<1>5. CASE StartNotifier(r)
  <2>1. /\ req[r].at = "start" /\ InFlight(r) /\ KeyOf(r) \in Keys /\ r \in Workers /\ Unused(r)
        /\ UNCHANGED <<stored, boot>> /\ StartNotifyChat(r, KeyOf(r), req[r].call.alias)
        /\ req[r].call.alias \in Aliases
    BY <1>5, KeyShape DEF StartNotifier, InFlight, AddrSteps, Workers, Names
  <2>2. PICK step \in {"renameConfirms", "seed"} : Goto(r, step)
    BY <1>5 DEF StartNotifier
  <2>3. /\ req'[r].at = step /\ InFlight(r)' /\ req'[r].call = req[r].call /\ KeyOf(r)' = KeyOf(r)
        /\ \A q \in Requests : q # r => req'[q] = req[q]
    BY <2>2, GotoMoves
  <2>4. \A k \in Keys : k # KeyOf(r) => stored'[k] = stored[k] /\ (Agree(k) => Agree(k)')
    BY <2>1, StartAgree
  <2>5. \A k \in Keys : k = KeyOf(r) => Agree(k)'
    <3>1. stored[KeyOf(r)] = req[r].call.alias
      BY <1>h, <2>1 DEF Halfway
    <3> QED
      BY <2>1, <3>1, StartAgree
  <2>6. Halfway(r)'
    BY <2>1, <2>2, <2>3, <2>5 DEF Halfway
  <2> QED
    BY <2>1, <2>3, <2>4, <2>6, MoveOn
<1>6. CASE StartSeed(r)
  <2>1. req[r].at = "seed" /\ UNCHANGED <<stored, notifies, notifier, boot>> /\ Finish(r)
    BY <1>6 DEF StartSeed
  <2> QED
    BY <1>h, <2>1, WalkOn DEF InFlight, Halfway
<1>7. CASE RemoveWatch(r) \/ SetAlias(r)
  <2>1. /\ InFlight(r) /\ UNCHANGED <<notifies, notifier, boot>>
        /\ \/ req[r].at = "remove" /\ RemoveWatch(r)
           \/ req[r].at = "rename" /\ SetAlias(r)
    BY <1>7 DEF RemoveWatch, SetAlias, InFlight
  <2>2. CASE IsTxID(r)
    <3>1. Finish(r) /\ stored' = stored
      BY <1>7, <2>2 DEF RemoveWatch, SetAlias
    <3> QED
      BY <2>1, <2>2, <3>1, RequestKey, WalkOn
  <2>3. CASE ~IsTxID(r) /\ stored[KeyOf(r)] = Absent
    <3>1. Finish(r) /\ stored' = stored
      BY <1>7, <2>3 DEF RemoveWatch, SetAlias, TypeOK
    <3> QED
      BY <1>h, <2>1, <3>1, WalkOn DEF Halfway
  <2>4. CASE ~IsTxID(r) /\ stored[KeyOf(r)] # Absent
    <3>1. /\ Goto(r, "stop") /\ KeyOf(r) \in Keys
          /\ \/ req[r].at = "remove" /\ stored' = [stored EXCEPT ![KeyOf(r)] = Absent]
             \/ req[r].at = "rename" /\ stored' = [stored EXCEPT ![KeyOf(r)] = req[r].call.alias]
      BY <2>1, <2>4, RequestKey DEF RemoveWatch, SetAlias
    <3>2. /\ req'[r].at = "stop" /\ InFlight(r)' /\ req'[r].call = req[r].call /\ KeyOf(r)' = KeyOf(r)
          /\ \A q \in Requests : q # r => req'[q] = req[q]
      BY <3>1, GotoMoves
    <3>3. \A k \in Keys : k # KeyOf(r) => stored'[k] = stored[k] /\ (Agree(k) => Agree(k)')
      BY <2>1, <3>1, AgreeFrame DEF TypeOK
    <3>4. req[r].at = "remove" => req[r].call.kind = "unwatch"
      BY <1>h, <2>1, <3>1 DEF Halfway
    <3>5. req[r].at = "rename" => req[r].call.kind = "rename"
      BY <1>h, <2>1, <3>1 DEF Halfway
    <3>6. Halfway(r)'
      BY <3>1, <3>2, <3>4, <3>5 DEF Halfway, TypeOK
    <3> QED
      BY <2>1, <3>2, <3>3, <3>6, MoveOn
  <2> QED
    BY <2>2, <2>3, <2>4
<1>8. CASE StopNotifier(r)
  <2>1. /\ req[r].at = "stop" /\ InFlight(r) /\ KeyOf(r) \in Keys /\ UNCHANGED <<stored, boot>>
        /\ StopNotifyChat(KeyOf(r))
        /\ Goto(r, IF req[r].call.kind = "rename" THEN "start" ELSE "confirms")
    BY <1>8, KeyShape DEF StopNotifier, InFlight, AddrSteps
  <2>2. /\ req'[r].at = IF req[r].call.kind = "rename" THEN "start" ELSE "confirms"
        /\ InFlight(r)' /\ req'[r].call = req[r].call /\ KeyOf(r)' = KeyOf(r)
        /\ \A q \in Requests : q # r => req'[q] = req[q]
    BY <2>1, GotoMoves
  <2>3. \A k \in Keys : k # KeyOf(r) => stored'[k] = stored[k] /\ (Agree(k) => Agree(k)')
    BY <2>1, StopAgree
  <2>4. stored[KeyOf(r)] = IF req[r].call.kind = "rename" THEN req[r].call.alias ELSE Absent
    BY <1>h, <2>1 DEF Halfway
  <2>5. notifies'[KeyOf(r)] = None
    BY <2>1 DEF StopNotifyChat, TypeOK
  <2>6. Halfway(r)'
    BY <2>1, <2>2, <2>4, <2>5 DEF Halfway, Agree, Watched
  <2> QED
    BY <2>1, <2>2, <2>3, <2>6, MoveOn
<1>9. CASE RemoveAddrConfirms(r)
  <2>1. req[r].at = "confirms" /\ UNCHANGED <<stored, notifies, notifier, boot>> /\ Goto(r, "scripts")
    BY <1>9 DEF RemoveAddrConfirms
  <2> QED
    BY <1>h, <2>1, WalkOn DEF InFlight, Halfway
<1>10. CASE UnwatchScripts(r) \/ SetAddrAlias(r)
  <2>1. req[r].at \in {"scripts", "renameConfirms"} /\ UNCHANGED <<stored, notifies, notifier, boot>> /\ Finish(r)
    BY <1>10 DEF UnwatchScripts, SetAddrAlias
  <2> QED
    BY <1>h, <2>1, WalkOn DEF InFlight, Halfway
<1>11. CASE DbError(r)
  BY <1>11 DEF DbError
<1> QED
  BY <1>1, <1>2, <1>3, <1>4, <1>5, <1>6, <1>7, <1>8, <1>9, <1>10, <1>11 DEF Request

LEMMA StartUpFollow == ASSUME TypeOK, Names, Following, ~Fault, StartUp PROVE Following'
<1> USE DEF store, notify, match, confirm, env, told
<1>1. boot.at # "up" /\ req' = req /\ stored' = stored /\ \A r \in Requests : ~InFlight(r)
  BY DEF StartUp, ListWatches, StartListed, SeedListed, StartZMQ, Following, OnePerChat
<1>2. \A r \in Requests : ~InFlight(r)'
  BY <1>1 DEF InFlight
<1>3. OnePerChat' /\ \A r \in Requests : InFlight(r)' /\ req'[r].call.target \in Addrs => Halfway(r)'
  BY <1>2 DEF OnePerChat
<1>4. \A k \in Keys : Quiet(k)
  BY <1>1 DEF Quiet
<1>5. CASE ListWatches
  <2>1. /\ boot.at = "list" /\ boot'.at = "start" /\ UNCHANGED <<notifies, notifier>>
        /\ boot'.rows = {<<k, stored[k]>> : k \in {j \in Keys : stored[j] # Absent}}
    BY <1>5 DEF ListWatches
  <2>2. \A k \in Keys : notifies[k] = None
    BY <2>1 DEF Following, Loaded
  <2>3. ASSUME NEW k \in Keys, \A row \in boot'.rows : row[1] # k PROVE Agree(k)'
    <3>1. stored[k] # Absent => <<k, stored[k]>> \in boot'.rows
      BY <2>1
    <3>2. stored[k] = Absent
      BY <2>3, <3>1
    <3> QED
      BY <1>1, <2>1, <2>2, <3>2 DEF Agree, Watched
  <2>4. ASSUME NEW k \in Keys, NEW row \in boot'.rows, row[1] = k
        PROVE  Watched(k)' /\ stored'[k] = row[2] /\ notifies'[k] = None
    BY <1>1, <2>1, <2>2, <2>4 DEF Watched
  <2>5. Loaded'
    BY <2>1, <2>3, <2>4 DEF Loaded
  <2> QED
    BY <1>3, <2>5 DEF Following
<1>6. CASE StartListed
  <2>1. PICK row \in boot.rows : StartNotifyChat(row[1], row[1], row[2]) /\ boot' = [boot EXCEPT !.rows = boot.rows \ {row}]
    BY <1>6 DEF StartListed
  <2>2. /\ row[1] \in Keys /\ row[1] \in Workers /\ row[2] \in Aliases /\ Unused(row[1])
        /\ boot.at = "start" /\ boot'.at = "start" /\ boot'.rows = boot.rows \ {row}
        /\ \A other \in boot.rows : other[1] = row[1] => other = row
    BY <1>6, <2>1 DEF StartListed, TypeOK, Workers, Names
  <2>3. ASSUME NEW k \in Keys, \A other \in boot'.rows : other[1] # k PROVE Agree(k)'
    <3>1. CASE k = row[1]
      <4>1. stored[k] = row[2]
        BY <2>1, <2>2, <3>1 DEF Following, Loaded
      <4> QED
        BY <1>1, <2>1, <2>2, <3>1, <4>1, StartAgree
    <3>2. CASE k # row[1]
      <4>1. \A other \in boot.rows : other[1] # k
        BY <2>2, <2>3, <3>2
      <4>2. Agree(k)
        BY <2>2, <4>1 DEF Following, Loaded
      <4> QED
        BY <1>1, <2>1, <2>2, <3>2, <4>2, StartAgree
    <3> QED
      BY <3>1, <3>2
  <2>4. ASSUME NEW k \in Keys, NEW other \in boot'.rows, other[1] = k
        PROVE  Watched(k)' /\ stored'[k] = other[2] /\ notifies'[k] = None
    <3>1. other \in boot.rows /\ k # row[1]
      BY <2>2, <2>4
    <3>2. Watched(k) /\ stored[k] = other[2] /\ notifies[k] = None
      BY <2>2, <2>4, <3>1 DEF Following, Loaded
    <3>3. notifies'[k] = notifies[k]
      BY <2>1, <3>1 DEF StartNotifyChat, TypeOK
    <3> QED
      BY <1>1, <3>2, <3>3 DEF Watched
  <2>5. Loaded'
    BY <2>2, <2>3, <2>4 DEF Loaded
  <2> QED
    BY <1>3, <2>5 DEF Following
<1>7. CASE SeedListed \/ StartZMQ
  <2>1. UNCHANGED <<notifies, notifier>> /\ boot'.at \in {"subscribe", "up"}
    BY <1>7 DEF SeedListed, StartZMQ, TypeOK
  <2>2. \A k \in Keys : Agree(k)
    BY <1>4, <1>7 DEF SeedListed, StartZMQ, Following, Loaded
  <2>3. \A k \in Keys : Agree(k)'
    BY <1>1, <2>1, <2>2, AgreeFrame
  <2>4. Loaded'
    BY <2>1, <2>3 DEF Loaded
  <2> QED
    BY <1>3, <2>4 DEF Following
<1> QED
  BY <1>5, <1>6, <1>7 DEF StartUp

LEMMA StepFollow == ASSUME Orderly, TypeOK, Names, FollowInv, [Next]_vars PROVE FollowInv'
<1> SUFFICES ASSUME faults' = 0 PROVE Following'
  BY DEF FollowInv
<1>f. Following /\ ~Fault
  BY FaultsGrow DEF FollowInv
<1> USE DEF store, notify, match, confirm, told
<1>1. CASE \E r \in Requests : Request(r)
  BY <1>f, <1>1, RequestFollow
<1>2. CASE StartUp
  BY <1>f, <1>2, StartUpFollow
<1>3. CASE Restart
  <2>1. boot'.at = "list" /\ (\A k \in Keys : notifies'[k] = None) /\ \A r \in Requests : ~InFlight(r)'
    BY <1>3 DEF Restart, InFlight, Idle, Done
  <2> QED
    BY <2>1 DEF Following, OnePerChat, Loaded
<1>4. CASE \/ \E j \in Requests \cup {Boot} : Seed(j)
           \/ \E b \in Bcasts : Broadcast(b)
           \/ \E g \in Workers : Notifier(g)
           \/ \E t \in Txs : ProcessConfirms(t) \/ Core(t)
           \/ ReceiveTx \/ ReceiveBlock \/ LoseMessage
           \/ UNCHANGED vars
  <2>1. UNCHANGED <<stored, req, notifies>> /\ boot' = boot
    BY <1>4 DEF env, vars, Seed, WatchScript, ScanTxOutSet, WatchOutpoint, Broadcast, AlreadyNotified, RecordOutpoints,
                SnapshotChannels, Deliver, GiveUp, Notifier, Send, AddAddrConfirm, Exit, ProcessConfirms, AnyPending,
                TakeConfirms, SendConfirm, Core, EnterMempool, Mine, Disconnect, ReceiveTx, ReceiveBlock, LoseMessage
  <2>2. \A g \in Workers : notifier'[g].alias = notifier[g].alias \/ notifier[g].stopped
    <3>n. notifier \in [Workers -> NotifierState]
      BY DEF TypeOK
    <3>1. CASE \E b \in Bcasts : Broadcast(b)
      <4>1. PICK b \in Bcasts : Broadcast(b)
        BY <3>1
      <4>2. notifier' = notifier \/ \E h \in Workers : notifier' = [notifier EXCEPT ![h] = WorkerAt(notifier[h], "sending", b[1])]
        BY <4>1 DEF Broadcast, AlreadyNotified, RecordOutpoints, SnapshotChannels, Deliver, GiveUp
      <4> QED
        BY <3>n, <4>2 DEF WorkerAt
    <3>2. CASE \E g \in Workers : Notifier(g)
      <4>1. PICK g \in Workers : Notifier(g)
        BY <3>2
      <4>2. \/ notifier' = [notifier EXCEPT ![g] = NoWorker] /\ notifier[g].stopped
            \/ notifier' = [notifier EXCEPT ![g] = WorkerAt(notifier[g], "noting", notifier[g].tx)]
            \/ notifier' = [notifier EXCEPT ![g] = WorkerAt(notifier[g], "idle", None)]
        BY <4>1 DEF Notifier, Send, AddAddrConfirm, Exit
      <4> QED
        BY <3>n, <4>2 DEF WorkerAt
    <3>3. CASE notifier' = notifier
      BY <3>3
    <3> QED
      BY <1>4, <3>1, <3>2, <3>3 DEF vars, Seed, WatchScript, ScanTxOutSet, WatchOutpoint, ProcessConfirms, AnyPending,
                TakeConfirms, SendConfirm, Core, EnterMempool, Mine, Disconnect, ReceiveTx, ReceiveBlock, LoseMessage
  <2>3. ASSUME NEW k \in Keys, Agree(k) PROVE Agree(k)'
    <3>1. notifies[k] # None => notifies[k] \in Workers /\ ~notifier[notifies[k]].stopped
      BY DEF Names, TypeOK
    <3>2. notifies[k] # None => notifier'[notifies[k]].alias = notifier[notifies[k]].alias
      BY <2>2, <3>1
    <3> QED
      BY <2>1, <2>3, <3>2, AgreeFrame
  <2> QED
    BY <1>f, <2>1, <2>3, FollowKept
<1> QED
  BY <1>1, <1>2, <1>3, <1>4 DEF Next

\* Once no request is at work on a key, its row, the notifies map and the
\* notifier's alias agree, for any number of chats, requests and restarts,
\* while a chat's requests come one after the other and no call fails.
THEOREM FollowsTable == Orderly /\ Spec => []NotifiersFollowTable
<1> SUFFICES ASSUME Orderly PROVE Spec => []NotifiersFollowTable
  OBVIOUS
<1>1. Init => FollowInv
  BY DEF Init, FollowInv, Following, OnePerChat, Loaded, InFlight, Idle
<1>2. TypeOK /\ Names /\ FollowInv /\ [Next]_vars => FollowInv'
  BY StepFollow
<1>3. TypeOK /\ Names /\ [Next]_vars => Names'
  BY StepNames
<1>4. TypeOK /\ Names /\ FollowInv => NotifiersFollowTable
  <2> SUFFICES ASSUME TypeOK, Names, FollowInv, NEW k \in Keys, Running, faults = 0, Quiet(k)
               PROVE  /\ Watched(k) <=> notifies[k] # None
                      /\ Watched(k) => /\ notifier[notifies[k]].key = k
                                       /\ notifier[notifies[k]].alias = stored[k]
                                       /\ ~notifier[notifies[k]].stopped
    BY DEF NotifiersFollowTable
  <2>1. Agree(k)
    BY DEF FollowInv, Following, Loaded, Running
  <2> QED
    BY <2>1 DEF Agree, Names
<1> QED
  BY <1>1, <1>2, <1>3, <1>4, InitNames, TypeCorrect, PTL DEF Spec

-----------------------------------------------------------------------------
(* The script of a watched address.                                        *)

\* A chat never watches the address: no table the process starts with has the
\* row, and the chat does not ask for it.
Never(k) == /\ \A rows \in StoredAtStart : rows[k] = Absent
            /\ \A call \in Calls : call.kind \in {"watch", "bell"} => <<call.chat, call.target>> # k

\* An address that a chat unwatches is watched by no other chat.
UnwatchedAlone ==
    \A call \in Calls, k \in Keys :
        call.kind = "unwatch" /\ call.target = k[2] /\ call.chat # k[1] => Never(k)

\* Which kinds of request come to which step.
Kinds(r) ==
    LET kind == req[r].call.kind IN
    /\ req[r].at \in {"watching", "limit", "add"} => kind \in {"watch", "bell"}
    /\ req[r].at = "start" => kind \in {"watch", "bell", "rename"}
    /\ req[r].at = "seed" => kind \in {"watch", "bell"}
    /\ req[r].at \in {"remove", "confirms", "scripts"} => kind = "unwatch"
    /\ req[r].at = "stop" => kind \in {"unwatch", "rename"}
    /\ req[r].at = "rename" => kind = "rename"

\* A request that has not ended has no seeding, and what a seeding has still to
\* validate it validates before it scans.
Seeds == /\ \A r \in Requests : req[r].at # "done" => seed[r] = NoSeed
         /\ \A j \in Requests \cup {Boot} : seed[j].at # "validate" => seed[j].todo = {}

\* The address of a watch is matched, or a seeding or a request is about to see
\* to it.
Adding(r, k) == KeyOf(r) = k /\ req[r].at \in {"start", "seed"} /\ req[r].call.kind # "rename"
Covered(k) == \/ k[2] \in scripts
              \/ \E j \in Requests \cup {Boot} : k[2] \in seed[j].todo
              \/ \E r \in Requests : Adding(r, k)

MatchInv == /\ \A r \in Requests : Kinds(r)
            /\ Seeds
            /\ \A k \in Keys : Never(k) => ~Watched(k)
            /\ faults = 0 /\ boot.at \in {"subscribe", "up"} => \A k \in Keys : Watched(k) => Covered(k)

LEMMA StepKinds ==
    ASSUME TypeOK, \A r \in Requests : Kinds(r), [Next]_vars
    PROVE  \A r \in Requests : Kinds(r)'
<1>1. ASSUME NEW r \in Requests, Request(r) PROVE \A q \in Requests : Kinds(q)'
  <2>1. req \in [Requests -> ReqState]
    BY DEF TypeOK
  <2>2. CASE Begin(r)
    <3>1. PICK call \in Calls :
            req' = [req EXCEPT ![r] = [call |-> call,
               at |-> CASE call.kind = "watch"   -> "limit"
                        [] call.kind = "bell"    -> "watching"
                        [] call.kind = "unwatch" -> "remove"
                        [] call.kind = "rename"  -> "rename"]]
      BY <2>2 DEF Begin
    <3>2. call.kind \in {"watch", "bell", "unwatch", "rename"}
      BY CallsType DEF Call
    <3> QED
      BY <2>1, <3>1, <3>2 DEF Kinds
  <2>3. ASSUME Finish(r) PROVE \A q \in Requests : Kinds(q)'
    BY <2>3, FinishEnds DEF Kinds
  <2>4. ASSUME NEW step, step \notin {"idle", "done"}, Goto(r, step),
               /\ step \in {"limit", "add"} => req[r].call.kind \in {"watch", "bell"}
               /\ step = "start" => req[r].call.kind \in {"watch", "bell", "rename"}
               /\ step = "seed" => req[r].call.kind \in {"watch", "bell"}
               /\ step \in {"confirms", "scripts"} => req[r].call.kind = "unwatch"
               /\ step = "stop" => req[r].call.kind \in {"unwatch", "rename"}
               /\ step \notin {"watching", "remove", "rename"}
        PROVE  \A q \in Requests : Kinds(q)'
    BY <2>4, GotoMoves DEF Kinds
  <2>5. CASE CheckWatching(r)
    BY <2>3, <2>4, <2>5 DEF CheckWatching, Kinds
  <2>6. CASE AtWatchLimit(r)
    BY <2>3, <2>4, <2>6 DEF AtWatchLimit, Kinds
  <2>7. CASE AddWatch(r)
    BY <2>3, <2>4, <2>7 DEF AddWatch, Kinds
  <2>8. CASE StartNotifier(r)
    BY <2>4, <2>8 DEF StartNotifier, Kinds
  <2>9. CASE RemoveWatch(r)
    BY <2>3, <2>4, <2>9 DEF RemoveWatch, Kinds
  <2>10. CASE SetAlias(r)
    BY <2>3, <2>4, <2>10 DEF SetAlias, Kinds
  <2>11. CASE StopNotifier(r)
    BY <2>4, <2>11 DEF StopNotifier, Kinds
  <2>12. CASE RemoveAddrConfirms(r)
    BY <2>4, <2>12 DEF RemoveAddrConfirms, Kinds
  <2>13. CASE StartSeed(r) \/ UnwatchScripts(r) \/ SetAddrAlias(r) \/ DbError(r)
    BY <2>3, <2>13 DEF StartSeed, UnwatchScripts, SetAddrAlias, DbError
  <2> QED
    BY <1>1, <2>2, <2>5, <2>6, <2>7, <2>8, <2>9, <2>10, <2>11, <2>12, <2>13 DEF Request
<1>2. CASE Restart
  BY <1>2 DEF Restart, Kinds, Idle, Done
<1>3. CASE req' = req
  BY <1>3 DEF Kinds
<1> QED
  BY <1>1, <1>2, <1>3 DEF Next, vars, Seed, WatchScript, ScanTxOutSet, WatchOutpoint, StartUp, ListWatches, StartListed,
     SeedListed, StartZMQ, ReceiveTx, ReceiveBlock, LoseMessage, Broadcast, AlreadyNotified, RecordOutpoints,
     SnapshotChannels, Deliver, GiveUp, Notifier, Send, AddAddrConfirm, Exit, ProcessConfirms, AnyPending, TakeConfirms,
     SendConfirm, Core, EnterMempool, Mine, Disconnect

\* A request moves from a step of its own, and no other.
LEMMA OnlyOwn ==
    ASSUME TypeOK, NEW r \in Requests, Request(r)
    PROVE  /\ req[r].at # "done" /\ req'[r].at # "idle"
           /\ \A q \in Requests : q # r => req'[q] = req[q]
<1>1. CASE Begin(r)
  BY <1>1, CallsType DEF Begin, Call, TypeOK
<1>2. Begin(r) \/ (InFlight(r) /\ (Finish(r) \/ \E step \in ReqSteps \ {"idle", "done"} : Goto(r, step)))
  BY DEF Request, CheckWatching, AtWatchLimit, AddWatch, StartNotifier, StartSeed, RemoveWatch, SetAlias,
         StopNotifier, RemoveAddrConfirms, UnwatchScripts, SetAddrAlias, DbError, InFlight, ReqSteps
<1> QED
  BY <1>1, <1>2, FinishEnds, GotoMoves DEF InFlight

LEMMA StepSeeds == ASSUME TypeOK, Seeds, [Next]_vars PROVE Seeds'
<1> USE DEF match
<1>t. seed \in [Requests \cup {Boot} -> SeedState] /\ req \in [Requests -> ReqState] /\ Boot \notin Requests
  BY Fresh DEF TypeOK
<1>1. ASSUME NEW r \in Requests, Request(r) PROVE Seeds'
  <2>1. /\ req[r].at # "done" /\ req'[r].at # "idle"
        /\ \A q \in Requests : q # r => req'[q] = req[q]
    BY <1>1, OnlyOwn
  <2>2. CASE StartSeed(r)
    <3>1. seed' = [seed EXCEPT ![r] = NewSeed({req[r].call.target})] /\ req'[r].at = "done"
      BY <1>t, <2>2 DEF StartSeed, Finish, Done
    <3> QED
      BY <1>t, <2>1, <3>1 DEF Seeds, NewSeed, SeedAt, NoSeed
  <2>3. CASE ~StartSeed(r)
    <3>1. seed' = seed
      BY <1>1, <2>3 DEF Request, Begin, CheckWatching, AtWatchLimit, AddWatch, StartNotifier, RemoveWatch, SetAlias,
                StopNotifier, RemoveAddrConfirms, UnwatchScripts, SetAddrAlias, DbError
    <3> QED
      BY <2>1, <3>1 DEF Seeds
  <2> QED
    BY <2>2, <2>3
<1>2. ASSUME NEW j \in Requests \cup {Boot}, Seed(j) PROVE Seeds'
  <2>1. req' = req /\ seed[j].at # "none" /\ \A i \in Requests \cup {Boot} : i # j => seed'[i] = seed[i]
    BY <1>2, <1>t DEF Seed, WatchScript, Advance, ScanTxOutSet, WatchOutpoint
  <2>2. seed'[j].at # "validate" => seed'[j].todo = {}
    <3>1. CASE WatchScript(j)
      BY <1>t, <3>1 DEF WatchScript, Advance, SeedAt, NoSeed
    <3>2. CASE ScanTxOutSet(j)
      BY <1>t, <3>2 DEF ScanTxOutSet, SeedAt, NoSeed
    <3>3. CASE WatchOutpoint(j)
      BY <1>t, <3>3 DEF WatchOutpoint, SeedAt, NoSeed
    <3> QED
      BY <1>2, <3>1, <3>2, <3>3 DEF Seed
  <2> QED
    BY <2>1, <2>2 DEF Seeds, NoSeed, SeedAt
<1>3. CASE SeedListed
  <2>1. PICK as : seed' = [seed EXCEPT ![Boot] = NewSeed(as)] /\ req' = req
    BY <1>3 DEF SeedListed
  <2> QED
    BY <1>t, <2>1 DEF Seeds, NewSeed, SeedAt, NoSeed
<1>4. CASE Restart
  BY <1>4 DEF Restart, Seeds, NoSeed, SeedAt
<1>5. CASE req' = req /\ seed' = seed
  BY <1>5 DEF Seeds
<1> QED
  BY <1>1, <1>2, <1>3, <1>4, <1>5 DEF Next, vars, StartUp, ListWatches, StartListed,
     StartZMQ, ReceiveTx, ReceiveBlock, LoseMessage, Broadcast, AlreadyNotified, RecordOutpoints,
     SnapshotChannels, Deliver, GiveUp, Notifier, Send, AddAddrConfirm, Exit, ProcessConfirms, AnyPending, TakeConfirms,
     SendConfirm, Core, EnterMempool, Mine, Disconnect

\* Only AddWatch makes a row.
LEMMA RowMade ==
    ASSUME TypeOK, NEW r \in Requests, Request(r), NEW k \in Keys, Watched(k)', ~Watched(k)
    PROVE  AddWatch(r) /\ ~IsTxID(r) /\ k = KeyOf(r)
<1>s. stored \in [Keys -> Aliases \cup {Absent}] /\ stored' # stored
  BY DEF TypeOK, Watched
<1>1. AddWatch(r) \/ RemoveWatch(r) \/ SetAlias(r)
  BY <1>s DEF store, Request, Begin, CheckWatching, AtWatchLimit, StartNotifier, StartSeed,
     StopNotifier, RemoveAddrConfirms, UnwatchScripts, SetAddrAlias, DbError
<1>2. CASE AddWatch(r)
  BY <1>2, <1>s DEF AddWatch, Watched
<1>3. CASE RemoveWatch(r)
  BY <1>3, <1>s DEF RemoveWatch, Watched
<1>4. CASE SetAlias(r)
  BY <1>4, <1>s DEF SetAlias, Watched
<1> QED
  BY <1>1, <1>2, <1>3, <1>4

LEMMA RowsOfRequests ==
    ASSUME [Next]_vars, stored' # stored
    PROVE  \E r \in Requests : Request(r)
BY DEF Next, vars, store, Seed, WatchScript, ScanTxOutSet, WatchOutpoint,
     StartUp, ListWatches, StartListed, SeedListed, StartZMQ, ReceiveTx, ReceiveBlock, LoseMessage,
     Broadcast, AlreadyNotified, RecordOutpoints, SnapshotChannels, Deliver, GiveUp, Notifier, Send, AddAddrConfirm,
     Exit, ProcessConfirms, AnyPending, TakeConfirms, SendConfirm, Core, EnterMempool, Mine, Disconnect, Restart

LEMMA StepNever ==
    ASSUME TypeOK, \A r \in Requests : Kinds(r), [Next]_vars, NEW k \in Keys, Never(k), ~Watched(k)
    PROVE  ~Watched(k)'
<1>1. SUFFICES ASSUME Watched(k)' PROVE FALSE
  OBVIOUS
<1>r. stored' # stored
  BY <1>1 DEF Watched
<1>2. PICK r \in Requests : AddWatch(r) /\ ~IsTxID(r) /\ k = KeyOf(r)
  BY <1>1, <1>r, RowsOfRequests, RowMade
<1>3. req[r].call.kind \in {"watch", "bell"} /\ req[r].call \in Calls
  BY <1>2 DEF AddWatch, Kinds, TypeOK, InFlight
<1> QED
  BY <1>2, <1>3 DEF Never, KeyOf

\* A step that takes no script away and ends no seeding of the address.
LEMMA CoveredKept ==
    ASSUME NEW k, Covered(k), scripts \subseteq scripts',
           \A j \in Requests \cup {Boot} : seed[j].todo \subseteq seed'[j].todo \cup scripts',
           \A r \in Requests : Adding(r, k) => Adding(r, k)' \/ \E j \in Requests \cup {Boot} : k[2] \in seed'[j].todo
    PROVE  Covered(k)'
BY DEF Covered

LEMMA RequestCovered ==
    ASSUME Orderly, UnwatchedAlone, TypeOK, Following, MatchInv, ~Fault, NEW r \in Requests, Request(r),
           boot.at \in {"subscribe", "up"}, NEW k \in Keys, Watched(k)', Watched(k) => Covered(k)
    PROVE  Covered(k)'
<1> USE DEF store, notify, match, confirm, env, told
<1>t. seed \in [Requests \cup {Boot} -> SeedState] /\ req \in [Requests -> ReqState]
  BY DEF TypeOK
<1>1. CASE AddWatch(r) /\ ~Watched(k)
  <2>1. k = KeyOf(r) /\ ~IsTxID(r)
    <3>1. stored \in [Keys -> Aliases \cup {Absent}]
      BY DEF TypeOK
    <3> QED
      BY <1>1, <3>1 DEF AddWatch, Watched
  <2>2. req[r].call.kind \in {"watch", "bell"} /\ Goto(r, "start")
    BY <1>1, <2>1 DEF AddWatch, MatchInv, Kinds
  <2>3. Adding(r, k)'
    BY <2>1, <2>2, GotoMoves DEF Adding
  <2> QED
    BY <2>3 DEF Covered
<1>2. CASE StartSeed(r)
  <2>1. /\ seed' = [seed EXCEPT ![r] = NewSeed({req[r].call.target})] /\ UNCHANGED <<stored, scripts>>
        /\ seed[r] = NoSeed /\ Finish(r)
    BY <1>2 DEF StartSeed, MatchInv, Seeds
  <2>2. seed'[r].todo = {req[r].call.target} /\ \A j \in Requests \cup {Boot} : j # r => seed'[j] = seed[j]
    BY <1>t, <2>1 DEF NewSeed, SeedAt
  <2>3. seed[r].todo = {}
    BY <2>1 DEF NoSeed, SeedAt
  <2>4. Adding(r, k) => k[2] \in seed'[r].todo
    BY <2>2 DEF Adding, KeyOf
  <2>5. \A q \in Requests : q # r => (Adding(q, k) => Adding(q, k)')
    BY <2>1, FinishEnds DEF Adding, KeyOf
  <2>6. Covered(k)
    BY <2>1 DEF Watched
  <2> QED
    BY <2>1, <2>2, <2>3, <2>4, <2>5, <2>6, CoveredKept
<1>3. CASE UnwatchScripts(r)
  <2>1. /\ req[r].at = "scripts" /\ scripts' = scripts \ {req[r].call.target} /\ Finish(r)
        /\ UNCHANGED <<stored, seed>>
    BY <1>3 DEF UnwatchScripts
  <2>2. req[r].call.kind = "unwatch" /\ req[r].call \in Calls /\ req[r].call.target \in Addrs /\ InFlight(r)
    BY <2>1 DEF MatchInv, Kinds, TypeOK, InFlight, AddrSteps
  <2>3. Watched(k) /\ Covered(k)
    BY <2>1 DEF Watched
  <2>4. k[2] # req[r].call.target
    <3>1. SUFFICES ASSUME k[2] = req[r].call.target PROVE FALSE
      OBVIOUS
    <3>2. CASE k[1] = req[r].call.chat
      <4>1. k = KeyOf(r)
        BY <3>1, <3>2 DEF KeyOf, Keys
      <4> QED
        BY <2>1, <2>2, <2>3, <4>1 DEF Following, Halfway
    <3>3. CASE k[1] # req[r].call.chat
      BY <2>2, <2>3, <3>1, <3>3 DEF UnwatchedAlone, MatchInv
    <3> QED
      BY <3>2, <3>3
  <2>5. \A q \in Requests : Adding(q, k) => Adding(q, k)'
    BY <2>1, FinishEnds DEF Adding, KeyOf
  <2> QED
    BY <2>1, <2>3, <2>4, <2>5 DEF Covered
<1>4. CASE ~StartSeed(r) /\ ~UnwatchScripts(r) /\ (AddWatch(r) => Watched(k))
  <2>1. UNCHANGED <<scripts, seed>>
    BY <1>4 DEF Request, Begin, CheckWatching, AtWatchLimit, AddWatch, StartNotifier, RemoveWatch, SetAlias,
                StopNotifier, RemoveAddrConfirms, SetAddrAlias, DbError
  <2>2. Watched(k)
    BY <1>4, RowMade
  <2>3. \A q \in Requests : Adding(q, k) => Adding(q, k)'
    <3>1. \A q \in Requests : q # r => req'[q] = req[q]
      BY OnlyOwn
    <3>2. ASSUME Adding(r, k) PROVE Adding(r, k)'
      <4>1. StartNotifier(r) /\ req[r].call.kind # "rename" /\ KeyOf(r) = k
        BY <1>4, <3>2 DEF Adding, Request, Begin, CheckWatching, AtWatchLimit, AddWatch, StartNotifier, RemoveWatch,
           SetAlias, StopNotifier, RemoveAddrConfirms, SetAddrAlias, DbError
      <4>2. Goto(r, "seed")
        BY <4>1 DEF StartNotifier
      <4> QED
        BY <4>1, <4>2, GotoMoves DEF Adding
    <3> QED
      BY <3>1, <3>2 DEF Adding, KeyOf
  <2> QED
    BY <2>1, <2>2, <2>3, CoveredKept
<1> QED
  BY <1>1, <1>2, <1>3, <1>4

LEMMA SeedCovered ==
    ASSUME TypeOK, Seeds, ~Fault, NEW i \in Requests \cup {Boot}, Seed(i), NEW k \in Keys, Covered(k)
    PROVE  Covered(k)'
<1> USE DEF store, notify, match, confirm, env, told
<1>t. seed \in [Requests \cup {Boot} -> SeedState]
  BY DEF TypeOK
<1>1. req' = req
  BY DEF Seed, WatchScript, ScanTxOutSet, WatchOutpoint
<1>2. /\ scripts \subseteq scripts'
      /\ seed[i].todo \subseteq seed'[i].todo \cup scripts'
      /\ \A j \in Requests \cup {Boot} : j # i => seed'[j] = seed[j]
  <2>1. CASE WatchScript(i)
    <3>1. PICK a \in seed[i].todo : /\ scripts' = scripts \cup {a}
                                    /\ Advance(i, seed[i].todo \ {a}, seed[i].own \cup {a})
      BY <2>1 DEF WatchScript
    <3> QED
      BY <1>t, <3>1 DEF Advance, SeedAt, NoSeed
  <2>2. CASE ScanTxOutSet(i) \/ WatchOutpoint(i)
    <3>1. seed[i].at # "validate" /\ scripts' = scripts /\ \A j \in Requests \cup {Boot} : j # i => seed'[j] = seed[j]
      BY <1>t, <2>2 DEF ScanTxOutSet, WatchOutpoint
    <3> QED
      BY <3>1 DEF Seeds
  <2> QED
    BY <2>1, <2>2 DEF Seed
<1>3. \A r \in Requests : Adding(r, k) => Adding(r, k)'
  BY <1>1 DEF Adding, KeyOf
<1> QED
  BY <1>2, <1>3, CoveredKept

LEMMA StepMatch ==
    ASSUME Orderly, UnwatchedAlone, TypeOK, FollowInv, MatchInv, [Next]_vars
    PROVE  MatchInv'
<1>1. \A r \in Requests : Kinds(r)'
  BY StepKinds DEF MatchInv
<1>2. Seeds'
  BY StepSeeds DEF MatchInv
<1>3. \A k \in Keys : Never(k) => ~Watched(k)'
  BY StepNever DEF MatchInv
<1>4. ASSUME faults' = 0, boot'.at \in {"subscribe", "up"}, NEW k \in Keys, Watched(k)'
      PROVE  Covered(k)'
  <2>f. faults = 0 /\ ~Fault /\ Following
    BY <1>4, FaultsGrow DEF FollowInv
  <2>1. CASE \E r \in Requests : Request(r)
    <3>1. PICK r \in Requests : Request(r)
      BY <2>1
    <3>2. boot' = boot
      BY <3>1 DEF Request, Begin, CheckWatching, AtWatchLimit, AddWatch, StartNotifier, StartSeed, RemoveWatch, SetAlias,
                  StopNotifier, RemoveAddrConfirms, UnwatchScripts, SetAddrAlias, DbError, env
    <3>3. Watched(k) => Covered(k)
      BY <1>4, <2>f, <3>2 DEF MatchInv
    <3> QED
      BY <1>4, <2>f, <3>1, <3>2, <3>3, RequestCovered
  <2>2. CASE SeedListed
    <3>1. /\ boot.at = "start" /\ boot.rows = {} /\ stored' = stored /\ Boot \in DOMAIN seed
          /\ seed' = [seed EXCEPT ![Boot] = NewSeed({j[2] : j \in {h \in Keys : notifies[h] # None}})]
      BY <2>2 DEF SeedListed, store, TypeOK
    <3>2. notifies[k] # None
      BY <1>4, <2>f, <3>1 DEF Following, Loaded, Agree, Watched
    <3>3. k[2] \in seed'[Boot].todo
      BY <3>1, <3>2 DEF NewSeed, SeedAt
    <3> QED
      BY <3>3 DEF Covered
  <2>3. CASE StartUp /\ ~SeedListed
    <3>1. StartZMQ
      <4>1. ~ListWatches
        BY <1>4, <2>f DEF ListWatches
      <4>2. ~StartListed
        <5>1. boot \in [at : {"list", "start", "subscribe", "up"}, rows : SUBSET (Keys \X Aliases)]
          BY DEF TypeOK
        <5> QED
          BY <1>4, <5>1 DEF StartListed
      <4> QED
        BY <2>3, <4>1, <4>2 DEF StartUp
    <3>2. boot.at = "subscribe" /\ UNCHANGED <<stored, req, scripts, seed>>
      BY <3>1 DEF StartZMQ, store, match
    <3>3. Covered(k)
      BY <1>4, <2>f, <3>2 DEF MatchInv, Watched
    <3> QED
      BY <3>2, <3>3 DEF Covered, Adding, KeyOf
  <2>4. CASE Restart
    BY <1>4, <2>4 DEF Restart
  <2>5. CASE \E i \in Requests \cup {Boot} : Seed(i)
    <3>1. stored' = stored /\ boot' = boot
      BY <2>5 DEF Seed, WatchScript, ScanTxOutSet, WatchOutpoint, store, env
    <3> QED
      BY <1>4, <2>5, <2>f, <3>1, SeedCovered DEF MatchInv, Watched
  <2>6. CASE \/ \E b \in Bcasts : Broadcast(b)
             \/ \E g \in Workers : Notifier(g)
             \/ \E t \in Txs : ProcessConfirms(t) \/ Core(t)
             \/ ReceiveTx \/ ReceiveBlock \/ LoseMessage
             \/ UNCHANGED vars
    <3>1. UNCHANGED <<stored, req, scripts, seed>> /\ boot' = boot
      BY <2>6 DEF vars, store, match, env, Broadcast, AlreadyNotified, RecordOutpoints, SnapshotChannels, Deliver, GiveUp,
                  Notifier, Send, AddAddrConfirm, Exit, ProcessConfirms, AnyPending, TakeConfirms, SendConfirm, Core,
                  EnterMempool, Mine, Disconnect, ReceiveTx, ReceiveBlock, LoseMessage
    <3>2. Covered(k)
      BY <1>4, <2>f, <3>1 DEF MatchInv, Watched
    <3> QED
      BY <3>1, <3>2 DEF Covered, Adding, KeyOf
  <2> QED
    BY <2>1, <2>2, <2>3, <2>4, <2>5, <2>6 DEF Next
<1> QED
  BY <1>1, <1>2, <1>3, <1>4 DEF MatchInv, Never

LEMMA AlwaysMatching == Orderly /\ UnwatchedAlone /\ Spec => [](TypeOK /\ FollowInv /\ MatchInv)
<1> SUFFICES ASSUME Orderly, UnwatchedAlone PROVE Spec => [](TypeOK /\ FollowInv /\ MatchInv)
  OBVIOUS
<1>1. Init => FollowInv /\ MatchInv
  <2> SUFFICES ASSUME Init PROVE FollowInv /\ MatchInv
    OBVIOUS
  <2>1. FollowInv
    BY DEF Init, FollowInv, Following, OnePerChat, Loaded, InFlight, Idle
  <2>2. \A r \in Requests : Kinds(r)
    BY DEF Init, Kinds, Idle
  <2>3. Seeds /\ boot.at = "list" /\ \A k \in Keys : Never(k) => ~Watched(k)
    BY DEF Init, Seeds, NoSeed, SeedAt, Never, Watched
  <2> QED
    BY <2>1, <2>2, <2>3 DEF MatchInv
<1>2. TypeOK /\ Names /\ FollowInv /\ [Next]_vars => FollowInv'
  BY StepFollow
<1>3. TypeOK /\ FollowInv /\ MatchInv /\ [Next]_vars => MatchInv'
  BY StepMatch
<1>4. TypeOK /\ Names /\ [Next]_vars => Names'
  BY StepNames
<1> QED
  BY <1>1, <1>2, <1>3, <1>4, InitNames, TypeCorrect, PTL DEF Spec

\* Once the requests and the seeding of an address are over, its script is
\* matched for every chat that watches it: while nobody unwatches an address
\* that another chat may hold, whose script would go with it.
THEOREM MatchesWatched == Orderly /\ UnwatchedAlone /\ Spec => []WatchedIsMatched
<1> SUFFICES ASSUME Orderly, UnwatchedAlone PROVE Spec => []WatchedIsMatched
  OBVIOUS
<1>1. TypeOK /\ MatchInv => WatchedIsMatched
  <2> SUFFICES ASSUME TypeOK, MatchInv, NEW k \in Keys, Watched(k), Settled(k[2]) PROVE k[2] \in scripts
    BY DEF WatchedIsMatched
  <2>1. Covered(k)
    BY DEF MatchInv, Settled, Running
  <2>2. \A j \in Requests \cup {Boot} : k[2] \notin seed[j].todo
    BY DEF Settled, TypeOK
  <2>3. ASSUME NEW r \in Requests, Adding(r, k) PROVE FALSE
    <3>1. InFlight(r) /\ k[1] \in Chats /\ k = <<k[1], k[2]>>
      BY <2>3 DEF Adding, InFlight, Keys
    <3>2. Quiet(<<k[1], k[2]>>)
      BY <3>1 DEF Settled
    <3> QED
      BY <2>3, <3>1, <3>2 DEF Quiet, Adding, KeyOf
  <2> QED
    BY <2>1, <2>2, <2>3 DEF Covered
<1> QED
  BY <1>1, AlwaysMatching, PTL

-----------------------------------------------------------------------------
(* The coins of a watched address: what the scan of the UTXO set and the   *)
(* feed have between them.                                                 *)

\* How often t waits in a queue.
In(q, t) == \E i \in 1..Len(q) : q[i] = t
Twice(q, t) == \E i, j \in 1..Len(q) : i < j /\ q[i] = t /\ q[j] = t
Thrice(q, t) == \E i, j, k \in 1..Len(q) : i < j /\ j < k /\ q[i] = t /\ q[j] = t /\ q[k] = t
Busy(t, s) == bcast[<<t, s>>] # NoBcast

\* Core publishes a transaction twice at most, and each message has a broadcast
\* of its own.
TwoMessages(t) ==
    /\ chain[t] = "new" => ~In(rawq, t) /\ ~Busy(t, "first") /\ ~Busy(t, "later")
    /\ chain[t] = "mempool" => /\ ~Twice(rawq, t) /\ ~(Busy(t, "first") /\ Busy(t, "later"))
                               /\ In(rawq, t) => ~Busy(t, "first") /\ ~Busy(t, "later")
    /\ chain[t] = "mined" => /\ ~Thrice(rawq, t)
                             /\ Twice(rawq, t) => ~Busy(t, "first") /\ ~Busy(t, "later")
                             /\ In(rawq, t) => ~(Busy(t, "first") /\ Busy(t, "later"))

\* Before startZMQ nothing is heard, and only the listed watches are seeded.
Asleep ==
    boot.at # "up" =>
        /\ notified = {} /\ rawq = <<>>
        /\ \A b \in Bcasts : bcast[b] = NoBcast
        /\ \A r \in Requests : seed[r] = NoSeed
        /\ boot.at \in {"list", "start"} => seed[Boot] = NoSeed

Spent(o) == \E u \in Txs : o \in Spends[u] /\ chain[u] = "mined"
Scanning(a) == \E j \in Requests \cup {Boot} : seed[j].at \in {"validate", "scan"} /\ a \in seed[j].own
Scanned(o) == \E j \in Requests \cup {Boot} : o \in seed[j].found
Known(o) == o \in outs \cup slipped \/ Scanning(o[2]) \/ Scanned(o)
Recording(t) == \E s \in Sightings : bcast[<<t, s>>].at = "record"
Coming(t) == t \notin notified /\ (In(rawq, t) \/ \E s \in Sightings : bcast[<<t, s>>].at = "decode")

\* An unspent output of a transaction that is mined, or was announced, is known,
\* or will be when the scan or a broadcast is through; or it slipped between them.
Kept(o) ==
    o[2] \in scripts /\ ~Spent(o) /\ (chain[o[1]] = "mined" \/ o[1] \in notified)
        => Known(o) \/ Recording(o[1]) \/ Coming(o[1])

\* A broadcast holds channels only while it delivers.
Serving == \A b \in Bcasts : bcast[b].left # {} => bcast[b].at = "deliver"
\* Only a scan that has answered has found anything.
Loading == \A j \in Requests \cup {Boot} : seed[j].at # "load" => seed[j].found = {}
Coins == /\ Serving /\ Loading /\ Asleep
         /\ \A t \in Txs : TwoMessages(t)
         /\ \A o \in Outputs : Kept(o)
CoinInv == faults = 0 => Coins

LEMMA TailHas ==
    ASSUME NEW q \in Seq(Txs), q # <<>>, NEW t \in Txs
    PROVE  /\ In(Tail(q), t) => In(q, t)
           /\ Twice(Tail(q), t) => Twice(q, t)
           /\ Thrice(Tail(q), t) => Thrice(q, t)
           /\ Head(q) = t => In(q, t) /\ (In(Tail(q), t) => Twice(q, t)) /\ (Twice(Tail(q), t) => Thrice(q, t))
           /\ Head(q) # t /\ In(q, t) => In(Tail(q), t)
<1>1. /\ Len(q) \in Nat /\ Len(q) > 0 /\ Len(Tail(q)) = Len(q) - 1 /\ Head(q) = q[1]
      /\ \A i \in 1..Len(Tail(q)) : i + 1 \in 1..Len(q) /\ Tail(q)[i] = q[i + 1]
  OBVIOUS
<1>2. \A i \in 1..Len(q) : i # 1 => i - 1 \in 1..Len(Tail(q)) /\ Tail(q)[i - 1] = q[i]
  BY <1>1
<1> DEFINE r == Tail(q)
<1>3. /\ \A i \in 1..Len(r) : i + 1 \in 1..Len(q) /\ r[i] = q[i + 1] /\ 1 < i + 1
      /\ 1 \in 1..Len(q) /\ q[1] = Head(q)
  BY <1>1
<1> HIDE DEF r
<1>4. \A i, j \in 1..Len(r) : i < j => i + 1 < j + 1
  OBVIOUS
<1>5. (In(r, t) => In(q, t)) /\ (Twice(r, t) => Twice(q, t))
  BY <1>3, <1>4 DEF In, Twice
<1>6. Thrice(r, t) => Thrice(q, t)
  <2>1. SUFFICES ASSUME NEW i \in 1..Len(r), NEW j \in 1..Len(r), NEW k \in 1..Len(r),
                        i < j, j < k, r[i] = t, r[j] = t, r[k] = t
                 PROVE  Thrice(q, t)
    BY DEF Thrice
  <2> QED
    BY <2>1, <1>3, <1>4 DEF Thrice
<1>7. Head(q) = t => In(q, t) /\ (In(r, t) => Twice(q, t))
  BY <1>3 DEF In, Twice
<1>8. Head(q) = t /\ Twice(r, t) => Thrice(q, t)
  <2>1. SUFFICES ASSUME Head(q) = t, NEW i \in 1..Len(r), NEW j \in 1..Len(r), i < j, r[i] = t, r[j] = t
                 PROVE  Thrice(q, t)
    BY DEF Twice
  <2> QED
    BY <2>1, <1>3, <1>4 DEF Thrice
<1>9. Head(q) # t /\ In(q, t) => In(r, t)
  BY <1>2, <1>3 DEF In, r
<1> QED
  BY <1>5, <1>6, <1>7, <1>8, <1>9 DEF r

LEMMA AppendHas ==
    ASSUME NEW q \in Seq(Txs), NEW t \in Txs, NEW u \in Txs
    PROVE  /\ In(q, u) => In(Append(q, t), u)
           /\ In(Append(q, t), t)
           /\ Twice(Append(q, t), t) => In(q, t)
           /\ Thrice(Append(q, t), t) => Twice(q, t)
           /\ u # t => /\ In(Append(q, t), u) => In(q, u)
                       /\ Twice(Append(q, t), u) => Twice(q, u)
                       /\ Thrice(Append(q, t), u) => Thrice(q, u)
<1> DEFINE r == Append(q, t)
<1>1. /\ Len(q) \in Nat /\ Len(r) = Len(q) + 1 /\ r[Len(q) + 1] = t
      /\ \A i \in 1..Len(q) : i \in 1..Len(r) /\ r[i] = q[i]
  OBVIOUS
<1> HIDE DEF r
<1>2. \A i, j \in 1..Len(r) : i < j => i \in 1..Len(q) /\ q[i] = r[i]
  BY <1>1
<1>3. \A i \in 1..Len(r) : r[i] # t => i \in 1..Len(q) /\ q[i] = r[i]
  BY <1>1
<1>4. In(q, u) => In(r, u)
  BY <1>1 DEF In
<1>5. In(r, t)
  BY <1>1 DEF In
<1>6. (Twice(r, t) => In(q, t)) /\ (Thrice(r, t) => Twice(q, t))
  BY <1>2 DEF In, Twice, Thrice
<1>7. u # t => /\ In(r, u) => In(q, u)
               /\ Twice(r, u) => Twice(q, u)
               /\ Thrice(r, u) => Thrice(q, u)
  BY <1>3 DEF In, Twice, Thrice
<1> QED
  BY <1>4, <1>5, <1>6, <1>7 DEF r

\* What the scans, the feed and the broadcasts have of an output stays with them.
LEMMA KeptOn ==
    ASSUME NEW o, Kept(o), chain' = chain,
           o[2] \in scripts' => o[2] \in scripts, o[1] \in notified' => o[1] \in notified,
           Known(o) => Known(o)', Recording(o[1]) => Recording(o[1])',
           Coming(o[1]) => Known(o)' \/ Recording(o[1])' \/ Coming(o[1])'
    PROVE  Kept(o)'
<1>1. Spent(o)' = Spent(o)
  BY DEF Spent
<1> QED
  BY <1>1, Zenon DEF Kept

LEMMA CoinsStay ==
    ASSUME Coins, UNCHANGED <<chain, rawq, bcast, notified, boot, seed, scripts, outs, slipped>>
    PROVE  Coins'
BY DEF Coins, Serving, Loading, Asleep, TwoMessages, In, Twice, Thrice, Busy, Kept, Spent, Known, Scanning, Scanned,
       Recording, Coming

LEMMA RequestCoins ==
    ASSUME TypeOK, OnePerChat, Seeds, Coins, NEW r \in Requests, Request(r)
    PROVE  Coins'
<1> USE DEF store, notify, match, confirm, env, told
<1>t. seed \in [Requests \cup {Boot} -> SeedState] /\ Boot \notin Requests
  BY Fresh DEF TypeOK
<1>1. CASE StartSeed(r)
  <2>1. /\ seed' = [seed EXCEPT ![r] = NewSeed({req[r].call.target})] /\ seed[r] = NoSeed /\ boot.at = "up"
        /\ UNCHANGED <<chain, rawq, bcast, notified, boot, scripts, outs, slipped>>
    BY <1>1 DEF StartSeed, Seeds, OnePerChat, InFlight
  <2>2. \A j \in Requests \cup {Boot} : seed[j] # NoSeed => seed'[j] = seed[j]
    BY <1>t, <2>1
  <2>3. /\ \A a : Scanning(a) => Scanning(a)'
        /\ \A o : Scanned(o) => Scanned(o)'
    BY <2>2 DEF Scanning, Scanned, NoSeed, SeedAt
  <2>4. ASSUME NEW o \in Outputs PROVE Kept(o)'
    <3>1. Kept(o) /\ (Known(o) => Known(o)')
      BY <2>1, <2>3 DEF Coins, Known
    <3> QED
      BY <2>1, <3>1, KeptOn DEF Recording, Coming, In
  <2>5. Loading'
    BY <1>t, <2>1 DEF Coins, Loading, NewSeed, NoSeed, SeedAt
  <2> QED
    BY <2>1, <2>4, <2>5 DEF Coins, Serving, Asleep, TwoMessages, In, Twice, Thrice, Busy
<1>2. CASE UnwatchScripts(r)
  <2>1. PICK a : scripts' = scripts \ {a} /\ outs' = {o \in outs : o[2] # a}
    BY <1>2 DEF UnwatchScripts
  <2>2. boot.at = "up" /\ UNCHANGED <<chain, rawq, bcast, notified, boot, seed, slipped>>
    BY <1>2 DEF UnwatchScripts, OnePerChat, InFlight
  <2>3. ASSUME NEW o \in Outputs PROVE Kept(o)'
    <3>1. CASE o[2] = a
      BY <2>1, <3>1 DEF Kept
    <3>2. CASE o[2] # a
      <4>1. Kept(o) /\ (Known(o) => Known(o)')
        BY <2>1, <2>2, <3>2 DEF Coins, Known, Scanning, Scanned
      <4> QED
        BY <2>1, <2>2, <4>1, KeptOn DEF Recording, Coming, In
    <3> QED
      BY <3>1, <3>2
  <2> QED
    BY <2>2, <2>3 DEF Coins, Serving, Loading, Asleep, TwoMessages, In, Twice, Thrice, Busy
<1>3. CASE ~StartSeed(r) /\ ~UnwatchScripts(r)
  BY <1>3, CoinsStay DEF Request, Begin, CheckWatching, AtWatchLimit, AddWatch, StartNotifier, RemoveWatch, SetAlias,
     StopNotifier, RemoveAddrConfirms, SetAddrAlias, DbError
<1> QED
  BY <1>1, <1>2, <1>3

LEMMA SeedCoins ==
    ASSUME TypeOK, ~Fault, Coins, NEW j \in Requests \cup {Boot}, Seed(j)
    PROVE  Coins'
<1> USE DEF store, notify, match, confirm, env, told
<1>t. seed \in [Requests \cup {Boot} -> SeedState] /\ Boot \notin Requests
  BY Fresh DEF TypeOK
<1>u. /\ UNCHANGED <<chain, rawq, bcast, notified, boot>>
      /\ seed[j].at # "none"
      /\ \A i \in Requests \cup {Boot} : i # j => seed'[i] = seed[i]
  BY <1>t DEF Seed, WatchScript, Advance, ScanTxOutSet, WatchOutpoint
<1>a. boot.at # "up" => j = Boot /\ boot.at \notin {"list", "start"}
  BY <1>u DEF Coins, Asleep, NoSeed, SeedAt
<1>s. Serving' /\ \A t \in Txs : TwoMessages(t)'
  BY <1>u DEF Coins, Serving, TwoMessages, In, Twice, Thrice, Busy
<1>1. CASE WatchScript(j)
  <2>1. PICK a \in seed[j].todo : /\ scripts' = scripts \cup {a}
                                  /\ Advance(j, seed[j].todo \ {a}, seed[j].own \cup {a})
                                  /\ seed[j].at = "validate" /\ UNCHANGED <<outs, slipped>>
    BY <1>1 DEF WatchScript
  <2>2. /\ seed'[j].at \in {"validate", "scan"} /\ seed'[j].own = seed[j].own \cup {a} /\ seed'[j].found = {}
        /\ seed[j].found = {}
    BY <1>t, <2>1 DEF Advance, SeedAt, Coins, Loading
  <2>3. /\ \A b : Scanning(b) => Scanning(b)'
        /\ Scanning(a)'
        /\ \A o : Scanned(o) => Scanned(o)'
    BY <1>u, <2>2 DEF Scanning, Scanned
  <2>4. Asleep' /\ Loading'
    <3>1. Loading'
      BY <1>u, <2>2 DEF Coins, Loading
    <3>2. Asleep'
      BY <1>u, <1>t, <1>a, <2>1, <2>2 DEF Coins, Asleep
    <3> QED
      BY <3>1, <3>2
  <2>5. ASSUME NEW o \in Outputs PROVE Kept(o)'
    <3>1. CASE o[2] = a
      BY <2>3, <3>1 DEF Kept, Known
    <3>2. CASE o[2] # a
      <4>1. Kept(o) /\ (Known(o) => Known(o)')
        BY <2>1, <2>3 DEF Coins, Known
      <4> QED
        BY <1>u, <2>1, <3>2, <4>1, KeptOn DEF Recording, Coming, In
    <3> QED
      BY <3>1, <3>2
  <2> QED
    BY <1>s, <2>4, <2>5 DEF Coins
<1>2. CASE ScanTxOutSet(j)
  <2> DEFINE hits == {o \in ConfirmedOutputs : o[2] \in seed[j].own}
  <2>1. /\ seed[j].at = "scan" /\ UNCHANGED <<scripts, outs>>
        /\ seed' = [seed EXCEPT ![j] = IF hits = {} THEN NoSeed ELSE SeedAt("load", {}, seed[j].own, hits)]
        /\ slipped' = {o \in slipped : o[2] \notin seed[j].own}
                      \cup {o \in Unscanned \ outs : o[2] \in seed[j].own}
    BY <1>2 DEF ScanTxOutSet
  <2>2. seed'[j].found = hits /\ seed'[j].at \in {"none", "load"} /\ (seed'[j].at = "none" => hits = {})
    BY <1>t, <2>1 DEF NoSeed, SeedAt
  <2> HIDE DEF hits
  <2>3. seed[j].found = {}
    BY <2>1 DEF Coins, Loading
  <2>4. /\ \A o : Scanned(o) => Scanned(o)'
        /\ \A b : b \notin seed[j].own /\ Scanning(b) => Scanning(b)'
    BY <1>u, <2>3 DEF Scanning, Scanned
  <2>5. Asleep' /\ Loading'
    <3>1. Loading'
      BY <1>u, <2>2 DEF Coins, Loading
    <3>2. Asleep'
      BY <1>u, <1>t, <1>a, <2>1, <2>2 DEF Coins, Asleep
    <3> QED
      BY <3>1, <3>2
  <2>6. ASSUME NEW o \in Outputs PROVE Kept(o)'
    <3>1. CASE o[2] \in seed[j].own
      <4>1. SUFFICES ASSUME ~Spent(o), chain[o[1]] = "mined" \/ o[1] \in notified
                     PROVE  Known(o)' \/ Recording(o[1])'
        BY <1>u DEF Kept, Spent
      <4>2. CASE chain[o[1]] = "mined"
        <5>1. o \in hits
          BY <3>1, <4>1, <4>2 DEF hits, ConfirmedOutputs, Spent
        <5> QED
          BY <2>2, <5>1 DEF Known, Scanned
      <4>3. CASE chain[o[1]] # "mined" /\ ~Recording(o[1])
        BY <2>1, <3>1, <4>1, <4>3 DEF Known, Unscanned, Recording
      <4> QED
        BY <1>u, <4>2, <4>3 DEF Recording
    <3>2. CASE o[2] \notin seed[j].own
      <4>1. Kept(o) /\ (Known(o) => Known(o)')
        BY <2>1, <2>4, <3>2 DEF Coins, Known
      <4> QED
        BY <1>u, <2>1, <4>1, KeptOn DEF Recording, Coming, In
    <3> QED
      BY <3>1, <3>2
  <2> QED
    BY <1>s, <2>5, <2>6 DEF Coins
<1>3. CASE WatchOutpoint(j)
  <2>1. PICK c \in seed[j].found :
          /\ outs' = outs \cup {c} /\ seed[j].at = "load" /\ UNCHANGED <<scripts, slipped>>
          /\ seed' = [seed EXCEPT ![j] = IF seed[j].found = {c} THEN NoSeed
                                         ELSE SeedAt("load", {}, seed[j].own, seed[j].found \ {c})]
    BY <1>3 DEF WatchOutpoint
  <2>2. seed'[j].found = seed[j].found \ {c} /\ seed'[j].at \in {"none", "load"}
        /\ (seed'[j].at = "none" => seed'[j].found = {})
    BY <1>t, <2>1 DEF NoSeed, SeedAt
  <2>3. /\ \A o : Scanned(o) => Scanned(o)' \/ o = c
        /\ \A b : Scanning(b) => Scanning(b)'
    BY <1>u, <2>1, <2>2 DEF Scanning, Scanned
  <2>4. Asleep' /\ Loading'
    <3>1. Loading'
      BY <1>u, <2>2 DEF Coins, Loading
    <3>2. Asleep'
      BY <1>u, <1>t, <1>a, <2>1, <2>2 DEF Coins, Asleep
    <3> QED
      BY <3>1, <3>2
  <2>5. ASSUME NEW o \in Outputs PROVE Kept(o)'
    <3>1. Kept(o) /\ (Known(o) => Known(o)')
      BY <2>1, <2>3 DEF Coins, Known
    <3> QED
      BY <1>u, <2>1, <3>1, KeptOn DEF Recording, Coming, In
  <2> QED
    BY <1>s, <2>4, <2>5 DEF Coins
<1> QED
  BY <1>1, <1>2, <1>3 DEF Seed

LEMMA StartUpCoins == ASSUME TypeOK, ~Fault, Coins, StartUp PROVE Coins'
<1> USE DEF store, notify, match, confirm, env, told
<1>t. seed \in [Requests \cup {Boot} -> SeedState] /\ Boot \notin Requests
      /\ boot \in [at : {"list", "start", "subscribe", "up"}, rows : SUBSET (Keys \X Aliases)]
  BY Fresh DEF TypeOK
<1>u. UNCHANGED <<chain, rawq, bcast, notified, scripts, outs, slipped>> /\ boot.at # "up"
  BY <1>t DEF StartUp, ListWatches, StartListed, SeedListed, StartZMQ
<1>s. Serving' /\ \A t \in Txs : TwoMessages(t)'
  BY <1>u DEF Coins, Serving, TwoMessages, In, Twice, Thrice, Busy
<1>k. ASSUME \A j \in Requests \cup {Boot} : seed[j] # NoSeed => seed'[j] = seed[j]
      PROVE  \A o \in Outputs : Kept(o)'
  <2>1. /\ \A a : Scanning(a) => Scanning(a)'
        /\ \A o : Scanned(o) => Scanned(o)'
    BY <1>k DEF Scanning, Scanned, NoSeed, SeedAt
  <2>2. ASSUME NEW o \in Outputs PROVE Kept(o)'
    <3>1. Kept(o) /\ (Known(o) => Known(o)')
      BY <1>u, <2>1 DEF Coins, Known
    <3> QED
      BY <1>u, <3>1, KeptOn DEF Recording, Coming, In
  <2> QED
    BY <2>2
<1>1. CASE ListWatches \/ StartListed
  <2>1. seed' = seed /\ boot.at \in {"list", "start"} /\ boot'.at = "start"
    BY <1>1, <1>t DEF ListWatches, StartListed
  <2> QED
    BY <1>u, <1>s, <1>k, <2>1 DEF Coins, Asleep, Loading
<1>2. CASE SeedListed
  <2>1. PICK as : seed' = [seed EXCEPT ![Boot] = NewSeed(as)]
    BY <1>2 DEF SeedListed
  <2>2. /\ boot.at = "start" /\ boot'.at = "subscribe"
        /\ \A j \in Requests \cup {Boot} : seed[j] # NoSeed => seed'[j] = seed[j]
    BY <1>2, <1>t, <1>u, <2>1 DEF SeedListed, Coins, Asleep
  <2>3. Loading'
    BY <1>t, <2>1 DEF Coins, Loading, NewSeed, NoSeed, SeedAt
  <2> QED
    BY <1>t, <1>u, <1>s, <1>k, <2>1, <2>2, <2>3 DEF Coins, Asleep
<1>3. CASE StartZMQ
  <2>1. boot'.at = "up" /\ seed' = seed
    BY <1>3, <1>t DEF StartZMQ
  <2> QED
    BY <1>s, <1>k, <2>1 DEF Coins, Asleep, Loading
<1> QED
  BY <1>1, <1>2, <1>3 DEF StartUp

LEMMA ReceiveTxCoins == ASSUME TypeOK, Coins, ReceiveTx PROVE Coins'
<1> USE DEF store, match, confirm, told
<1> DEFINE t == Head(rawq)
           free == IF bcast[<<t, "first">>] = NoBcast THEN "first" ELSE "later"
<1>1. /\ rawq # <<>> /\ rawq \in Seq(Txs) /\ t \in Txs /\ rawq' = Tail(rawq) /\ free \in Sightings
      /\ bcast \in [Bcasts -> BcastState] /\ \A u \in Txs, s \in Sightings : <<u, s>> \in Bcasts
  BY DEF ReceiveTx, TypeOK, Sightings, Bcasts
<1>2. /\ bcast' = IF Matches(t) THEN [bcast EXCEPT ![<<t, free>>] = BcastAt("decode", FALSE, {})] ELSE bcast
      /\ UNCHANGED <<chain, notified, boot, seed, scripts, outs, slipped>>
  BY DEF ReceiveTx
<1>3. boot.at = "up"
  BY <1>1 DEF Coins, Asleep
<1> HIDE DEF t, free
<1>4. /\ In(rawq, t) /\ (In(rawq', t) => Twice(rawq, t)) /\ (Twice(rawq', t) => Thrice(rawq, t))
      /\ \A u \in Txs : /\ In(rawq', u) => In(rawq, u)
                        /\ Twice(rawq', u) => Twice(rawq, u)
                        /\ Thrice(rawq', u) => Thrice(rawq, u)
                        /\ u # t /\ In(rawq, u) => In(rawq', u)
  BY <1>1, TailHas DEF t
<1>5. bcast[<<t, free>>] = NoBcast
  <2>1. ~(Busy(t, "first") /\ Busy(t, "later"))
    <3>1. chain[t] \in {"new", "mempool", "mined"} /\ TwoMessages(t)
      BY <1>1 DEF TypeOK, Coins
    <3> QED
      BY <1>4, <3>1 DEF TwoMessages
  <2> QED
    BY <2>1 DEF free, Busy
<1>6. /\ \A u \in Txs, s \in Sightings : bcast[<<u, s>>] # NoBcast => bcast'[<<u, s>>] = bcast[<<u, s>>]
      /\ \A u \in Txs, s \in Sightings : u # t => bcast'[<<u, s>>] = bcast[<<u, s>>]
      /\ Matches(t) => bcast'[<<t, free>>].at = "decode"
  BY <1>1, <1>2, <1>5 DEF BcastAt
<1>7. ASSUME NEW u \in Txs PROVE TwoMessages(u)'
  <2>1. TwoMessages(u) /\ chain[u] \in {"new", "mempool", "mined"}
    BY DEF Coins, TypeOK
  <2>2. CASE u # t
    BY <1>2, <1>4, <1>6, <2>1, <2>2 DEF TwoMessages, Busy, Sightings
  <2>3. CASE u = t
    <3>1. ASSUME ~Busy(u, "first"), ~Busy(u, "later") PROVE ~Busy(u, "later")'
      <4>1. free = "first"
        BY <2>3, <3>1 DEF free, Busy
      <4>2. bcast'[<<u, "later">>] = bcast[<<u, "later">>]
        BY <1>1, <1>2, <4>1 DEF Sightings
      <4> QED
        BY <3>1, <4>2 DEF Busy
    <3>2. /\ In(rawq, u) /\ (In(rawq', u) => Twice(rawq, u)) /\ (Twice(rawq', u) => Thrice(rawq, u))
          /\ chain' = chain
      BY <1>2, <1>4, <2>3
    <3>3. CASE chain[u] = "new"
      BY <2>1, <3>2, <3>3 DEF TwoMessages
    <3>4. CASE chain[u] = "mempool"
      <4>1. ~In(rawq', u) /\ ~Twice(rawq', u) /\ ~Busy(u, "later")'
        BY <1>4, <2>1, <2>3, <3>1, <3>2, <3>4 DEF TwoMessages
      <4> QED
        BY <3>2, <3>4, <4>1 DEF TwoMessages
    <3>5. CASE chain[u] = "mined"
      <4>1. ~Twice(rawq', u) /\ ~Thrice(rawq', u) /\ (In(rawq', u) => ~Busy(u, "later")')
        BY <1>4, <2>1, <2>3, <3>1, <3>2, <3>5 DEF TwoMessages
      <4> QED
        BY <3>2, <3>5, <4>1 DEF TwoMessages
    <3> QED
      BY <2>1, <3>3, <3>4, <3>5
  <2> QED
    BY <2>2, <2>3
<1>8. ASSUME NEW o \in Outputs PROVE Kept(o)'
  <2>1. Kept(o) /\ (Known(o) => Known(o)') /\ o[1] \in Txs /\ o[2] \in Pays[o[1]]
    BY <1>2, <1>3 DEF Coins, Known, Scanning, Scanned, Outputs
  <2>2. /\ Recording(o[1]) => Recording(o[1])'
        /\ \A s \in Sightings : bcast[<<o[1], s>>].at = "decode" => bcast'[<<o[1], s>>].at = "decode"
    BY <1>6, <2>1 DEF Recording, NoBcast, BcastAt
  <2>3. CASE o[2] \in scripts
    <3>1. o[1] = t => Matches(t)
      BY <2>1, <2>3 DEF Matches
    <3>2. Coming(o[1]) => Coming(o[1])'
      BY <1>1, <1>2, <1>4, <1>6, <2>1, <2>2, <3>1 DEF Coming
    <3> QED
      BY <1>2, <2>1, <2>2, <3>2, KeptOn
  <2>4. CASE o[2] \notin scripts
    BY <1>2, <2>4 DEF Kept
  <2> QED
    BY <2>3, <2>4
<1>9. Serving'
  BY <1>1, <1>2 DEF Coins, Serving, BcastAt
<1> QED
  BY <1>2, <1>3, <1>7, <1>8, <1>9 DEF Coins, Asleep, Loading

\* A step of broadcast b, that leaves the transactions and the scans alone.
LEMMA BroadcastStep ==
    ASSUME TypeOK, Coins, NEW b \in Bcasts, bcast[b] # NoBcast,
           \A d \in Bcasts : d # b => bcast'[d] = bcast[d],
           bcast'[b].left # {} => bcast'[b].at = "deliver",
           UNCHANGED <<chain, rawq, boot, seed, scripts, slipped>>, outs \subseteq outs',
           \A o \in Outputs : Kept(o)'
    PROVE  Coins'
<1>1. \A t \in Txs, s \in Sightings : Busy(t, s)' => Busy(t, s)
  BY DEF Busy, Bcasts
<1>2. \A t \in Txs : TwoMessages(t)'
  BY <1>1 DEF Coins, TwoMessages, Sightings
<1>3. boot.at = "up"
  BY DEF Coins, Asleep
<1> QED
  BY <1>2, <1>3 DEF Coins, Asleep, Loading, Serving

LEMMA BroadcastCoins ==
    ASSUME TypeOK, ~Fault, Coins, NEW b \in Bcasts, Broadcast(b)
    PROVE  Coins'
<1> USE DEF store, match, confirm, env, told
<1>t. /\ bcast \in [Bcasts -> BcastState] /\ b[1] \in Txs /\ b[2] \in Sightings /\ b = <<b[1], b[2]>>
      /\ \A t \in Txs, s \in Sightings : <<t, s>> \in Bcasts
  BY DEF TypeOK, Bcasts
<1>n. bcast[b] # NoBcast /\ boot.at = "up"
  BY DEF Broadcast, AlreadyNotified, RecordOutpoints, SnapshotChannels, Deliver, GiveUp, NoBcast, BcastAt, Coins, Asleep
<1>u. UNCHANGED <<chain, rawq, boot, seed, scripts, slipped>>
  BY DEF Broadcast, AlreadyNotified, RecordOutpoints, SnapshotChannels, Deliver, GiveUp
<1>1. CASE AlreadyNotified(b)
  <2>1. /\ bcast[b].at = "decode" /\ outs' = outs
        /\ bcast' = [bcast EXCEPT ![b] = IF b[1] \in notified THEN NoBcast ELSE BcastAt("record", FALSE, {})]
        /\ notified' \subseteq notified \cup {b[1]} /\ b[1] \in notified'
        /\ b[1] \in notified => notified' = notified
        /\ \A t \in notified \ notified' : Over(t)
    BY <1>1 DEF AlreadyNotified
  <2>2. /\ \A d \in Bcasts : d # b => bcast'[d] = bcast[d]
        /\ bcast'[b].left = {}
        /\ b[1] \notin notified => bcast'[b].at = "record"
    BY <1>t, <2>1 DEF NoBcast, BcastAt
  <2>3. ASSUME NEW o \in Outputs PROVE Kept(o)'
    <3>1. o[1] \in Txs /\ Kept(o)
      BY <1>n DEF Outputs, Coins
    <3>2. Known(o)' = Known(o) /\ Spent(o)' = Spent(o)
      BY <1>u, <2>1 DEF Known, Scanning, Scanned, Spent
    <3>3. CASE o[1] = b[1] /\ b[1] \notin notified
      BY <1>t, <2>2, <3>3 DEF Kept, Recording
    <3>4. CASE o[1] = b[1] /\ b[1] \in notified
      <4>1. Recording(o[1]) => Recording(o[1])'
        <5>1. \A s \in Sightings : bcast[<<o[1], s>>].at = "record" => bcast'[<<o[1], s>>].at = "record"
          BY <1>t, <2>1, <2>2, <3>1
        <5> QED
          BY <5>1 DEF Recording
      <4>2. ~Coming(o[1])
        BY <3>4 DEF Coming
      <4> QED
        BY <1>u, <2>1, <3>1, <3>2, <3>4, <4>1, <4>2, KeptOn
    <3>5. CASE o[1] # b[1]
      <4>1. \A s \in Sightings : bcast'[<<o[1], s>>] = bcast[<<o[1], s>>]
        BY <1>t, <2>2, <3>1, <3>5
      <4>2. Recording(o[1])' = Recording(o[1]) /\ (Coming(o[1]) => Coming(o[1])')
        BY <1>u, <2>1, <3>5, <4>1 DEF Recording, Coming
      <4>3. o[1] \in notified' => o[1] \in notified
        BY <2>1, <3>5
      <4> QED
        BY <1>u, <2>1, <3>1, <3>2, <4>2, <4>3, KeptOn
    <3> QED
      BY <3>3, <3>4, <3>5
  <2> QED
    BY <1>n, <1>u, <2>1, <2>2, <2>3, BroadcastStep
<1>2. CASE RecordOutpoints(b)
  <2>1. /\ bcast[b].at = "record" /\ notified' = notified
        /\ bcast' = [bcast EXCEPT ![b] = BcastAt("inputs", FALSE, {})]
        /\ outs' = outs \cup {<<b[1], a>> : a \in Pays[b[1]] \cap scripts}
    BY <1>2 DEF RecordOutpoints
  <2>2. (\A d \in Bcasts : d # b => bcast'[d] = bcast[d]) /\ bcast'[b].left = {}
    BY <1>t, <2>1 DEF BcastAt
  <2>3. ASSUME NEW o \in Outputs PROVE Kept(o)'
    <3>1. o[1] \in Txs /\ o[2] \in Pays[o[1]] /\ o = <<o[1], o[2]>> /\ Kept(o)
      BY <1>n DEF Outputs, Coins
    <3>2. Known(o) => Known(o)'
      BY <1>u, <2>1 DEF Known, Scanning, Scanned
    <3>3. CASE o[1] = b[1]
      <4>1. o[2] \in scripts => o \in outs'
        BY <2>1, <3>1, <3>3
      <4> QED
        BY <1>u, <4>1 DEF Kept, Known
    <3>4. CASE o[1] # b[1]
      <4>1. \A s \in Sightings : bcast'[<<o[1], s>>] = bcast[<<o[1], s>>]
        BY <1>t, <2>2, <3>1, <3>4
      <4> QED
        BY <1>u, <2>1, <3>1, <3>2, <4>1, KeptOn DEF Recording, Coming
    <3> QED
      BY <3>3, <3>4
  <2> QED
    BY <1>n, <1>u, <2>1, <2>2, <2>3, BroadcastStep
<1>3. CASE SnapshotChannels(b) \/ \E g \in Workers : Deliver(b, g) \/ GiveUp(b, g)
  <2>1. /\ bcast[b].at \in {"inputs", "deliver"} /\ UNCHANGED <<outs, notified>>
        /\ \A d \in Bcasts : d # b => bcast'[d] = bcast[d]
        /\ bcast'[b].left # {} => bcast'[b].at = "deliver"
    <3>1. CASE SnapshotChannels(b)
      BY <1>t, <3>1 DEF SnapshotChannels, NoBcast, BcastAt
    <3>2. CASE \E g \in Workers : Deliver(b, g) \/ GiveUp(b, g)
      BY <1>t, <3>2 DEF Coins, Serving, Deliver, GiveUp, Without, NoBcast, BcastAt
    <3> QED
      BY <1>3, <3>1, <3>2
  <2>2. ASSUME NEW o \in Outputs PROVE Kept(o)'
    <3>1. o[1] \in Txs /\ Kept(o)
      BY <1>n DEF Outputs, Coins
    <3>2. \A s \in Sightings : bcast[<<o[1], s>>].at \in {"record", "decode"} => bcast'[<<o[1], s>>] = bcast[<<o[1], s>>]
      BY <1>t, <2>1, <3>1
    <3> QED
      BY <1>u, <2>1, <3>1, <3>2, KeptOn DEF Known, Scanning, Scanned, Recording, Coming
  <2> QED
    BY <1>n, <1>u, <2>1, <2>2, BroadcastStep
<1> QED
  BY <1>1, <1>2, <1>3 DEF Broadcast

LEMMA CoreCoins ==
    ASSUME TypeOK, ~Fault, Coins, NEW t \in Txs, Core(t)
    PROVE  Coins'
<1> USE DEF store, notify, match, confirm, told
<1>t. rawq \in Seq(Txs) /\ chain \in [Txs -> {"new", "mempool", "mined"}]
  BY DEF TypeOK
<1>u. /\ UNCHANGED <<bcast, notified, boot, seed, scripts, outs>> /\ rawq' = Published(rawq, t)
      /\ slipped \subseteq slipped' /\ (boot.at = "up" => slipped' = slipped)
      /\ boot.at # "up" /\ chain'[t] = "mined" => {<<t, a>> : a \in Pays[t] \cap PastScan} \subseteq slipped'
      /\ \/ chain[t] = "new" /\ chain' = [chain EXCEPT ![t] = "mempool"]
         \/ chain[t] # "mined" /\ chain' = [chain EXCEPT ![t] = "mined"]
  BY <1>t DEF Core, EnterMempool, Mine, Disconnect
<1>s. DOMAIN seed = Requests \cup {Boot}
  BY DEF TypeOK
<1>1. CASE boot.at # "up"
  <2>1. rawq' = <<>>
    BY <1>1, <1>u DEF Published, Coins, Asleep
  <2>2. /\ \A u \in Txs, s \in Sightings : ~Busy(u, s)'
        /\ \A u \in Txs : ~In(rawq', u) /\ ~Twice(rawq', u) /\ ~Thrice(rawq', u)
    BY <1>1, <1>u, <2>1 DEF Coins, Asleep, Busy, Bcasts, In, Twice, Thrice
  <2>3. \A u \in Txs : TwoMessages(u)'
    BY <2>2 DEF TwoMessages, Sightings
  <2>4. ASSUME NEW o \in Outputs PROVE Kept(o)'
    <3>1. o = <<o[1], o[2]>> /\ o[1] \in Txs /\ o[2] \in Pays[o[1]] /\ Kept(o)
      BY DEF Coins, Outputs
    <3>2. Spent(o) => Spent(o)'
      BY <1>t, <1>u DEF Spent
    <3>r. Known(o) => Known(o)'
      BY <1>u DEF Known, Scanning, Scanned
    <3>q. notified = {} /\ rawq = <<>> /\ \A s \in Sightings : bcast[<<o[1], s>>] = NoBcast
      BY <1>1, <3>1 DEF Coins, Asleep, Bcasts
    <3>c. ~Recording(o[1]) /\ ~Coming(o[1])
      <4>1. \A s \in Sightings : bcast[<<o[1], s>>].at = "none"
        BY <3>q DEF NoBcast, BcastAt
      <4>2. ~In(rawq, o[1])
        BY <3>q DEF In
      <4> QED
        BY <4>1, <4>2 DEF Recording, Coming
    <3>3. CASE o[1] = t
      <4>1. SUFFICES ASSUME o[2] \in scripts, chain'[t] = "mined" PROVE Known(o)'
        BY <1>u, <3>q, <3>3 DEF Kept
      <4>2. CASE o[2] \in PastScan
        BY <1>u, <1>1, <3>1, <3>3, <4>1, <4>2 DEF Known
      <4>3. CASE o[2] \notin PastScan
        BY <1>s, <1>u, <4>1, <4>3 DEF PastScan, Known, Scanning
      <4> QED
        BY <4>2, <4>3
    <3>4. CASE o[1] # t
      <4>1. chain'[o[1]] = chain[o[1]]
        BY <1>t, <1>u, <3>1, <3>4
      <4> QED
        BY <1>u, <3>1, <3>2, <3>r, <3>q, <3>c, <4>1 DEF Kept
    <3> QED
      BY <3>3, <3>4
  <2> QED
    BY <1>1, <1>u, <2>1, <2>3, <2>4 DEF Coins, Asleep, Loading, Serving
<1>2. CASE boot.at = "up"
  <2>1. rawq' = Append(rawq, t)
    BY <1>2, <1>u DEF Published
  <2>2. /\ In(rawq', t) /\ (Twice(rawq', t) => In(rawq, t)) /\ (Thrice(rawq', t) => Twice(rawq, t))
        /\ \A u \in Txs : /\ In(rawq, u) => In(rawq', u)
                          /\ u # t => /\ In(rawq', u) => In(rawq, u)
                                      /\ Twice(rawq', u) => Twice(rawq, u)
                                      /\ Thrice(rawq', u) => Thrice(rawq, u)
    BY <1>t, <2>1, AppendHas
  <2>3. ASSUME NEW u \in Txs PROVE TwoMessages(u)'
    <3>1. TwoMessages(u)
      BY DEF Coins
    <3>2. \A s \in Sightings : Busy(u, s)' = Busy(u, s)
      BY <1>u DEF Busy
    <3>3. CASE u # t
      BY <1>t, <1>u, <2>2, <3>1, <3>2, <3>3 DEF TwoMessages, Sightings
    <3>4. CASE u = t
      <4>1. CASE chain[t] = "new"
        <5>1. /\ ~In(rawq, t) /\ ~Busy(t, "first")' /\ ~Busy(t, "later")'
          BY <3>1, <3>2, <3>4, <4>1 DEF TwoMessages, Sightings
        <5>2. ~Twice(rawq', t) /\ ~Thrice(rawq', t) /\ chain'[t] \in {"mempool", "mined"}
          <6>1. ~Twice(rawq, t)
            BY <5>1 DEF In, Twice
          <6> QED
            BY <1>t, <1>u, <2>2, <5>1, <6>1
        <5> QED
          BY <3>4, <5>1, <5>2 DEF TwoMessages
      <4>2. CASE chain[t] = "mempool"
        BY <1>t, <1>u, <2>2, <3>1, <3>2, <3>4, <4>2 DEF TwoMessages, Sightings
      <4> QED
        BY <1>t, <1>u, <4>1, <4>2
    <3> QED
      BY <3>3, <3>4
  <2>4. ASSUME NEW o \in Outputs PROVE Kept(o)'
    <3>1. Kept(o) /\ o[1] \in Txs
      BY <1>2 DEF Coins, Outputs
    <3>2. Spent(o) => Spent(o)'
      BY <1>t, <1>u DEF Spent
    <3>3. Known(o)' = Known(o) /\ Recording(o[1])' = Recording(o[1]) /\ (Coming(o[1]) => Coming(o[1])')
      BY <1>u, <1>2, <2>2, <3>1 DEF Known, Scanning, Scanned, Recording, Coming
    <3>4. CASE o[1] = t /\ t \notin notified
      BY <1>u, <2>2, <3>4 DEF Kept, Coming
    <3>5. CASE o[1] # t \/ t \in notified
      <4>1. chain'[o[1]] = "mined" \/ o[1] \in notified' => chain[o[1]] = "mined" \/ o[1] \in notified
        BY <1>t, <1>u, <3>1, <3>5
      <4> QED
        BY <1>u, <3>1, <3>2, <3>3, <4>1 DEF Kept
    <3> QED
      BY <3>4, <3>5
  <2> QED
    BY <1>u, <1>2, <2>3, <2>4 DEF Coins, Asleep, Loading, Serving
<1> QED
  BY <1>1, <1>2

LEMMA StepCoins ==
    ASSUME TypeOK, FollowInv, Seeds, CoinInv, [Next]_vars
    PROVE  CoinInv'
<1> SUFFICES ASSUME faults' = 0 PROVE Coins'
  BY DEF CoinInv
<1>f. ~Fault /\ Coins /\ OnePerChat
  BY FaultsGrow DEF FollowInv, Following, CoinInv
<1>1. CASE \E r \in Requests : Request(r)
  BY <1>f, <1>1, RequestCoins
<1>2. CASE \E j \in Requests \cup {Boot} : Seed(j)
  BY <1>f, <1>2, SeedCoins
<1>3. CASE StartUp
  BY <1>f, <1>3, StartUpCoins
<1>4. CASE ReceiveTx
  BY <1>f, <1>4, ReceiveTxCoins
<1>5. CASE \E b \in Bcasts : Broadcast(b)
  BY <1>f, <1>5, BroadcastCoins
<1>6. CASE \E t \in Txs : Core(t)
  BY <1>f, <1>6, CoreCoins
<1>7. CASE \/ \E g \in Workers : Notifier(g)
           \/ \E t \in Txs : ProcessConfirms(t)
           \/ ReceiveBlock \/ LoseMessage
           \/ UNCHANGED vars
  BY <1>f, <1>7, CoinsStay DEF vars, store, notify, match, env, told, Notifier, Send, AddAddrConfirm, Exit, ProcessConfirms,
     AnyPending, TakeConfirms, SendConfirm, ReceiveBlock, LoseMessage
<1>8. CASE Restart
  <2>1. /\ boot'.at = "list" /\ notified' = {} /\ rawq' = <<>> /\ bcast' = [b \in Bcasts |-> NoBcast]
        /\ seed' = [j \in Requests \cup {Boot} |-> NoSeed] /\ scripts' = {}
    BY <1>8 DEF Restart
  <2>2. /\ \A u \in Txs, s \in Sightings : ~Busy(u, s)'
        /\ \A u \in Txs : ~In(rawq', u) /\ ~Twice(rawq', u) /\ ~Thrice(rawq', u)
    BY <2>1 DEF Busy, Bcasts, In, Twice, Thrice
  <2>3. \A u \in Txs : TwoMessages(u)'
    BY <2>2 DEF TwoMessages, Sightings
  <2> QED
    BY <2>1, <2>3 DEF Coins, Asleep, Loading, Serving, Kept, NoBcast, BcastAt, NoSeed, SeedAt
<1> QED
  BY <1>1, <1>2, <1>3, <1>4, <1>5, <1>6, <1>7, <1>8 DEF Next

LEMMA InitCoins == Init => CoinInv
<1> SUFFICES ASSUME Init PROVE Coins
  BY DEF CoinInv
<1>1. /\ \A u \in Txs, s \in Sightings : ~Busy(u, s)
      /\ \A u \in Txs : ~In(rawq, u) /\ ~Twice(rawq, u) /\ ~Thrice(rawq, u)
  BY DEF Init, Busy, Bcasts, In, Twice, Thrice
<1>2. \A u \in Txs : TwoMessages(u)
  BY <1>1 DEF TwoMessages, Sightings
<1> QED
  BY <1>2 DEF Init, Coins, Asleep, Loading, Serving, Kept, NoBcast, BcastAt, NoSeed, SeedAt

\* The scan of the UTXO set and the live feed leave no coin of a watched address
\* between them, but in the two gaps CoinsKnown names: for any addresses,
\* transactions and requests, and with the process restarted at any step.
THEOREM FindsCoins == Orderly /\ UnwatchedAlone /\ Spec => []CoinsKnown
<1> SUFFICES ASSUME Orderly, UnwatchedAlone PROVE Spec => []CoinsKnown
  OBVIOUS
<1>1. TypeOK /\ FollowInv /\ MatchInv /\ CoinInv /\ [Next]_vars => CoinInv'
  BY StepCoins DEF MatchInv
<1>2. TypeOK /\ WatchedIsMatched /\ CoinInv => CoinsKnown
  <2> SUFFICES ASSUME TypeOK, WatchedIsMatched, CoinInv, NEW k \in Keys, Watched(k), Settled(k[2]),
                      NEW o \in ConfirmedOutputs, o[2] = k[2]
               PROVE  \/ o \in outs \cup slipped \/ InFeed(o[1])
                      \/ \E s \in Sightings : bcast[<<o[1], s>>].at \in {"decode", "record"}
    BY DEF CoinsKnown
  <2>1. Kept(o) /\ o[2] \in scripts
    BY DEF CoinInv, Coins, Settled, Running, WatchedIsMatched, ConfirmedOutputs
  <2>2. ~Spent(o) /\ chain[o[1]] = "mined"
    BY DEF ConfirmedOutputs, Spent
  <2>3. ~Scanning(o[2]) /\ ~Scanned(o)
    <3>1. \A j \in Requests \cup {Boot} : k[2] \notin seed[j].own /\ \A c \in seed[j].found : c[2] # k[2]
      BY DEF Settled, TypeOK
    <3> QED
      BY <3>1 DEF Scanning, Scanned
  <2> QED
    BY <2>1, <2>2, <2>3 DEF Kept, Known, Recording, Coming, InFeed, In
<1> QED
  BY <1>1, <1>2, InitCoins, AlwaysMatching, MatchesWatched, PTL DEF Spec
=============================================================================
