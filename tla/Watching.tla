------------------------------ MODULE Watching ------------------------------
(***************************************************************************)
(* What makes a watch fire, from the chat command that makes it to the     *)
(* message that its transaction was mined: the watches table (watches/),   *)
(* the notifier goroutine of each watch and the broadcast to all of them   *)
(* (notify.go), the scripts and outpoints the live feed is matched against *)
(* and their seeding (zmq.go, notify.go), the pending confirmations        *)
(* (txwatches/), and the handlers that add, remove and rename a watch      *)
(* (main.go).                                                              *)
(*                                                                         *)
(* Every goroutine is a process and a step ends where the code takes or    *)
(* releases a lock, or waits on the database, on Bitcoin Core or on a      *)
(* messenger.  A chat stands for a (platform, chat id) pair.  An address   *)
(* stands for its scriptPubKey too; <<t, a>> is the output of transaction  *)
(* t that pays a.                                                          *)
(***************************************************************************)
EXTENDS Naturals, FiniteSets, Sequences

CONSTANTS
    Chats, Addrs, Txs, Aliases,
    Pays,         \* [Txs -> SUBSET Addrs]: the addresses a transaction pays
    Spends,       \* [Txs -> SUBSET outputs]: the outputs it consumes
    Requests,     \* the handler invocations of a behaviour (a bound on it)
    Calls,        \* what a request may ask for
    StoredAtStart, \* the tables the process may find when it starts
    MinedAtStart, \* the transactions in the chain by then
    Orderly,      \* TRUE: no request overlaps one of its chat, or startNotify
    MaxWatches,   \* maxSubscriptionsPerChat
    Expiring,     \* TRUE: a behaviour may outlive notifiedTTL
    MaxFaults,    \* bound: failed calls, lost messages and reorgs in a behaviour
    MaxCrashes,   \* bound: restarts of the process
    Absent,       \* the alias of a row the table does not hold
    NoAddr,       \* the address of a direct transaction watch ("" in the code)
    None, Boot

Keys == Chats \X Addrs
Targets == Addrs \cup Txs
Outputs == {o \in Txs \X Addrs : o[2] \in Pays[o[1]]}
SpentFrom(t) == {o[2] : o \in Spends[t]}
Call == [kind : {"watch", "bell", "unwatch", "rename"}, chat : Chats,
         target : Targets, alias : Aliases]

ASSUME PaysType == Pays \in [Txs -> SUBSET Addrs]
ASSUME SpendsType == Spends \in [Txs -> SUBSET Outputs]
ASSUME CallsType == Calls \subseteq Call
ASSUME StartType == /\ StoredAtStart \subseteq [Keys -> Aliases \cup {Absent}]
                    /\ MinedAtStart \subseteq Txs
ASSUME BoundsType == MaxWatches \in Nat /\ MaxFaults \in Nat /\ MaxCrashes \in Nat
ASSUME Fresh == /\ Absent \notin Aliases /\ NoAddr \notin Addrs
                /\ None \notin Requests \cup Keys \cup Txs \cup Calls
                /\ Boot \notin Requests /\ Addrs \cap Txs = {}
                /\ Requests \cap Keys = {}

VARIABLES
    stored,     \* the watches table: the alias of each key, Absent without a row
    req,        \* each request: its call and its next step
    notifies,   \* the notifier the notifies map holds for each key
    notifier,        \* each notifier goroutine
    notified,   \* the transactions alreadyNotified has been asked about
    bcast,      \* each broadcast in flight: first and later sightings of a tx
    scripts,    \* the addresses in watchedScripts
    outs,       \* watchedOutpoints
    seed,       \* each seedOutpoints goroutine
    pending,    \* txwatches.pending
    confirms,   \* the processConfirms of the block each tx is mined in
    boot,       \* main, between its start and startZMQ
    chain,      \* what Bitcoin Core has of each transaction
    rawq, blockq, \* rawtx and hashblock messages not yet received
    seen,       \* how many times each key was told of each tx
    confd,      \* how many confirmations of each tx a chat got, per address
    missed,     \* what a broadcast gave up telling a notifier that was sending
    slipped,    \* the outputs past both the last scan and the feed: only remembers
    faults, crashes

store   == <<stored>>
notify  == <<notifies, notifier, notified, bcast>>
match   == <<scripts, outs, seed>>
confirm == <<pending, confirms>>
env     == <<boot, chain, rawq, blockq, crashes>>
told    == <<seen, confd, missed, slipped>>
vars == <<store, req, notify, match, confirm, env, told, faults>>

(***************************************************************************)
(* The processes' records.  A notifier goroutine is named by the request   *)
(* that started it, or by its key when startNotify did.                    *)
(***************************************************************************)
Workers == Requests \cup Keys
NoWorker == [key |-> None, alias |-> Absent, stopped |-> FALSE, at |-> "none", tx |-> None]
NewWorker(k, al) == [key |-> k, alias |-> al, stopped |-> FALSE, at |-> "idle", tx |-> None]
WorkerAt(w, step, t) == [key |-> w.key, alias |-> w.alias, stopped |-> w.stopped, at |-> step, tx |-> t]
Stopped(w) == [key |-> w.key, alias |-> w.alias, stopped |-> TRUE, at |-> w.at, tx |-> w.tx]

SeedAt(step, todo, own, found) == [at |-> step, todo |-> todo, own |-> own, found |-> found]
NoSeed == SeedAt("none", {}, {}, {})
NewSeed(as) == IF as = {} THEN NoSeed ELSE SeedAt("validate", as, {}, {})

Idle == [at |-> "idle", call |-> None]
Done == [at |-> "done", call |-> None]
BcastAt(step, sent, left) == [at |-> step, sent |-> sent, left |-> left]
NoBcast == BcastAt("none", FALSE, {})
ConfirmAt(step, out) == [at |-> step, out |-> out]
NoConfirm == ConfirmAt("none", {})

Sightings == {"first", "later"}
Bcasts == Txs \X Sightings
Entry(t, c, a, al) == [tx |-> t, chat |-> c, addr |-> a, alias |-> al]

Entries == [tx : Txs, chat : Chats, addr : Addrs \cup {NoAddr}, alias : Aliases]
ReqSteps == {"idle", "done", "watching", "limit", "add", "start", "seed", "remove",
             "rename", "stop", "confirms", "scripts", "renameConfirms"}
AddrSteps == {"start", "seed", "stop", "confirms", "scripts", "renameConfirms"}
ReqState == [at : ReqSteps, call : Calls \cup {None}]
NotifierState == [key : Keys \cup {None}, alias : Aliases \cup {Absent}, stopped : BOOLEAN,
                  at : {"none", "idle", "sending", "noting"}, tx : Txs \cup {None}]
BcastState == [at : {"none", "decode", "record", "inputs", "deliver"},
               sent : BOOLEAN, left : SUBSET Workers]
SeedState == [at : {"none", "validate", "scan", "load"}, todo : SUBSET Addrs,
              own : SUBSET Addrs, found : SUBSET Outputs]
ConfirmState == [at : {"none", "any", "fetch", "send"}, out : SUBSET Entries]
Owners == Chats \X (Addrs \cup {NoAddr})

\* The key of an address request; the code branches on app.IsTxID(target).
IsTxID(r) == req[r].call.target \in Txs
KeyOf(r) == <<req[r].call.chat, req[r].call.target>>

Goto(r, step) == req' = [req EXCEPT ![r].at = step]
Finish(r) == req' = [req EXCEPT ![r] = Done]

\* One more failed call or lost message, while the bound lasts.
Fault == faults < MaxFaults /\ faults' = faults + 1

Init ==
    /\ stored \in StoredAtStart
    /\ req = [r \in Requests |-> Idle]
    /\ notifies = [k \in Keys |-> None]
    /\ notifier = [g \in Workers |-> NoWorker]
    /\ notified = {}
    /\ bcast = [b \in Bcasts |-> NoBcast]
    /\ scripts = {} /\ outs = {}
    /\ seed = [j \in Requests \cup {Boot} |-> NoSeed]
    /\ pending = {}
    /\ confirms = [t \in Txs |-> NoConfirm]
    /\ boot = [at |-> "list", rows |-> {}]
    /\ chain = [t \in Txs |-> IF t \in MinedAtStart THEN "mined" ELSE "new"]
    /\ rawq = <<>> /\ blockq = <<>>
    /\ seen = [m \in Keys \X Txs |-> 0]
    /\ confd = [m \in Owners \X Txs |-> 0]
    /\ missed = {} /\ slipped = {}
    /\ faults = 0 /\ crashes = 0

-----------------------------------------------------------------------------
(* Helpers: the locked operations of notify.go and txwatches.              *)

StartNotifyChat(g, k, al) ==
    /\ notifies' = [notifies EXCEPT ![k] = g]
    /\ notifier' = [notifier EXCEPT ![g] = NewWorker(k, al)]

\* Mutant: the channel is closed and the map entry left.
StopWithoutDelete(k) ==
    /\ UNCHANGED notifies
    /\ notifier' = [g \in Workers |-> IF g = notifies[k]
                                      THEN Stopped(notifier[g]) ELSE notifier[g]]

StopNotifyChat(k) ==
    /\ notifies' = [notifies EXCEPT ![k] = None]
    /\ notifier' = [g \in Workers |-> IF g = notifies[k]
                                      THEN Stopped(notifier[g]) ELSE notifier[g]]

SameEntry(e, f) == e.tx = f.tx /\ e.chat = f.chat /\ e.addr = f.addr
AddEntry(e) == IF \E f \in pending : SameEntry(e, f) THEN pending ELSE pending \cup {e}
Direct(c, t) == {e \in pending : e.chat = c /\ e.addr = NoAddr /\ e.tx = t}
AddrConfirms(k) == {e \in pending : e.chat = k[1] /\ e.addr = k[2]}
Renamed(es, al) == {Entry(e.tx, e.chat, e.addr, al) : e \in es}

Subscriptions(c) == Cardinality({k \in Keys : k[1] = c /\ stored[k] # Absent})
                    + Cardinality({e \in pending : e.chat = c /\ e.addr = NoAddr})

-----------------------------------------------------------------------------
(* A request: /watch, the Mini App's bell, /unwatch (or the bell off) and  *)
(* the rename dialog, step by step.                                        *)

InFlight(r) == req[r].at \notin {"idle", "done"}

Begin(r) ==
    /\ req[r].at = "idle"
    /\ \E call \in Calls :
        /\ Orderly => /\ boot.at = "up"
                      /\ \A q \in Requests : InFlight(q) => req[q].call.chat # call.chat
        /\ req' = [req EXCEPT ![r] = [call |-> call,
             at |-> CASE call.kind = "watch"   -> "limit"
                      [] call.kind = "bell"    -> "watching"
                      [] call.kind = "unwatch" -> "remove"
                      [] call.kind = "rename"  -> "rename"]]
    /\ UNCHANGED <<store, notify, match, confirm, env, told, faults>>

\* watching: the bell of a watch that is there does nothing more; a list that
\* cannot be read answers that it is not there.
CheckWatching(r) ==
    /\ req[r].at = "watching"
    /\ \/ /\ LET there == IF IsTxID(r) THEN Direct(req[r].call.chat, req[r].call.target) # {}
                                       ELSE stored[KeyOf(r)] # Absent
             IN IF there THEN Finish(r) ELSE Goto(r, "limit")
          /\ UNCHANGED faults
       \/ Fault /\ ~IsTxID(r) /\ Goto(r, "limit")
    /\ UNCHANGED <<store, notify, match, confirm, env, told>>

AtWatchLimit(r) ==
    /\ req[r].at = "limit"
    /\ IF Subscriptions(req[r].call.chat) >= MaxWatches THEN Finish(r) ELSE Goto(r, "add")
    /\ UNCHANGED <<store, notify, match, confirm, env, told, faults>>

\* Mutant: a transaction goes on to a notifier too.
AddWatchNoBranch(r) ==
    /\ req[r].at = "add"
    /\ LET c == req[r].call IN
       IF IsTxID(r)
       THEN pending' = AddEntry(Entry(c.target, c.chat, NoAddr, c.alias)) /\ UNCHANGED stored
       ELSE stored' = [stored EXCEPT ![KeyOf(r)] = c.alias] /\ UNCHANGED pending
    /\ Goto(r, "start")
    /\ UNCHANGED <<notify, match, confirms, env, told, faults>>

AddWatch(r) ==
    /\ req[r].at = "add"
    /\ LET c == req[r].call IN
       IF IsTxID(r)
       THEN /\ pending' = AddEntry(Entry(c.target, c.chat, NoAddr, c.alias))
            /\ Finish(r)
            /\ UNCHANGED stored
       ELSE /\ stored' = [stored EXCEPT ![KeyOf(r)] = c.alias]
            /\ Goto(r, "start")
            /\ UNCHANGED pending
    /\ UNCHANGED <<notify, match, confirms, env, told, faults>>

\* After watches.Add, and after the stopNotifyChat of a rename.
StartNotifier(r) ==
    /\ req[r].at = "start"
    /\ StartNotifyChat(r, KeyOf(r), req[r].call.alias)
    /\ Goto(r, IF req[r].call.kind = "rename" THEN "renameConfirms" ELSE "seed")
    /\ UNCHANGED <<store, notified, bcast, match, confirm, env, told, faults>>

StartSeed(r) ==
    /\ req[r].at = "seed"
    /\ seed' = [seed EXCEPT ![r] = NewSeed({req[r].call.target})]
    /\ Finish(r)
    /\ UNCHANGED <<store, notify, scripts, outs, confirm, env, told, faults>>

RemoveWatch(r) ==
    /\ req[r].at = "remove"
    /\ IF IsTxID(r)
       THEN /\ pending' = pending \ Direct(req[r].call.chat, req[r].call.target)
            /\ Finish(r)
            /\ UNCHANGED stored
       ELSE /\ stored' = [stored EXCEPT ![KeyOf(r)] = Absent]
            /\ IF stored[KeyOf(r)] = Absent THEN Finish(r) ELSE Goto(r, "stop")
            /\ UNCHANGED pending
    /\ UNCHANGED <<notify, match, confirms, env, told, faults>>

SetAlias(r) ==
    /\ req[r].at = "rename"
    /\ LET c == req[r].call
           es == Direct(c.chat, c.target) IN
       IF IsTxID(r)
       THEN /\ pending' = (pending \ es) \cup Renamed(es, c.alias)
            /\ Finish(r)
            /\ UNCHANGED stored
       ELSE /\ UNCHANGED pending
            /\ IF stored[KeyOf(r)] = Absent
               THEN Finish(r) /\ UNCHANGED stored
               ELSE Goto(r, "stop") /\ stored' = [stored EXCEPT ![KeyOf(r)] = c.alias]
    /\ UNCHANGED <<notify, match, confirms, env, told, faults>>

StopNotifier(r) ==
    /\ req[r].at = "stop"
    /\ StopNotifyChat(KeyOf(r))
    /\ Goto(r, IF req[r].call.kind = "rename" THEN "start" ELSE "confirms")
    /\ UNCHANGED <<store, notified, bcast, match, confirm, env, told, faults>>

RemoveAddrConfirms(r) ==
    /\ req[r].at = "confirms"
    /\ pending' = pending \ AddrConfirms(KeyOf(r))
    /\ Goto(r, "scripts")
    /\ UNCHANGED <<store, notify, match, confirms, env, told, faults>>

\* By address alone: the scripts and outpoints belong to no chat.
UnwatchScripts(r) ==
    /\ req[r].at = "scripts"
    /\ LET a == req[r].call.target IN
       /\ scripts' = scripts \ {a}
       /\ outs' = {o \in outs : o[2] # a}
    /\ Finish(r)
    /\ UNCHANGED <<store, notify, seed, confirm, env, told, faults>>

SetAddrAlias(r) ==
    /\ req[r].at = "renameConfirms"
    /\ LET es == AddrConfirms(KeyOf(r)) IN
       pending' = (pending \ es) \cup Renamed(es, req[r].call.alias)
    /\ Finish(r)
    /\ UNCHANGED <<store, notify, match, confirms, env, told, faults>>

\* A database error ends the request where it reads or writes the table.
DbError(r) ==
    /\ req[r].at \in {"limit", "add", "remove", "rename"} /\ Fault
    /\ req[r].at # "limit" => ~IsTxID(r)
    /\ Finish(r)
    /\ UNCHANGED <<store, notify, match, confirm, env, told>>

Request(r) ==
    \/ Begin(r) \/ CheckWatching(r) \/ AtWatchLimit(r) \/ AddWatch(r)
    \/ StartNotifier(r) \/ StartSeed(r) \/ RemoveWatch(r) \/ SetAlias(r)
    \/ StopNotifier(r) \/ RemoveAddrConfirms(r) \/ UnwatchScripts(r)
    \/ SetAddrAlias(r) \/ DbError(r)

-----------------------------------------------------------------------------
(* The goroutine of seedOutpoints: each address is validated and its       *)
(* script watched, then one scan of the UTXO set is loaded outpoint by     *)
(* outpoint.  The scan answers with the set as it was when it began.       *)

ConfirmedOutputs == {o \in Outputs : /\ chain[o[1]] = "mined"
                                     /\ \A t \in Txs : o \in Spends[t] => chain[t] # "mined"}

\* Mutant: the scan finds no output of the addresses.
ScanNothing(j) ==
    /\ seed[j].at = "scan"
    /\ seed' = [seed EXCEPT ![j] = NoSeed]
    /\ UNCHANGED <<store, req, notify, scripts, outs, confirm, env, told, faults>>

\* Too late for the scan, too early for the feed: the transaction is announced
\* and its outputs recorded, and alreadyNotified drops its next sighting.
Unscanned == {o \in Outputs : /\ o[1] \in notified /\ chain[o[1]] # "mined"
                              /\ \A s \in Sightings : bcast[<<o[1], s>>].at # "record"}

\* The watched addresses no scan is still to come for.
PastScan == {a \in scripts : \A j \in DOMAIN seed :
                 seed[j].at \in {"validate", "scan"} => a \notin seed[j].own}

Advance(j, todo, own) ==
    seed' = [seed EXCEPT ![j] =
        IF todo # {} THEN SeedAt("validate", todo, own, {})
        ELSE IF own = {} THEN NoSeed ELSE SeedAt("scan", {}, own, {})]

WatchScript(j) ==
    /\ seed[j].at = "validate"
    /\ \E a \in seed[j].todo :
        \/ /\ scripts' = scripts \cup {a}
           /\ Advance(j, seed[j].todo \ {a}, seed[j].own \cup {a})
           /\ UNCHANGED faults
        \/ /\ Fault
           /\ Advance(j, seed[j].todo \ {a}, seed[j].own)
           /\ UNCHANGED scripts
    /\ UNCHANGED <<store, req, notify, outs, confirm, env, told>>

ScanTxOutSet(j) ==
    /\ seed[j].at = "scan"
    /\ LET own == seed[j].own
           hits == {o \in ConfirmedOutputs : o[2] \in own} IN
       \/ /\ seed' = [seed EXCEPT ![j] = IF hits = {} THEN NoSeed
                                         ELSE SeedAt("load", {}, own, hits)]
          /\ slipped' = {o \in slipped : o[2] \notin own}
                        \cup {o \in Unscanned \ outs : o[2] \in own}
          /\ UNCHANGED faults
       \/ Fault /\ seed' = [seed EXCEPT ![j] = NoSeed] /\ UNCHANGED slipped
    /\ UNCHANGED <<store, req, notify, scripts, outs, confirm, env, seen, confd, missed>>

WatchOutpoint(j) ==
    /\ seed[j].at = "load"
    /\ \E o \in seed[j].found :
        /\ outs' = outs \cup {o}
        /\ seed' = [seed EXCEPT ![j] = IF seed[j].found = {o} THEN NoSeed
                                       ELSE SeedAt("load", {}, seed[j].own, seed[j].found \ {o})]
    /\ UNCHANGED <<store, req, notify, scripts, confirm, env, told, faults>>

Seed(j) == WatchScript(j) \/ ScanTxOutSet(j) \/ WatchOutpoint(j)

-----------------------------------------------------------------------------
(* main: startNotify reloads the stored watches, and only then does        *)
(* startZMQ subscribe to the feed.  The webhook is already served.         *)

\* Every chat is of a platform that runs: startNotify passes over the rows of one
\* that does not, and nothing else names its chats.
ListWatches ==
    /\ boot.at = "list"
    /\ \/ /\ boot' = [at |-> "start", rows |-> {<<k, stored[k]>> : k \in {j \in Keys : stored[j] # Absent}}]
          /\ UNCHANGED faults
       \/ Fault /\ boot' = [at |-> "subscribe", rows |-> {}]
    /\ UNCHANGED <<store, req, notify, match, confirm, chain, rawq, blockq, crashes, told>>

StartListed ==
    /\ boot.at = "start"
    /\ \E row \in boot.rows :
        /\ StartNotifyChat(row[1], row[1], row[2])
        /\ boot' = [boot EXCEPT !.rows = boot.rows \ {row}]
    /\ UNCHANGED <<store, req, notified, bcast, match, confirm, chain, rawq, blockq, crashes, told, faults>>

\* Mutant: the watches reloaded at startup are not seeded.
SeedNobody ==
    /\ boot = [at |-> "start", rows |-> {}]
    /\ boot' = [boot EXCEPT !.at = "subscribe"]
    /\ UNCHANGED <<store, req, notify, match, confirm, chain, rawq, blockq, crashes, told, faults>>

SeedListed ==
    /\ boot = [at |-> "start", rows |-> {}]
    /\ seed' = [seed EXCEPT ![Boot] = NewSeed({k[2] : k \in {j \in Keys : notifies[j] # None}})]
    /\ boot' = [boot EXCEPT !.at = "subscribe"]
    /\ UNCHANGED <<store, req, notify, scripts, outs, confirm, chain, rawq, blockq, crashes, told, faults>>

StartZMQ ==
    /\ boot.at = "subscribe"
    /\ boot' = [boot EXCEPT !.at = "up"]
    /\ UNCHANGED <<store, req, notify, match, confirm, chain, rawq, blockq, crashes, told, faults>>

StartUp == ListWatches \/ StartListed \/ SeedListed \/ StartZMQ

-----------------------------------------------------------------------------
(* The read loop of startZMQ, and the broadcast goroutine it starts for a  *)
(* transaction that matches.                                               *)

\* Mutant: a spend is matched only when it pays a watched address too.
MatchesBoth(t) == Spends[t] \cap outs # {} /\ Pays[t] \cap scripts # {}

Matches(t) == Spends[t] \cap outs # {} \/ Pays[t] \cap scripts # {}

ReceiveTx ==
    /\ rawq # <<>>
    /\ rawq' = Tail(rawq)
    /\ LET t == Head(rawq)
           free == IF bcast[<<t, "first">>] = NoBcast THEN "first" ELSE "later"
       IN bcast' = IF Matches(t) THEN [bcast EXCEPT ![<<t, free>>] = BcastAt("decode", FALSE, {})] ELSE bcast
    /\ UNCHANGED <<store, req, notifies, notifier, notified, match, confirm, boot, chain, blockq, crashes, told, faults>>

ReceiveBlock ==
    /\ blockq # <<>>
    /\ blockq' = Tail(blockq)
    /\ confirms' = [confirms EXCEPT ![Head(blockq)] = ConfirmAt("any", {})]
    /\ UNCHANGED <<store, req, notify, match, pending, boot, chain, rawq, crashes, told, faults>>

\* A read fails and what is published before the socket is dialled again is lost.
LoseMessage ==
    /\ Fault
    /\ \/ rawq # <<>> /\ rawq' = Tail(rawq) /\ UNCHANGED blockq
       \/ blockq # <<>> /\ blockq' = Tail(blockq) /\ UNCHANGED rawq
    /\ UNCHANGED <<store, req, notify, match, confirm, boot, chain, crashes, told>>

\* Mutant: every sighting of a transaction is announced.
AnnounceAlways(b) ==
    /\ bcast[b].at = "decode"
    /\ notified' = notified \cup {b[1]}
    /\ bcast' = [bcast EXCEPT ![b] = BcastAt("record", FALSE, {})]
    /\ UNCHANGED <<store, req, notifies, notifier, match, confirm, env, told, faults>>

\* What the sightings of t so far set off is over.
Over(t) == /\ \A i \in 1..Len(rawq) : rawq[i] # t
           /\ confirms[t] = NoConfirm /\ \A s \in Sightings : bcast[<<t, s>>] = NoBcast

\* A new transaction also drops from notified what is older than notifiedTTL:
\* two days ago, so nothing of it is still in flight.
AlreadyNotified(b) ==
    /\ bcast[b].at = "decode"
    /\ \/ /\ \E old \in IF Expiring /\ b[1] \notin notified THEN SUBSET {t \in notified : Over(t)} ELSE {{}} :
               notified' = (notified \ old) \cup {b[1]}
          /\ bcast' = [bcast EXCEPT ![b] = IF b[1] \in notified THEN NoBcast
                                           ELSE BcastAt("record", FALSE, {})]
          /\ UNCHANGED faults
       \/ Fault /\ bcast' = [bcast EXCEPT ![b] = NoBcast] /\ UNCHANGED notified
    /\ UNCHANGED <<store, req, notifies, notifier, match, confirm, env, told>>

\* Mutant: the outputs of a live transaction are not remembered.
RecordNothing(b) ==
    /\ bcast[b].at = "record"
    /\ bcast' = [bcast EXCEPT ![b] = BcastAt("inputs", FALSE, {})]
    /\ UNCHANGED <<store, req, notifies, notifier, notified, match, confirm, env, told, faults>>

RecordOutpoints(b) ==
    /\ bcast[b].at = "record"
    /\ outs' = outs \cup {<<b[1], a>> : a \in Pays[b[1]] \cap scripts}
    /\ bcast' = [bcast EXCEPT ![b] = BcastAt("inputs", FALSE, {})]
    /\ UNCHANGED <<store, req, notifies, notifier, notified, scripts, seed, confirm, env, told, faults>>

\* Who spends is known only when the inputs could be fetched; then the
\* channels are copied under the lock.
SnapshotChannels(b) ==
    /\ bcast[b].at = "inputs"
    /\ LET to == {notifies[k] : k \in Keys} \ {None} IN
       \E sent \in BOOLEAN :
        /\ IF sent THEN UNCHANGED faults ELSE Fault
        /\ bcast' = [bcast EXCEPT ![b] = IF to = {} THEN NoBcast
                                         ELSE BcastAt("deliver", sent, to)]
    /\ UNCHANGED <<store, req, notifies, notifier, notified, match, confirm, env, told>>

Without(b, g) ==
    [bcast EXCEPT ![b] = IF bcast[b].left = {g} THEN NoBcast
                         ELSE BcastAt("deliver", bcast[b].sent, bcast[b].left \ {g})]
Involves(t, sent, a) == a \in Pays[t] \/ (sent /\ a \in SpentFrom(t))

\* Mutant: the confirmation is registered before the message is sent.
ConfirmFirst(b, g) ==
    /\ g \in bcast[b].left /\ notifier[g].at = "idle"
    /\ bcast' = Without(b, g)
    /\ LET w == notifier[g] IN
       IF Involves(b[1], bcast[b].sent, w.key[2])
       THEN /\ notifier' = [notifier EXCEPT ![g] = WorkerAt(w, "sending", b[1])]
            /\ pending' = AddEntry(Entry(b[1], w.key[1], w.key[2], w.alias))
       ELSE UNCHANGED <<notifier, pending>>
    /\ UNCHANGED <<store, req, notifies, notified, match, confirms, env, told, faults>>

\* An idle notifier receives at once, a stopped one perhaps; addressNotification
\* drops what its address has no part in.
Deliver(b, g) ==
    /\ g \in bcast[b].left /\ notifier[g].at = "idle"
    /\ bcast' = Without(b, g)
    /\ notifier' = IF Involves(b[1], bcast[b].sent, notifier[g].key[2])
                   THEN [notifier EXCEPT ![g] = WorkerAt(notifier[g], "sending", b[1])]
                   ELSE notifier
    /\ UNCHANGED <<store, req, notifies, notified, match, confirm, env, told, faults>>

\* Mutant: no 500 ms: the broadcast waits for the notifier.
WaitForever(b, g) == FALSE /\ bcast[b].left = {g}

\* One that is sending, or gone, costs the broadcast 500 ms and loses the transaction.
GiveUp(b, g) ==
    /\ g \in bcast[b].left /\ notifier[g].at # "idle"
    /\ bcast' = Without(b, g)
    /\ missed' = IF notifier[g].key = None THEN missed
                 ELSE missed \cup {<<notifier[g].key, b[1]>>}
    /\ UNCHANGED <<store, req, notifies, notifier, notified, match, confirm, env, seen, confd, slipped, faults>>

Broadcast(b) ==
    \/ AlreadyNotified(b) \/ RecordOutpoints(b) \/ SnapshotChannels(b)
    \/ \E g \in Workers : Deliver(b, g) \/ GiveUp(b, g)

-----------------------------------------------------------------------------
(* The notifier goroutine of startNotifyChat.                              *)

Send(g) ==
    /\ notifier[g].at = "sending"
    /\ seen' = [seen EXCEPT ![<<notifier[g].key, notifier[g].tx>>] = @ + 1]
    /\ notifier' = [notifier EXCEPT ![g] = WorkerAt(notifier[g], "noting", notifier[g].tx)]
    /\ UNCHANGED <<store, req, notifies, notified, bcast, match, confirm, env, confd, missed, slipped, faults>>

AddAddrConfirm(g) ==
    /\ notifier[g].at = "noting"
    /\ LET w == notifier[g] IN
       pending' = AddEntry(Entry(w.tx, w.key[1], w.key[2], w.alias))
    /\ notifier' = [notifier EXCEPT ![g] = WorkerAt(notifier[g], "idle", None)]
    /\ UNCHANGED <<store, req, notifies, notified, bcast, match, confirms, env, told, faults>>

Exit(g) ==
    /\ notifier[g].at = "idle" /\ notifier[g].stopped
    /\ notifier' = [notifier EXCEPT ![g] = NoWorker]
    /\ UNCHANGED <<store, req, notifies, notified, bcast, match, confirm, env, told, faults>>

Notifier(g) == Send(g) \/ AddAddrConfirm(g) \/ Exit(g)

-----------------------------------------------------------------------------
(* processConfirms, for the block transaction t is mined in.               *)

AnyPending(t) ==
    /\ confirms[t].at = "any"
    /\ confirms' = [confirms EXCEPT ![t] = IF pending = {} THEN NoConfirm ELSE ConfirmAt("fetch", {})]
    /\ UNCHANGED <<store, req, notify, match, pending, env, told, faults>>

\* Mutant: what a block confirms stays pending.
TakeAndKeep(t) ==
    /\ confirms[t].at = "fetch"
    /\ LET taken == {e \in pending : e.tx = t} IN
       confirms' = [confirms EXCEPT ![t] = IF taken = {} THEN NoConfirm ELSE ConfirmAt("send", taken)]
    /\ UNCHANGED <<store, req, notify, match, pending, env, told, faults>>

TakeConfirms(t) ==
    /\ confirms[t].at = "fetch"
    /\ LET taken == {e \in pending : e.tx = t} IN
       \/ /\ pending' = pending \ taken
          /\ confirms' = [confirms EXCEPT ![t] = IF taken = {} THEN NoConfirm
                                                 ELSE ConfirmAt("send", taken)]
          /\ UNCHANGED faults
       \/ Fault /\ confirms' = [confirms EXCEPT ![t] = NoConfirm] /\ UNCHANGED pending
    /\ UNCHANGED <<store, req, notify, match, env, told>>

SendConfirm(t) ==
    /\ confirms[t].at = "send"
    /\ \E e \in confirms[t].out :
        /\ confd' = [confd EXCEPT ![<<<<e.chat, e.addr>>, t>>] = @ + 1]
        /\ confirms' = [confirms EXCEPT ![t] = IF confirms[t].out = {e} THEN NoConfirm
                                               ELSE ConfirmAt("send", confirms[t].out \ {e})]
    /\ UNCHANGED <<store, req, notify, match, pending, env, seen, missed, slipped, faults>>

ProcessConfirms(t) == AnyPending(t) \/ TakeConfirms(t) \/ SendConfirm(t)

-----------------------------------------------------------------------------
(* Bitcoin Core, and the end of the process.  Core publishes a transaction *)
(* when it enters the mempool and again when it is mined; nobody hears     *)
(* what is published before startZMQ.                                      *)

Published(q, t) == IF boot.at = "up" THEN Append(q, t) ELSE q

EnterMempool(t) ==
    /\ chain[t] = "new" /\ \A o \in Spends[t] : chain[o[1]] # "new"
    /\ chain' = [chain EXCEPT ![t] = "mempool"]
    /\ rawq' = Published(rawq, t)
    /\ UNCHANGED <<store, req, notify, match, confirm, boot, blockq, crashes, told, faults>>

\* Each block holds one of the modelled transactions; a coinbase, and one that
\* came while the bot was away, was in no mempool before.  One mined after the
\* scan of an address it pays began and before startZMQ is in neither.
Mine(t) ==
    /\ chain[t] # "mined" /\ \A o \in Spends[t] : chain[o[1]] = "mined"
    /\ chain' = [chain EXCEPT ![t] = "mined"]
    /\ rawq' = Published(rawq, t)
    /\ blockq' = Published(blockq, t)
    /\ slipped' = IF boot.at = "up" THEN slipped
                  ELSE slipped \cup {<<t, a>> : a \in Pays[t] \cap PastScan}
    /\ UNCHANGED <<store, req, notify, match, confirm, boot, crashes, seen, confd, missed, faults>>

\* A reorg puts it back into the mempool, and publishes it again.  What the
\* first block set off is over by then.
Disconnect(t) ==
    /\ chain[t] = "mined" /\ \A u \in Txs : (\E o \in Spends[u] : o[1] = t) => chain[u] # "mined"
    /\ Over(t) /\ blockq = <<>> /\ Fault
    /\ chain' = [chain EXCEPT ![t] = "mempool"]
    /\ rawq' = Published(rawq, t)
    /\ UNCHANGED <<store, req, notify, match, confirm, boot, blockq, crashes, told>>

Core(t) == EnterMempool(t) \/ Mine(t) \/ Disconnect(t)

\* Everything but the table is memory; requests under way are gone.  The
\* messages sent so far are counted afresh, as the dedup is.
Restart ==
    /\ crashes < MaxCrashes /\ crashes' = crashes + 1
    /\ req' = [r \in Requests |-> IF req[r].at = "idle" THEN Idle ELSE Done]
    /\ notifies' = [k \in Keys |-> None]
    /\ notifier' = [g \in Workers |-> NoWorker]
    /\ notified' = {}
    /\ bcast' = [b \in Bcasts |-> NoBcast]
    /\ scripts' = {} /\ outs' = {}
    /\ seed' = [j \in Requests \cup {Boot} |-> NoSeed]
    /\ pending' = {}
    /\ confirms' = [t \in Txs |-> NoConfirm]
    /\ boot' = [at |-> "list", rows |-> {}]
    /\ rawq' = <<>> /\ blockq' = <<>>
    /\ seen' = [m \in Keys \X Txs |-> 0]
    /\ confd' = [m \in Owners \X Txs |-> 0]
    /\ missed' = {} /\ slipped' = {}
    /\ UNCHANGED <<stored, chain, faults>>

Next ==
    \/ \E r \in Requests : Request(r)
    \/ \E j \in Requests \cup {Boot} : Seed(j)
    \/ StartUp
    \/ ReceiveTx \/ ReceiveBlock \/ LoseMessage
    \/ \E b \in Bcasts : Broadcast(b)
    \/ \E g \in Workers : Notifier(g)
    \/ \E t \in Txs : ProcessConfirms(t) \/ Core(t)
    \/ Restart

Spec == Init /\ [][Next]_vars

\* A process with a goroutine that can go on takes a step: every call one waits
\* for has a timeout.  Requests begin, transactions come and messages are lost
\* as they please.
Goroutines ==
    \/ \E r \in Requests : Request(r) /\ InFlight(r)
    \/ \E j \in Requests \cup {Boot} : Seed(j)
    \/ StartUp \/ ReceiveTx \/ ReceiveBlock
    \/ \E b \in Bcasts : Broadcast(b)
    \/ \E g \in Workers : Notifier(g)
    \/ \E t \in Txs : ProcessConfirms(t)

FairSpec == Spec /\ WF_vars(Goroutines)

-----------------------------------------------------------------------------
(* Properties.                                                             *)

Running == boot.at = "up"
Watched(k) == stored[k] # Absent
\* No request is at work on the key, or on any key of the address.
Quiet(k) == \A r \in Requests : InFlight(r) => <<req[r].call.chat, req[r].call.target>> # k
Settled(a) == /\ Running /\ faults = 0
              /\ \A c \in Chats : Quiet(<<c, a>>)
              /\ \A j \in DOMAIN seed : a \notin seed[j].todo \cup seed[j].own
                                          \cup {o[2] : o \in seed[j].found}
InFeed(t) == \E i \in 1..Len(rawq) : rawq[i] = t

\* Every variable holds what the code's types and maps can hold.
TypeOK ==
    /\ stored \in [Keys -> Aliases \cup {Absent}]
    /\ req \in [Requests -> ReqState]
    /\ \A r \in Requests : InFlight(r) => req[r].call \in Calls
    /\ \A r \in Requests : req[r].at \in AddrSteps => req[r].call.target \in Addrs
    /\ notifies \in [Keys -> Workers \cup {None}]
    /\ notifier \in [Workers -> NotifierState]
    /\ \A g \in Workers : notifier[g].at # "none" => notifier[g].key \in Keys /\ notifier[g].alias \in Aliases
    /\ \A g \in Workers : notifier[g].at \in {"sending", "noting"} => notifier[g].tx \in Txs
    /\ notified \subseteq Txs
    /\ bcast \in [Bcasts -> BcastState]
    /\ scripts \subseteq Addrs /\ outs \subseteq Outputs
    /\ seed \in [Requests \cup {Boot} -> SeedState]
    /\ pending \subseteq Entries
    /\ confirms \in [Txs -> ConfirmState]
    /\ boot \in [at : {"list", "start", "subscribe", "up"}, rows : SUBSET (Keys \X Aliases)]
    /\ chain \in [Txs -> {"new", "mempool", "mined"}]
    /\ rawq \in Seq(Txs) /\ blockq \in Seq(Txs)
    /\ seen \in [Keys \X Txs -> Nat]
    /\ confd \in [Owners \X Txs -> Nat]
    /\ missed \subseteq Keys \X Txs /\ slipped \subseteq Outputs
    /\ faults \in Nat /\ crashes \in Nat

\* A chat is told of a transaction at most once for an address, though Core
\* publishes it twice and a rename puts a second notifier beside the first
\* (alreadyNotified, the snapshot of broadcast).
ToldOnce == \A m \in DOMAIN seen : seen[m] <= 1

\* An address's transaction is confirmed at most once, though a reorg may take it
\* out of a block and put it into another (Confirms removes what it returns, and
\* only an announcement adds it).
ConfirmedOnce == \A k \in Keys, t \in Txs : confd[<<k, t>>] <= 1

\* A confirmation of an address's transaction restates a message the chat got:
\* none comes before the announcement (the order of startNotifyChat's loop).
ConfirmedWasTold ==
    \A k \in Keys, t \in Txs : confd[<<k, t>>] > 0 => seen[<<k, t>>] > 0

\* A chat hears of an address's transaction in one message, then in at most one
\* confirmation, however often Core publishes it.
ToldAndConfirmedOnce == ToldOnce /\ ConfirmedOnce /\ ConfirmedWasTold

\* Once no request is at work on a key, the table and the notifies map agree
\* about it, and its notifier has not been stopped and goes by the stored alias
\* (addWatch, removeWatch, setAlias, startNotify).
NotifiersFollowTable ==
    \A k \in Keys : Running /\ faults = 0 /\ Quiet(k) =>
        /\ Watched(k) <=> notifies[k] # None
        /\ Watched(k) => /\ notifier[notifies[k]].key = k
                         /\ notifier[notifies[k]].alias = stored[k]
                         /\ ~notifier[notifies[k]].stopped

\* Once the requests and the seeding of an address are over, a chat that holds
\* a watch on it has its script matched: removeWatch stops "this chat" only.
WatchedIsMatched == \A k \in Keys : Watched(k) /\ Settled(k[2]) => k[2] \in scripts

\* No coin falls between the scan of the UTXO set and the live feed: each
\* confirmed output of a watched address is a known outpoint, so that spending
\* it is recognised (seedOutpoints watches the script before it scans;
\* recordOutpoints).  Two gaps are let off, until the next scan of the address, and
\* only they: a transaction announced before the scan and mined after it, whose
\* second sighting broadcast drops before recordOutpoints (notify.go:224), and one
\* mined after the scan of a stored watch began and before startZMQ.  A coin older
\* than the watch is let off by neither.
CoinsKnown ==
    \A k \in Keys : Watched(k) /\ Settled(k[2]) =>
        \A o \in ConfirmedOutputs :
            \/ o[2] # k[2] \/ o \in outs \cup slipped \/ InFeed(o[1])
            \/ \E s \in Sightings : bcast[<<o[1], s>>].at \in {"decode", "record"}

\* A broadcast always ends, also when it holds the channel of a notifier that
\* was stopped or is stuck in a send (the 500 ms of broadcast).
BroadcastEnds == \A b \in Bcasts : bcast[b] # NoBcast ~> bcast[b] = NoBcast

\* A transaction that pays an address, or spends a known coin of it and pays it
\* nothing, and is first seen after the address was settled, is told to the chat, unless
\* its notifier was busy for the 500 ms the broadcast waits, or the chat unwatches
\* or renames the watch meanwhile: a rename has no notifier for a moment.
TransactionTold ==
    \A k \in Keys, t \in Txs :
        ((k[2] \in Pays[t] \/ \E o \in Spends[t] \cap outs : o[2] = k[2])
            /\ Watched(k) /\ Settled(k[2]) /\ InFeed(t) /\ t \notin notified)
            ~> (seen[<<k, t>>] > 0 \/ <<k, t>> \in missed \/ ~Quiet(k))
=============================================================================
