# bitnsbot in TLA+

bitnsbot is a Bitcoin bot for Telegram and MAX. It watches addresses and
transactions for its chats, answers questions about the chain, and serves a
Mini App whose pages follow the chain live. This directory holds TLA+ models of
the parts of it where order, failure and concurrency decide whether it is right,
the TLC instances that check them, and proofs of the results that matter most.
Paths below are those of the repository.

## 1. The system

### Parts, state and operations

| Part | State | Operations | What makes it hard |
|---|---|---|---|
| Watches and notifications (`main.go`, `notify.go`, `zmq.go`, `txwatches/`, `watches/`) | the `watches` table; `notifies` (a notifier goroutine per chat and address); the scripts and outpoints the feed is matched against; `notified`; pending confirmations | `/watch`, the Mini App's bell, `/unwatch`, rename; `startNotify`; `seedOutpoints`; `broadcast`; `startNotifyChat`'s loop; `processConfirms` | a watch is a row, a goroutine, a script and outpoints made one after the other; the same transaction is published two or three times; a broadcast uses channels it copied earlier; a restart rebuilds everything from the table |
| Block cache (`blocks/`, `indexes.go`, `zmq.go`) | the `blocks` table | `Update` appends to the tip in chunks; `Rollback` on each block a reorg disconnects | the two run on different goroutines and share only the table; disconnections are sent once |
| Index scans (`indexes.go`, `cursors/`, `miners/stats.go`, `addrindex/`, `addrstat/`, `addrbal/`) | four tables that add up what blocks hold, and a place for each | `updateIndexes` runs the four to one tip, in batches | a batch added twice or skipped is never noticed; early merges; a reorg |
| Live mempool list (`mp/`, `main.go`, `telegram/app.html`, `max/app.html`) | the newest arrivals, the log of the mined, one counter | `Record` files each rawtx frame; a page asks for what is newer than it has | both lists overflow between two requests; one topic carries arrivals and mined transactions |
| Mini App events and cards (`app/`, `telegram/app.go`, `max/app.go`, `lru/`) | the throttle, the streams' channels, the rendered cards | `Notify`, `throttle`, `notify`, `invalidate`, `cached` | events are dropped; a render races the change that makes it stale |
| Scan workers (`addrstat/`, `addrbal/`) | the goroutines inside one scan | fetch ahead, collect in order | cancellation and order |
| Chats (`chats/`, `main.go`, the webhooks) | the row of a chat: its language, the state a bare command leaves; the language cache; the names the log uses | `Update`, `Language`, `SetState`, `Take`; `message`, `callback`, `started`; `logMessage`, `logSent` | two updates of a chat handled at once; a cache in front of a table; a lapsed state; the names have no mutex |
| Core client (`core/`) | the current connection, its credentials and mutex, two block caches | `Call`, `GetBlockTxids`, `GetBlockVerbose`, `refreshAuth`, the watchdog | the node restarts with a new cookie under calls in flight; a reconnect swaps the connection and keeps the caches |
| Database files (`db.go`) | the backup, its temporary file, the handle | `startBackup`, `backup`, `closeDB` | a crash or an error at any step; a shutdown in the middle of a copy; a script that hangs |
| Process (`main.go`, `telegram/`, `max/`) | the servers, their requests and event streams, the database handle | start, webhooks, pages, `shutdown` | four servers drained one by one under one deadline, streams that never end by themselves |
| Mini App pages (`main.go`, `telegram/app.go`, `max/app.html`) | the list of blocks a page shows, the pages in `blocksCache` | older and newer batches, Back, `details`, `/search` | several requests of one list under way, answers cached for all readers, a table that grows and is rolled back |
| Lookups (`info.go`, `blocks/`) | none | `/info`, a tapped id, the details pages, `fetchInputs` | a reply is put together from several calls while chain and mempool move |
| Figures (`rates/`, `fees.go`, `mp/`, `main.go`) | the daily rates and the market's snapshot; the recommendations; the count, totals and flow of the mempool; the network card | the updaters, `Refresh`, `SetSummary`, `Flow`, `refreshNetwork` | retries, failed sources, a figure moved by hand and replaced by the node's, rounding |
| Encodings (`zmq.go`, `addrindex/address.go`, `tools/addrindex/files.go`) | none | raw transactions, block files, scripts and addresses | input cut short, counts in four widths, several address forms for one key |
| Offline builds (`tools/addrindex/`) | shard files, a database, a meta table | `richbuild`, `ababuild`, `actbuild` | hours long; a run may end anywhere and the next carries on |
| Formatting, translations, miner attribution, logging, the other tools | none | | |

### How they interact

Bitcoin Core publishes `rawtx`, `hashblock` and `sequence` to the read loop of
`startZMQ`. A rawtx frame goes to `mp.Record` and, if its scripts or outpoints
match, to a broadcast goroutine, which hands it to every notifier in turn. A
`hashblock` wakes the goroutine of `startIndexUpdates` (block cache, then the
four scans), the mempool counts and the cards, and starts `processConfirms`. A
disconnection on `sequence` rolls the block cache back. Chat commands and the
Mini App's bell run the same handlers on the watches. Whatever refreshes data
calls `app.Notify`, which both Mini Apps turn into an event on each page's
stream; the page answers with an ordinary request.

All of it but the tables is memory. A restart rebuilds the watches' live state
from the table and resumes each scan from its place.

### What each part owes

* Watches: nothing is announced or confirmed twice, or confirmed before it was
  announced; table, goroutines and matcher agree when no handler is at work; no
  coin falls between the UTXO scan and the feed; a seen transaction is told.
* Block cache: no stale row once its disconnection was heard, no gap below the
  highest row, no row overwritten, the tip reached in the end.
* Scans: each height counted once, over failures and restarts; balances of
  blocks that stay in the chain.
* Chats: one answer to a bare command and no prompt left lying about; the
  language cached is the row's.
* Core client: every call ends; after a restart of the node calls carry its new
  password; the block caches are used by one call at a time.
* Backup: a whole copy, or the previous one, whatever happens; a stale one is
  retaken; the database is open while it is read.
* Live list and events: a page that is up to date shows what the server has, no
  change goes unannounced, a page settles whatever events are lost.
* Process: the database is closed under no handler, and an update that was
  answered had its effect.
* Pages: the list of blocks has no gap and catches up; Back leads where the taps
  began; a reply is of one block or transaction.
* Figures: each is of its source, none gets older, a faster fee costs no less.
* Encodings and builds: what is read is what was written, or refused; an answer
  table is of the chain the state was built from.

## 2. The modules

| Module | Models | Run by | Proved in |
|---|---|---|---|
| `Watching` | watches and notifications | `MCWatching` | `WatchingProofs` |
| `BlockCache` | the block cache against its chain | `MCBlockCache` | `ServicesProofs` |
| `Indexes` | the four scans and their goroutine | `MCIndexes` | `IndexesProofs` |
| `Tally` | the abstract promise of a scan: heights counted in order, once | refined by `Indexes` | `IndexesProofs` |
| `Live` | the mempool list and a page that follows it | `MCMiniApp` | `MiniAppProofs` |
| `Events` | the throttle, the event streams, the cached cards | `MCMiniApp` | `MiniAppProofs` |
| `CoreConn` | the connection to Core: calls, credentials, watchdog | `MCServices` | `ServicesProofs` |
| `Chats` | a chat's row, its language cache, the webhook handlers | `MCServices` | `ServicesProofs` |
| `Backup` | the backup goroutine, its files, the shutdown | `MCServices` | `ServicesProofs` |
| `Lifecycle` | the four servers from start to shutdown | `MCServices` | `ServicesProofs` |
| `ScanChain` | the blocks the scans read, and what an address received, spent and holds | by the four below | |
| `AddrStat`, `Rankings` | the workers inside a scan of `addrstat`; the ranked lists paged over its table | `MCTables` | `TablesProofs` |
| `AddrBal` | the producer, fetches and merges inside a scan of `addrbal` | `MCTables` | `TablesProofs` |
| `AddrIndex`, `History` | the address index with its two look-ups; an address page's transactions by batches | `MCTables` | |
| `Rates` | the updater, its sources, the look-up of a past rate, `/market` and its card | `MCTables` | `FiguresProofs` |
| `Fees` | projected blocks, their medians, the recommendations | `MCTables` | `FiguresProofs` |
| `Pool` | the mempool's count, totals and flow rate | `MCTables` | `FiguresProofs` |
| `Cards` | the network card and the signals that refresh it | `MCTables` | `FiguresProofs` |
| `BlockList` | the Blocks tab of both Mini Apps | `MCPages` | `MiniAppProofs` |
| `Visits` | a reader's taps, the pages in memory, Back | `MCPages` | `MiniAppProofs` |
| `Replies` | one lookup call by call, with subsidy, supply and fee statistics | `MCPages` | `FiguresProofs` |
| `Builds`, `ActBuild`, `Tools` | `richbuild` and `ababuild`; `actbuild`; the three side by side | `MCBuilds` | `BuildsProofs` |
| `Wire`, `Addresses` | raw transactions and block files; scripts and addresses | `MCBuilds` | |

Names are the code's where TLA+ allows it. The comment of each module's
variables says which Go variable each one is. Definitions marked "Mutant" in a
comment are altered forms of the definition that follows; the model itself never
uses them, and each exists to show that one property notices that change.

### Watching

Each request (a handler's call), seeding goroutine, broadcast and notifier is a
process with a step counter. A step ends where the code takes or releases a
mutex or waits on SQLite, on Core or on a messenger, so everything else may come
in between. `req[r].at` walks `addWatch` / `removeWatch` / `setAlias` in the
order of `main.go`; `notifies` and `notifier` are the map and the goroutines of
`notify.go`; `bcast` is one `broadcast` call per sighting of a transaction;
`rawq` and `blockq` are the feed; `scripts` and `outs` are what `zmq.go` matches
against; `seed` is `seedOutpoints`, at startup (`Boot`) or for one watch;
`pending` is `txwatches`. `seen`, `confd` and `missed` only remember what was
sent. The transaction itself is data: `Pays` and `Spends` say which addresses it
pays and which outputs it consumes, and the wording of messages is left out.

`Orderly` restricts a behaviour to handlers of one chat that do not overlap. The
code has no lock for that; with the overlap two handlers both pass the limit
check, or one removes a watch while the other adds it, and
`NotifiersFollowTable` fails. `Expiring` lets `notifiedTTL` run out while a
transaction is still waiting.

### BlockCache

A block is its height and branch. The catch-up goroutine's steps are `Update`'s:
read the tip, read the highest stored height, fetch, flush a chunk in one
transaction. `gone` is the queue of disconnections, which the read loop handles
with `Rollback`; `tips` the hashblock messages, which come independently, as each
topic may have a port of its own. `excuse` remembers the two ways the table may
go wrong, both of them findings: a chunk stored across a rollback, and a
disconnection nobody heard.

### Indexes and Tally

`table[s][h]` is the sequence of blocks that scan `s` has added to its table for
height `h`, so a block counted twice or a stale one shows. `place` is its row of
`cursors`; a missing row is `NoPlace`, and scans start at 0 or 1 as the code's
do. `Flush` commits a batch and its place together; `addrstat` and `addrbal` may
flush before the chunk's end. `count`, `loaded` and `caughtUp` are addrbal's, and
`Expire` ends its pass as the six hours of its context do: the blocks left are
unread, the rest of the pass goes on as if they had been. `cutShort` remembers it.
`Tally` says what each of the four promises, and `IsTally` is the refinement,
with `counted` the length of each height's sequence.

### Live and Events

`Live` has Core's frames in order, `Record`, and one page with at most one
request under way. `frames` is a FIFO: one topic is one connection, and a
block's burst begins with its coinbase. A hole makes the server read the whole
list anew, so a request is answered in two steps. `listed`, `cut` and `shrunk`
only remember. What makes the page ask is `Events`': in `Live` it may ask at any
time. It is opened while the list is empty. `EndBurst` (the end of
`minedWindow`) comes only when no frame of the block is left, as the comment of
`minedWindow` has it. Reorgs, which publish a block's transactions once more,
are left out.

`Events` has two kinds of event: `mempool`, throttled and never cached, and
`fees`, which stands for the three cards, cached. A goroutine for each kind and
one for the throttle's timer walk through `throttle`, `invalidate`, `Send`; each
page reads its stream, asks, and is served a copy or a render. A render is the
version of the data it was made from. Pages are the Telegram app's, whose htmx
repeats a request if an event came while it waited; MAX's `notify` and `serve`
are the same code but for the cache's keys.

`MCMiniApp` puts the two into one run: they share no variable, so a behaviour
picks one of them and the other stands still.

### CoreConn

A thread is a goroutine that calls, or the watchdog. A cached call loads the
current connection (`Load`), looks in the cache under that connection's mutex
(`Enter`, `Leave`), sends the credentials it finds (`Request`) and, answered,
stores the block under the same mutex. A refused call reads the cookie file and
stores it in two steps, with anything in between, and fails. The watchdog's ping
is the same request; failures make it dial a connection of the next number,
which becomes `current` only when it answers. A connection that was replaced
goes on serving the calls that loaded it. Passwords are numbers, one for each
start of the node; what the caches hold is left out. With no connection left to
number (`MaxConns`) the watchdog stops; the run's node restarts too seldom for
that.

### Chats

One chat. A handler is a webhook's goroutine with one update: a bare command, a
command or a button with an argument, a plain text, another command; or a
notifier's with a notice to send. Each database statement is a step, each `Take`
two. A text tries the states one after the other, as `message` does, and one
that takes a state is handled as that command's argument. `langMu` is held over
a miss's query, as in `Language`. `logging` and `telling` are the moments inside
`chatNames`. `answers`, `crossed` and `disturbed` only remember.

### Backup

`saved` and `tmp` are what is at the backup's path and at the temporary one.
`vacuum into` writes bit by bit (`Vacuum`, `Copied`), the rename is one step;
any step may fail, and the process may die between any two. At the temporary
path there may be something that is no file, and which `os.Remove` removes
(`other`: an empty directory, a pipe) or not (`kept`). The wait is left with
either of its two cases when both are ready.

### Lifecycle

`main` is the goroutine of `main` and `shutdown`: what it starts next, and, once
signalled, which server it drains. A server is closed, open or closing; it has at
most one request in flight, and a Mini App one event stream. Requests go on
while the other servers are drained. `late` says that the deadline has passed
and of what: a slow request, which the property lets off, or an idle stream,
which it does not. A messenger sends an update until it is answered. Notifiers,
index catch-up and backup, which the drain does not wait for, are left out.

### ScanChain, AddrStat, AddrBal, AddrIndex, Rankings, History

`Indexes` has the scans as atomic batches and reorgs around them; these have
what happens inside a batch, on a chain of five blocks that stays. `AddrStat`'s
workers take heights from one counter, read blocks and gather figures, until one
fails or enough addresses are gathered; `Merge` is what `Update` then stores.
`AddrBal`'s producer queues a slot for each height and starts its fetch; `scan`
takes the slots in order and merges what piles up. A cancelled scan's goroutines
end on their own. Once the pass's six hours are over (`expired`), the producer
stops, a fetch begun later fails, and one under way may. Tables are functions of the address or of its slot in a shard.
`Rankings` is a set of operators over `AddrStat`'s table, evaluated in every one
of its states. `AddrIndex` packs appearances by prefix, and two scripts may share
one; `History` pages through it while it grows, beginning where a table of blocks
says, which other goroutines fill and roll back: it ends anywhere.

### Rates, Fees, Pool, Cards

A day is `Rates`' unit of time and a cent its unit of money. `attempt` and
`updater` are where the goroutine stands; what a source answers is a member of
`Quotes`, or nothing. `Price` and `Comma` are the printing of an amount, since
the property is about it. `Fees` computes the packing, the medians as fractions,
and the four tiers from every mempool of a small set of shapes; `RefreshFees` is
its one action beside a failed refresh. `Pool` numbers the transactions in the
order they arrive: the node's mempool, the frames on their way, the count moved
by each frame, and the two goroutines that replace a figure with the node's.
`off` remembers what made the count wrong and is not healed yet: an arrival whose
frame raced the answer, a failed call, a drop that no frame tells of, and a hash
that overtook its block's frames; an answer heals all that came before it, but
for frames that are still under way.
`Cards` tells a figure by the time it was counted.

### BlockList, Visits, Replies

`BlockList` has the table of blocks, the answers in memory and one page of either
messenger, with one request of each kind under way: newer, older, whole. A row is
a height and the number of reorgs before it was cached. `mixed` remembers that
the MAX page applied an answer to another list than it asked about, which its
code does; `short`, that a page asked for the rows below its list while a reorg
had them off the table. `Visits` has the URLs: what a tab or a page offers to tap, how
`/search` classifies it, what `details` files a page under and which Back it
puts in. `began` and `lost` remember where the taps started, and that one went
through a link that does not say so. `Replies` has a chain and one mempool
transaction; each call to the node and each read of the table is a step, so the
chain may change between any two.

### Builds, ActBuild, Wire, Addresses

A run of `Builds` checks the stored state against the node (`sameChain`), fetches
ahead, adds up movements in a buffer that spills into shard files, commits them
with their height and block, and then drops, fills and marks the answer table:
each a step at which the run may end. `counted`, `moved`, `mixed` and `torn` only
remember. Both commands go through the one module: `ababuild` (`Timed`) keeps the
date of each movement too, and a movement that cancels out for the sake of its
date, which `richbuild` drops. `ActBuild` counts scripts over block files, output
by output, into a sorted run of packed records and a buffer in front of it; that
a transaction counts once is `seen`, the scripts of its outputs so far. `Wire`
and `Addresses` go byte by byte,
digit by digit: `Reading` is the reader, with its bounds check in `Take`, the
`skip` of `zmq.go` in `SkipBytes` and that of `files.go` in `FileSkip`. An int has
three bytes there for eight: the low two of a number are exact and the last has
its sign, so that conversions and sums wrap where the code's do.
`ParseTx`, `VSize` and `Hashed` are `zmq.go`'s, and `Address`, `Decode` and `Key` with base58 and
bech32 are `address.go`'s. Hash functions are external.

`MCServices`, `MCTables`, `MCPages` and `MCBuilds` run their modules beside each
other as `MCMiniApp` does: a variable `part` says which of them a behaviour is
of.

## 3. What the runs check

Runs that pass:

| Run | Bounds | Shows |
|---|---|---|
| `watching` | 1 chat, 1 address, 1 transaction, 2 requests of 7 kinds, on a table that is empty or holds the watch, limit 1, one fault, one restart | `ToldAndConfirmedOnce`, `NotifiersFollowTable`, `WatchedIsMatched`, `CoinsKnown` over two sightings, a reorg, a rename in flight and a reload from the table: a coin from before the watch must be found by the scan of a request or of the startup, one from after by the feed |
| `feed` | 2 addresses, a payment to one and a spend of it to the other, 2 requests, fair | `BroadcastEnds`, `TransactionTold`: what is seen is told, to an address that is paid and to one whose coin, found by the scan, is spent |
| `block_cache` | chunks of 2, up to 4 blocks, 2 reorgs of up to 2 blocks, one fault, one restart, fair | `StaleIsGoing`, `NoGap`, `RowsNeverRewritten`, `CatchesUp` |
| `indexes` | 4 scans, chunks of 2, 2 confirmations, 3 to 5 blocks, a reorg of up to 2 blocks, one fault or addrbal's six hours over, one restart, fair | `ExactlyOnce`, `BalancesOfChain`, `CountIsWhole`, `EveryScanArrives`, `IsTally` |
| `mini_app` | list of 2, log of 1, 4 transactions, 2 blocks, one lost answer; 2 pages, channels of 1, two changes of one kind and one of the other, a broken stream; fair | `PageShowsList`, `ListedUnmined`; `ChangeAnnounced`, `StaleIsRaced`; `EveryPageSettles` |
| `services` | 2 callers and the watchdog, 2 failed pings to a reconnect, one restart of the node, one timeout, 3 connections; 2 handlers, 2 updates, 1 language and none, 2 states, one database error, a row as an earlier process may have left it, waiting for the last prompt or for none; 2 ends of the process, 2 faults on disk; 4 servers, one update and one page each, 2 ends of the process; fair | `CachePerConnection`, `CallsSucceed`; `AnsweredOnce`, `LangAgrees`, `TextLeavesNothing`; `NeverTruncated`, `BackupTaken`; `ShutdownLosesNothing` |
| `tables` | 5 blocks of 3 addresses, 2 workers, 2 fetches, merges at 3 keys, tips of 1, 2 and 4, one fault or deadline; batches of 2 of 3 appearances, an index that goes on to 2 and 4, a table of blocks that ends anywhere; 3 days, 2 sources; mempools of up to 4 transactions of five shapes, 3 projected blocks; 2 transactions and 1 block of a mempool, 3 arrivals of a flow; 5 ticks, 2 faults; fair | `TablesOfChain`, `IndexAndPages`, `FiguresOfSources`, `WorkEnds`, `FiguresNeverOlder` |
| `pages` | batches of 2, lists of 3, 6 heights, one reorg of up to 3 blocks; 4 taps, 2 requests at once, one page in memory, 2 languages, one stop of the node; 3 inputs of 2 parents, 3 heights, one fork, one failed call; fair | `ListWithoutGap`, `ListSettles`; `BackToOrigin`; `RepliesSound` |
| `builds` | 3 runs, 4 heights on 2 branches, 2 shards, spills at 2 scripts, one fault; files with padding and broken records, counts of at most 4; messages cut in the locktime, the witness, the outputs and the inputs, files likewise; counts and lengths in each of the four forms, or 65535, 2^32-1, 2^62, 2^63-1, 2^63 and 2^64-1 in a message of some hundred bytes, which lasts no loop more than 14 rounds; every form of a script with witness programs of 2 to 41 bytes, one digit mistyped in 6 places | `AnswersOfChain`, `ReadBackAsWritten` |

A property of `tables`, `builds` or `mini_app` is a conjunction with one part for
each of the modules the run holds; the parts are named and explained in the
modules.

* `TablesOfChain`: an address has a record exactly while it holds coins as of the
  cursor, with what the blocks say since it was last found empty (`StatsOfChain`);
  the shards hold what the addresses hold (`HoldingsOfChain`); batch after batch
  of a ranking shows each row once (`RankedOnce`).
* `IndexAndPages`: `Lookup` and `LookupFrom` tell every appearance once and in
  order (`TouchesOfChain`); the page of an address leaves none out but for the
  ways it names (`HistoryPaged`: `raced`, `grew`, `behind`, `lost`); a live look-up says what a record would (`LiveAgrees`).
* `FiguresOfSources`: the rate of a time is the nearest sample's (`NearestRate`),
  a sample lies within its sources (`RatesOfAnswers`), a price is printed to its
  nearest cent (`PricePrinted`); blocks are packed whole and by rate, fees never
  invert (`BlocksOfMempool`, `FeesNeverInvert`); the count after a refresh is the
  node's (`CountOfNode`), the flow is of all arrivals (`FlowOfArrivals`).
* `WorkEnds`: a scan returns with every goroutine it started (`FetchersEnd`), the
  mempool's figures come to be the node's (`CountSettles`, `TotalSettles`), the
  rates' updater comes back to its ticker.
* `AnswersOfChain`: the stored state is of one chain and holds what that chain
  left each script, with its date (`StateOfChain`), the answer
  is what the flags select from it (`AnswerOfState`), the active addresses are
  those that were counted (`ActiveIsCounted`).

Why these bounds are enough to be of use: every queue, list, log, chunk and
limit is at its smallest size at which it can fill and still hold more than one
thing where order matters, and each behaviour has room for it to fill twice; one
fault and one restart may come anywhere, the steps of recovery included. The
transaction of `watching` has both its sightings and a third after a reorg; the
chain of `block_cache` and `indexes` is longer than a chunk, and a second chunk
is under way while the chain moves. `watching` names its requests symmetrically;
no run with a liveness property uses symmetry. Deadlock is not checked: every
behaviour ends when its bounds are spent, and the system may rest.

Fairness: the goroutines go on (`WF` of their steps), for every call they wait
for has a timeout, tickers and timers never stop, and a page asks "every 30s" or
"every 10m". A caller's steps in `CoreConn` are strongly fair, for a `sync.Mutex`
starves nobody, and a node that stopped is started again, as is the bot after a
shutdown. In `MCTables` one condition serves parts that never run together; in
`MCPages` what is cached has an end and a flushed chunk is announced. Nothing
says that a request or a transaction ever comes, that a reader does anything,
that a message is not lost, or that a broken stream is opened again.

Runs that find what the code does against what it says (each is a finding, with
the lines quoted in `PROJECT.json`):

| Run | Found |
|---|---|
| `shared_address` | two chats watch one address; when one stops, `unwatchScripts` drops the script for both, and the other hears nothing until a restart |
| `rollback_during_update` | a block rolled back while `Update` holds it in a chunk is stored, and stays |
| `gap_after_restart` | MAX's list of blocks starts again from the top while a batch of older rows is under way, which is then put under the new list: the rows in between stay missing |

### Seen while modelling, without a run

Where a property has to let one of these off, a variable that only remembers
names it, and its comment says so.

Watches and notifications:

* With `Expiring`, a transaction mined after 48 hours may be announced twice
  (`notify.go:190`; Core keeps it 336 hours).
* A notifier that is still sending adds its confirmation after
  `RemoveAddrConfirms` has run (`notify.go:56`; `txwatches.go:73` says it
  cannot).
* A transaction's second sighting is dropped before the outputs of an address
  watched in between, for the first time or again, are recorded
  (`notify.go:224`); and what pays a stored watch and is mined after its scan at
  startup began and before `startZMQ` is in neither. A spend of such a coin goes
  untold until the address is scanned again, by a new watch or a restart:
  `slipped` in `CoinsKnown`. `ScanTxOutSet` adds the first kind and drops what it
  finds, `Mine` adds the second while `startZMQ` is still to come; a coin older
  than the scan of its address is never among them.
* Two handlers of one chat that overlap both pass the limit check
  (`main.go:786`). `startNotify` after `telegram.Start` may meet a handler's and
  leave one notifier nobody can stop.

Blocks and scans:

* The catch-up at startup only appends, so a reorg nobody heard leaves stale
  rows for good (`blocks.go:253`): the excuse `unheard` of `StaleIsGoing`.
* `addrstat`, `addrindex` and the miners' statistics scan to the tip itself and
  keep blocks a reorg took away.
* `cursors.Get` (`cursors.go:48`) takes an error for "never run", and the scan
  counts the whole chain a second time, against `cursors.go:53-54` and
  `addrstat.go:295-296`. `Indexes` has it under `FlakyReads`.
* A row of `addrstat` that was empty at a flush comes back as a new row: its
  figures begin there, though `info.go:607-610` calls the history whole, and
  equal values change places between two pages, against `addrlists.go:69-71`.
* A pass of `addrbal` that its six hours cut short goes on to line 143 all the
  same and announces its count as the whole, against `addrbal.go:81-83` and
  `97-99` ("Until it has, the number is only the part of the chain the scan has
  read"): `cutShort` in `CountIsWhole`, until a pass does reach the tip.
* `addrindex.go:40-43` promises to filter scripts that share a prefix; that is
  left to the caller. `History`'s `raced`, `grew` and `lost` are a record read
  before its cursors, an index that grows between two batches, and a transaction
  that cannot be read.
* `blocks.ByTime` has it that nothing of an address's history lies above the
  block it answers (`blocks.go:117-120`). Its table may end below that block, as
  the blocks' catch-up may fail while the scans go on (`indexes.go:27-28`) and a
  rollback takes rows from it alone; then the page leaves out the newest
  transactions: `behind` in `HistoryPaged`.
* The index updates are not stopped before `closeDB`, though the comment of
  `shutdown` (`main.go:581-584`) has it so.

Mini Apps and caches:

* `mp.List` sees a page's gap only while the list is full, and a block shortens
  it (`mp.go:141`, against `mp.go:127`): `shrunk` in `PageShowsList`.
* A card's render that was begun before a change is put after the change dropped
  the copies, and is served for up to its TTL (`telegram/app.go:185` says it
  cannot; `StaleIsRaced` shows that this is the one way).
* The "blocks" event drops the cached pages when the block is cached, before
  `addrstat` and `addrindex` have merged it; a failed details page is cached as
  long as a good one.
* `/search` takes a block's hash for an address, since `app.IsTxID` refuses the
  prefix "000000" (`app.go:460`), against `telegram/app.go:500-503`; the MAX page
  opens it. A txid with six leading zeros goes the same way.
* A link to a miner loses the tab the reader came from. Back after a reorg took
  the tapped block shows no rows; rows above a fork stay shown.
* Back to one of the newest rows leaves a list of a row or two. If a reorg takes
  the blocks right below them before `/moreblocks` asks (`main.go:101-148`), the
  answer begins further down and is put under the rows all the same; nothing
  fills the gap when the blocks are collected again:
  `short` in `ListWithoutGap`.
* `chatNames`, an lru that every handler and notifier uses, has no mutex, which
  `lru.go:13` asks of every user; and a reconnect keeps the block caches and
  replaces the mutex that guards them (`core.go:108`).

Figures and replies:

* A disconnected block still has a header, so its hash shows the block of its
  height; a header that cannot be read shows "block #0".
* `/market` may show a snapshot older than the rate on the card
  (`main.go:1439`); a refresh of the totals that fails blanks them; live samples
  older than the horizon count as history.
* `blockPairs` divides the lowest fee by the smallest size, which may be of
  another transaction.
* A hash of a block may overtake its frames, and the refresh it wakes counts
  them once more until the next one: `off` in `CountOfNode`.

Chats, files, tools:

* Two updates of a chat that overlap may store their languages in one order and
  cache them in the other: `crossed` in `LangAgrees`.
* The cleanup of a failed backup removes an empty directory or a pipe at the
  temporary path (`db.go:268`; `db.go:242` says it is not its business).
* MAX's drain begins with a spent deadline if Telegram's used it up.
* `richbuild` and `ababuild` compare one block before the scan, so a reorg during
  it leaves a state of two chains (`mixed`); the markers outlive the table they
  describe (`torn`); `ababuild` dates a coinbase that is voided
  (`abadb.go:153-156`). `actbuild`'s buffer cuts a count where the run stops it
  (`cut`), and of two scripts of one address one count is kept.
* `skip` of `zmq.go` (219) does not refuse a negative length, as `bytes` and the
  `skip` of `files.go` do; an input script's length of 2^63 or more takes the
  reader back. A length next to 2^63 makes the sum with the position wrap in all
  of them, and `files.go` makes slices as long as a count says before it reads
  (125, 164). No node sends or stores such numbers: `Unrefused` in `ReadAsSent`.

## 4. What is proved

With TLAPS, for every value of the constants that meets the named assumptions
of the modules. Most of the results are of the whole specification without its
fairness; a hypothesis a theorem has of its own is named with it.

### Watches and notifications

* `WatchingProofs!TypeCorrect`: `TypeOK` of the whole of `Watching`, for any
  chats, addresses, transactions and requests. It is inductive as stated, with
  two conjuncts that tie a request's step to its call.
* `WatchingProofs!ToldOnceEach`: `ToldAndConfirmedOnce`, for `~Expiring` (with it
  a transaction is announced twice, see section 3). `ToldInv` has three parts.
  `Names`: the map holds the running goroutine of its key, and a name that is
  still to be given away is used nowhere. `OnePass`: of a transaction's sightings
  one at most is past `alreadyNotified`. `Life`: the message about a transaction
  for a key is at one place at a time (a channel to be served, a notifier that
  sends it or notes it down, a pending confirmation, one about to be sent) and
  passes these in order.
* `WatchingProofs!FollowsTable`: `NotifiersFollowTable`, for `Orderly`. `FollowInv`
  is what holds of a row and its notifier between the steps of a handler: after
  the row's change and before `startNotify` or `stopNotify` they differ in the
  way that the step repairs. `Loaded` is the same for the start.
* `WatchingProofs!MatchesWatched`: `WatchedIsMatched`, for `Orderly` and
  `UnwatchedAlone`: no call unwatches an address that another chat may watch. The
  run `shared_address` shows what happens otherwise, so the hypothesis is the
  weakest on the calls under which the code keeps this. `MatchInv` adds that an
  address that is not matched yet is on a seeding's list or in the hands of a
  request that will start one.
* `WatchingProofs!FindsCoins`: `CoinsKnown`, for the same two. `CoinInv` says of
  every unspent output of a matched address, whether its transaction is mined or
  announced, that it is known, found or about to be scanned, or that a broadcast
  that will record it is under way. It rests on Core's two messages for a
  transaction (`TwoMessages`: at most three in the queue and at work, by what the
  chain says of it), on `broadcast`'s order (`notified` before the outpoints) and
  on `seedOutpoints`' (the script before the scan). Before `startZMQ` it holds too:
  what is mined then waits for the scan, or has slipped.

`FollowsTable`, `MatchesWatched` and `FindsCoins` are of behaviours in which no
call has failed so far (`faults = 0` in the properties): the code answers an
error and leaves what was done.

### Blocks and scans

* `ServicesProofs`, of `BlockCache`: `CacheTypes`, `WrittenOnce` (no row is replaced),
  `NoStaleRow` and `NoGapEver`. The invariant `CacheInv` adds to the types that
  `Update` asks for no height above its tip and that the chunk in hand lies above
  every row: that makes every write a first one, whatever is rolled back
  meanwhile. Two extensions carry the other two results: the chunk's blocks are
  on the chain or their disconnection is on its way, and rows and chunk cover
  every height below the next, both unless a rollback has `straddled` the pass.
* `IndexesProofs`: `Invariant`, `CountedOnce`, `Refinement`, `OfChain` and
  `CountWhole`, all for readable places (`~FlakyReads`: a place that cannot be
  read for a moment is taken for none, see section 3). The invariant says that
  the batch in hand starts right after the place of the scan at work and that
  each table holds each height up to its place once. `Refinement` maps a flush to
  one `Count` and every other step to a stutter. `OfChain` needs that no reorg is
  deeper than the confirmations (`MaxDepth <= Confirmations`); its invariant
  follows a height from the target through the batch to the table. `CountWhole`
  (`CountIsWhole`) follows addrbal's pass: the count and the table differ by the
  batch in hand between its commit and its addition and by nothing anywhere else,
  and `caughtUp` is set only at the end of a pass that reached the tip the
  process started with, or that its deadline cut short (`cutShort`).
* `TablesProofs!StatsAreOfChain`: `StatsOfChain`, the first part of
  `TablesOfChain`, for any chain, goroutines, chunks and failures. `ChainType` and
  `Solvent` assume of the chain what its rules give: times and amounts are
  numbers, only a coinbase pays out more than it spends, and nobody spends what
  he was not paid. `WholeOf` is the record of any set of transactions, and
  `WholeJoin` shows that the records of two sets with nothing in common add up
  as `flush` adds a change to its row, dates included; `ApplyFolds` takes the
  fold of a block apart transaction by transaction. `StatInv` then says three
  things. No two goroutines read one block (`ReadersApart`). What is gathered is
  the record of the heights handed out but for those still being read
  (`Gathered`), unless the pass has failed. A row has what the blocks say since
  the address was last found empty (`RowsRight`); as nothing was held then, the
  balance of what is merged is what the address holds, so a row goes exactly when
  that is zero.
* `TablesProofs!ListsAreRankings`: `RankedOnce`, the last part, of the same
  behaviours, for any batches and any length of a list. `RowidsRight` says that
  the rowids are those of the rows and no two the same. `flush` writes them one
  after the other and in no order that is known, so it is shown for every prefix
  of every order (`RowidsFolds`). With it a ranking exists, since equal values
  are told apart (`RankedIs`). What a page asks for batch by batch is a recursive
  function, of which nothing says yet that it exists; `PagesFollow` shows that one
  function agrees with every batch: from a place on, the ranking's rows up to its
  end or the limit.
* `TablesProofs!HoldingsAreOfChain`: `HoldingsOfChain`, the second part, for any
  chain, chunks, flush sizes and fetches. What a run of payments moves for an
  address is its `Worth`, and a block's is what the block changes of the address's
  balance (`BlockWorth`, from the same `WholeOf` as the statistics). `Merging` is
  the invariant of `merge`'s loop: what is out is right, in order and counted,
  lies below all that is ahead, and leaves out nothing that is not ahead;
  `MergeIs` is what it says when both lists have ended. `FlushRight` puts the
  shards together, those without a change too, and adds up the changes of the
  count. `BalInv` then has the shards right as of the cursor (`StoredRight`), the
  count but for a flush's change not yet added (`CountRight`), the queued slots the
  heights that follow those taken (`Queueing`), and what is gathered what the
  blocks between the cursor and there move (`Gathering`), which a failure or the
  end of the process gives up with the scan; the end of the six hours leaves the
  queue a prefix of the chunk, and a slot filled too late holds an error, so no
  merge goes past it (`Doomed`). `SlotsApart` assumes that no two
  addresses of the chain share eight bytes of their hash: the code keeps nothing
  else of an address, and what it stores for two that did is the sum.
* `TablesProofs!TablesAreOfChain`: `TablesOfChain` itself, of the specification
  the run checks, as its steps are those of the parts (`ScansStep`).

### Mini Apps

* `MiniAppProofs!BackWhereBegan`: `BackToOrigin`. A request carries where its
  taps began in its URL (`Leads`), unless a link that does not say so was among
  them; a page in memory or shown says exactly what its own URL says (`Details`),
  so it makes no difference for whom it was rendered, as the key is the whole URL
  and the language. Only a transaction opened from the mempool leads back to a
  page that names no tab, and that one is `lost` already.
* `MiniAppProofs!ListWhole`: `ListWithoutGap`. `ListInv` says that the list and
  every answer, under way or in memory, is a run of consecutive heights, and where
  it lies from the height it was asked by (`AnswerOK`): what is below a row ends
  right under it, what is above a row and is all there is begins right above it.
  As an answer is put on the list only where it was asked from, the two meet
  (`JoinRuns`). That an answer is such a run follows from the table having all
  heights up to its tip, but for what is below a list when the tip is lower still:
  no invariant covers that case, and TLC then showed the gap that `short` names.
* `MiniAppProofs!NothingMinedStays`: `ListedUnmined`. `LiveInv` says where a
  transaction's two frames are: it is not listed while the first is unread, and
  the last of a mined one lies behind its block's coinbase or the burst is on, so
  that it takes the row out and adds none; as no transaction is listed twice,
  taking out one row is enough.
* `MiniAppProofs!PageWhole`: `PageShowsList`. `FeedInv` is what a page may rely
  on: the list and the log are in order, what is read as an arrival is newer than
  all that was listed, a logged transaction never comes back, and no listed one
  that waits is missing between two rows. `PageInv` compares the list with
  `OnPage`, what the page has or will have with the answer on its way, so that an
  answer is taken up without a change: either the log has overflowed since the
  page's mark, or the page has the list below its mark, and what else it has above
  the list's last row was mined since (`HasList`); what is missing between its
  rows is on its way, unless a cut it never saw was from a list that a block then
  made shorter (`CutSeen`, `HolesDue`). The overflow of the list itself needs no
  case but this one: its rows push the page's older ones off.
* `FiguresProofs!NeverOlder` and `FundedShown`, of `Cards`: `FiguresNeverOlder`,
  and that the count of addresses is shown once it is known. `CardsInv` bounds
  every figure by the time; what makes a refresh safe is that the card's count of
  nodes is no newer than what btcnodes.io last answered while that is trusted.
* `MiniAppProofs`: `Announced` and `NoOldCopy`, of `Events`, from the types and
  the fact that the timer's function never throttles. The second one's invariant,
  `Served`, says that between the dropping of the copies and the event the copies
  are no older than the data, which cannot change then.

### Lookups and figures

* `FiguresProofs!RepliesAreSound`: `RepliesSound`. `ReplyInv` says that the rows
  are the chain's until a disconnection is still to be told, that what was found
  at a height is the block that was asked for if that is on the chain (`FoundOf`),
  and that a block off the chain is of an earlier fork (`OnOrBefore`), so that it
  does not come back under the answer. The figures need induction: that a fold
  defines a function at all, that a sum does not depend on the order it takes its
  elements in (`SumWith`), that it lies between so many times the least and the
  greatest of them (`SumBounds`). Each is a lemma of
  `Sums`, shown of the least number it might fail for (`EveryNumber`, from
  `WFMin`, which takes sets and no operator).
  `SupplyStep` then compares the sums of two neighbouring heights: only the epoch
  of the new block differs, by its subsidy. The schedule is any `FirstSubsidy`,
  `EpochLength` above zero and `Epochs`.
* `FiguresProofs`, of `Pool`, two parts of `FiguresOfSources`: `CountIsNodes`, of
  `CountOfNode`, and `FlowIsOfAll`, of `FlowOfArrivals`. `Counted` says that what
  the count lacks, or the answer about to replace it, is the transactions whose
  frames are under way, once no block is still to wake the refresher (`Due`).
  `FramesThenHash` is why that suffices: a frame that stands for nothing in the
  mempool is followed by its block's hash, and so is a burst, unless the hash
  came first. The bound of a wait, `WaitedOut`, is what keeps a refresh from
  ending `Due` inside a burst. `FlowInv` says that the arrivals kept are the last
  of all there were and that those dropped are too old; no order of them is
  needed, since `Record` stops at the first that is not.
* `FiguresProofs!RatesAreNearest`, of `Rates`, two more parts: `NearestRate` and
  `RatesOfAnswers`. `RatesInv` says that every sample is a price of a day that
  has come and a live one the average of its answers; the nearer of the two rows
  `At` reads is then shown to be the nearest of all, and the average to be
  between its extremes by the lemma on sums. The backfill writes over a live
  sample of the same time, which is then no longer live; `RatesType` assumes only
  that the chart says nothing of days to come.
* `FiguresProofs!PricesPrinted`: `PricePrinted`, for every amount: the groups of
  three digits that `Comma` makes have the value of the number it was given.
* `FiguresProofs!BlocksAreOfMempool` and `FeesAreOrdered`, of `Fees`:
  `BlocksOfMempool` and `FeesNeverInvert`, for any mempools, block weight and
  number of blocks. `MempoolsAre` assumes of an answer what its type gives: one
  entry for a transaction, and no negative amounts. A sorted list exists because
  the order is strict and total (`ListedInOrder`). The packing is followed
  transaction by transaction: the blocks so far, end to end, are what was listed
  so far, and none but the last is over its weight if it holds more than one. A
  block's median lies between the lowest and the highest of its rates, as an
  average weighed by what each transaction has in the band. From this each tier is
  no higher than the one before, nor than the highest rate that is paid.
* `FiguresProofs!FiguresAreOfSources`: `FiguresOfSources`, which these make up, of
  the whole of `MCTables`: a step of the run is one of a single part, so its
  specification implies each part's, and the parts' theorems carry over.

### Offline builds

* `BuildsProofs!AnswersAreOfChain`: `AnswersOfChain`, for `BuildSpec` and
  `ActSpec` side by side, with any blocks, scripts, flags, batches, shards and
  block files. `BuildType` and `BodyType` assume of a block only that its time
  and movements are numbers, of scripts it knows, and that its first transaction
  moves no script the block does not.
  * `BuildInv` is the invariant of `richbuild` and `ababuild`. `Totals` says where
    the satoshi are: while a run reads, a script's file and buffer add up to what
    the blocks so far left it (`ScannedRight`); while it sums, a shard that is
    still to be summed holds that and one that is stored has its row
    (`SummedRight`); what is committed is then exact, over any number of runs
    that began with the state put back into the shards. `HeldStep` gives what one
    block more leaves, from the sums of `Sums`. A date is not the last block's
    but one no earlier, since clocks run back (`DatedStep`).
  * `Carries` says why the blocks are of one chain: what was read and what is
    fetched is the node's at its heights as long as no reorganisation came
    (`FromNode`), the node's chain has at each height the highest branch that
    begins at or below it (`NodeChain`), and so has any prefix of it, up to its
    own last branch (`OfNode`). A run that starts has compared its last block with
    the node's, and two chains with one block in common agree below it
    (`SameToTheEnd`), however often the node was reorganised between the runs.
  * `AnswerRight` follows the answer to its markers: if these name the state's
    height and a run's flags, the table was selected from this very state, as the
    next commit raises the height and so takes the table out of date.
  * `ActInv` is `actbuild`'s. `SoFar` is the transactions the scan has come past
    that pay a script, the one in hand included once an output of it does; the
    run or the buffer has their number, never both (`CountRight`), and a script
    past the threshold has been kept, also when the fold cuts fields. Of a record
    it relies on nothing but the padding that ends a file.

### Process and services

* `ServicesProofs!LosesNothing`: `ShutdownLosesNothing`. A server that was drained
  has nothing in flight unless the deadline passed, the drains go in the order of
  `shutdown`, and the database is closed after the last.
* `ServicesProofs`: `WholeAlways` and `OpenForCopy`, of `Backup`, from what each
  stage says of the temporary file, and that only a goroutine that has returned
  lets the database close; and its types.
* `ServicesProofs!CacheTurns`: a call inside the caches holds the mutex of its
  connection, and the watchdog never is inside; and the types, `CoreTyped`.
* `ServicesProofs`, of `Chats`: `OneAnswer` (a state that is set has not been answered),
  `LanguageIsRows` (what is about to be cached, by an update or a miss, is the
  row's language), `NothingLeft` (a message has left no state set behind it
  among those it tried, but one that lapsed), and the types, `ChatsTyped`.

### Only model-checked

* Everything that needs fairness: `CatchesUp`, `EveryScanArrives`,
  `TransactionTold`, `BroadcastEnds`, `EveryPageSettles`, `CallsSucceed`,
  `BackupTaken`, `WorkEnds`, `ListSettles`. Liveness is out of the prover's reach.
* `IndexAndPages`: it compares what filters and look-ups compute from data with
  another definition of it. The library's induction theorems take an operator,
  which no prover here can instantiate; the way round of `Sums` and
  `TablesProofs`, the least number a statement fails for, is not taken for these.
* `ReadBackAsWritten`: `Wire` and `Addresses` use `Bitwise`, which TLAPS cannot
  reason about.

## 5. Not modelled

`PROJECT.json` lists every part with its reason. In short:

* wording and layout: messages, templates, translations, number formats but for
  `Price`'s, so nothing is said of what a line of text looks like;
* the bot APIs' requests and responses, signatures of `initData`, HTTP itself;
* logging and progress output, flags and their defaults; of `richbuild` and
  `ababuild` the flag `-to`, which stops below the tip;
* an `active` table of an earlier `actbuild`: the model starts with none, so rows
  that a new run does not write again are not met;
* the platform of a watch, by which `listWatches` (`notify.go:341`) filters: a
  chat is of one messenger in the model;
* miner attribution: tables of tags and a search over them;
* the tools other than `richbuild`, `ababuild` and `actbuild`: single-threaded
  queries, imports and text checks that keep no state of the bot's;
* the decoding of JSON answers: of the node, the sources of rates, btcnodes;
* the order of eviction in `lru`: no property tells it apart.

## 6. Plan

1. Done: the modules above and their runs; the proofs of section 4.
2. Next proofs, in order: `TouchesOfChain`, whose flush follows `AddrBal`'s; then
   `HistoryPaged`, which rests on it; the types of `Lifecycle` and `Indexes` as
   theorems.
