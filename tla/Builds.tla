------------------------------- MODULE Builds -------------------------------
(***************************************************************************)
(* The commands richbuild and ababuild of tools/addrindex: what every      *)
(* script on the chain holds, and when it last moved, added up into        *)
(* SQLite, carried forward from run to run, and the answer table selected  *)
(* from it.  The operator starts a run, with the thresholds it likes,      *)
(* whenever none is going; the process may end between any two steps; the  *)
(* node's chain grows and is reorganised meanwhile.                        *)
(*                                                                         *)
(* A block is the branch it was mined on at its height.  A movement of a   *)
(* script is a record [sat, last]; a shard file is what its records add up *)
(* to for each script, which is all that is ever read from one.            *)
(***************************************************************************)
EXTENDS Integers, FiniteSets, Sequences, FiniteSetsExt

CONSTANTS
    Scripts, AddrOf, NoAddr, \* AddrOf[s] is the address s pays to, or NoAddr
    Body,                    \* Body[h][b]: a block's time, and the satoshi it moves
                             \* for each script, in all and by its first transaction
    Voided,                  \* the heights whose first transaction never counted
    Shards, ShardOf,         \* how many shard files, and fnvHash modulo their number
    Batch, Fetch, Sum,       \* -batch, -fetch, -sum
    Flags,                   \* the [min, top] an operator may run with
    Never,                   \* a marker that meta does not hold
    MaxTop, MaxBranch, MaxRuns, MaxFaults  \* bounds

ASSUME BuildType == /\ Shards \in Nat \ {0} /\ ShardOf \in [Scripts -> 0..Shards - 1]
                    /\ Batch \in Nat \ {0} /\ Fetch \in Nat \ {0} /\ Sum \in Nat \ {0}
                    /\ MaxTop \in Nat /\ MaxBranch \in Nat \ {0} /\ MaxRuns \in Nat /\ MaxFaults \in Nat
                    /\ IsFiniteSet(Scripts) /\ Never \notin Nat
ASSUME FlagType == \A f \in Flags : {"min", "top"} \subseteq DOMAIN f
\* A block moves what its first transaction moves.
ASSUME BodyType == \A h \in 0..MaxTop, b \in 1..MaxBranch :
    LET body == Body[h][b]
    IN  /\ body.time \in Nat
        /\ DOMAIN body.moves \subseteq Scripts /\ \A s \in DOMAIN body.moves : body.moves[s] \in Int
        /\ DOMAIN body.first \subseteq DOMAIN body.moves /\ \A s \in DOMAIN body.first : body.first[s] \in Int

VARIABLES
    cmd,                     \* "richbuild" or "ababuild"
    node, forks,             \* Core: the branch of the block at each height, and the
                             \* height each branch begins at
    balances, meta, answer,  \* the database: the state, its markers, rich or abandoned
    step, flags, runs,       \* where the run is, its flags, the runs begun
    from, tip, slot,         \* the run's heights, and the blocks fetched ahead
    buf, files,              \* the movements not yet written, and the shard files
    next, busy, fresh, bad,  \* the next shard, the ones being summed, balances_new, negatives
    \* For the properties: the blocks read by this run and the ones in balances, whether
    \* the chain was reorganised while they were read, and whether a run ended between
    \* the drop of the answer and its marker.
    read, counted, moved, mixed, torn,
    buildFaults

database == <<balances, meta, answer, counted, mixed, torn>>
reading  == <<from, tip, slot, buf, read, moved>>
summing  == <<next, busy, fresh, bad>>
buildVars == <<cmd, node, forks, database, step, flags, runs, reading, files, summing, buildFaults>>

Nothing == [s \in {} |-> 0]
Timed == cmd = "ababuild"
Top == Len(node) - 1
BlockAt(h) == node[h + 1]
Later(t, u) == IF t > u THEN t ELSE u

At(m, sat, when) == [sat |-> m.sat + sat, last |-> Later(m.last, when)]
Of(f, s) == IF s \in DOMAIN f THEN f[s] ELSE [sat |-> 0, last |-> 0]

\* putAt: the records of g, each in the file of its script.
Put(fs, g) == [i \in 0..Shards - 1 |->
    [s \in DOMAIN fs[i] \cup {x \in DOMAIN g : ShardOf[x] = i} |->
        IF s \in DOMAIN g THEN At(Of(fs[i], s), g[s].sat, g[s].last) ELSE fs[i][s]]]

\* What a block adds to a buffer of movements: a voided coinbase is taken back
\* out of the balance and not out of the date.
Moves(f, h, b) ==
    LET body == Body[h][b]
        void == IF h \in Voided THEN body.first ELSE [s \in {} |-> 0]
    IN  [s \in DOMAIN f \cup DOMAIN body.moves |->
            LET m == IF s \in DOMAIN body.moves
                     THEN At(Of(f, s), body.moves[s], body.time) ELSE f[s]
            IN  IF s \in DOMAIN void THEN [m EXCEPT !.sat = @ - void[s]] ELSE m]

\* A movement that cancels out while it is buffered is dropped by richbuild; ababuild
\* keeps it, for its date.
RichFlush(f) == [s \in {x \in DOMAIN f : f[x].sat # 0} |-> f[s]]
Spill(f) == IF Timed THEN f ELSE RichFlush(f)

-----------------------------------------------------------------------------
BuildInit ==
    /\ cmd \in {"richbuild", "ababuild"} /\ node = <<1>> /\ forks = <<0>>
    /\ balances = Nothing /\ answer = Nothing
    /\ counted = <<>> /\ moved = FALSE /\ mixed = FALSE /\ torn = FALSE
    /\ meta = [height |-> Never, hash |-> Never, list |-> Never, flags |-> Never]
    /\ step = "idle" /\ flags \in Flags /\ runs = 0
    /\ from = 0 /\ tip = 0 /\ slot = <<>> /\ buf = Nothing /\ read = <<>>
    /\ files = [i \in 0..Shards - 1 |-> Nothing]
    /\ next = 0 /\ busy = {} /\ fresh = Nothing /\ bad = 0 /\ buildFaults = 0

\* The node's chain.
Mine == /\ Top < MaxTop
        /\ node' = Append(node, node[Len(node)])
        /\ UNCHANGED <<cmd, forks, database, step, flags, runs, reading, files, summing, buildFaults>>

Reorg == /\ Len(forks) < MaxBranch
         /\ \E h \in 1..Top :
                /\ node' = [i \in 1..Len(node) |-> IF i > h THEN Len(forks) + 1 ELSE node[i]]
                /\ forks' = Append(forks, h)
         /\ moved' = (moved \/ step = "scan")
         /\ UNCHANGED <<cmd, database, step, flags, runs, from, tip, slot, buf, read, files,
                         summing, buildFaults>>

Work == <<cmd, node, forks, runs>>
Fault == buildFaults < MaxFaults /\ buildFaults' = buildFaults + 1

Built == meta.height # Never
AtTip(f) == meta.list = meta.height /\ meta.flags.min = f.min
\* Mutant: the flags of the table are not looked at.
AnyFlags(f) == TRUE
SameFlags(f) == meta.flags.min = f.min /\ meta.flags.top = f.top
AlreadyBuilt(f) == meta.list = meta.height /\ SameFlags(f)
UpToDate(f) == IF Timed THEN AlreadyBuilt(f) ELSE AtTip(f)
\* Mutant: no check that the block of the stored height is still the chain's.
AnyChain == Top >= meta.height
SameChain == Top >= meta.height /\ BlockAt(meta.height) = meta.hash

\* A run: the height to carry on from, the shards, and the stored balances put back
\* into them.  With nothing to scan it selects the answer again, or has nothing to do.
Start(f) ==
    /\ step \in {"idle", "done"} /\ runs < MaxRuns /\ runs' = runs + 1 /\ flags' = f
    /\ tip' = Top
    /\ from' = IF Built THEN meta.height + 1 ELSE 0
    /\ slot' = <<>> /\ buf' = Nothing /\ read' = <<>> /\ moved' = FALSE
    /\ next' = 0 /\ busy' = {} /\ fresh' = Nothing /\ bad' = 0
    /\ IF Built /\ ~SameChain THEN step' = "idle" /\ files' = files
       ELSE IF from' > Top
       THEN step' = (IF UpToDate(f) THEN "done" ELSE "drop") /\ files' = files
       ELSE /\ step' = "scan"
            /\ files' = Put([i \in 0..Shards - 1 |-> Nothing], balances)
    /\ UNCHANGED <<cmd, node, forks, database, buildFaults>>

-----------------------------------------------------------------------------
\* stream: a slot for each height, in order; up to Fetch of them queued, one more
\* waiting to be queued and one held by the relay.  fetchBlock retries what fails.
FetchNext ==
    /\ step = "scan" /\ from + Len(read) + Len(slot) <= tip /\ Len(slot) < Fetch + 2
    /\ slot' = Append(slot, Never)
    /\ UNCHANGED <<Work, database, step, flags, from, tip, buf, read, moved, files, summing, buildFaults>>

FetchBlock(i) ==
    LET h == from + Len(read) + i - 1
    IN  /\ step = "scan" /\ i \in DOMAIN slot /\ slot[i] = Never /\ h <= Top
        /\ slot' = [slot EXCEPT ![i] = BlockAt(h)]
        /\ UNCHANGED <<Work, database, step, flags, from, tip, buf, read, moved, files, summing, buildFaults>>

\* The scan takes the first slot, once it is filled.
Scan ==
    /\ step = "scan" /\ slot # <<>> /\ slot[1] # Never
    /\ LET h == from + Len(read)
           f == Moves(buf, h, slot[1])
           full == Cardinality(DOMAIN f) >= Batch \/ h = tip
       IN  /\ buf' = IF full THEN Nothing ELSE f
           /\ files' = IF full THEN Put(files, Spill(f)) ELSE files
           /\ read' = Append(read, slot[1])
           /\ slot' = Tail(slot)
           /\ step' = IF h = tip THEN "sum" ELSE "scan"
    /\ UNCHANGED <<Work, database, flags, from, tip, moved, summing, buildFaults>>

-----------------------------------------------------------------------------
\* richbuild adds the shards up one after the other, ababuild Sum of them at once:
\* a shard is claimed under the lock, summed outside it, its rows stored under it.
Claim ==
    /\ step = "sum" /\ next < Shards /\ Cardinality(busy) < (IF Timed THEN Sum ELSE 1)
    /\ busy' = busy \cup {next} /\ next' = next + 1
    /\ UNCHANGED <<Work, database, step, flags, reading, files, fresh, bad, buildFaults>>

Funded(f) == [s \in {x \in DOMAIN f : f[x].sat > 0} |-> f[s]]
Negative(f) == {s \in DOMAIN f : f[s].sat < 0}
StoreShard(i) ==
    /\ step = "sum" /\ i \in busy /\ busy' = busy \ {i}
    /\ LET rows == Funded(files[i])
       IN  fresh' = [s \in DOMAIN fresh \cup DOMAIN rows |-> IF s \in DOMAIN rows THEN rows[s] ELSE fresh[s]]
    /\ bad' = bad + Cardinality(Negative(files[i]))
    /\ files' = [files EXCEPT ![i] = Nothing]
    /\ UNCHANGED <<Work, database, step, flags, reading, next, buildFaults>>

\* A balance below zero is refused; otherwise the new state, its height and its block
\* take the place of the old ones in one transaction.
Summed == step = "sum" /\ next = Shards /\ busy = {}
Refuse ==
    /\ Summed /\ bad > 0 /\ step' = "idle"
    /\ UNCHANGED <<Work, database, flags, reading, files, summing, buildFaults>>

Commit ==
    /\ Summed /\ bad = 0 /\ step' = "drop"
    /\ balances' = fresh
    /\ meta' = [meta EXCEPT !.height = tip, !.hash = read[Len(read)]]
    /\ counted' = counted \o read /\ mixed' = (mixed \/ moved)
    /\ UNCHANGED <<Work, answer, torn, flags, reading, files, summing, buildFaults>>

-----------------------------------------------------------------------------
\* The addresses of the state: what their scripts hold together, and the latest of
\* their dates.
Addrs(f) == {AddrOf[s] : s \in DOMAIN f} \ {NoAddr}
ScriptsOf(f, a) == {s \in DOMAIN f : AddrOf[s] = a}
Total(f, a) == MapThenSumSet(LAMBDA s : f[s].sat, ScriptsOf(f, a))
LastOf(f, a) == Max({f[s].last : s \in ScriptsOf(f, a)})
Grouped(f, min) ==
    LET rich == {a \in Addrs(f) : Total(f, a) >= min}
    IN  [a \in rich |-> [sat |-> Total(f, a), last |-> LastOf(f, a)]]

\* materialize and shortlist: the whole of them, or the top longest silent; addresses
\* of one date go by name, for which any choice stands.
Materialized(f, fl) == {Grouped(f, fl.min)}
Shortlisted(f, fl) ==
    LET g == Grouped(f, fl.min)
        Oldest(S) == \A a \in S, b \in DOMAIN g \ S : g[a].last <= g[b].last
    IN  {[a \in S |-> g[a]] : S \in {T \in SUBSET DOMAIN g : Oldest(T) /\
            \/ Cardinality(T) = fl.top
            \/ Cardinality(T) < fl.top /\ T = DOMAIN g}}
Selected(f, fl) == IF Timed THEN Shortlisted(f, fl) ELSE Materialized(f, fl)

DropAnswer ==
    /\ step = "drop" /\ step' = "fill" /\ answer' = Nothing
    /\ UNCHANGED <<Work, balances, meta, counted, mixed, torn, flags, reading, files, summing, buildFaults>>

FillAnswer ==
    /\ step = "fill" /\ step' = "mark" /\ answer' \in Selected(balances, flags)
    /\ UNCHANGED <<Work, balances, meta, counted, mixed, torn, flags, reading, files, summing, buildFaults>>

MarkAnswer ==
    /\ step = "mark" /\ step' = "done" /\ torn' = FALSE
    /\ meta' = [meta EXCEPT !.list = meta.height, !.flags = flags]
    /\ UNCHANGED <<Work, balances, answer, counted, mixed, flags, reading, files, summing, buildFaults>>

\* The process ends, or a read, a write or the third try of a block fails: what the
\* database holds stays, and openStore creates a table that is missing.
Stop ==
    /\ step \notin {"idle", "done"} /\ Fault /\ step' = "idle"
    /\ torn' = (torn \/ step \in {"fill", "mark"})
    /\ UNCHANGED <<Work, balances, meta, answer, counted, mixed, flags, reading, files, summing>>

BuildNext ==
    \/ Mine \/ Reorg \/ (\E f \in Flags : Start(f))
    \/ FetchNext \/ (\E i \in 1..Fetch + 2 : FetchBlock(i)) \/ Scan
    \/ Claim \/ (\E i \in 0..Shards - 1 : StoreShard(i)) \/ Refuse \/ Commit
    \/ DropAnswer \/ FillAnswer \/ MarkAnswer \/ Stop
BuildSpec == BuildInit /\ [][BuildNext]_buildVars

-----------------------------------------------------------------------------
\* What a block moves for a script, and what the blocks of a chain leave it.
Moved(h, b, s) ==
    LET body == Body[h][b]
    IN  IF s \notin DOMAIN body.moves THEN 0
        ELSE body.moves[s] - (IF h \in Voided /\ s \in DOMAIN body.first THEN body.first[s] ELSE 0)
HeldIn(chain, s) == SumFunction([i \in DOMAIN chain |-> Moved(i - 1, chain[i], s)])
Held(s) == HeldIn(counted, s)
OneChain == \A h \in 0..Len(counted) - 1 :
    counted[h + 1] = Max({b \in 1..meta.hash : forks[b] <= h})

\* A date that is one of a block that moved the script, and no earlier than the last's.
Dated(chain, s, t) ==
    LET movers == {i \in DOMAIN chain : s \in DOMAIN Body[i - 1][chain[i]].moves}
        Time(i) == Body[i - 1][chain[i]].time
    IN  /\ \E i \in movers : t = Time(i)
        /\ \A i \in movers : (\A j \in movers : j <= i) => Time(i) <= t

\* The stored state is exact: at its height and block, every script of the chain up to
\* there holds in it what that chain's blocks left it, and nothing else is in it, and for
\* ababuild each is dated by a block that moved it, no earlier than the last one, over any
\* number of runs that carried on from one another, blocks fetched out of order,
\* buffers that filled and runs that ended anywhere (richbuild.go, ababuild.go).  A
\* reorganisation while a run checks and reads is the one excuse: sameChain compares the
\* last block only, before the first is read, so a state may hold blocks of two chains.
StateOfChain == meta.height # Never =>
    /\ Len(counted) = meta.height + 1 /\ counted[Len(counted)] = meta.hash
    /\ DOMAIN balances = {s \in Scripts : Held(s) > 0}
    /\ \A s \in DOMAIN balances : balances[s].sat = Held(s)
    /\ Timed => \A s \in DOMAIN balances : Dated(counted, s, balances[s].last)
    /\ OneChain \/ mixed

\* A run that ends well leaves the answer its flags select from the state, whether it
\* built it, or found it built (atTip, alreadyBuilt).  A run with other flags that ended
\* between dropping the table and its markers is the one excuse: the markers still name
\* the height and the old flags, over a table that is empty or selected with others.
AnswerOfState == step = "done" => answer \in Selected(balances, flags) \/ torn
=============================================================================
