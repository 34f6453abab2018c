------------------------------- MODULE Rates --------------------------------
(***************************************************************************)
(* Package rates: the updater that backfills the daily history, averages   *)
(* the sources every five minutes and stores the market's snapshot, and    *)
(* the readers of its tables: /market, the Mini App's card and the dollar  *)
(* figures beside an amount.  A day is a unit of time, a cent of money.    *)
(***************************************************************************)
EXTENDS Integers, FiniteSets, Sequences, FiniteSetsExt, SequencesExt

CONSTANTS
    History,                 \* what the chart serves: [x, y], some of them unusable
    HistoryFiles,            \* what -historyFile may name: "whole" when it can be read, and "unset"
    Sources, Quotes,         \* the number of sources, and the prices they may quote
    Tolerance, Horizon,      \* tolerance, historyHorizon
    Periods,                 \* how far back the changes look
    FirstDay, LastDay,       \* bound: the days the process runs in
    Attempts                 \* 3, the attempts of fetchHistory

\* The chart says nothing of days to come.
ASSUME RatesType ==
    /\ Sources \in Nat \ {0} /\ Attempts \in Nat \ {0} /\ FirstDay \in Nat /\ LastDay \in Nat /\ FirstDay < LastDay
    /\ Quotes \subseteq Nat \ {0} /\ Periods \subseteq Nat /\ Tolerance \in Nat /\ Horizon \in Nat
    /\ \A r \in ToSet(History) : r.x \in 0..LastDay /\ r.y \in Int

VARIABLES
    samples, LastMarket,     \* the tables: cents by date, and the price of the newest snapshot
    day, due,                \* the clock, and a tick of the ticker not taken yet
    historyFile,
    updater,                 \* where the updater goroutine is
    attempt, answers, polled,\* fetchHistory's attempt; update's answers, and the sources asked
    quotes                   \* for the properties: the answers behind each live sample there is
ratesVars == <<samples, LastMarket, day, due, historyFile, updater, attempt, answers, polled, quotes>>
clockVars == <<day, due, historyFile>>

NoRate == -1
Apart(s, t) == IF s < t THEN t - s ELSE s - t
Newest(f) == f[Max(DOMAIN f)]
LastRate == IF samples = <<>> THEN NoRate ELSE Newest(samples)

\* At: the nearer of the last sample at or before t and the first after it.
\* Mutant: only the first of the two is asked for.
RowsBefore(t) == {s \in DOMAIN samples : s <= t /\ \A u \in DOMAIN samples : u <= t => u <= s}
RowsAround(t) == RowsBefore(t) \cup {s \in DOMAIN samples : s > t /\ \A u \in DOMAIN samples : u > t => s <= u}
At(t) ==
    LET near == {s \in RowsAround(t) : \A u \in RowsAround(t) : Apart(s, t) < Apart(u, t) \/ (Apart(s, t) = Apart(u, t) /\ s <= u)}
    IN  IF \E s \in near : Apart(s, t) <= Tolerance THEN samples[CHOOSE s \in near : TRUE] ELSE NoRate

HasHistory == \E s \in DOMAIN samples : day - s > Horizon

\* parseHistory: a price that is not positive is passed over.
Usable == {r \in ToSet(History) : r.y > 0}
Average(a) == (2 * FoldSeq(+, 0, a) + Len(a)) \div (2 * Len(a))

-----------------------------------------------------------------------------
RatesInit ==
    /\ samples = <<>> /\ LastMarket = NoRate /\ day = FirstDay /\ due = FALSE /\ historyFile \in HistoryFiles
    /\ updater = "backfill" /\ attempt = 1 /\ answers = <<>> /\ polled = 0 /\ quotes = <<>>

\* backfill: not when the history is in; from the file, or else from the network.
Backfill ==
    /\ updater = "backfill"
    /\ updater' = (CASE HasHistory -> "update" [] historyFile = "whole" -> "store" [] OTHER -> "download")
    /\ attempt' = 1 /\ UNCHANGED <<samples, LastMarket, clockVars, answers, polled, quotes>>

\* fetchHistory: ten seconds between attempts, and no more than Attempts of them.
GivesUp == attempt >= Attempts
Download ==
    /\ updater = "download"
    /\ \/ updater' = "store" /\ UNCHANGED attempt
       \/ IF GivesUp THEN updater' = "update" /\ UNCHANGED attempt ELSE updater' = updater /\ attempt' = attempt + 1
    /\ UNCHANGED <<samples, LastMarket, clockVars, answers, polled, quotes>>

\* storeRates: all of the history in one transaction, over live samples of the same time
\* too, or none of it.
StoreHistory ==
    /\ updater = "store" /\ updater' = "update"
    /\ \/ samples' = [t \in DOMAIN samples \cup {r.x : r \in Usable} |->
                         IF \E r \in Usable : r.x = t THEN (CHOOSE r \in Usable : r.x = t).y ELSE samples[t]]
          /\ quotes' = [t \in DOMAIN quotes \ {r.x : r \in Usable} |-> quotes[t]]
       \/ UNCHANGED <<samples, quotes>>
    /\ UNCHANGED <<LastMarket, clockVars, attempt, answers, polled>>

StartUpdate == /\ updater = "update" /\ updater' = "poll" /\ answers' = <<>> /\ polled' = 0
               /\ UNCHANGED <<samples, LastMarket, clockVars, attempt, quotes>>

\* fetch: one source after another, the ones with no positive price to give passed over.
Poll ==
    /\ updater = "poll" /\ polled < Sources /\ polled' = polled + 1
    /\ \/ \E q \in Quotes : answers' = Append(answers, q)
       \/ UNCHANGED answers
    /\ UNCHANGED <<samples, LastMarket, clockVars, updater, attempt, quotes>>

\* The average of those that answered, stored now; with none, or when it cannot be
\* stored, there is nothing more to do until the next tick.
Add ==
    /\ updater = "poll" /\ polled = Sources
    /\ \/ /\ answers # <<>> /\ updater' = "market"
          /\ samples' = [t \in DOMAIN samples \cup {day} |-> IF t = day THEN Average(answers) ELSE samples[t]]
          /\ quotes' = [t \in DOMAIN quotes \cup {day} |-> IF t = day THEN answers ELSE quotes[t]]
       \/ updater' = "wait" /\ UNCHANGED <<samples, quotes>>
    /\ UNCHANGED <<LastMarket, clockVars, attempt, answers, polled>>

\* updateMarket: the snapshot CoinGecko answers with, if it does and it can be stored.
UpdateMarket ==
    /\ updater = "market" /\ updater' = "wait"
    /\ \/ \E q \in Quotes : LastMarket' = q
       \/ UNCHANGED LastMarket
    /\ UNCHANGED <<samples, clockVars, attempt, answers, polled, quotes>>

TakeTick == /\ updater = "wait" /\ due /\ due' = FALSE /\ updater' = "update"
            /\ UNCHANGED <<samples, LastMarket, day, historyFile, attempt, answers, polled, quotes>>

\* Time passes, and the ticker keeps one tick; or the process is down for a day.
TimePasses == /\ day < LastDay /\ day' = day + 1 /\ due' = TRUE
              /\ UNCHANGED <<samples, LastMarket, historyFile, updater, attempt, answers, polled, quotes>>
RatesRestart == /\ day < LastDay /\ day' = day + 1 /\ updater' = "backfill" /\ due' = FALSE
                /\ historyFile' \in HistoryFiles /\ answers' = <<>> /\ polled' = 0 /\ attempt' = 1
                /\ UNCHANGED <<samples, LastMarket, quotes>>

UpdaterStep == Backfill \/ Download \/ StoreHistory \/ StartUpdate \/ Poll \/ Add \/ UpdateMarket

RatesNext == UpdaterStep \/ TakeTick \/ TimePasses \/ RatesRestart
RatesSpec == RatesInit /\ [][RatesNext]_ratesVars

-----------------------------------------------------------------------------
\* Price: a dollar amount in tenths of a cent, its cents rounded and carried; and the
\* whole part in groups of three digits.
Price(mills) ==
    LET m == Apart(mills, 0)
        frac == ((m % 1000) + 5) \div 10
    IN  [minus |-> mills < 0, whole |-> IF frac = 100 THEN m \div 1000 + 1 ELSE m \div 1000, cents |-> IF frac = 100 THEN 0 ELSE frac]
Comma(n) ==
    LET groups[k \in 0..n] == IF k < 1000 THEN <<k>> ELSE Append(groups[k \div 1000], k % 1000)
    IN  groups[n]

\* Change: the move, signed, and by how many hundredths of a percent.
Change(now, then) ==
    [by |-> Price(10 * (now - then)), plus |-> now >= then,
     pct |-> IF then > 0 THEN <<((now - then) * 20000 + then) \div (2 * then)>> ELSE <<>>]

\* marketCmd: the snapshot's price before the stored rate, and the changes there is a
\* price to compare with.  appMarket: the stored rate, and a dash where there is none.
Quoted == IF LastMarket > 0 THEN LastMarket ELSE LastRate
MarketCmd == [price |-> Quoted, changes |-> {p \in Periods : At(day - p) > 0}]
AppMarket == [ok |-> LastRate # NoRate, dashes |-> {p \in Periods : At(day - p) <= 0}]

\* usdRate: the rate nearest a confirmed transaction's time, or the latest.
UsdRate(t, current) == IF current \/ At(t) = NoRate THEN LastRate ELSE At(t)

\* The rate of any time is that of the sample nearest it, of all there are, unless none
\* is within the tolerance; a dollar figure has one as soon as there is any sample.
NearestRate ==
    \A t \in 0..LastDay :
        LET near == {s \in DOMAIN samples : Apart(s, t) <= Tolerance}
        IN  /\ At(t) = NoRate <=> near = {}
            /\ near # {} => \E s \in near : At(t) = samples[s] /\ \A u \in DOMAIN samples : Apart(s, t) <= Apart(u, t)
            /\ UsdRate(t, FALSE) = NoRate <=> samples = <<>>

\* The history is in whole, or nothing is of its days but live samples; a live sample lies between the lowest and the
\* highest of what its sources answered; and /market, which reads two tables, says a
\* price and changes whenever the card does and the same ones.
RatesOfAnswers ==
    /\ LET old == {r.x : r \in Usable} IN old \subseteq DOMAIN samples \/ old \cap DOMAIN samples \subseteq DOMAIN quotes
    /\ \A t \in DOMAIN quotes : Min(ToSet(quotes[t])) <= samples[t] /\ samples[t] <= Max(ToSet(quotes[t]))
    /\ MarketCmd.price # NoRate <=> AppMarket.ok
    /\ MarketCmd.changes = Periods \ AppMarket.dashes

\* What is printed of an amount is its nearest cent, and its groups are its digits.
Value(groups) == FoldLeft(LAMBDA n, g : 1000 * n + g, 0, groups)
Printed(m) ==
    LET p == Price(-m)
    IN  /\ 100 * p.whole + p.cents = (m + 5) \div 10 /\ p.cents \in 0..99 /\ p.minus = (m > 0)
        /\ Value(Comma(p.whole)) = p.whole /\ \A g \in ToSet(Comma(p.whole)) : g \in 0..999
PricePrinted == \A m \in {0, 4, 5, 994, 995, 999, 1000, 999994, 999995, 1000004, 12345678} : Printed(m)
=============================================================================
