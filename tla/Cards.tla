------------------------------- MODULE Cards --------------------------------
(***************************************************************************)
(* The Mini App's Blockchain card: startNetworkStats refreshes it on its   *)
(* ticker, on a block and when the funded addresses are counted.  Its      *)
(* active nodes are btcnodes.io's, asked for sparingly and trusted for     *)
(* some time, or else the node's own, or else the ones it had; a figure is *)
(* told by when it was counted.  A tick of the ticker is a unit of time.   *)
(***************************************************************************)
EXTENDS Integers

CONSTANTS
    NodesTTL, NodesMaxAge,   \* btcnodesTTL, btcnodesMaxAge
    MaxCardTime, MaxCardFaults \* bounds: the clock's end, failed calls

ASSUME CardsType == NodesTTL \in Nat /\ NodesMaxAge \in Nat

VARIABLES
    cardTime, tick,          \* the clock, and the ticker's channel
    blockSignal, fundedSignal, \* the two signals' channels, of one each
    fundedKnown,             \* whether addrbal has caught up
    apiSeen, apiNext,        \* btcnodesSeen, -1 while btcnodesCount is 0; btcnodesNext
    card,                    \* cachedNetwork
    cardFaults
networkVars == <<cardTime, tick, blockSignal, fundedSignal, fundedKnown, apiSeen, apiNext, card, cardFaults>>

NoFigure == -1

CardsInit ==
    /\ cardTime = 0 /\ tick = TRUE /\ blockSignal = FALSE /\ fundedSignal = FALSE /\ fundedKnown = FALSE
    /\ apiSeen = NoFigure /\ apiNext = 0 /\ cardFaults = 0
    /\ card = [ok |-> FALSE, nodes |-> NoFigure, txs |-> NoFigure, funded |-> FALSE]

\* The ticker keeps one tick, and a channel one signal.
CardTicks == /\ cardTime < MaxCardTime /\ cardTime' = cardTime + 1 /\ tick' = TRUE
             /\ UNCHANGED <<blockSignal, fundedSignal, fundedKnown, apiSeen, apiNext, card, cardFaults>>
SendBlock == /\ blockSignal' = TRUE
             /\ UNCHANGED <<cardTime, tick, fundedSignal, fundedKnown, apiSeen, apiNext, card, cardFaults>>
\* Mutant: a signal nobody is waiting for is dropped, as by a channel with no buffer.
SentToNobody == FALSE
Sent == TRUE
SendFunded == /\ ~fundedKnown /\ fundedKnown' = TRUE /\ fundedSignal' = Sent
              /\ UNCHANGED <<cardTime, tick, blockSignal, apiSeen, apiNext, card, cardFaults>>

\* btcnodesOrScan: the figure each of its answers gives, whether the node's own scan
\* answers or not.  Mutant: an old count is preferred to the figure there is.
OldOr(seen, scanned) == IF scanned THEN cardTime ELSE seen
OrScan(seen, scanned) ==
    IF seen # NoFigure /\ cardTime - seen <= NodesMaxAge THEN seen ELSE IF scanned THEN cardTime ELSE card.nodes

\* resolveActiveNodes: btcnodes.io when its time has come, which moves whether or not it
\* answers.
Resolve(answered, scanned) ==
    LET asked == cardTime >= apiNext
        seen == IF asked /\ answered THEN cardTime ELSE apiSeen
    IN  [next |-> IF asked THEN cardTime + NodesTTL ELSE apiNext, seen |-> seen, nodes |-> OrScan(seen, scanned)]

\* refreshNetwork, with the nodes or without; nothing moves when the chain's state cannot
\* be read.
RefreshNetwork(withNodes) ==
    \E failing \in SUBSET {"chain", "stats", "api", "scan"} :
        /\ failing # {} => cardFaults < MaxCardFaults
        /\ cardFaults' = cardFaults + (IF failing = {} THEN 0 ELSE 1)
        /\ IF "chain" \in failing THEN UNCHANGED <<apiSeen, apiNext, card>>
           ELSE LET r == Resolve("api" \notin failing, "scan" \notin failing)
                IN  /\ IF withNodes THEN apiNext' = r.next /\ apiSeen' = r.seen ELSE UNCHANGED <<apiNext, apiSeen>>
                    /\ card' = [ok |-> TRUE, nodes |-> IF withNodes THEN r.nodes ELSE card.nodes,
                                txs |-> IF "stats" \in failing THEN card.txs ELSE cardTime, funded |-> fundedKnown]

RefreshTick == /\ tick /\ tick' = FALSE /\ RefreshNetwork(TRUE)
               /\ UNCHANGED <<cardTime, blockSignal, fundedSignal, fundedKnown>>
RefreshBlock == /\ blockSignal /\ blockSignal' = FALSE /\ RefreshNetwork(FALSE)
                /\ UNCHANGED <<cardTime, tick, fundedSignal, fundedKnown>>
RefreshFunded == /\ fundedSignal /\ fundedSignal' = FALSE /\ RefreshNetwork(FALSE)
                 /\ UNCHANGED <<cardTime, tick, blockSignal, fundedKnown>>

CardsNext == CardTicks \/ SendBlock \/ SendFunded \/ RefreshTick \/ RefreshBlock \/ RefreshFunded

CardsSpec == CardsInit /\ [][CardsNext]_networkVars

-----------------------------------------------------------------------------
\* No refresh replaces a figure by an older one, or takes one off the card, whatever
\* fails; and one that waits for nothing shows all that there is to show: the count of
\* addresses once there is one, unless the refresh its signal called for failed.
FiguresNeverOlder ==
    [][/\ card'.nodes >= card.nodes /\ card'.txs >= card.txs
       /\ card.ok => card'.ok
       /\ card.funded => card'.funded]_card
FundedIsShown == fundedKnown /\ ~fundedSignal /\ cardFaults = 0 => card.funded
=============================================================================
