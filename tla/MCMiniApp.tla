------------------------------ MODULE MCMiniApp ------------------------------
(* Live and Events for TLC.  They share no variable, so a behaviour is one  *)
(* of the first or one of the second, never a product of the two.           *)
EXTENDS Live, Events, TLC

VARIABLE part

vars == <<part, liveVars, eventVars>>

Changes == [mempool |-> 2, fees |-> 1]

InLive == part = "live" /\ UNCHANGED <<part, eventVars>>
InEvents == part = "events" /\ UNCHANGED <<part, liveVars>>

Init == part \in {"live", "events"} /\ LiveInit /\ EventsInit

Next ==
    \/ (Arrive /\ InLive) \/ (MineBlock /\ InLive)
    \/ (Record /\ InLive) \/ (EndBurst /\ InLive)
    \/ (Ask /\ InLive) \/ (Serve /\ InLive) \/ (Apply /\ InLive)
    \/ \E k \in Kinds : (Change(k) /\ InEvents)
    \/ \E g \in Goroutines : \/ (Throttle(g) /\ InEvents)
                              \/ (Invalidate(g) /\ InEvents)
                              \/ (Send(g) /\ InEvents)
    \/ (IntervalOver /\ InEvents) \/ (Fire /\ InEvents) \/ (Expire /\ InEvents)
    \/ \E p \in Pages : \/ (Event(p) /\ InEvents) \/ (Poll(p) /\ InEvents)
                        \/ (Stream(p) /\ InEvents) \/ (Get(p) /\ InEvents)
                        \/ (Render(p) /\ InEvents) \/ (Put(p) /\ InEvents)

Spec == Init /\ [][Next]_vars

\* The fairness of each part.
FairSpec ==
    /\ Spec
    /\ WF_vars(Record /\ InLive) /\ WF_vars(EndBurst /\ InLive)
    /\ WF_vars(Ask /\ InLive) /\ WF_vars(Serve /\ InLive) /\ WF_vars(Apply /\ InLive)
    /\ WF_vars(Fire /\ InEvents) /\ WF_vars(Expire /\ InEvents)
    /\ \A g \in Goroutines : WF_vars(Notify(g) /\ InEvents)
    /\ \A p \in Pages : WF_vars(Poll(p) /\ InEvents) /\ WF_vars(Fetch(p) /\ InEvents)

\* The list's page and the cards come to show what there is, whatever answers and
\* events are lost and whichever renders raced.
EveryPageSettles == PageSettles /\ PagesSettle
=============================================================================
