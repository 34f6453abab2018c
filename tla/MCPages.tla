------------------------------- MODULE MCPages -------------------------------
(* BlockList, Visits and Replies for TLC.  They share no variable, so a     *)
(* behaviour is one of a single part.                                       *)
EXTENDS BlockList, Visits, Replies, TLC

VARIABLE part

vars == <<part, blockListVars, visitVars, repliesVars>>

\* Three inputs of two parents, which pay two addresses.
Spends(p, a, sat) == [parent |-> p, addr |-> a, sat |-> sat]
ThreeInputs == <<Spends("p", "a", 4), Spends("q", "b", 3), Spends("p", "b", 1)>>
TwoFees == {<<>>, <<1, 2, 6>>}

InList == part = "list" /\ UNCHANGED <<part, visitVars, repliesVars>>
InVisits == part = "visits" /\ UNCHANGED <<part, blockListVars, repliesVars>>
InReplies == part = "replies" /\ UNCHANGED <<part, blockListVars, visitVars>>

\* The other parts stay in one of their initial states.
Init ==
    /\ part \in {"list", "visits", "replies"} /\ BlockListInit /\ VisitsInit /\ RepliesInit
    /\ part = "list" \/ surface = "telegram"
    /\ part = "visits" \/ panel = "home"
    /\ part = "replies" \/ chain[1].fees = <<>>

Next ==
    \/ (InList /\ CollectChunk) \/ (InList /\ Disconnect) \/ (InList /\ Announce)
    \/ (InList /\ Lapse) \/ (InList /\ AskNewer) \/ (InList /\ AskOlder)
    \/ (InList /\ OpenRow) \/ (InList /\ AskBack)
    \/ \E k \in Calls : (InList /\ ServeBlocks(k)) \/ (InList /\ Deliver(k))
    \/ (InVisits /\ TapTab) \/ (InVisits /\ TapLink) \/ (InVisits /\ TapBack)
    \/ (InVisits /\ SwitchTab) \/ (InVisits /\ Answer) \/ (InVisits /\ AnotherReads)
    \/ (InVisits /\ Cleared) \/ (InVisits /\ NodeFails) \/ (InVisits /\ NodeReturns)
    \/ (InReplies /\ Mine1) \/ (InReplies /\ Reorg1) \/ (InReplies /\ Replaced)
    \/ (InReplies /\ CollectRow) \/ (InReplies /\ RollbackRows)
    \/ (InReplies /\ AskTx) \/ (InReplies /\ AskHeight) \/ (InReplies /\ AskHash)
    \/ (InReplies /\ Classify) \/ (InReplies /\ LoadRow) \/ (InReplies /\ HashAt)
    \/ (InReplies /\ ComputeBlock) \/ (InReplies /\ RawTx) \/ (InReplies /\ Joined)
    \/ (InReplies /\ Header1) \/ \E p \in Parents : (InReplies /\ FetchParent(p))

Spec == Init /\ [][Next]_vars

ServeList(k) == ServeBlocks(k) \/ Deliver(k)

\* The page asks "every 10m", a request is answered, what the cache keeps has an end, and
\* a flushed chunk is announced; a reader need do nothing.
FairSpec ==
    /\ Spec
    /\ WF_vars(InList /\ AskNewer)
    /\ WF_vars(InList /\ ServeList("newer")) /\ WF_vars(InList /\ ServeList("whole"))
    /\ WF_vars(InList /\ Lapse) /\ WF_vars(InList /\ Announce)
=============================================================================
