----------------------------- MODULE MCServices -----------------------------
(* CoreConn, Chats, Backup and Lifecycle for TLC.  They share no variable,  *)
(* so a behaviour is one of a single part.                                  *)
EXTENDS CoreConn, Chats, Backup, Lifecycle

VARIABLE part

vars == <<part, coreVars, chatVars, backupVars, lifeVars>>

TwoStates == <<"info", "watch">>

InCore == part = "core" /\ UNCHANGED <<part, chatVars, backupVars, lifeVars>>
InChats == part = "chats" /\ UNCHANGED <<part, coreVars, backupVars, lifeVars>>
InBackup == part = "backup" /\ UNCHANGED <<part, coreVars, chatVars, lifeVars>>
InLife == part = "life" /\ UNCHANGED <<part, coreVars, chatVars, backupVars>>

\* A part that does not run stays in an initial state in which nothing is due.  The
\* chat's row waits for the last of the prompts a text tries, or for none; a command
\* makes it wait for another.
Init ==
    /\ part \in {"core", "chats", "backup", "life"}
    /\ CoreInit /\ ChatsInit /\ BackupInit /\ LifeInit
    /\ part # "chats" => ~known
    /\ state \in {NoState, TwoStates[2]}
    /\ part # "backup" => saved = "fresh" /\ tmp = "absent"
    /\ part # "life" => configured = Servers

Next ==
    \/ \E t \in Threads : \/ (Load(t) /\ InCore) \/ (Enter(t) /\ InCore) \/ (Leave(t) /\ InCore)
                          \/ (Request(t) /\ InCore) \/ (Answered(t) /\ InCore)
                          \/ (Refused(t) /\ InCore) \/ (NoAnswer(t) /\ InCore)
                          \/ (ReadCookie(t) /\ InCore) \/ (Renew(t) /\ InCore)
    \/ (Tick /\ InCore) \/ (NodeStops /\ InCore) \/ (NodeStarts /\ InCore)
    \/ \E h \in Handlers : \/ (Receive(h) /\ InChats) \/ (Store(h) /\ InChats) \/ (Cache(h) /\ InChats)
                           \/ (Log(h) /\ InChats) \/ (SetState(h) /\ InChats) \/ (Take(h) /\ InChats)
                           \/ (DropLapsed(h) /\ InChats) \/ (Lookup(h) /\ InChats)
                           \/ (Fill(h) /\ InChats) \/ (SendReply(h) /\ InChats)
    \/ (Lapse /\ InChats) \/ (Evict /\ InChats)
    \/ (Check /\ InBackup) \/ (ClearTmp /\ InBackup) \/ (Vacuum /\ InBackup)
    \/ (Copied /\ InBackup) \/ (Rename /\ InBackup) \/ (ScriptEnds /\ InBackup)
    \/ (WaitOver /\ InBackup) \/ (Age /\ InBackup)
    \/ (SomeoneDeletes /\ InBackup) \/ (SomeonePuts /\ InBackup)
    \/ (ShutDown /\ InBackup) \/ (CloseDB /\ InBackup)
    \/ (StartAgain /\ InBackup) \/ (Crash /\ InBackup)
    \/ (InLife /\ StartAgain1) \/ (InLife /\ OpenDatabase) \/ (InLife /\ StartTelegram)
    \/ (InLife /\ StartMax) \/ (InLife /\ StartRest) \/ (InLife /\ Dies)
    \/ (InLife /\ Signal) \/ (InLife /\ CloseListener) \/ (InLife /\ RunOut)
    \/ (InLife /\ Drained) \/ (InLife /\ CloseDatabase) \/ (InLife /\ Exit1)
    \/ \E h \in Hooks : (InLife /\ NewUpdate(h)) \/ (InLife /\ DeliverUpdate(h))
    \/ \E a \in Apps : (InLife /\ AskPage(a)) \/ (InLife /\ OpenStream(a))
    \/ \E s \in Servers : \/ (InLife /\ Handle(s)) \/ (InLife /\ AnswerRequest(s))
                            \/ (InLife /\ EndStream(s))

Spec == Init /\ [][Next]_vars

\* The fairness of each part; the safety of Lifecycle needs none.
FairSpec ==
    /\ Spec
    /\ \A t \in Threads : SF_vars(CallStep(t) /\ InCore)
    /\ WF_vars((Tick /\ InCore) \/ (Work /\ InBackup))
    /\ WF_vars((NodeStarts /\ InCore) \/ (WaitOver /\ InBackup))
    /\ WF_vars(CloseDB /\ InBackup) /\ WF_vars(StartAgain /\ InBackup)

\* Every call ends, and the client comes to have the password of a node that runs.
CallsSucceed == CallEnds /\ CredentialsHeal
=============================================================================
