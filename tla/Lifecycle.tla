----------------------------- MODULE Lifecycle -----------------------------
(***************************************************************************)
(* The process from main to shutdown: the database, the four servers that  *)
(* use it, the updates the messengers send until they are answered, and    *)
(* the fifteen seconds a shutdown has to drain the servers one by one.     *)
(*                                                                         *)
(* A server has one request at a time here, and a Mini App one event       *)
(* stream.  Left out: the notifiers and the index catch-up, which shutdown *)
(* does not wait for, and the backup (Backup).                             *)
(***************************************************************************)
EXTENDS Naturals, Sequences

CONSTANTS MaxEnds, MaxNews, MaxPages   \* bounds: ends of the process, updates, page requests

ASSUME LifecycleConstants == {MaxEnds, MaxNews, MaxPages} \subseteq Nat

\* In the order shutdown drains them.
Drains == <<"hook", "app", "maxHook", "maxApp">>
Hooks == {"hook", "maxHook"}
Apps == {"app", "maxApp"}
Servers == Hooks \cup Apps
Telegram == {"hook", "app"}

VARIABLES
    configured,        \* the servers that are given an address to listen on
    main,              \* where main or shutdown is; a server's name: it is being drained
    server, dbUp,
    flight, streams,   \* each server's request; the open event streams
    late,              \* the context of shutdown has expired, and what it was waiting for
    update, effect,    \* each messenger's update, and whether it has had its effect
    ends, news, pages
lifeVars == <<configured, main, server, dbUp, flight, streams, late, update, effect, ends, news, pages>>

requests == <<flight, streams, update, effect, news, pages>>
process == <<main, server, dbUp, late>>

LifeInit ==
    /\ configured \in SUBSET Servers \ {{}}
    /\ main = "gone" /\ server = [s \in Servers |-> "off"] /\ dbUp = FALSE
    /\ flight = [s \in Servers |-> "none"] /\ streams = {} /\ late = "no"
    /\ update = [s \in Hooks |-> "none"] /\ effect = [s \in Hooks |-> "none"]
    /\ ends = 0 /\ news = 0 /\ pages = 0

-----------------------------------------------------------------------------
(* main.                                                                   *)

\* The process is gone, with what it was doing.
Ends ==
    /\ main' = "gone" /\ server' = [s \in Servers |-> "off"] /\ dbUp' = FALSE /\ late' = "no"
    /\ flight' = [s \in Servers |-> "none"] /\ streams' = {}
    /\ UNCHANGED <<configured, update, effect, news, pages>>

StartAgain1 ==
    /\ main = "gone" /\ main' = "db"
    /\ UNCHANGED <<configured, server, dbUp, late, requests, ends>>

OpenDatabase ==
    /\ main = "db" /\ dbUp' = TRUE /\ main' = "core"
    /\ UNCHANGED <<configured, server, late, requests, ends>>

Listen(these) == server' = [s \in Servers |-> IF s \in these \cap configured THEN "open" ELSE server[s]]

\* The node has answered.
StartTelegram ==
    /\ main = "core" /\ Listen(Telegram) /\ main' = "max"
    /\ UNCHANGED <<configured, dbUp, late, requests, ends>>

\* A subscription that is refused is only logged.
StartMax ==
    /\ main = "max" /\ Listen(Servers \ Telegram) /\ main' = "rest"
    /\ UNCHANGED <<configured, dbUp, late, requests, ends>>

StartRest ==
    /\ main = "rest" /\ main' = "run"
    /\ UNCHANGED <<configured, server, dbUp, late, requests, ends>>

\* A start that fails is Fatal; the process may also be killed at any time.
Dies == main # "gone" /\ ends < MaxEnds /\ ends' = ends + 1 /\ Ends

-----------------------------------------------------------------------------
(* Requests.                                                               *)

NewUpdate(s) ==
    /\ s \in configured /\ update[s] # "sent" /\ news < MaxNews /\ news' = news + 1
    /\ update' = [update EXCEPT ![s] = "sent"] /\ effect' = [effect EXCEPT ![s] = "none"]
    /\ UNCHANGED <<configured, process, flight, streams, ends, pages>>

\* The webhook: what is not answered 200 is sent again.
DeliverUpdate(s) ==
    /\ update[s] = "sent" /\ server[s] = "open" /\ flight[s] = "none"
    /\ flight' = [flight EXCEPT ![s] = "work"]
    /\ UNCHANGED <<configured, process, streams, update, effect, ends, news, pages>>

AskPage(s) ==
    /\ server[s] = "open" /\ flight[s] = "none" /\ pages < MaxPages /\ pages' = pages + 1
    /\ flight' = [flight EXCEPT ![s] = "work"]
    /\ UNCHANGED <<configured, process, streams, update, effect, ends, news>>

OpenStream(s) ==
    /\ server[s] = "open" /\ s \notin streams /\ streams' = streams \cup {s}
    /\ UNCHANGED <<configured, process, flight, update, effect, ends, news, pages>>

\* The handler reads and writes the database; an error is logged.
Handle(s) ==
    /\ flight[s] = "work" /\ flight' = [flight EXCEPT ![s] = "answer"]
    /\ effect' = IF s \notin Hooks THEN effect
                 ELSE [effect EXCEPT ![s] = IF dbUp THEN "had" ELSE IF @ = "had" THEN @ ELSE late]
    /\ UNCHANGED <<configured, process, streams, update, ends, news, pages>>

\* 200, "whatever its handler did".
AnswerRequest(s) ==
    /\ flight[s] = "answer" /\ flight' = [flight EXCEPT ![s] = "none"]
    /\ update' = IF s \in Hooks THEN [update EXCEPT ![s] = "answered"] ELSE update
    /\ UNCHANGED <<configured, process, streams, effect, ends, news, pages>>

\* An event stream never ends by itself: startApp has its server end it.
Told(s) == server[s] = "closing"
EndStream(s) ==
    /\ s \in streams /\ Told(s) /\ streams' = streams \ {s}
    /\ UNCHANGED <<configured, process, flight, update, effect, ends, news, pages>>

-----------------------------------------------------------------------------
(* shutdown.                                                               *)

Signal ==
    /\ main = "run" /\ ends < MaxEnds /\ ends' = ends + 1 /\ main' = Drains[1]
    /\ UNCHANGED <<configured, server, dbUp, late, requests>>

\* Shutdown(ctx) of a server: it stops listening and tells its streams, and then waits for
\* what is in flight, for as long as the context lasts.
Draining == main \in Servers
CloseListener ==
    /\ Draining /\ server[main] = "open" /\ server' = [server EXCEPT ![main] = "closing"]
    /\ UNCHANGED <<configured, main, dbUp, late, requests, ends>>

\* Fifteen seconds for all of them; only a request takes so long.
RunOut ==
    /\ Draining /\ late = "no" /\ server[main] = "closing"
    /\ \/ flight[main] # "none" /\ late' = "slow"
       \/ flight[main] = "none" /\ main \in streams /\ ~Told(main) /\ late' = "stream"
    /\ UNCHANGED <<configured, main, server, dbUp, requests, ends>>

\* Mutant: what is in flight is not waited for.
NoWait == TRUE
Emptied == late # "no" \/ (flight[main] = "none" /\ main \notin streams)
Drained ==
    /\ Draining /\ server[main] # "open" /\ (server[main] = "closing" => Emptied)
    /\ main' = IF main = "maxApp" THEN "close"
               ELSE Drains[1 + CHOOSE i \in 1..3 : Drains[i] = main]
    /\ UNCHANGED <<configured, server, dbUp, late, requests, ends>>

CloseDatabase ==
    /\ main = "close" /\ dbUp' = FALSE /\ main' = "exit"
    /\ UNCHANGED <<configured, server, late, requests, ends>>

Exit1 == main = "exit" /\ Ends /\ UNCHANGED ends

LifeNext ==
    \/ StartAgain1 \/ OpenDatabase \/ StartTelegram \/ StartMax \/ StartRest \/ Dies
    \/ Signal \/ CloseListener \/ RunOut \/ Drained \/ CloseDatabase \/ Exit1
    \/ \E s \in Hooks : NewUpdate(s) \/ DeliverUpdate(s)
    \/ \E s \in Apps : AskPage(s) \/ OpenStream(s)
    \/ \E s \in Servers : Handle(s) \/ AnswerRequest(s) \/ EndStream(s)

LifeSpec == LifeInit /\ [][LifeNext]_lifeVars

-----------------------------------------------------------------------------
(* Properties.                                                             *)

\* The database is closed under no handler, and an update that was answered has had its
\* effect, wherever the process ends -- but for the handlers still at work when a slow
\* request of any server has used up the fifteen seconds; an idle event stream does not.
ShutdownLosesNothing ==
    /\ late # "stream"
    /\ late = "no" /\ ~dbUp => \A s \in Servers : flight[s] = "none"
    /\ \A s \in Hooks : update[s] = "answered" => effect[s] \in {"had", "slow"}
=============================================================================
