------------------------------- MODULE Events -------------------------------
(***************************************************************************)
(* How an open Mini App page hears that data moved, and what it is served: *)
(* app.Notify's throttle, telegram's and max's notify, the event stream,   *)
(* and the cache of rendered cards (app/app.go, telegram/app.go,           *)
(* max/app.go).                                                            *)
(*                                                                         *)
(* Two kinds of event: "mempool", which is throttled and whose page is     *)
(* never cached, and "fees", which stands for the cards, with a cached     *)
(* render.  A render is the version of the data it was made from.          *)
(***************************************************************************)
EXTENDS Naturals, Sequences

CONSTANTS
    Pages,      \* the open pages of one Mini App
    Cap,        \* the room of a stream's channel
    NoRender,   \* nothing cached
    MaxVersion, MaxBreaks   \* bounds: changes of each kind, broken streams

ASSUME EventsConstants == Cap \in Nat \ {0} /\ NoRender \notin Nat /\ MaxVersion \in [{"mempool", "fees"} -> Nat] /\ MaxBreaks \in Nat

Kinds == {"mempool", "fees"}
Throttled == {"mempool"}
Goroutines == Kinds \cup {"timer"}   \* each kind's refresh, and AfterFunc's
KindOf(g) == IF g = "timer" THEN "mempool" ELSE g

VARIABLES
    version,          \* the data of each kind
    doing,            \* each goroutine's step in Notify
    due, pending,     \* throttle: the interval is over, a timer is set
    cached, expired,  \* the card's entry
    ch, connected,    \* each page's stream
    at, got, again,   \* its request for the card, the version in hand, an event meanwhile
    shown,            \* the card it shows
    unheard, told, raced, breaks   \* what the properties remember

notifyVars == <<doing, due, pending>>
cacheVars == <<cached, expired, raced>>
cardVars == <<at, got, again, shown>>
streamVars == <<ch, connected, breaks>>
eventVars == <<version, notifyVars, cacheVars, cardVars, streamVars, unheard, told>>

EventsInit ==
    /\ version = [k \in Kinds |-> 0] /\ doing = [g \in Goroutines |-> "idle"]
    /\ due = TRUE /\ pending = FALSE
    /\ cached = NoRender /\ expired = FALSE /\ raced = FALSE
    /\ ch = [p \in Pages |-> <<>>] /\ connected = [p \in Pages |-> TRUE] /\ breaks = 0
    /\ at = [p \in Pages |-> "idle"] /\ got = [p \in Pages |-> 0] /\ again = [p \in Pages |-> FALSE]
    /\ shown = [p \in Pages |-> 0]
    /\ unheard = [k \in Kinds |-> FALSE] /\ told = 0

-----------------------------------------------------------------------------
(* Notify, on the goroutine that changed the data.                         *)

Go(g, s) == doing' = [doing EXCEPT ![g] = s]

Change(k) ==
    /\ doing[k] = "idle" /\ version[k] < MaxVersion[k]
    /\ version' = [version EXCEPT ![k] = @ + 1] /\ Go(k, "notify")
    /\ unheard' = [unheard EXCEPT ![k] = TRUE]
    /\ UNCHANGED <<due, pending, cacheVars, cardVars, streamVars, told>>

\* Mutant: a change inside the interval is dropped.
ThrottleDrop(g) ==
    /\ doing[g] = "notify"
    /\ \/ g \notin Throttled /\ Go(g, "invalidate") /\ UNCHANGED <<pending, due>>
       \/ g \in Throttled /\ (pending \/ ~due) /\ Go(g, "idle") /\ UNCHANGED <<pending, due>>
       \/ g \in Throttled /\ ~pending /\ due /\ due' = FALSE /\ Go(g, "invalidate") /\ UNCHANGED pending
    /\ UNCHANGED <<version, cacheVars, cardVars, streamVars, unheard, told>>

Throttle(g) ==
    /\ doing[g] = "notify"
    /\ \/ g \notin Throttled /\ Go(g, "invalidate") /\ UNCHANGED <<pending, due>>
       \/ g \in Throttled /\ pending /\ Go(g, "idle") /\ UNCHANGED <<pending, due>>
       \/ g \in Throttled /\ ~pending /\ due /\ due' = FALSE /\ Go(g, "invalidate") /\ UNCHANGED pending
       \/ g \in Throttled /\ ~pending /\ ~due /\ pending' = TRUE /\ Go(g, "idle") /\ UNCHANGED due
    /\ UNCHANGED <<version, cacheVars, cardVars, streamVars, unheard, told>>

IntervalOver ==
    /\ ~due /\ ~pending /\ due' = TRUE
    /\ UNCHANGED <<version, doing, pending, cacheVars, cardVars, streamVars, unheard, told>>

\* AfterFunc's function, which announces after it has let the lock go.
Fire ==
    /\ pending /\ doing["timer"] = "idle"
    /\ pending' = FALSE /\ due' = FALSE /\ Go("timer", "invalidate")
    /\ UNCHANGED <<version, cacheVars, cardVars, streamVars, unheard, told>>

\* Mutant: the event is passed on and the copy dropped after it.
InvalidateLast(g) ==
    /\ doing[g] = "invalidate" /\ Go(g, "send")
    /\ UNCHANGED <<version, due, pending, cacheVars, cardVars, streamVars, unheard, told>>

\* invalidate, "before passing the event on".  raced: a render of the data from
\* before the change is still to be put.
Invalidate(g) ==
    /\ doing[g] = "invalidate" /\ Go(g, "send")
    /\ IF KindOf(g) = "fees"
       THEN /\ cached' = NoRender /\ expired' = FALSE
            /\ raced' = \E p \in Pages : at[p] = "put" /\ got[p] < version["fees"]
       ELSE UNCHANGED cacheVars
    /\ UNCHANGED <<version, due, pending, cardVars, streamVars, unheard, told>>

\* To every page that has room for it.
Send(g) ==
    /\ doing[g] = "send" /\ Go(g, "idle")
    /\ ch' = [p \in Pages |-> IF connected[p] /\ Len(ch[p]) < Cap THEN Append(ch[p], KindOf(g)) ELSE ch[p]]
    /\ unheard' = [unheard EXCEPT ![KindOf(g)] = FALSE]
    /\ told' = IF KindOf(g) = "fees" THEN version["fees"] ELSE told
    /\ UNCHANGED <<version, due, pending, cacheVars, cardVars, connected, breaks>>

-----------------------------------------------------------------------------
(* A page.                                                                 *)

\* A card that is still waiting asks once more afterwards.
AskCard(p) == IF at[p] = "idle" THEN at' = [at EXCEPT ![p] = "get"] /\ UNCHANGED again
                            ELSE again' = [again EXCEPT ![p] = TRUE] /\ UNCHANGED at

Event(p) ==
    /\ connected[p] /\ ch[p] # <<>> /\ ch' = [ch EXCEPT ![p] = Tail(@)]
    /\ IF Head(ch[p]) = "fees" THEN AskCard(p) ELSE UNCHANGED <<at, again>>
    /\ UNCHANGED <<version, notifyVars, cacheVars, got, shown, connected, breaks, unheard, told>>

\* "every 10m"
Poll(p) ==
    /\ at[p] = "idle" /\ AskCard(p)
    /\ UNCHANGED <<version, notifyVars, cacheVars, got, shown, streamVars, unheard, told>>

\* The stream breaks, with what was in it, or the browser opens it again.
Stream(p) ==
    /\ \/ connected[p] /\ breaks < MaxBreaks /\ breaks' = breaks + 1
       \/ ~connected[p] /\ UNCHANGED breaks
    /\ connected' = [connected EXCEPT ![p] = ~@] /\ ch' = [ch EXCEPT ![p] = <<>>]
    /\ UNCHANGED <<version, notifyVars, cacheVars, cardVars, unheard, told>>

Show(p, v) ==
    /\ shown' = [shown EXCEPT ![p] = v]
    /\ at' = [at EXCEPT ![p] = IF again[p] THEN "get" ELSE "idle"]
    /\ again' = [again EXCEPT ![p] = FALSE]

\* Mutant: an entry is served however old it is.
GetExpired(p) ==
    /\ at[p] = "get"
    /\ IF cached # NoRender
       THEN Show(p, cached) /\ UNCHANGED cacheVars
       ELSE at' = [at EXCEPT ![p] = "render"] /\ UNCHANGED <<cacheVars, again, shown>>
    /\ UNCHANGED <<version, notifyVars, got, streamVars, unheard, told>>

\* cached: a hit, or a miss that drops an expired entry.
Get(p) ==
    /\ at[p] = "get"
    /\ IF cached # NoRender /\ ~expired
       THEN Show(p, cached) /\ UNCHANGED cacheVars
       ELSE /\ at' = [at EXCEPT ![p] = "render"]
            /\ cached' = NoRender /\ expired' = FALSE /\ raced' = raced
            /\ UNCHANGED <<again, shown>>
    /\ UNCHANGED <<version, notifyVars, got, streamVars, unheard, told>>

\* Outside the lock.
Render(p) ==
    /\ at[p] = "render" /\ at' = [at EXCEPT ![p] = "put"]
    /\ got' = [got EXCEPT ![p] = version["fees"]]
    /\ UNCHANGED <<version, notifyVars, cacheVars, again, shown, streamVars, unheard, told>>

Put(p) ==
    /\ at[p] = "put" /\ cached' = got[p] /\ expired' = FALSE
    /\ Show(p, got[p]) /\ got' = [got EXCEPT ![p] = 0]
    /\ UNCHANGED <<version, notifyVars, raced, streamVars, unheard, told>>

\* cacheTTL has passed since the entry was put.
Expire ==
    /\ cached # NoRender /\ ~expired /\ expired' = TRUE
    /\ UNCHANGED <<version, notifyVars, cached, raced, cardVars, streamVars, unheard, told>>

Notify(g) == Throttle(g) \/ Invalidate(g) \/ Send(g)
Fetch(p) == Get(p) \/ Render(p) \/ Put(p)

EventsNext ==
    \/ \E k \in Kinds : Change(k)
    \/ \E g \in Goroutines : Notify(g)
    \/ IntervalOver \/ Fire \/ Expire
    \/ \E p \in Pages : Event(p) \/ Poll(p) \/ Stream(p) \/ Fetch(p)

EventsSpec == EventsInit /\ [][EventsNext]_eventVars

\* Timers go off, goroutines run, and a card asks "every 10m".
EventsFairSpec ==
    /\ EventsSpec /\ WF_eventVars(Fire) /\ WF_eventVars(Expire)
    /\ \A g \in Goroutines : WF_eventVars(Notify(g))
    /\ \A p \in Pages : WF_eventVars(Poll(p)) /\ WF_eventVars(Fetch(p))

-----------------------------------------------------------------------------
(* Properties.                                                             *)

EventsTypes ==
    /\ version \in [Kinds -> Nat] /\ doing \in [Goroutines -> {"idle", "notify", "invalidate", "send"}]
    /\ due \in BOOLEAN /\ pending \in BOOLEAN
    /\ cached \in Nat \cup {NoRender} /\ expired \in BOOLEAN /\ raced \in BOOLEAN
    /\ ch \in [Pages -> Seq(Kinds)] /\ connected \in [Pages -> BOOLEAN] /\ breaks \in Nat
    /\ \A p \in Pages : Len(ch[p]) <= Cap
    /\ at \in [Pages -> {"idle", "get", "render", "put"}]
    /\ got \in [Pages -> Nat] /\ again \in [Pages -> BOOLEAN] /\ shown \in [Pages -> Nat]
    /\ unheard \in [Kinds -> BOOLEAN] /\ told \in Nat

\* A change inside the interval is announced late rather than lost: as long as
\* one is unannounced, somebody is about to announce it.
ChangeAnnounced ==
    \A k \in Kinds : unheard[k] =>
        \/ k \in Throttled /\ pending
        \/ \E g \in Goroutines : KindOf(g) = k /\ doing[g] # "idle"

\* Once a change has been told, no render from before it is served: the page
\* that reacts to an event is not handed the copy it was told to replace ...
ToldIsServed == cached # NoRender => cached >= told

\* ... but for one that was under way when the copies were dropped, and is put
\* after them.
StaleIsRaced == raced \/ ToldIsServed

\* Whatever events are lost and renders raced, each page comes to show the data.
PagesSettle == <>[](\A p \in Pages : shown[p] = version["fees"])
=============================================================================
