------------------------------ MODULE CoreConn ------------------------------
(***************************************************************************)
(* The connection to Bitcoin Core (core/core.go): calls through the shared *)
(* conn, its mutex, credentials re-read when the node refuses them, and    *)
(* the watchdog that dials the node afresh when two pings fail.            *)
(*                                                                         *)
(* Connections are numbered as the watchdog swaps them in.  A call is the  *)
(* cached one, GetBlockTxids or GetBlockVerbose; any other is its middle.  *)
(* What the block cache holds is left out: a lookup may hit or miss.  Init *)
(* runs once, before all of this, and Reset in tests only.                 *)
(***************************************************************************)
EXTENDS Naturals

CONSTANTS
    Callers, Watchdog,  \* the goroutines that call, and the one that pings
    Nobody,             \* nobody holds a mutex
    FailedPings,        \* failedPings
    MaxConns, MaxRestarts, MaxTimeouts   \* bounds

ASSUME CoreConstants ==
    /\ Watchdog \notin Callers /\ Nobody \notin Callers \cup {Watchdog}
    /\ FailedPings \in Nat \ {0} /\ MaxConns \in Nat \ {0}
    /\ MaxRestarts \in Nat /\ MaxTimeouts \in Nat

Threads == Callers \cup {Watchdog}
Conns == 1..MaxConns

VARIABLES
    current,         \* the conn calls go through
    auth, mu,        \* each conn's credentials, and who holds its mutex
    pc, conn,        \* each thread's step, and its conn (0: none)
    hand,            \* the credentials its request carries, or it read (0: none)
    failures,        \* the watchdog's count
    up, secret, cookie,   \* the node: running, its password, its cookie file (0: none)
    restarts, timeouts

connVars == <<current, auth, mu>>
threadVars == <<pc, conn, hand, failures>>
nodeVars == <<up, secret, cookie, restarts>>
coreVars == <<connVars, threadVars, nodeVars, timeouts>>

CoreInit ==
    /\ up = TRUE /\ secret = 1 /\ cookie = 1   \* Init read the cookie
    /\ current = 1 /\ auth = [c \in Conns |-> IF c = 1 THEN cookie ELSE 0]
    /\ mu = [c \in Conns |-> Nobody]
    /\ pc = [t \in Threads |-> "idle"] /\ hand = [t \in Threads |-> 0]
    /\ conn = [t \in Threads |-> IF t = Watchdog THEN 1 ELSE 0]
    /\ failures = 0 /\ restarts = 0 /\ timeouts = 0

Step(t, from, to) == pc[t] = from /\ pc' = [pc EXCEPT ![t] = to]
Free(t) == conn[t] # 0 /\ mu[conn[t]] = Nobody
Unlock(t) == mu' = [mu EXCEPT ![conn[t]] = Nobody]
Drop(t) == conn' = [conn EXCEPT ![t] = 0]
Hold(t, v) == hand' = [hand EXCEPT ![t] = v]

-----------------------------------------------------------------------------
(* A cached call: current.Load, the lookup under the conn's mutex, the     *)
(* request, and the store of its answer under the same mutex.              *)

Load(t) ==
    /\ t \in Callers /\ Step(t, "idle", "get")
    /\ conn' = [conn EXCEPT ![t] = current]
    /\ UNCHANGED <<connVars, hand, failures, nodeVars, timeouts>>

\* Mutant: the caches are used without the mutex.
EnterUnlocked(t) ==
    /\ t \in Callers
    /\ Step(t, "get", "getting") \/ Step(t, "put", "putting")
    /\ mu' = [mu EXCEPT ![conn[t]] = t]
    /\ UNCHANGED <<current, auth, conn, hand, failures, nodeVars, timeouts>>

Enter(t) ==
    /\ t \in Callers /\ Free(t)
    /\ Step(t, "get", "getting") \/ Step(t, "put", "putting")
    /\ mu' = [mu EXCEPT ![conn[t]] = t]
    /\ UNCHANGED <<current, auth, conn, hand, failures, nodeVars, timeouts>>

\* Mutant: the early return of a hit leaves the mutex locked.
LeaveLocked(t) ==
    /\ \/ Step(t, "getting", "idle") /\ Drop(t) /\ UNCHANGED mu
       \/ Step(t, "getting", "send") /\ Unlock(t) /\ UNCHANGED conn
       \/ Step(t, "putting", "idle") /\ Unlock(t) /\ Drop(t)
    /\ UNCHANGED <<current, auth, hand, failures, nodeVars, timeouts>>

\* A hit returns, a miss asks the node.
Leave(t) ==
    /\ \/ Step(t, "getting", "idle") /\ Drop(t)
       \/ Step(t, "getting", "send") /\ UNCHANGED conn
       \/ Step(t, "putting", "idle") /\ Drop(t)
    /\ Unlock(t)
    /\ UNCHANGED <<current, auth, hand, failures, nodeVars, timeouts>>

-----------------------------------------------------------------------------
(* call, which the pings share: the request, its answer, and refreshAuth.  *)

Request(t) ==
    /\ Free(t) /\ Step(t, "send", "wait")
    /\ Hold(t, auth[conn[t]])
    /\ UNCHANGED <<connVars, conn, failures, nodeVars, timeouts>>

\* The watchdog works on a conn of its own while it dials.
Dialling == conn[Watchdog] # current

\* An error ends a caller's call.  A ping's is counted, up to FailedPings, and
\* that many make the watchdog dial; if the new conn fails, the old one stays.
Failed(t) ==
    /\ Hold(t, 0)
    /\ failures' = IF t = Watchdog /\ ~Dialling /\ failures < FailedPings
                   THEN failures + 1 ELSE failures
    /\ \/ /\ t = Watchdog /\ ~Dialling /\ failures' = FailedPings /\ current < MaxConns
          /\ pc' = [pc EXCEPT ![t] = "dial"] /\ conn' = [conn EXCEPT ![t] = current + 1]
       \/ /\ t \in Callers \/ Dialling \/ failures' < FailedPings
          /\ pc' = [pc EXCEPT ![t] = "idle"]
          /\ conn' = [conn EXCEPT ![t] = IF t = Watchdog THEN current ELSE 0]

\* The watchdog's conn that answers is swapped in.
Answered(t) ==
    /\ up /\ hand[t] = secret /\ Hold(t, 0)
    /\ Step(t, "wait", IF t = Watchdog THEN "idle" ELSE "put")
    /\ IF t = Watchdog THEN current' = conn[t] /\ failures' = 0 ELSE UNCHANGED <<current, failures>>
    /\ UNCHANGED <<auth, mu, conn, nodeVars, timeouts>>

\* 401.
Refused(t) ==
    /\ up /\ hand[t] # secret /\ Step(t, "wait", "cookie") /\ Hold(t, 0)
    /\ UNCHANGED <<connVars, conn, failures, nodeVars, timeouts>>

\* The node is down, or the call's context ends first.
NoAnswer(t) ==
    /\ pc[t] = "wait"
    /\ \/ ~up /\ UNCHANGED timeouts
       \/ timeouts < MaxTimeouts /\ timeouts' = timeouts + 1
    /\ Failed(t)
    /\ UNCHANGED <<connVars, nodeVars>>

\* refreshAuth reads the file and stores what it read, under the mutex.
ReadCookie(t) ==
    /\ \/ /\ cookie # 0
          /\ Step(t, "cookie", "renew") \/ Step(t, "dial", "dialled")
          /\ Hold(t, cookie)
          /\ UNCHANGED <<conn, failures>>
       \/ /\ cookie = 0 /\ pc[t] \in {"cookie", "dial"}
          /\ Failed(t)
    /\ UNCHANGED <<connVars, nodeVars, timeouts>>

\* A refused call fails all the same: only the next has the new credentials.
\* A dialled conn goes on to its ping.
Renew(t) ==
    /\ Free(t)
    /\ auth' = [auth EXCEPT ![conn[t]] = hand[t]]
    /\ \/ Step(t, "dialled", "send") /\ Hold(t, 0) /\ UNCHANGED <<conn, failures>>
       \/ pc[t] = "renew" /\ Failed(t)
    /\ UNCHANGED <<current, mu, nodeVars, timeouts>>

Tick ==
    /\ Step(Watchdog, "idle", "send")
    /\ UNCHANGED <<connVars, conn, hand, failures, nodeVars, timeouts>>

CallStep(t) ==
    \/ Enter(t) \/ Leave(t) \/ Request(t)
    \/ Answered(t) \/ Refused(t) \/ NoAnswer(t) \/ ReadCookie(t) \/ Renew(t)

-----------------------------------------------------------------------------
(* The node: a stop may remove the cookie or, in a crash, leave it behind. *)

NodeStops ==
    /\ up /\ restarts < MaxRestarts /\ restarts' = restarts + 1
    /\ up' = FALSE /\ cookie' \in {0, cookie}
    /\ UNCHANGED <<connVars, threadVars, secret, timeouts>>

NodeStarts ==
    /\ ~up /\ up' = TRUE
    /\ secret' = secret + 1 /\ cookie' = secret'
    /\ UNCHANGED <<connVars, threadVars, restarts, timeouts>>

CoreNext ==
    \/ \E t \in Threads : Load(t) \/ CallStep(t)
    \/ Tick \/ NodeStops \/ NodeStarts

CoreSpec == CoreInit /\ [][CoreNext]_coreVars

\* A sync.Mutex starves nobody, calls end, the watchdog never stops, and a node
\* that stopped is started again.
CoreFairSpec ==
    /\ CoreSpec
    /\ \A t \in Threads : SF_coreVars(CallStep(t))
    /\ WF_coreVars(Tick) /\ WF_coreVars(NodeStarts)

-----------------------------------------------------------------------------
(* Properties.                                                             *)

Inside == {"getting", "putting"}   \* at work on the block caches

CoreTypes ==
    /\ current \in Conns /\ auth \in [Conns -> Nat] /\ mu \in [Conns -> Callers \cup {Nobody}]
    /\ pc \in [Threads -> Inside \cup {"idle", "get", "put", "send", "wait", "cookie", "renew", "dial", "dialled"}]
    /\ conn \in [Threads -> Conns \cup {0}]
    /\ \A t \in Threads : conn[t] = 0 <=> t # Watchdog /\ pc[t] = "idle"
    /\ hand \in [Threads -> Nat]
    /\ failures \in 0..FailedPings
    /\ up \in BOOLEAN /\ secret \in Nat /\ cookie \in Nat
    /\ restarts \in Nat /\ timeouts \in Nat

\* Calls of one connection take turns at the block caches: only a call that has
\* outlived its connection can meet another there.
CachePerConnection ==
    \A s, t \in Callers : s # t /\ pc[s] \in Inside /\ pc[t] \in Inside => conn[s] # conn[t]

\* Every call ends: with its answer, an error, or its context.
CallEnds == \A t \in Callers : pc[t] # "idle" ~> pc[t] = "idle"

\* "Core rewrites it with a fresh password on every restart, and the bot outlives
\* node restarts": once the node stays up, calls carry the password it wants,
\* whatever old cookie a slow call may still have stored.
CredentialsHeal == <>[](up /\ auth[current] = secret)
=============================================================================
