---------------------------- MODULE RateLimiter ----------------------------
(***************************************************************************)
(* What a request to the RPC server passes before its method is called:    *)
(* the token, then the limit of its client, a queue of the times at which  *)
(* requests were let in.  A request reads the clock, then waits for the    *)
(* lock of the queues: others that read it later may come first.           *)
(***************************************************************************)
EXTENDS Integers, SequencesExt, FiniteSetsExt

CONSTANTS
  Clients,
  Limit,          \* rate_limit_per_minute, 0 for none
  Minute,         \* 60 in the code
  TokenSet,       \* the node has an auth_token
  MaxStall,       \* how long a request may wait for the lock
  MaxRequests, MaxRpcTime   \* bounds of the instance

ASSUME RateAssumption == Limit \in Nat /\ Minute \in Nat /\ MaxStall \in Nat

VARIABLES
  rpcClock,
  window,         \* client -> times, in the order they were pushed
  waiting,        \* requests between the clock and the lock: [client, now, id]
  letIn,          \* history: [client, at, id] of the requests let in
  requests

rpcVars == <<rpcClock, window, waiting, letIn, requests>>

RpcInit ==
  /\ rpcClock = 0
  /\ window = [c \in Clients |-> << >>]
  /\ waiting = {} /\ letIn = {}
  /\ requests = 0

(* handle_rpc_request *)
RequiresToken(method) == method = "stateful"
Authorized(token) == TokenSet => token

Request(c, method, token) ==
  /\ requests < MaxRequests
  /\ requests' = requests + 1
  /\ IF (RequiresToken(method) /\ ~TokenSet) \/ ~Authorized(token)
     THEN UNCHANGED <<waiting, letIn>>   \* does not count
     ELSE IF Limit = 0
     THEN letIn' = letIn \cup {[client |-> c, at |-> rpcClock, id |-> requests]} /\ UNCHANGED <<waiting>>
     ELSE waiting' = waiting \cup {[client |-> c, now |-> rpcClock, id |-> requests]} /\ UNCHANGED <<letIn>>
  /\ UNCHANGED <<rpcClock, window>>

\* Times at the front that are over a minute old are dropped, up to the first that is not.
StaleEarly(w, now) == {i \in DOMAIN w : \A j \in 1..i : now - w[j] >= Minute - 1}
Stale(w, now) == {i \in DOMAIN w : \A j \in 1..i : now - w[j] > Minute}
Recent(w, now) == SubSeq(w, Cardinality(Stale(w, now)) + 1, Len(w))

Decide(r) ==
  LET recent == Recent(window[r.client], r.now)
  IN  /\ r \in waiting
      /\ waiting' = waiting \ {r}
      /\ IF Len(recent) >= Limit
         THEN window' = [window EXCEPT ![r.client] = recent] /\ UNCHANGED letIn
         ELSE /\ window' = [window EXCEPT ![r.client] = Append(recent, r.now)]
              /\ letIn' = letIn \cup {[client |-> r.client, at |-> rpcClock, id |-> r.id]}
      /\ UNCHANGED <<rpcClock, requests>>

\* The lock is held for no I/O: a request has it within MaxStall.
Second ==
  /\ rpcClock < MaxRpcTime /\ \A r \in waiting : rpcClock - r.now < MaxStall
  /\ rpcClock' = rpcClock + 1
  /\ UNCHANGED <<window, waiting, letIn, requests>>

RpcNext ==
  \/ \E c \in Clients, method \in {"stateful", "read"}, token \in BOOLEAN : Request(c, method, token)
  \/ \E r \in waiting : Decide(r)
  \/ Second

RpcSpec == RpcInit /\ [][RpcNext]_rpcVars
-----------------------------------------------------------------------------
(* Of one client no more than Limit requests are let in within any stretch  *)
(* of a minute, less what a request may wait for the lock, though requests  *)
(* are queued out of the order of their times.                              *)
LimitHolds ==
  Limit > 0 =>
    \A c \in Clients, from \in 0..rpcClock :
      Cardinality({x \in letIn : x.client = c /\ x.at \in from..(from + Minute - MaxStall)}) <= Limit
=============================================================================
