------------------------------ MODULE RateLimit ------------------------------
(***************************************************************************)
(* RateLimitMiddleware (core/rate_limit.py) for the requests of one client *)
(* address: a fixed window counted in Redis, and outside production a      *)
(* count of each server process when Redis fails.                          *)
(***************************************************************************)
EXTENDS Integers, FiniteSets, Rows

CONSTANTS
  Calls,            \* requests of one address
  Hosts,            \* server processes
  RequestLimit,     \* RATE_LIMIT_REQUESTS
  MaxWindows        \* bound: windows after the first

ASSUME RateLimitAssumption == RequestLimit \in Nat /\ MaxWindows \in Nat

Windows == 0..MaxWindows

VARIABLES
  window,       \* the current window
  production,   \* APP_ENV
  shared,       \* Redis: requests counted in each window
  local,        \* [Hosts -> [Windows -> requests counted by the process]]
  call          \* the stage of each request, with its host, window and count

rateVars == <<window, production, shared, local, call>>

Call == [stage : {"arrived", "counted", "served", "refused"}, host : Hosts,
         window : Windows, count : Nat]

RateLimitTypeOK ==
  /\ window \in Windows /\ production \in BOOLEAN
  /\ shared \in [Windows -> Nat]
  /\ local \in [Hosts -> [Windows -> Nat]]
  /\ call \in [Calls -> Call \cup {Idle}]

RateLimitInit ==
  /\ window = 0 /\ production \in BOOLEAN
  /\ shared = [w \in Windows |-> 0]
  /\ local = [h \in Hosts |-> [w \in Windows |-> 0]]
  /\ call = [c \in Calls |-> Idle]

-----------------------------------------------------------------------------
NextWindow ==
  /\ window < MaxWindows
  /\ window' = window + 1
  /\ UNCHANGED <<production, shared, local, call>>

(* The window is computed before the counter is asked. *)
Arrive(c, h) ==
  /\ call[c] = Idle
  /\ call' = [call EXCEPT ![c] =
       [stage |-> "arrived", host |-> h, window |-> window, count |-> 0]]
  /\ UNCHANGED <<window, production, shared, local>>

Counts(c, n) == call' = [call EXCEPT ![c].stage = "counted", ![c].count = n]
Refused(c) == call' = [call EXCEPT ![c].stage = "refused"]
Arrived(c) == call[c] # Idle /\ call[c].stage = "arrived"

CountShared(c) ==
  /\ Arrived(c)
  /\ shared' = [shared EXCEPT ![call[c].window] = @ + 1]
  /\ Counts(c, shared[call[c].window] + 1)
  /\ UNCHANGED <<window, production, local>>

(* The answer of Redis is lost after it counted, or Redis is down.         *)
CountLocally(c) ==
  LET h == call[c].host  w == call[c].window
  IN /\ local' = [local EXCEPT ![h][w] = @ + 1]
     /\ Counts(c, local[h][w] + 1)

(* The mutant also counts locally in production. *)
RedisFailsOpen(c) == CountLocally(c)
RedisFails(c) ==
  IF production THEN Refused(c) /\ UNCHANGED local ELSE CountLocally(c)

CountFails(c) ==
  /\ Arrived(c)
  /\ shared' \in {shared, [shared EXCEPT ![call[c].window] = @ + 1]}
  /\ RedisFails(c)
  /\ UNCHANGED <<window, production>>

Answer(c) ==
  /\ call[c] # Idle /\ call[c].stage = "counted"
  /\ IF call[c].count > RequestLimit
     THEN Refused(c) ELSE call' = [call EXCEPT ![c].stage = "served"]
  /\ UNCHANGED <<window, production, shared, local>>

(* A process restarts and forgets its counts; its requests die with it.    *)
RestartHost(h) ==
  /\ \E w \in Windows : local[h][w] > 0
  /\ local' = [local EXCEPT ![h] = [w \in Windows |-> 0]]
  /\ call' = [c \in Calls |->
       IF call[c] # Idle /\ call[c].host = h /\ call[c].stage \in {"arrived", "counted"}
       THEN [call[c] EXCEPT !.stage = "refused"] ELSE call[c]]
  /\ UNCHANGED <<window, production, shared>>

RateLimitNext ==
  \/ NextWindow
  \/ \E c \in Calls : \/ \E h \in Hosts : Arrive(c, h)
                      \/ CountShared(c) \/ CountFails(c) \/ Answer(c)
  \/ \E h \in Hosts : RestartHost(h)

RateLimitSpec == RateLimitInit /\ [][RateLimitNext]_rateVars

-----------------------------------------------------------------------------
(* Properties *)

(* In production no window serves an address more requests than the limit, *)
(* whichever processes they reach, with Redis failing before or after it   *)
(* counted and processes restarting ("Production fails closed").           *)
ServedIn(w) == {c \in Calls : call[c] # Idle /\ call[c].stage = "served"
                              /\ call[c].window = w}
RateRespected ==
  production => \A w \in Windows : Cardinality(ServedIn(w)) <= RequestLimit
=============================================================================
