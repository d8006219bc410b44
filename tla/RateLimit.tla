------------------------------- MODULE RateLimit -------------------------------
(***************************************************************************)
(* RateLimitMiddleware for one category and one identifier: a counter per  *)
(* fixed window in Redis, shared by the server processes, and in each      *)
(* process a sliding window in memory, used for a while after Redis has    *)
(* failed.  A request keeps the time at which it arrived; only the Redis   *)
(* round trip lets others overtake it.                                     *)
(***************************************************************************)
EXTENDS Naturals, Sequences, FiniteSets, Functions

CONSTANTS
    Servers,     \* processes of the API
    Requests,    \* requests under way at a time
    RedisMax,    \* max_requests of the category
    MemoryMax,   \* the limit of the in-memory fallback
    WindowTime,  \* window_seconds
    Cooldown,    \* _CB_COOLDOWN
    MaxTime,     \* bound
    MaxArrivals  \* bound: requests that arrive

ASSUME RateAssumption ==
    /\ IsFiniteSet(Servers) /\ Servers # {} /\ IsFiniteSet(Requests)
    /\ RedisMax \in Nat \ {0} /\ MemoryMax \in Nat \ {0} /\ WindowTime \in Nat \ {0}
    /\ Cooldown \in Nat /\ MaxTime \in Nat /\ MaxArrivals \in Nat

Times == 0..MaxTime
Windows == 0..(MaxTime \div WindowTime)
\* Mutant: the key lacks the window.
WindowOf_Constant(t) == 0

WindowOf(t) == t \div WindowTime

VARIABLES
    now,
    counter,     \* Redis: count and expiry of each window's key
    recent,      \* per process: the deque of times let through in memory
    cooldownEnd, \* per process: until when Redis is left alone
    request,     \* requests waiting for Redis
    arrived,     \* history: requests per window
    admitted     \* history: requests let through, per window

rateVars == <<now, counter, recent, cooldownEnd, request, arrived, admitted>>

NoRequest == [waits |-> FALSE, server |-> CHOOSE s \in Servers : TRUE, at |-> 0]

RateTypeOK ==
    /\ now \in Times
    /\ counter \in [Windows -> [count : Nat, expires : Nat]]
    /\ \A s \in Servers : Len(recent[s]) <= MemoryMax
    /\ cooldownEnd \in [Servers -> Nat]
    /\ request \in [Requests -> [waits : BOOLEAN, server : Servers, at : Times]]
    /\ arrived \in [Windows -> Nat] /\ admitted \in [Windows -> Nat]

RateInit ==
    /\ now = 0
    /\ counter = [w \in Windows |-> [count |-> 0, expires |-> 0]]
    /\ recent = [s \in Servers |-> <<>>]
    /\ cooldownEnd = [s \in Servers |-> 0]
    /\ request = [r \in Requests |-> NoRequest]
    /\ arrived = [w \in Windows |-> 0] /\ admitted = [w \in Windows |-> 0]

-----------------------------------------------------------------------------
Admit(t) == admitted' = [admitted EXCEPT ![t \div WindowTime] = @ + 1]
Refuse == UNCHANGED admitted

\* Entries older than the window, seen from the request's own time, leave the
\* deque at its left end; a younger one keeps those behind it.
Kept(s, t) ==
    LET dq == recent[s]
        stale == {i \in DOMAIN dq : \A j \in 1..i : dq[j] + WindowTime < t}
    IN SubSeq(dq, Cardinality(stale) + 1, Len(dq))

\* Mutant: one request more is let through.
Full_OneMore(dq) == Len(dq) > MemoryMax

Full(dq) == Len(dq) >= MemoryMax

CheckMemory(s, t) ==
    LET kept == Kept(s, t)
    IN IF Full(kept)
       THEN recent' = [recent EXCEPT ![s] = kept] /\ Refuse
       ELSE recent' = [recent EXCEPT ![s] = Append(kept, t)] /\ Admit(t)

Arrival ==
    /\ FoldFunction(+, 0, arrived) < MaxArrivals
    /\ arrived' = [arrived EXCEPT ![now \div WindowTime] = @ + 1]

\* The process has just failed to reach Redis: memory decides without a wait.
ArriveInCooldown(s) ==
    /\ Arrival /\ now < cooldownEnd[s]
    /\ CheckMemory(s, now)
    /\ UNCHANGED <<now, counter, cooldownEnd, request>>

ArriveAtRedis(s, r) ==
    /\ Arrival /\ now >= cooldownEnd[s] /\ ~request[r].waits
    /\ request' = [request EXCEPT ![r] = [waits |-> TRUE, server |-> s, at |-> now]]
    /\ UNCHANGED <<now, counter, recent, cooldownEnd, admitted>>

-----------------------------------------------------------------------------
(* INCR and EXPIRE, one pipeline.                                          *)

Live(w) == IF now < counter[w].expires THEN counter[w].count ELSE 0

\* Mutant: the key expires early.
Expiry_Short == now + 1

\* The key outlives the last hit by one unit more than the window.
Expiry == now + WindowTime + 1

Hit(w) == [counter EXCEPT ![w] = [count |-> Live(w) + 1, expires |-> Expiry]]

Answered(r) ==
    LET w == WindowOf(request[r].at)
    IN /\ request[r].waits
       /\ counter' = Hit(w)
       /\ IF Live(w) + 1 > RedisMax THEN Refuse ELSE Admit(request[r].at)
       /\ request' = [request EXCEPT ![r] = NoRequest]
       /\ UNCHANGED <<now, recent, cooldownEnd, arrived>>

\* The connection fails before or after Redis has counted.
RedisFails(r) ==
    /\ request[r].waits
    /\ counter' \in {counter, Hit(WindowOf(request[r].at))}
    /\ cooldownEnd' = [cooldownEnd EXCEPT ![request[r].server] = now + Cooldown]
    /\ CheckMemory(request[r].server, request[r].at)
    /\ request' = [request EXCEPT ![r] = NoRequest]
    /\ UNCHANGED <<now, arrived>>

Tick ==
    /\ now < MaxTime /\ now' = now + 1
    /\ UNCHANGED <<counter, recent, cooldownEnd, request, arrived, admitted>>

RateNext ==
    \/ \E s \in Servers : ArriveInCooldown(s) \/ \E r \in Requests : ArriveAtRedis(s, r)
    \/ \E r \in Requests : Answered(r) \/ RedisFails(r)
    \/ Tick

RateSpec == RateInit /\ [][RateNext]_rateVars

-----------------------------------------------------------------------------
(* Properties.                                                             *)

\* One limit is counted in Redis and, after a failure, in each process again; and
\* a request that Redis answers after its window's key has expired starts a new
\* count.  All of that together lets through at most so many requests of a window.
AdmittedBounded ==
    \A w \in Windows :
        admitted[w] <= RedisMax + Cardinality(Servers) * MemoryMax + Cardinality(Requests)

\* A counter never holds more than the requests that arrived in its own window:
\* nobody is refused for what another window, or a request that is still waiting,
\* has used up.
CountsOwnWindow ==
    \A w \in Windows :
        counter[w].count + Cardinality({r \in Requests : request[r].waits
                                          /\ request[r].at \div WindowTime = w})
            <= arrived[w]
=============================================================================
