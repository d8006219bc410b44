----------------------------- MODULE ServiceProofs -----------------------------
(***************************************************************************)
(* Theorems about the rate limiter, for any servers, windows and limits,   *)
(* about the vault's watcher, for any paths and changes, and about the     *)
(* module that composes the services: a run of it is a run of each of      *)
(* them, so that what is proved of a service holds of the run.             *)
(***************************************************************************)
EXTENDS MCServices, ProcessingProofs, CommerceProofs, CircuitBreakerProofs, SequenceTheorems

-----------------------------------------------------------------------------
(* The rate limiter's counter.                                             *)

WaitingIn(w) == {r \in Requests : request[r].waits /\ request[r].at \div WindowTime = w}

CountersTyped ==
    /\ counter \in [Windows -> [count : Nat, expires : Nat]]
    /\ request \in [Requests -> [waits : BOOLEAN, server : Servers, at : Times]]
    /\ arrived \in [Windows -> Nat] /\ now \in Times

CounterInv == CountersTyped /\ CountsOwnWindow

LEMMA WaitingSizes ==
    ASSUME NEW w
    PROVE  /\ IsFiniteSet(WaitingIn(w)) /\ IsFiniteSet(WaitingIn(w)')
           /\ Cardinality(WaitingIn(w)) \in Nat /\ Cardinality(WaitingIn(w)') \in Nat
<1>1. WaitingIn(w) \subseteq Requests /\ WaitingIn(w)' \subseteq Requests
  BY DEF WaitingIn
<1> QED BY <1>1, RateAssumption, FS_Subset, FS_CardinalityType

LEMMA CounterStart == RateInit => CounterInv
<1> SUFFICES ASSUME RateInit PROVE CounterInv
  OBVIOUS
<1>1. NoRequest \in [waits : BOOLEAN, server : Servers, at : Times]
  BY RateAssumption DEF NoRequest, Times
<1>2. CountersTyped
  BY <1>1, RateAssumption DEF RateInit, CountersTyped, Times
<1>3. ASSUME NEW w \in Windows
      PROVE  counter[w].count + Cardinality(WaitingIn(w)) <= arrived[w]
  <2>1. WaitingIn(w) = {}
    BY DEF RateInit, WaitingIn, NoRequest
  <2> QED BY <2>1, FS_EmptySet DEF RateInit
<1> QED BY <1>2, <1>3 DEF CounterInv, CountsOwnWindow, WaitingIn

(* A request that is counted, or that Redis fails to answer, stops waiting. *)
LEMMA HitCounts ==
    ASSUME CounterInv, NEW r \in Requests, request[r].waits,
           request' = [request EXCEPT ![r] = NoRequest],
           counter' \in {counter, Hit(WindowOf(request[r].at))},
           UNCHANGED <<now, arrived>>
    PROVE  CounterInv'
<1>1. /\ counter \in [Windows -> [count : Nat, expires : Nat]]
      /\ request \in [Requests -> [waits : BOOLEAN, server : Servers, at : Times]]
      /\ arrived \in [Windows -> Nat] /\ now \in Nat /\ now \in Times
  BY DEF CounterInv, CountersTyped, Times
<1>2. NoRequest \in [waits : BOOLEAN, server : Servers, at : Times] /\ ~NoRequest.waits
  BY RateAssumption DEF NoRequest, Times
<1>3. ASSUME NEW w \in Windows PROVE Live(w) \in Nat /\ Live(w) <= counter[w].count
  BY <1>1 DEF Live
<1>4. ASSUME NEW w \in Windows
      PROVE  /\ Hit(w) \in [Windows -> [count : Nat, expires : Nat]]
             /\ Hit(w)[w].count <= counter[w].count + 1
             /\ \A v \in Windows \ {w} : Hit(w)[v] = counter[v]
  <2>1. Expiry \in Nat
    BY <1>1, RateAssumption DEF Expiry
  <2> QED BY <1>1, <1>3, <2>1 DEF Hit
<1>5. ASSUME NEW w, w \notin Windows PROVE Hit(w) = counter
  BY <1>1, <1>5 DEF Hit
<1>6. CountersTyped'
  <2>1. counter' \in [Windows -> [count : Nat, expires : Nat]]
    BY <1>1, <1>4, <1>5
  <2> QED BY <1>1, <1>2, <2>1 DEF CountersTyped
<1>7. ASSUME NEW w \in Windows
      PROVE  counter'[w].count + Cardinality(WaitingIn(w)') <= arrived'[w]
  <2>1. /\ counter[w].count \in Nat /\ counter'[w].count \in Nat /\ arrived[w] \in Nat
        /\ counter[w].count + Cardinality(WaitingIn(w)) <= arrived[w]
    BY <1>1, <1>6 DEF CounterInv, CountsOwnWindow, WaitingIn, CountersTyped
  <2>2. WaitingIn(w)' = WaitingIn(w) \ {r}
    BY <1>1, <1>2 DEF WaitingIn
  <2>3. CASE WindowOf(request[r].at) = w
    <3>1. r \in WaitingIn(w)
      BY <2>3 DEF WaitingIn, WindowOf
    <3>2. Cardinality(WaitingIn(w)') = Cardinality(WaitingIn(w)) - 1
      BY <2>2, <3>1, WaitingSizes, FS_RemoveElement
    <3>3. counter'[w].count <= counter[w].count + 1
      BY <1>1, <1>4, <2>1, <2>3
    <3> QED BY <2>1, <3>2, <3>3, WaitingSizes
  <2>4. CASE WindowOf(request[r].at) # w
    <3>1. r \notin WaitingIn(w)
      BY <2>4 DEF WaitingIn, WindowOf
    <3>2. WaitingIn(w)' = WaitingIn(w)
      BY <2>2, <3>1
    <3>3. counter'[w] = counter[w]
      BY <1>4, <1>5, <2>4
    <3> QED BY <2>1, <3>2, <3>3
  <2> QED BY <2>3, <2>4
<1> QED BY <1>6, <1>7 DEF CounterInv, CountsOwnWindow, WaitingIn

LEMMA CounterStep == CounterInv /\ [RateNext]_rateVars => CounterInv'
<1> SUFFICES ASSUME CounterInv, [RateNext]_rateVars PROVE CounterInv'
  OBVIOUS
<1>a. /\ CountersTyped /\ arrived \in [Windows -> Nat]
      /\ request \in [Requests -> [waits : BOOLEAN, server : Servers, at : Times]]
      /\ \A w \in Windows : /\ counter[w].count \in Nat
                            /\ counter[w].count + Cardinality(WaitingIn(w)) <= arrived[w]
  BY DEF CounterInv, CountersTyped, CountsOwnWindow, WaitingIn
<1>b. Arrival => /\ arrived' \in [Windows -> Nat]
                 /\ \A w \in Windows :
                      arrived'[w] = IF w = now \div WindowTime THEN arrived[w] + 1 ELSE arrived[w]
  <2> SUFFICES ASSUME Arrival
               PROVE  /\ arrived' \in [Windows -> Nat]
                      /\ \A w \in Windows :
                           arrived'[w] = IF w = now \div WindowTime THEN arrived[w] + 1 ELSE arrived[w]
    OBVIOUS
  <2> DEFINE here == now \div WindowTime
  <2>1. arrived' = [arrived EXCEPT ![here] = @ + 1]
    BY DEF Arrival
  <2> HIDE DEF here
  <2>2. /\ arrived' \in [Windows -> Nat]
        /\ \A w \in Windows : arrived'[w] = IF w = here THEN arrived[w] + 1 ELSE arrived[w]
    <3>1. CASE here \in Windows
      <4>1. arrived[here] + 1 \in Nat
        BY <1>a, <3>1
      <4> QED BY <1>a, <2>1, <3>1, <4>1
    <3>2. CASE here \notin Windows
      <4>1. arrived' = arrived
        BY <1>a, <2>1, <3>2
      <4> QED BY <1>a, <3>2, <4>1
    <3> QED BY <3>1, <3>2
  <2> QED BY <2>2 DEF here
<1>1. ASSUME NEW s \in Servers, ArriveInCooldown(s) PROVE CounterInv'
  <2>1. Arrival /\ UNCHANGED <<now, counter, request>>
    BY <1>1 DEF ArriveInCooldown
  <2>2. CountersTyped'
    BY <1>a, <1>b, <2>1 DEF CountersTyped
  <2>3. ASSUME NEW w \in Windows
        PROVE  counter'[w].count + Cardinality(WaitingIn(w)') <= arrived'[w]
    <3>1. WaitingIn(w)' = WaitingIn(w) /\ counter'[w].count = counter[w].count
      BY <2>1 DEF WaitingIn
    <3>2. arrived[w] \in Nat /\ arrived[w] <= arrived'[w]
      BY <1>a, <1>b, <2>1
    <3> QED BY <1>a, <1>b, <2>1, <3>1, <3>2, WaitingSizes
  <2> QED BY <2>2, <2>3 DEF CounterInv, CountsOwnWindow, WaitingIn
<1>2. ASSUME NEW s \in Servers, NEW r \in Requests, ArriveAtRedis(s, r) PROVE CounterInv'
  <2>1. /\ Arrival /\ ~request[r].waits /\ UNCHANGED <<now, counter>>
        /\ request' = [request EXCEPT ![r] = [waits |-> TRUE, server |-> s, at |-> now]]
    BY <1>2 DEF ArriveAtRedis
  <2>2. CountersTyped'
    BY <1>a, <1>b, <2>1 DEF CountersTyped
  <2>3. ASSUME NEW w \in Windows
        PROVE  counter'[w].count + Cardinality(WaitingIn(w)') <= arrived'[w]
    <3>1. arrived[w] \in Nat /\ counter'[w].count = counter[w].count
      BY <1>a, <2>1
    <3>2. CASE w = now \div WindowTime
      <4>1. WaitingIn(w)' = WaitingIn(w) \cup {r} /\ r \notin WaitingIn(w)
        BY <1>a, <2>1, <3>2 DEF WaitingIn
      <4>2. Cardinality(WaitingIn(w)') = Cardinality(WaitingIn(w)) + 1
        BY <4>1, WaitingSizes, FS_AddElement
      <4>3. arrived'[w] = arrived[w] + 1
        BY <1>b, <2>1, <3>2
      <4> QED BY <1>a, <3>1, <4>2, <4>3, WaitingSizes
    <3>3. CASE w # now \div WindowTime
      <4>1. WaitingIn(w)' = WaitingIn(w)
        BY <1>a, <2>1, <3>3 DEF WaitingIn
      <4>2. arrived'[w] = arrived[w]
        BY <1>b, <2>1, <3>3
      <4> QED BY <1>a, <3>1, <4>1, <4>2
    <3> QED BY <3>2, <3>3
  <2> QED BY <2>2, <2>3 DEF CounterInv, CountsOwnWindow, WaitingIn
<1>3. ASSUME NEW r \in Requests, Answered(r) PROVE CounterInv'
  <2>1. /\ request[r].waits /\ request' = [request EXCEPT ![r] = NoRequest]
        /\ counter' = Hit(WindowOf(request[r].at)) /\ UNCHANGED <<now, arrived>>
    BY <1>3 DEF Answered
  <2> QED BY <2>1, HitCounts
<1>4. ASSUME NEW r \in Requests, RedisFails(r) PROVE CounterInv'
  <2>1. /\ request[r].waits /\ request' = [request EXCEPT ![r] = NoRequest]
        /\ counter' \in {counter, Hit(WindowOf(request[r].at))} /\ UNCHANGED <<now, arrived>>
    BY <1>4 DEF RedisFails
  <2> QED BY <2>1, HitCounts
<1>5. CASE Tick \/ UNCHANGED rateVars
  <2>1. UNCHANGED <<counter, request, arrived>>
    BY <1>5 DEF Tick, rateVars
  <2>2. now' \in Times
    BY <1>5, <1>a, RateAssumption DEF Tick, rateVars, CountersTyped, Times
  <2>3. CountersTyped'
    BY <1>a, <2>1, <2>2 DEF CountersTyped
  <2>4. \A w \in Windows : WaitingIn(w)' = WaitingIn(w)
    BY <2>1 DEF WaitingIn
  <2>5. \A w \in Windows : counter'[w].count + Cardinality(WaitingIn(w)') <= arrived'[w]
    BY <1>a, <2>1, <2>4
  <2> QED BY <2>3, <2>5 DEF CounterInv, CountsOwnWindow, WaitingIn
<1> QED BY <1>1, <1>2, <1>3, <1>4, <1>5 DEF RateNext

(* Whatever Redis forgets, answers late or fails to answer, a window's      *)
(* counter and the requests that wait to be counted never exceed the        *)
(* requests of that window (RateLimitMiddleware.dispatch).                  *)
THEOREM WindowsKeepTheirCount == RateSpec => []CountsOwnWindow
<1>1. CounterInv => CountsOwnWindow
  BY DEF CounterInv
<1> QED BY <1>1, CounterStart, CounterStep, PTL DEF RateSpec

-----------------------------------------------------------------------------
(* How many requests of one window get through.                            *)

(* Division into windows keeps the order, and a window ends before the next *)
(* one begins.                                                              *)
LEMMA WindowBounds ==
    ASSUME NEW t \in Nat
    PROVE  /\ t \div WindowTime \in Nat
           /\ WindowTime * (t \div WindowTime) <= t
           /\ t < WindowTime * (t \div WindowTime) + WindowTime
BY RateAssumption

LEMMA WindowsInOrder ==
    ASSUME NEW t \in Nat, NEW u \in Nat, t <= u
    PROVE  t \div WindowTime <= u \div WindowTime
<1> DEFINE v == t \div WindowTime
           w == u \div WindowTime
<1>1. v \in Nat /\ w \in Nat /\ WindowTime * v <= t /\ u < WindowTime * w + WindowTime
  BY WindowBounds
<1> HIDE DEF v, w
<1>2. WindowTime * v < WindowTime * (w + 1)
  BY <1>1, RateAssumption
<1>3. v < w + 1
  BY <1>1, <1>2, RateAssumption
<1>4. v <= w
  BY <1>1, <1>3
<1> QED BY <1>4 DEF v, w

LEMMA WindowsOrdered ==
    ASSUME NEW v \in Nat, NEW w \in Nat, v <= w
    PROVE  WindowTime * v <= WindowTime * w
BY RateAssumption

LEMMA TimesHaveWindows ==
    /\ Times \subseteq Nat /\ Windows \subseteq Nat
    /\ \A t \in Times : t \div WindowTime \in Windows
<1>1. MaxTime \in Nat /\ MaxTime \div WindowTime \in Nat
  BY RateAssumption, WindowBounds
<1>2. Times \subseteq Nat /\ Windows \subseteq Nat
  BY <1>1 DEF Times, Windows
<1>3. ASSUME NEW t \in Times PROVE t \div WindowTime \in Windows
  <2>1. t \in Nat /\ t <= MaxTime
    BY <1>1 DEF Times
  <2>2. t \div WindowTime \in Nat /\ t \div WindowTime <= MaxTime \div WindowTime
    BY <1>1, <2>1, WindowBounds, WindowsInOrder
  <2> QED BY <1>1, <2>2 DEF Windows
<1> QED BY <1>2, <1>3

\* The places of the deques that hold a request of window w.
Slots(w) ==
    {p \in Servers \X (1..MemoryMax) :
        p[2] <= Len(recent[p[1]]) /\ recent[p[1]][p[2]] \div WindowTime = w}

MemoryTyped ==
    /\ recent \in [Servers -> Seq(Times)] /\ \A s \in Servers : Len(recent[s]) <= MemoryMax
    /\ admitted \in [Windows -> Nat] /\ cooldownEnd \in [Servers -> Nat]

\* A key that has counted outlives its window.
KeysLast ==
    \A w \in Windows : counter[w].count > 0 => WindowTime * w + WindowTime < counter[w].expires

RequestsPast == \A r \in Requests : request[r].waits => request[r].at <= now

\* Until a window is over, Redis has let through no more than it counted or allows,
\* and the deques still hold all that memory let through.
InWindow ==
    \A w \in Windows : now \div WindowTime <= w =>
        /\ admitted[w] <= counter[w].count + Cardinality(Slots(w))
        /\ admitted[w] <= RedisMax + Cardinality(Slots(w))

\* Afterwards nothing is let through but what was waiting at its end.
AfterWindow ==
    \A w \in Windows : w < now \div WindowTime =>
        admitted[w] + Cardinality(WaitingIn(w))
            <= RedisMax + Cardinality(Servers) * MemoryMax + Cardinality(Requests)

LimitInv == CounterInv /\ MemoryTyped /\ KeysLast /\ RequestsPast /\ InWindow /\ AfterWindow

LEMMA SlotSizes ==
    ASSUME NEW w
    PROVE  /\ IsFiniteSet(Slots(w)) /\ Cardinality(Slots(w)) \in Nat
           /\ Cardinality(Slots(w)) <= Cardinality(Servers) * MemoryMax
           /\ IsFiniteSet(Slots(w)') /\ Cardinality(Slots(w)') \in Nat
           /\ RedisMax \in Nat /\ Cardinality(Servers) * MemoryMax \in Nat
           /\ Cardinality(Requests) \in Nat
           /\ Cardinality(WaitingIn(w)) <= Cardinality(Requests)
<1> DEFINE Places == Servers \X (1..MemoryMax)
<1>1. /\ IsFiniteSet(Servers) /\ IsFiniteSet(Requests) /\ MemoryMax \in Nat /\ RedisMax \in Nat
  BY RateAssumption
<1>2. IsFiniteSet(1..MemoryMax) /\ Cardinality(1..MemoryMax) = MemoryMax
  BY <1>1, FS_Interval
<1>3. IsFiniteSet(Places) /\ Cardinality(Places) = Cardinality(Servers) * MemoryMax
  BY <1>1, <1>2, FS_Product
<1>4. Slots(w) \in SUBSET Places /\ Slots(w)' \in SUBSET Places
  BY DEF Slots
<1>5. WaitingIn(w) \in SUBSET Requests
  BY DEF WaitingIn
<1> HIDE DEF Places
<1>6. Cardinality(Slots(w)) <= Cardinality(Places) /\ IsFiniteSet(Slots(w)) /\ IsFiniteSet(Slots(w)')
  BY <1>3, <1>4, FS_Subset
<1>7. Cardinality(WaitingIn(w)) <= Cardinality(Requests)
  BY <1>1, <1>5, FS_Subset
<1>8. /\ Cardinality(Slots(w)) \in Nat /\ Cardinality(Slots(w)') \in Nat
      /\ Cardinality(Requests) \in Nat /\ Cardinality(Servers) \in Nat
  BY <1>1, <1>6, FS_CardinalityType
<1>9. Cardinality(Servers) * MemoryMax \in Nat
  BY <1>1, <1>8
<1> QED BY <1>1, <1>3, <1>6, <1>7, <1>8, <1>9

(* A request that memory decides takes no younger window's request out of   *)
(* its deque, and one that is let through is put there.                     *)
LEMMA MemoryDecides ==
    ASSUME MemoryTyped, NEW s \in Servers, NEW t \in Times, CheckMemory(s, t)
    PROVE  /\ recent' \in [Servers -> Seq(Times)] /\ \A q \in Servers : Len(recent'[q]) <= MemoryMax
           /\ admitted' \in [Windows -> Nat]
           /\ \A w \in Windows :
                /\ admitted'[w] = admitted[w] \/ (w = t \div WindowTime /\ admitted'[w] = admitted[w] + 1)
                /\ t \div WindowTime <= w =>
                     admitted'[w] + Cardinality(Slots(w)) <= admitted[w] + Cardinality(Slots(w)')
<1> USE DEF MemoryTyped
<1> DEFINE dq == recent[s]
           n == Len(dq)
           stale == {i \in DOMAIN dq : \A j \in 1..i : dq[j] + WindowTime < t}
           k == Cardinality(stale)
           kept == SubSeq(dq, k + 1, n)
           through == ~Full(kept)
           after == IF through THEN Append(kept, t) ELSE kept
<1>1. /\ dq \in Seq(Times) /\ n \in Nat /\ n <= MemoryMax /\ DOMAIN dq = 1..n
      /\ MemoryMax \in Nat /\ \A i \in 1..n : dq[i] \in Times
  BY RateAssumption, ElementOfSeq
<1> HIDE DEF dq, n
<1>2. IsFiniteSet(1..n) /\ Cardinality(1..n) = n
  <2>1. Cardinality(1..n) = IF 1 > n THEN 0 ELSE n - 1 + 1
    BY <1>1, FS_Interval
  <2> QED BY <1>1, <2>1, FS_Interval
<1>3. IsFiniteSet(stale) /\ k \in Nat /\ k <= n
  <2>1. stale \in SUBSET (1..n)
    BY <1>1
  <2> QED BY <1>2, <2>1, FS_Subset, FS_CardinalityType
<1>4. ASSUME NEW i \in 1..n, t \div WindowTime <= dq[i] \div WindowTime PROVE k < i
  <2>1. dq[i] \in Nat /\ t \in Nat /\ i \in Nat /\ WindowTime \in Nat
    <3>1. dq[i] \in Times /\ t \in Times /\ Times \subseteq Nat
      BY <1>1, TimesHaveWindows
    <3>2. i \in Nat
      BY <1>1
    <3> QED BY <3>1, <3>2, RateAssumption
  <2>2. ~(dq[i] + WindowTime < t)
    <3> DEFINE v == t \div WindowTime
               w == dq[i] \div WindowTime
               x == dq[i]
    <3>1. /\ v \in Nat /\ w \in Nat /\ WindowTime * w <= x /\ t < WindowTime * v + WindowTime
          /\ v <= w
      BY <1>4, <2>1, WindowBounds
    <3>2. WindowTime * v <= WindowTime * w
      BY <3>1, WindowsOrdered
    <3> DEFINE vv == WindowTime * v
               ww == WindowTime * w
    <3>3. vv \in Int /\ ww \in Int /\ ww <= x /\ t < vv + WindowTime /\ vv <= ww
      BY <2>1, <3>1, <3>2
    <3> HIDE DEF vv, ww, v, w, x
    <3>4. ~(x + WindowTime < t)
      BY <2>1, <3>3 DEF x
    <3> QED BY <3>4 DEF x
  <2>3. \A m \in stale : m \in Nat /\ 1 <= m /\ ~(i <= m)
    BY <1>1, <2>1, <2>2
  <2>4. stale \in SUBSET (1..i - 1)
    BY <2>1, <2>3
  <2> DEFINE last == i - 1
  <2>5. last \in Nat /\ stale \in SUBSET (1..last) /\ last + 1 = i
    BY <2>1, <2>4
  <2> HIDE DEF last, stale
  <2>6. IsFiniteSet(1..last) /\ Cardinality(1..last) = last
    <3>1. Cardinality(1..last) = IF 1 > last THEN 0 ELSE last - 1 + 1
      BY <2>5, FS_Interval
    <3> QED BY <2>5, <3>1, FS_Interval
  <2>7. k <= last
    BY <2>5, <2>6, FS_Subset DEF k
  <2> QED BY <1>3, <2>1, <2>5, <2>7
<1> HIDE DEF stale, k
<1>5. kept \in Seq(Times) /\ Len(kept) = n - k /\ \A i \in 1..n - k : kept[i] = dq[i + k]
  <2>1. k + 1 \in Int /\ n \in Int /\ \A i \in k + 1..n : dq[i] \in Times
    BY <1>1, <1>3
  <2>2. /\ kept \in Seq(Times)
        /\ Len(kept) = IF k + 1 <= n THEN n - (k + 1) + 1 ELSE 0
        /\ \A i \in 1..n - (k + 1) + 1 : kept[i] = dq[k + 1 + i - 1]
    BY <2>1, SubSeqProperties
  <2> HIDE DEF kept
  <2>3. \A i \in 1..n - k : i \in 1..n - (k + 1) + 1 /\ k + 1 + i - 1 = i + k
    BY <1>1, <1>3
  <2> QED BY <1>1, <1>3, <2>2, <2>3
<1>6. /\ recent' = [recent EXCEPT ![s] = after]
      /\ IF through THEN Admit(t) ELSE Refuse
  BY DEF CheckMemory, Kept, stale, k, dq, n
<1> HIDE DEF kept
<1>7. /\ after \in Seq(Times) /\ Len(after) = IF through THEN n - k + 1 ELSE n - k
      /\ \A i \in 1..n - k : after[i] = dq[i + k]
      /\ through => after[n - k + 1] = t
  <2>1. CASE through
    <3>1. /\ Append(kept, t) \in Seq(Times) /\ Len(Append(kept, t)) = Len(kept) + 1
          /\ \A i \in 1..Len(kept) : Append(kept, t)[i] = kept[i]
          /\ Append(kept, t)[Len(kept) + 1] = t
      BY <1>5, AppendProperties
    <3> QED BY <1>5, <2>1, <3>1
  <2>2. CASE ~through
    BY <1>5, <2>2
  <2> QED BY <2>1, <2>2
<1>8. Len(after) <= MemoryMax /\ Len(after) \in Nat
  <2>1. through => n - k < MemoryMax
    BY <1>1, <1>3, <1>5 DEF Full
  <2>2. Len(after) = IF through THEN n - k + 1 ELSE n - k
    BY <1>7
  <2> HIDE DEF after, through
  <2> QED BY <1>1, <1>3, <2>1, <2>2
<1> HIDE DEF after, through
<1>9. /\ recent' \in [Servers -> Seq(Times)] /\ \A q \in Servers : Len(recent'[q]) <= MemoryMax
      /\ recent'[s] = after /\ \A q \in Servers \ {s} : recent'[q] = recent[q]
  BY <1>6, <1>7, <1>8
<1>10. /\ admitted' \in [Windows -> Nat]
       /\ \A w \in Windows :
            admitted'[w] = IF through /\ w = t \div WindowTime THEN admitted[w] + 1 ELSE admitted[w]
  <2> DEFINE here == t \div WindowTime
  <2>1. here \in Windows
    BY TimesHaveWindows
  <2>2. admitted' = IF through THEN [admitted EXCEPT ![here] = @ + 1] ELSE admitted
    BY <1>6 DEF Admit, Refuse
  <2> HIDE DEF here
  <2>3. admitted[here] + 1 \in Nat
    BY <2>1
  <2>4. /\ admitted' \in [Windows -> Nat]
        /\ \A w \in Windows :
             admitted'[w] = IF through /\ w = here THEN admitted[w] + 1 ELSE admitted[w]
    BY <2>1, <2>2, <2>3
  <2> QED BY <2>4 DEF here
<1>11. ASSUME NEW w \in Windows, t \div WindowTime <= w
       PROVE  admitted'[w] + Cardinality(Slots(w)) <= admitted[w] + Cardinality(Slots(w)')
  <2> DEFINE shift == [p \in Slots(w) |-> IF p[1] = s THEN <<s, p[2] - k>> ELSE p]
             added == IF through /\ w = t \div WindowTime THEN {<<s, n - k + 1>>} ELSE {}
             Rest == Slots(w)' \ added
  <2>1. ASSUME NEW p \in Slots(w)
        PROVE  /\ p \in Servers \X (1..MemoryMax) /\ p[1] \in Servers /\ p[2] \in Nat /\ p[2] >= 1
               /\ p[2] <= Len(recent[p[1]]) /\ recent[p[1]][p[2]] \div WindowTime = w
               /\ p = <<p[1], p[2]>>
               /\ p[1] = s => k < p[2] /\ p[2] <= n
    <3>1. p \in Servers \X (1..MemoryMax) /\ p[2] <= Len(recent[p[1]])
          /\ recent[p[1]][p[2]] \div WindowTime = w
      BY DEF Slots
    <3>2. p[1] \in Servers /\ p[2] \in Nat /\ p[2] >= 1 /\ p = <<p[1], p[2]>>
      BY <1>1, <3>1
    <3>3. p[1] = s => k < p[2] /\ p[2] <= n
      <4> SUFFICES ASSUME p[1] = s PROVE k < p[2] /\ p[2] <= n
        OBVIOUS
      <4>1. p[2] <= n /\ dq[p[2]] \div WindowTime = w
        BY <3>1 DEF n, dq
      <4>2. p[2] \in 1..n
        BY <1>1, <3>2, <4>1
      <4> QED BY <1>4, <1>11, <4>1, <4>2
    <3> QED BY <3>1, <3>2, <3>3
  <2>2. ASSUME NEW p \in Slots(w) PROVE shift[p] \in Rest
    <3>1. CASE p[1] = s
      <4>1. /\ p[2] - k \in 1..n - k /\ p[2] - k \in 1..MemoryMax /\ p[2] - k <= Len(after)
            /\ after[p[2] - k] = dq[p[2]] /\ p[2] - k # n - k + 1
        <5>1. p[2] \in Nat /\ k < p[2] /\ p[2] <= n
          BY <2>1, <3>1
        <5>2. p[2] - k \in 1..n - k /\ p[2] - k \in 1..MemoryMax /\ p[2] - k # n - k + 1
          BY <1>1, <1>3, <5>1
        <5>3. after[p[2] - k] = dq[p[2] - k + k] /\ p[2] - k + k = p[2]
          <6>1. after[p[2] - k] = dq[p[2] - k + k]
            BY <1>7, <5>2
          <6> QED BY <1>3, <5>1, <6>1
        <5>4. p[2] - k <= Len(after)
          BY <1>1, <1>3, <1>7, <5>1
        <5> QED BY <5>2, <5>3, <5>4
      <4>2. <<s, p[2] - k>> \in Slots(w)'
        <5>1. dq[p[2]] \div WindowTime = w
          BY <2>1, <3>1 DEF dq
        <5> QED BY <1>9, <4>1, <5>1 DEF Slots
      <4>3. <<s, p[2] - k>> \notin added
        BY <4>1
      <4> QED BY <3>1, <4>2, <4>3
    <3>2. CASE p[1] # s
      <4>1. p \in Slots(w)'
        BY <1>9, <2>1, <3>2 DEF Slots
      <4>2. p \notin added
        BY <3>2
      <4> QED BY <3>2, <4>1, <4>2
    <3> QED BY <3>1, <3>2
  <2>3. ASSUME NEW p \in Slots(w), NEW q \in Slots(w), shift[p] = shift[q] PROVE p = q
    <3>1. CASE p[1] = s /\ q[1] = s
      <4>1. <<s, p[2] - k>> = <<s, q[2] - k>>
        BY <2>3, <3>1
      <4>2. p[2] - k = q[2] - k
        BY <4>1
      <4>3. p[2] = q[2]
        BY <1>3, <2>1, <4>2
      <4> QED BY <2>1, <3>1, <4>3
    <3>2. CASE p[1] # s /\ q[1] # s
      BY <2>3, <3>2
    <3>3. CASE p[1] = s /\ q[1] # s
      BY <2>3, <3>3
    <3>4. CASE p[1] # s /\ q[1] = s
      BY <2>3, <3>4
    <3> QED BY <3>1, <3>2, <3>3, <3>4
  <2>4. shift \in Injection(Slots(w), Rest)
    BY <2>2, <2>3 DEF Injection, IsInjective
  <2>5. IsFiniteSet(Slots(w)') /\ IsFiniteSet(added) /\ Cardinality(Slots(w)') \in Nat
        /\ Cardinality(Slots(w)) \in Nat
    BY SlotSizes, FS_EmptySet, FS_Singleton
  <2>6. added \subseteq Slots(w)'
    <3> SUFFICES ASSUME through, w = t \div WindowTime PROVE <<s, n - k + 1>> \in Slots(w)'
      OBVIOUS
    <3>1. n - k + 1 \in 1..MemoryMax /\ Len(after) = n - k + 1 /\ after[n - k + 1] = t
      <4>1. Len(after) = n - k + 1 /\ after[n - k + 1] = t
        BY <1>7
      <4> QED BY <1>1, <1>3, <1>8, <4>1
    <3> QED BY <1>9, <3>1 DEF Slots
  <2> HIDE DEF shift
  <2>7. IsFiniteSet(Rest) /\ Cardinality(Slots(w)) <= Cardinality(Rest)
    <3>1. IsFiniteSet(Rest)
      BY <2>5, FS_Difference
    <3> HIDE DEF Rest
    <3> QED BY <2>4, <3>1, FS_Injection
  <2>8. CASE through /\ w = t \div WindowTime
    <3>1. Rest = Slots(w)' \ {<<s, n - k + 1>>} /\ <<s, n - k + 1>> \in Slots(w)'
      BY <2>6, <2>8
    <3>2. Cardinality(Rest) = Cardinality(Slots(w)') - 1
      <4> DEFINE here == Slots(w)'
                 place == <<s, n - k + 1>>
      <4>1. IsFiniteSet(here) /\ place \in here /\ Rest = here \ {place}
        BY <2>5, <3>1
      <4> HIDE DEF here, place, Rest
      <4>2. Cardinality(Rest) = Cardinality(here) - 1
        BY <4>1, FS_RemoveElement
      <4> QED BY <4>2 DEF here
    <3>3. admitted'[w] = admitted[w] + 1 /\ admitted[w] \in Nat
      BY <1>10, <2>8
    <3> HIDE DEF Rest
    <3> QED BY <2>5, <2>7, <3>2, <3>3
  <2>9. CASE ~(through /\ w = t \div WindowTime)
    <3>1. Rest = Slots(w)'
      BY <2>9
    <3>2. admitted'[w] = admitted[w] /\ admitted[w] \in Nat
      BY <1>10, <2>9
    <3> HIDE DEF Rest
    <3> QED BY <2>5, <2>7, <3>1, <3>2
  <2> QED BY <2>8, <2>9
<1>12. /\ recent' \in [Servers -> Seq(Times)] /\ \A q \in Servers : Len(recent'[q]) <= MemoryMax
       /\ admitted' \in [Windows -> Nat]
  BY <1>9, <1>10
<1>13. \A w \in Windows :
         admitted'[w] = admitted[w] \/ (w = t \div WindowTime /\ admitted'[w] = admitted[w] + 1)
  <2> DEFINE here == t \div WindowTime
  <2>1. \A w \in Windows :
          admitted'[w] = IF through /\ w = here THEN admitted[w] + 1 ELSE admitted[w]
    BY <1>10
  <2> HIDE DEF here
  <2>2. \A w \in Windows : admitted'[w] = admitted[w] \/ (w = here /\ admitted'[w] = admitted[w] + 1)
    <3> SUFFICES ASSUME NEW w \in Windows
                 PROVE  admitted'[w] = admitted[w] \/ (w = here /\ admitted'[w] = admitted[w] + 1)
      OBVIOUS
    <3>1. CASE through /\ w = here
      BY <2>1, <3>1
    <3>2. CASE ~(through /\ w = here)
      BY <2>1, <3>2
    <3> QED BY <3>1, <3>2
  <2> QED BY <2>2 DEF here
<1> QED BY <1>11, <1>12, <1>13

LEMMA LimitStart == RateInit => LimitInv
<1> SUFFICES ASSUME RateInit PROVE LimitInv
  OBVIOUS
<1>1. CounterInv
  BY CounterStart
<1>2. MemoryTyped
  <2>1. <<>> \in Seq(Times) /\ Len(<<>>) = 0 /\ 0 <= MemoryMax
    BY RateAssumption
  <2> QED BY <2>1 DEF RateInit, MemoryTyped
<1>3. KeysLast /\ RequestsPast
  BY DEF RateInit, KeysLast, RequestsPast, NoRequest
<1>4. InWindow
  <2> SUFFICES ASSUME NEW w \in Windows
               PROVE  /\ admitted[w] <= counter[w].count + Cardinality(Slots(w))
                      /\ admitted[w] <= RedisMax + Cardinality(Slots(w))
    BY DEF InWindow
  <2>1. admitted[w] = 0 /\ counter[w].count = 0
    BY DEF RateInit
  <2> QED BY <2>1, SlotSizes
<1>5. AfterWindow
  <2> SUFFICES ASSUME NEW w \in Windows, w < now \div WindowTime PROVE FALSE
    BY DEF AfterWindow
  <2>1. now = 0 /\ w \in Nat
    BY TimesHaveWindows DEF RateInit
  <2>2. 0 \div WindowTime = 0
    BY RateAssumption
  <2> QED BY <2>1, <2>2
<1> QED BY <1>1, <1>2, <1>3, <1>4, <1>5 DEF LimitInv

LEMMA RateTyped ==
    ASSUME LimitInv
    PROVE  /\ counter \in [Windows -> [count : Nat, expires : Nat]]
           /\ request \in [Requests -> [waits : BOOLEAN, server : Servers, at : Times]]
           /\ now \in Times /\ now \in Nat /\ now \div WindowTime \in Windows
           /\ NoRequest \in [waits : BOOLEAN, server : Servers, at : Times] /\ ~NoRequest.waits
           /\ \A w \in Windows : /\ w \in Nat /\ admitted[w] \in Nat /\ counter[w].count \in Nat
                                 /\ counter[w].expires \in Nat
           /\ now \div WindowTime \in Nat
<1>1. /\ counter \in [Windows -> [count : Nat, expires : Nat]]
      /\ request \in [Requests -> [waits : BOOLEAN, server : Servers, at : Times]]
      /\ now \in Times /\ admitted \in [Windows -> Nat]
  BY DEF LimitInv, CounterInv, CountersTyped, MemoryTyped
<1>2. NoRequest \in [waits : BOOLEAN, server : Servers, at : Times] /\ ~NoRequest.waits
  BY RateAssumption DEF NoRequest, Times
<1> QED BY <1>1, <1>2, TimesHaveWindows

(* The key of a window that is not over holds all its hits.                 *)
LEMMA KeyIsLive ==
    ASSUME LimitInv, NEW w \in Windows, now \div WindowTime <= w
    PROVE  Live(w) = counter[w].count
<1>1. /\ w \in Nat /\ now \in Nat /\ counter[w].count \in Nat /\ counter[w].expires \in Nat
      /\ WindowTime \in Nat
  BY RateTyped, RateAssumption
<1> DEFINE v == now \div WindowTime
           vv == WindowTime * v
           ww == WindowTime * w
<1>2. v \in Nat /\ v <= w /\ now < vv + WindowTime
  BY <1>1, WindowBounds
<1>3. vv <= ww /\ vv \in Nat /\ ww \in Nat
  BY <1>1, <1>2, WindowsOrdered
<1>4. counter[w].count > 0 => ww + WindowTime < counter[w].expires
  BY DEF LimitInv, KeysLast
<1> HIDE DEF vv, ww, v
<1>5. counter[w].count > 0 => now < counter[w].expires
  BY <1>1, <1>2, <1>3, <1>4
<1> QED BY <1>1, <1>5 DEF Live

(* A hit keeps the key's promise: it counts once and lasts.                 *)
LEMMA HitLasts ==
    ASSUME LimitInv, NEW r \in Requests, request[r].waits
    PROVE  /\ LET u == WindowOf(request[r].at)
              IN /\ u \in Windows /\ u <= now \div WindowTime
                 /\ \A w \in Windows \ {u} : Hit(u)[w] = counter[w]
                 /\ Hit(u)[u].count = Live(u) + 1 /\ Live(u) \in Nat
                 /\ WindowTime * u + WindowTime < Hit(u)[u].expires
<1> DEFINE t == request[r].at
           u == t \div WindowTime
<1>1. t \in Times /\ t \in Nat /\ now \in Nat /\ t <= now /\ WindowTime \in Nat
  BY RateTyped, TimesHaveWindows, RateAssumption DEF LimitInv, RequestsPast
<1>2. u \in Windows /\ u <= now \div WindowTime /\ u \in Nat
  BY <1>1, TimesHaveWindows, WindowsInOrder
<1>3. WindowTime * u <= t
  BY <1>1, WindowBounds
<1>4. Live(u) \in Nat
  BY <1>2, RateTyped DEF Live
<1>5. /\ Hit(u)[u] = [count |-> Live(u) + 1, expires |-> Expiry]
      /\ \A w \in Windows \ {u} : Hit(u)[w] = counter[w]
  BY <1>2, RateTyped DEF Hit
<1> DEFINE uu == WindowTime * u
<1>6. uu \in Nat /\ uu <= t
  BY <1>1, <1>2, <1>3
<1> HIDE DEF uu, u, t
<1>7. uu + WindowTime < Expiry
  BY <1>1, <1>6 DEF Expiry
<1> QED BY <1>2, <1>4, <1>5, <1>7 DEF uu, u, t, WindowOf

(* An answer or a failure of Redis: the request stops waiting, and if it    *)
(* is let through, that is counted or remembered.                           *)
LEMMA RedisStep ==
    ASSUME LimitInv, NEW r \in Requests, Answered(r) \/ RedisFails(r)
    PROVE  LimitInv'
<1> DEFINE t == request[r].at
           u == t \div WindowTime
<1>1. /\ request[r].waits /\ request' = [request EXCEPT ![r] = NoRequest]
      /\ counter' \in {counter, Hit(u)} /\ now' = now /\ arrived' = arrived
  BY DEF Answered, RedisFails, WindowOf
<1>2. /\ u \in Windows /\ u <= now \div WindowTime /\ Live(u) \in Nat
      /\ \A w \in Windows \ {u} : Hit(u)[w] = counter[w]
      /\ Hit(u)[u].count = Live(u) + 1
      /\ WindowTime * u + WindowTime < Hit(u)[u].expires
  BY <1>1, HitLasts DEF WindowOf
<1>3. CounterInv'
  BY CounterStep DEF LimitInv, RateNext
<1>4. t \in Times /\ request[r].server \in Servers
  BY RateTyped
<1> HIDE DEF t, u
<1>5. MemoryTyped'
  <2>1. CASE Answered(r)
    <3>1. /\ recent' = recent /\ cooldownEnd' = cooldownEnd
          /\ admitted' = admitted \/ admitted' = [admitted EXCEPT ![u] = @ + 1]
      BY <2>1 DEF Answered, Admit, Refuse, t, u
    <3>2. admitted' \in [Windows -> Nat]
      BY <1>2, <3>1 DEF LimitInv, MemoryTyped
    <3> QED BY <3>1, <3>2 DEF LimitInv, MemoryTyped
  <2>2. CASE RedisFails(r)
    <3>1. CheckMemory(request[r].server, t)
          /\ cooldownEnd' = [cooldownEnd EXCEPT ![request[r].server] = now + Cooldown]
      BY <2>2 DEF RedisFails, t
    <3>2. now + Cooldown \in Nat
      BY RateTyped, RateAssumption
    <3>3. cooldownEnd' \in [Servers -> Nat]
      BY <3>1, <3>2 DEF LimitInv, MemoryTyped
    <3>4. /\ recent' \in [Servers -> Seq(Times)] /\ \A q \in Servers : Len(recent'[q]) <= MemoryMax
          /\ admitted' \in [Windows -> Nat]
      BY <1>4, <3>1, MemoryDecides DEF LimitInv
    <3> QED BY <3>3, <3>4 DEF MemoryTyped
  <2> QED BY <2>1, <2>2
<1>6. KeysLast'
  BY <1>1, <1>2 DEF LimitInv, KeysLast
<1>7. /\ request'[r].waits = FALSE /\ \A q \in Requests \ {r} : request'[q] = request[q]
  BY <1>1, RateTyped
<1>8. RequestsPast'
  BY <1>1, <1>7 DEF LimitInv, RequestsPast
<1>9. ASSUME NEW w \in Windows, now \div WindowTime <= w
      PROVE  /\ admitted'[w] <= counter'[w].count + Cardinality(Slots(w)')
             /\ admitted'[w] <= RedisMax + Cardinality(Slots(w)')
  <2>1. /\ admitted[w] <= counter[w].count + Cardinality(Slots(w))
        /\ admitted[w] <= RedisMax + Cardinality(Slots(w))
    BY <1>9 DEF LimitInv, InWindow
  <2>2. /\ Live(w) = counter[w].count /\ counter[w].count \in Nat /\ admitted[w] \in Nat
        /\ w \in Nat /\ RedisMax \in Nat
    BY <1>9, KeyIsLive, RateTyped, RateAssumption
  <2>3. /\ counter'[w].count \in Nat /\ counter[w].count <= counter'[w].count
        /\ (w # u => counter'[w] = counter[w])
    BY <1>1, <1>2, <2>2
  <2>4. admitted'[w] \in Nat
    BY <1>5 DEF MemoryTyped
  <2>5. CASE Answered(r)
    <3>1. Slots(w)' = Slots(w)
      BY <2>5 DEF Answered, Slots
    <3>2. counter' = Hit(u)
      BY <2>5 DEF Answered, WindowOf, t, u
    <3>3. CASE w = u
      <4>1. counter'[w].count = counter[w].count + 1
        BY <1>2, <2>2, <3>2, <3>3
      <4>2. IF counter[w].count + 1 > RedisMax THEN admitted'[w] = admitted[w]
            ELSE admitted'[w] = admitted[w] + 1
        <5>1. IF Live(u) + 1 > RedisMax THEN admitted' = admitted
              ELSE admitted' = [admitted EXCEPT ![u] = @ + 1]
          BY <2>5 DEF Answered, Admit, Refuse, WindowOf, t, u
        <5> QED BY <1>2, <2>2, <3>3, <5>1 DEF LimitInv, MemoryTyped
      <4> QED BY <2>1, <2>2, <2>4, <3>1, <4>1, <4>2, SlotSizes
    <3>4. CASE w # u
      <4>1. admitted'[w] = admitted[w]
        <5>1. admitted' = admitted \/ admitted' = [admitted EXCEPT ![u] = @ + 1]
          BY <2>5 DEF Answered, Admit, Refuse, t, u
        <5>2. admitted \in [Windows -> Nat]
          BY DEF LimitInv, MemoryTyped
        <5>3. CASE admitted' = admitted
          BY <5>3
        <5>4. CASE admitted' = [admitted EXCEPT ![u] = @ + 1]
          BY <1>2, <3>4, <5>2, <5>4
        <5> QED BY <5>1, <5>3, <5>4
      <4> QED BY <2>1, <2>3, <3>1, <3>4, <4>1
    <3> QED BY <3>3, <3>4
  <2>6. CASE RedisFails(r)
    <3>1. CheckMemory(request[r].server, t)
      BY <2>6 DEF RedisFails, t
    <3>2. u <= w
      <4>1. now \div WindowTime \in Nat /\ u \in Nat
        BY <1>2, RateTyped, TimesHaveWindows
      <4> QED BY <1>2, <1>9, <2>2, <4>1
    <3>3. admitted'[w] + Cardinality(Slots(w)) <= admitted[w] + Cardinality(Slots(w)')
      BY <1>4, <3>1, <3>2, MemoryDecides DEF LimitInv, u
    <3>4. Cardinality(Slots(w)) \in Nat /\ Cardinality(Slots(w)') \in Nat
      BY SlotSizes
    <3>5. admitted'[w] <= counter'[w].count + Cardinality(Slots(w)')
      BY <2>1, <2>2, <2>3, <2>4, <3>3, <3>4
    <3>6. admitted'[w] <= RedisMax + Cardinality(Slots(w)')
      BY <2>1, <2>2, <2>4, <3>3, <3>4
    <3> QED BY <3>5, <3>6
  <2> QED BY <2>5, <2>6
<1>10. ASSUME NEW w \in Windows, w < now \div WindowTime
       PROVE  admitted'[w] + Cardinality(WaitingIn(w)')
                <= RedisMax + Cardinality(Servers) * MemoryMax + Cardinality(Requests)
  <2>1. admitted[w] + Cardinality(WaitingIn(w))
          <= RedisMax + Cardinality(Servers) * MemoryMax + Cardinality(Requests)
    BY <1>10 DEF LimitInv, AfterWindow
  <2>2. admitted[w] \in Nat /\ admitted'[w] \in Nat
    BY <1>5, RateTyped DEF MemoryTyped
  <2>3. admitted'[w] = admitted[w] \/ (w = u /\ admitted'[w] = admitted[w] + 1)
    <3>1. CASE Answered(r)
      <4>1. admitted' = admitted \/ admitted' = [admitted EXCEPT ![u] = @ + 1]
        BY <3>1 DEF Answered, Admit, Refuse, t, u
      <4>2. admitted \in [Windows -> Nat]
        BY DEF LimitInv, MemoryTyped
      <4>3. CASE admitted' = admitted
        BY <4>3
      <4>4. CASE admitted' = [admitted EXCEPT ![u] = @ + 1]
        BY <1>2, <4>2, <4>4
      <4> QED BY <4>1, <4>3, <4>4
    <3>2. CASE RedisFails(r)
      <4>1. CheckMemory(request[r].server, t)
        BY <3>2 DEF RedisFails, t
      <4> QED BY <1>4, <4>1, MemoryDecides DEF LimitInv, u
    <3> QED BY <3>1, <3>2
  <2>4. WaitingIn(w)' = WaitingIn(w) \ {r}
    BY <1>7 DEF WaitingIn
  <2>5. CASE w = u
    <3>1. r \in WaitingIn(w)
      BY <1>1, <2>5 DEF WaitingIn, t, u
    <3>2. Cardinality(WaitingIn(w)') = Cardinality(WaitingIn(w)) - 1
      BY <2>4, <3>1, WaitingSizes, FS_RemoveElement
    <3> DEFINE limit == RedisMax + Cardinality(Servers) * MemoryMax + Cardinality(Requests)
    <3>3. limit \in Nat /\ admitted[w] + Cardinality(WaitingIn(w)) <= limit
      BY <2>1, SlotSizes
    <3> HIDE DEF limit
    <3>4. admitted'[w] + Cardinality(WaitingIn(w)') <= limit
      BY <2>2, <2>3, <3>2, <3>3, WaitingSizes
    <3> QED BY <3>4 DEF limit
  <2>6. CASE w # u
    <3>1. WaitingIn(w)' = WaitingIn(w)
      BY <1>1, <2>4, <2>6 DEF WaitingIn, t, u
    <3> QED BY <2>1, <2>3, <2>6, <3>1
  <2> QED BY <2>5, <2>6
<1> QED BY <1>1, <1>3, <1>5, <1>6, <1>8, <1>9, <1>10 DEF LimitInv, InWindow, AfterWindow

LEMMA ArrivalStep ==
    ASSUME LimitInv, NEW s \in Servers,
           ArriveInCooldown(s) \/ \E r \in Requests : ArriveAtRedis(s, r)
    PROVE  LimitInv'
<1> DEFINE here == now \div WindowTime
<1>1. CounterInv' /\ now' = now /\ counter' = counter /\ now \in Times /\ here \in Nat
  <2>1. now' = now /\ counter' = counter
    BY DEF ArriveInCooldown, ArriveAtRedis
  <2> QED BY <2>1, CounterStep, RateTyped DEF LimitInv, RateNext
<1>2. KeysLast'
  BY <1>1 DEF LimitInv, KeysLast
<1>3. CASE ArriveInCooldown(s)
  <2>1. CheckMemory(s, now) /\ cooldownEnd' = cooldownEnd /\ request' = request
    BY <1>3 DEF ArriveInCooldown
  <2>2. /\ recent' \in [Servers -> Seq(Times)] /\ \A q \in Servers : Len(recent'[q]) <= MemoryMax
        /\ admitted' \in [Windows -> Nat]
        /\ \A w \in Windows :
             /\ admitted'[w] = admitted[w] \/ (w = here /\ admitted'[w] = admitted[w] + 1)
             /\ here <= w =>
                  admitted'[w] + Cardinality(Slots(w)) <= admitted[w] + Cardinality(Slots(w)')
    BY <1>1, <2>1, MemoryDecides DEF LimitInv
  <2>3. MemoryTyped' /\ RequestsPast'
    BY <1>1, <2>1, <2>2 DEF LimitInv, MemoryTyped, RequestsPast
  <2>4. ASSUME NEW w \in Windows, here <= w
        PROVE  /\ admitted'[w] <= counter'[w].count + Cardinality(Slots(w)')
               /\ admitted'[w] <= RedisMax + Cardinality(Slots(w)')
    <3>1. /\ admitted[w] <= counter[w].count + Cardinality(Slots(w))
          /\ admitted[w] <= RedisMax + Cardinality(Slots(w))
      BY <2>4 DEF LimitInv, InWindow
    <3>2. admitted[w] \in Nat /\ admitted'[w] \in Nat /\ counter[w].count \in Nat
      BY <2>2, RateTyped
    <3>3. admitted'[w] + Cardinality(Slots(w)) <= admitted[w] + Cardinality(Slots(w)')
      BY <2>2, <2>4
    <3> QED BY <1>1, <3>1, <3>2, <3>3, SlotSizes
  <2>5. ASSUME NEW w \in Windows, w < here
        PROVE  admitted'[w] + Cardinality(WaitingIn(w)')
                 <= RedisMax + Cardinality(Servers) * MemoryMax + Cardinality(Requests)
    <3>1. admitted'[w] = admitted[w]
      <4>1. w # here
        BY <1>1, <2>5, TimesHaveWindows
      <4> QED BY <2>2, <4>1
    <3>2. WaitingIn(w)' = WaitingIn(w)
      BY <2>1 DEF WaitingIn
    <3> QED BY <2>5, <3>1, <3>2 DEF LimitInv, AfterWindow
  <2> QED BY <1>1, <1>2, <2>3, <2>4, <2>5 DEF LimitInv, InWindow, AfterWindow
<1>4. ASSUME NEW r \in Requests, ArriveAtRedis(s, r) PROVE LimitInv'
  <2>1. /\ request' = [request EXCEPT ![r] = [waits |-> TRUE, server |-> s, at |-> now]]
        /\ recent' = recent /\ cooldownEnd' = cooldownEnd /\ admitted' = admitted /\ ~request[r].waits
    BY <1>4 DEF ArriveAtRedis
  <2>2. /\ request'[r].waits /\ request'[r].at = now
        /\ \A q \in Requests \ {r} : request'[q] = request[q]
    BY <2>1, RateTyped
  <2>3. MemoryTyped' /\ RequestsPast'
    <3>1. now <= now
      BY RateTyped
    <3> QED BY <1>1, <2>1, <2>2, <3>1 DEF LimitInv, MemoryTyped, RequestsPast
  <2>4. \A w : Slots(w)' = Slots(w)
    BY <2>1 DEF Slots
  <2>5. InWindow'
    BY <1>1, <2>1, <2>4 DEF LimitInv, InWindow
  <2>6. ASSUME NEW w \in Windows, w < here PROVE WaitingIn(w)' = WaitingIn(w)
    <3>1. w # here
      BY <1>1, <2>6, TimesHaveWindows
    <3> QED BY <2>1, <2>2, <3>1 DEF WaitingIn
  <2>7. AfterWindow'
    BY <1>1, <2>1, <2>6 DEF LimitInv, AfterWindow
  <2> QED BY <1>1, <1>2, <2>3, <2>5, <2>7 DEF LimitInv
<1> QED BY <1>3, <1>4

LEMMA LimitStep == LimitInv /\ [RateNext]_rateVars => LimitInv'
<1> SUFFICES ASSUME LimitInv, [RateNext]_rateVars PROVE LimitInv'
  OBVIOUS
<1>1. ASSUME NEW s \in Servers, ArriveInCooldown(s) \/ \E r \in Requests : ArriveAtRedis(s, r)
      PROVE  LimitInv'
  BY <1>1, ArrivalStep
<1>2. ASSUME NEW r \in Requests, Answered(r) \/ RedisFails(r) PROVE LimitInv'
  BY <1>2, RedisStep
<1>3. CASE Tick \/ UNCHANGED rateVars
  <2>1. CounterInv'
    BY CounterStep DEF LimitInv
  <2>2. /\ UNCHANGED <<counter, recent, cooldownEnd, request, admitted>>
        /\ now \in Nat /\ now' \in Nat /\ now <= now'
    <3>1. now' = now \/ now' = now + 1
      BY <1>3 DEF Tick, rateVars
    <3>2. now \in Nat
      BY RateTyped
    <3> QED BY <1>3, <3>1, <3>2 DEF Tick, rateVars
  <2>3. MemoryTyped' /\ KeysLast'
    BY <2>2 DEF LimitInv, MemoryTyped, KeysLast
  <2>4. RequestsPast'
    <3>1. \A r \in Requests : request[r].at \in Nat
      BY RateTyped, TimesHaveWindows
    <3> QED BY <2>2, <3>1 DEF LimitInv, RequestsPast
  <2>5. \A w : Slots(w)' = Slots(w) /\ WaitingIn(w)' = WaitingIn(w)
    BY <2>2 DEF Slots, WaitingIn
  <2> DEFINE v == now \div WindowTime
             u == now' \div WindowTime
  <2>6. v \in Nat /\ u \in Nat /\ v <= u
    BY <2>2, WindowBounds, WindowsInOrder
  <2> HIDE DEF v, u
  <2>7. ASSUME NEW w \in Windows, u <= w
        PROVE  /\ admitted[w] <= counter[w].count + Cardinality(Slots(w))
               /\ admitted[w] <= RedisMax + Cardinality(Slots(w))
    <3>1. v <= w
      BY <2>6, <2>7, TimesHaveWindows
    <3> QED BY <3>1 DEF LimitInv, InWindow, v
  <2>8. ASSUME NEW w \in Windows, w < u
        PROVE  admitted[w] + Cardinality(WaitingIn(w))
                 <= RedisMax + Cardinality(Servers) * MemoryMax + Cardinality(Requests)
    <3>1. CASE w < v
      BY <3>1 DEF LimitInv, AfterWindow, v
    <3>2. CASE v <= w
      <4>1. admitted[w] <= RedisMax + Cardinality(Slots(w))
        BY <3>2 DEF LimitInv, InWindow, v
      <4>2. admitted[w] \in Nat
        BY RateTyped
      <4> DEFINE places == Cardinality(Servers) * MemoryMax
      <4>3. places \in Nat /\ Cardinality(Slots(w)) <= places
        BY SlotSizes
      <4> HIDE DEF places
      <4>4. admitted[w] + Cardinality(WaitingIn(w)) <= RedisMax + places + Cardinality(Requests)
        BY <4>1, <4>2, <4>3, SlotSizes, WaitingSizes
      <4> QED BY <4>4 DEF places
    <3> QED BY <2>6, <3>1, <3>2, TimesHaveWindows
  <2>9. InWindow'
    BY <2>2, <2>5, <2>7 DEF InWindow, u
  <2>10. AfterWindow'
    BY <2>2, <2>5, <2>8 DEF AfterWindow, u
  <2> QED BY <2>1, <2>3, <2>4, <2>9, <2>10 DEF LimitInv
<1> QED BY <1>1, <1>2, <1>3 DEF RateNext

(* Redis, the memory of every process and the requests that were waiting at *)
(* its end bound what a window lets through (RateLimitMiddleware.dispatch). *)
THEOREM AdmissionIsBounded == RateSpec => []AdmittedBounded
<1>1. LimitInv => AdmittedBounded
  <2> SUFFICES ASSUME LimitInv, NEW w \in Windows
               PROVE  admitted[w] <= RedisMax + Cardinality(Servers) * MemoryMax + Cardinality(Requests)
    BY DEF AdmittedBounded
  <2> DEFINE v == now \div WindowTime
             places == Cardinality(Servers) * MemoryMax
  <2>1. v \in Nat /\ w \in Nat /\ admitted[w] \in Nat
    BY RateTyped
  <2>2. /\ places \in Nat /\ Cardinality(Slots(w)) <= places /\ Cardinality(Slots(w)) \in Nat
        /\ RedisMax \in Nat /\ Cardinality(Requests) \in Nat /\ Cardinality(WaitingIn(w)) \in Nat
    BY SlotSizes, WaitingSizes
  <2>3. v <= w => admitted[w] <= RedisMax + Cardinality(Slots(w))
    BY DEF LimitInv, InWindow
  <2>4. w < v => admitted[w] + Cardinality(WaitingIn(w)) <= RedisMax + places + Cardinality(Requests)
    BY DEF LimitInv, AfterWindow
  <2> HIDE DEF v, places
  <2>5. admitted[w] <= RedisMax + places + Cardinality(Requests)
    BY <2>1, <2>2, <2>3, <2>4
  <2> QED BY <2>5 DEF places
<1> QED BY <1>1, LimitStart, LimitStep, PTL DEF RateSpec

-----------------------------------------------------------------------------
(* The Obsidian watcher.  Folding the events of a list is the work of a     *)
(* recursive function that a CHOOSE names; one function fits, by induction  *)
(* no other does.                                                           *)
Folding(S, q, g) ==
    g = [s \in SUBSET DOMAIN q |-> IF s = {} THEN S ELSE After(g[s \ {Max(s)}], q[Max(s)])]

LEMMA FoldIsChosen ==
    ASSUME NEW S, NEW q
    PROVE  FoldLeft(After, S, q) = (CHOOSE g : Folding(S, q, g))[DOMAIN q]
BY DEF FoldLeft, MapThenFoldSet, Folding

(* What the events with the numbers s have said: which paths they do not    *)
(* name, and which they name last as deleted.                               *)
Silent(q, s, f) == \A i \in s : q[i].path # f
SaysDeleted(q, s, f) ==
    \E i \in s : /\ q[i].path = f /\ q[i].type = "deleted"
                 /\ \A j \in s : j > i => q[j].path # f

Told(S, q, s) == {f \in S \cup {q[i].path : i \in s} : SaysDeleted(q, s, f) \/ (f \in S /\ Silent(q, s, f))}

LEMMA ToldAfter ==
    ASSUME NEW S, NEW q \in Seq(Events), NEW s \in SUBSET (1..Len(q)), s # {}
    PROVE  Told(S, q, s) = After(Told(S, q, s \ {Max(s)}), q[Max(s)])
<1> DEFINE m == Max(s)
           r == s \ {m}
<1>1. m \in s /\ \A i \in s : i \in Nat /\ i <= m
  <2>1. Len(q) \in Nat /\ \A i \in s : i \in Nat
    OBVIOUS
  <2>2. Max(s) \in s /\ \A i \in s : i <= Max(s)
    BY <2>1, LargestIndex
  <2> QED BY <2>1, <2>2
<1> HIDE DEF m
<1>2. \A i \in r : i \in Nat /\ m \in Nat /\ m > i /\ i \in s
  BY <1>1
<1>3. ASSUME NEW f PROVE Silent(q, s, f) <=> Silent(q, r, f) /\ q[m].path # f
  BY <1>1 DEF Silent
<1>4. ASSUME NEW f
      PROVE  SaysDeleted(q, s, f) <=> \/ q[m].path = f /\ q[m].type = "deleted"
                                      \/ q[m].path # f /\ SaysDeleted(q, r, f)
  <2>1. CASE q[m].path = f
    <3>1. ASSUME SaysDeleted(q, s, f) PROVE q[m].type = "deleted"
      <4>1. PICK i \in s : /\ q[i].path = f /\ q[i].type = "deleted"
                           /\ \A j \in s : j > i => q[j].path # f
        BY <3>1 DEF SaysDeleted
      <4>2. ~(m > i)
        BY <1>1, <2>1, <4>1
      <4>3. i = m
        BY <1>1, <4>1, <4>2
      <4> QED BY <4>1, <4>3
    <3>2. ASSUME q[m].type = "deleted" PROVE SaysDeleted(q, s, f)
      <4>1. \A j \in s : ~(j > m)
        BY <1>1
      <4> QED BY <1>1, <2>1, <3>2, <4>1 DEF SaysDeleted
    <3> QED BY <2>1, <3>1, <3>2
  <2>2. CASE q[m].path # f
    <3>1. ASSUME SaysDeleted(q, s, f) PROVE SaysDeleted(q, r, f)
      BY <2>2, <3>1 DEF SaysDeleted
    <3>2. ASSUME SaysDeleted(q, r, f) PROVE SaysDeleted(q, s, f)
      BY <1>1, <2>2, <3>2 DEF SaysDeleted
    <3> QED BY <2>2, <3>1, <3>2
  <2> QED BY <2>1, <2>2
<1>5. ASSUME NEW f PROVE f \in Told(S, q, s) <=> SaysDeleted(q, s, f) \/ (f \in S /\ Silent(q, s, f))
  BY DEF Told, SaysDeleted
<1>6. ASSUME NEW f PROVE f \in Told(S, q, r) <=> SaysDeleted(q, r, f) \/ (f \in S /\ Silent(q, r, f))
  BY DEF Told, SaysDeleted
<1> HIDE DEF r
<1>7. ASSUME NEW f PROVE f \in Told(S, q, s) <=> f \in After(Told(S, q, r), q[m])
  BY <1>3, <1>4, <1>5, <1>6 DEF After
<1>8. Told(S, q, s) = After(Told(S, q, r), q[m])
  BY <1>7
<1> QED BY <1>8 DEF r, m

(* Folding is Told, by induction over the subsets of the indices.           *)
LEMMA FoldIsTold ==
    ASSUME NEW S, NEW q \in Seq(Events)
    PROVE  FoldLeft(After, S, q) = Told(S, q, 1..Len(q))
<1> DEFINE D == 1..Len(q)
           g == [s \in SUBSET D |-> Told(S, q, s)]
<1>1. DOMAIN q = D /\ IsFiniteSet(D) /\ Len(q) \in Nat
  BY FS_Interval
<1>2. Told(S, q, {}) = S
  BY DEF Told, SaysDeleted, Silent
<1>3. Folding(S, q, g)
  <2>1. ASSUME NEW s \in SUBSET D
        PROVE  g[s] = IF s = {} THEN S ELSE After(g[s \ {Max(s)}], q[Max(s)])
    <3>1. s \ {Max(s)} \in SUBSET D
      OBVIOUS
    <3> QED BY <1>2, <3>1, ToldAfter
  <2>2. DOMAIN g = SUBSET D /\ g = [s \in SUBSET D |-> g[s]]
    OBVIOUS
  <2> HIDE DEF g
  <2>3. g = [s \in SUBSET D |-> IF s = {} THEN S ELSE After(g[s \ {Max(s)}], q[Max(s)])]
    BY <2>1, <2>2
  <2> QED BY <1>1, <2>3 DEF Folding
<1> DEFINE h == CHOOSE k : Folding(S, q, k)
<1>4. Folding(S, q, h)
  BY <1>3
<1>5. h = [s \in SUBSET D |-> IF s = {} THEN S ELSE After(h[s \ {Max(s)}], q[Max(s)])]
  BY <1>1, <1>4 DEF Folding
<1> HIDE DEF h
<1> DEFINE T == {s \in SUBSET D : h[s] # Told(S, q, s)}
<1>6. T = {}
  <2> SUFFICES ASSUME T # {} PROVE FALSE
    OBVIOUS
  <2>1. T \in SUBSET (SUBSET D)
    OBVIOUS
  <2> HIDE DEF T, D
  <2>2. PICK s \in T : \A t \in T : t \subseteq s => t = s
    BY <1>1, <2>1, LeastSubset
  <2>3. s \in SUBSET D /\ h[s] # Told(S, q, s)
    BY <2>2 DEF T
  <2>4. s # {}
    BY <1>2, <1>5, <2>3
  <2>5. Max(s) \in s
    BY <1>1, <2>3, <2>4, LargestIndex DEF D
  <2>6. s \ {Max(s)} \notin T /\ s \ {Max(s)} \in SUBSET D
    BY <2>2, <2>3, <2>5
  <2>7. h[s \ {Max(s)}] = Told(S, q, s \ {Max(s)})
    BY <2>6 DEF T
  <2>8. h[s] = After(h[s \ {Max(s)}], q[Max(s)])
    BY <1>5, <2>3, <2>4
  <2> QED BY <2>3, <2>4, <2>7, <2>8, ToldAfter DEF D
<1>7. h[D] = Told(S, q, D)
  <2>1. D \in SUBSET D
    OBVIOUS
  <2> QED BY <1>6, <2>1
<1> QED BY <1>1, <1>7, FoldIsChosen DEF h

InFold(S, q, f) == SaysDeleted(q, 1..Len(q), f) \/ (f \in S /\ Silent(q, 1..Len(q), f))

LEMMA FoldMembers ==
    ASSUME NEW S, NEW q \in Seq(Events)
    PROVE  \A f : f \in FoldLeft(After, S, q) <=> InFold(S, q, f)
BY FoldIsTold DEF Told, SaysDeleted, InFold

(* One event more.                                                          *)
LEMMA FoldOneMore ==
    ASSUME NEW S, NEW q \in Seq(Events), NEW e \in Events
    PROVE  FoldLeft(After, S, Append(q, e)) = After(FoldLeft(After, S, q), e)
<1> DEFINE n == Len(q)
           more == Append(q, e)
<1>1. /\ n \in Nat /\ more \in Seq(Events) /\ Len(more) = n + 1 /\ more[n + 1] = e
      /\ \A i \in 1..n : more[i] = q[i]
  OBVIOUS
<1> HIDE DEF n, more
<1>2. Max(1..n + 1) = n + 1 /\ (1..n + 1) \ {n + 1} = 1..n
  <2>1. Max(1..n + 1) \in 1..n + 1 /\ \A i \in 1..n + 1 : i <= Max(1..n + 1)
    <3>1. n + 1 \in Nat /\ n + 1 \in 1..n + 1
      BY <1>1
    <3> DEFINE all == 1..n + 1
    <3>2. all \in SUBSET (1..n + 1) /\ all # {}
      BY <3>1
    <3> HIDE DEF all
    <3>3. Max(all) \in all /\ \A i \in all : i <= Max(all)
      BY <3>1, <3>2, LargestIndex
    <3> QED BY <3>3 DEF all
  <2>2. n + 1 <= Max(1..n + 1)
    BY <1>1, <2>1
  <2> QED BY <1>1, <2>1, <2>2
<1>3. Told(S, more, 1..n + 1) = After(Told(S, more, 1..n), e)
  <2> DEFINE all == 1..n + 1
  <2>1. all \in SUBSET (1..Len(more)) /\ all # {}
    <3>1. n + 1 \in all /\ all = 1..Len(more)
      BY <1>1
    <3> QED BY <3>1
  <2>2. Max(all) = n + 1 /\ all \ {n + 1} = 1..n
    BY <1>2
  <2> HIDE DEF all
  <2>3. Told(S, more, all) = After(Told(S, more, all \ {n + 1}), more[n + 1])
    BY <1>1, <2>1, <2>2, ToldAfter
  <2> QED BY <1>1, <2>2, <2>3 DEF all
<1>4. Told(S, more, 1..n) = Told(S, q, 1..n)
  BY <1>1 DEF Told, SaysDeleted, Silent
<1>5. FoldLeft(After, S, more) = Told(S, more, 1..n + 1) /\ FoldLeft(After, S, q) = Told(S, q, 1..n)
  BY <1>1, FoldIsTold DEF n
<1>6. FoldLeft(After, S, more) = After(FoldLeft(After, S, q), e)
  BY <1>3, <1>4, <1>5
<1> QED BY <1>6 DEF more

(* Folding the events of two lists is folding one after the other.          *)
LEMMA FoldInTwo ==
    ASSUME NEW S, NEW p \in Seq(Events), NEW q \in Seq(Events)
    PROVE  FoldLeft(After, S, p \o q) = FoldLeft(After, FoldLeft(After, S, p), q)
<1> DEFINE m == Len(p)
           n == Len(q)
           both == p \o q
<1>1. /\ m \in Nat /\ n \in Nat /\ both \in Seq(Events) /\ Len(both) = m + n
      /\ \A i \in 1..m : both[i] = p[i]
      /\ \A i \in 1..n : both[m + i] = q[i]
  OBVIOUS
<1> HIDE DEF m, n, both
<1>2. \A k \in 1..m + n : k \in 1..m \/ \E i \in 1..n : k = m + i
  <2> SUFFICES ASSUME NEW k \in 1..m + n, ~(k \in 1..m) PROVE \E i \in 1..n : k = m + i
    OBVIOUS
  <2>1. k - m \in 1..n /\ k = m + (k - m)
    BY <1>1
  <2> QED BY <2>1
<1>3. (\A i \in 1..m : i \in 1..m + n) /\ (\A i \in 1..n : m + i \in 1..m + n)
  BY <1>1
<1>4. ASSUME NEW f PROVE Silent(both, 1..m + n, f) <=> Silent(p, 1..m, f) /\ Silent(q, 1..n, f)
  <2>1. ASSUME Silent(both, 1..m + n, f) PROVE Silent(p, 1..m, f) /\ Silent(q, 1..n, f)
    BY <1>1, <1>3, <2>1 DEF Silent
  <2>2. ASSUME Silent(p, 1..m, f), Silent(q, 1..n, f) PROVE Silent(both, 1..m + n, f)
    <3> SUFFICES ASSUME NEW k \in 1..m + n PROVE both[k].path # f
      BY DEF Silent
    <3>1. CASE k \in 1..m
      BY <1>1, <2>2, <3>1 DEF Silent
    <3>2. CASE \E i \in 1..n : k = m + i
      BY <1>1, <2>2, <3>2 DEF Silent
    <3> QED BY <1>2, <3>1, <3>2
  <2> QED BY <2>1, <2>2
<1>5. ASSUME NEW f
      PROVE  SaysDeleted(both, 1..m + n, f)
               <=> SaysDeleted(q, 1..n, f) \/ (SaysDeleted(p, 1..m, f) /\ Silent(q, 1..n, f))
  <2>1. ASSUME SaysDeleted(both, 1..m + n, f)
        PROVE  SaysDeleted(q, 1..n, f) \/ (SaysDeleted(p, 1..m, f) /\ Silent(q, 1..n, f))
    <3>1. PICK k \in 1..m + n : /\ both[k].path = f /\ both[k].type = "deleted"
                                /\ \A j \in 1..m + n : j > k => both[j].path # f
      BY <2>1 DEF SaysDeleted
    <3>2. CASE k \in 1..m
      <4>1. Silent(q, 1..n, f)
        <5>1. \A i \in 1..n : m + i > k
          BY <1>1, <3>2
        <5> QED BY <1>1, <1>3, <3>1, <5>1 DEF Silent
      <4>2. SaysDeleted(p, 1..m, f)
        BY <1>1, <1>3, <3>1, <3>2 DEF SaysDeleted
      <4> QED BY <4>1, <4>2
    <3>3. CASE \E i \in 1..n : k = m + i
      <4>1. PICK i \in 1..n : k = m + i
        BY <3>3
      <4>2. \A j \in 1..n : j > i => m + j > k
        BY <1>1, <4>1
      <4> QED BY <1>1, <1>3, <3>1, <4>1, <4>2 DEF SaysDeleted
    <3> QED BY <1>2, <3>2, <3>3
  <2>2. ASSUME SaysDeleted(q, 1..n, f) PROVE SaysDeleted(both, 1..m + n, f)
    <3>1. PICK i \in 1..n : /\ q[i].path = f /\ q[i].type = "deleted"
                            /\ \A j \in 1..n : j > i => q[j].path # f
      BY <2>2 DEF SaysDeleted
    <3>2. ASSUME NEW k \in 1..m + n, k > m + i PROVE both[k].path # f
      <4>1. PICK j \in 1..n : k = m + j
        <5>1. k \notin 1..m
          BY <1>1, <3>2
        <5> QED BY <1>2, <5>1
      <4>2. j > i
        BY <1>1, <3>2, <4>1
      <4> QED BY <1>1, <3>1, <4>1, <4>2
    <3> QED BY <1>1, <1>3, <3>1, <3>2 DEF SaysDeleted
  <2>3. ASSUME SaysDeleted(p, 1..m, f), Silent(q, 1..n, f) PROVE SaysDeleted(both, 1..m + n, f)
    <3>1. PICK i \in 1..m : /\ p[i].path = f /\ p[i].type = "deleted"
                            /\ \A j \in 1..m : j > i => p[j].path # f
      BY <2>3 DEF SaysDeleted
    <3>2. ASSUME NEW k \in 1..m + n, k > i PROVE both[k].path # f
      BY <1>1, <1>2, <2>3, <3>1, <3>2 DEF Silent
    <3> QED BY <1>1, <1>3, <3>1, <3>2 DEF SaysDeleted
  <2> QED BY <2>1, <2>2, <2>3
<1>6. ASSUME NEW f PROVE f \in FoldLeft(After, S, both) <=> f \in FoldLeft(After, FoldLeft(After, S, p), q)
  <2>1. f \in FoldLeft(After, S, both) <=> SaysDeleted(both, 1..m + n, f) \/ (f \in S /\ Silent(both, 1..m + n, f))
    BY <1>1, FoldMembers DEF InFold
  <2>2. f \in FoldLeft(After, S, p) <=> SaysDeleted(p, 1..m, f) \/ (f \in S /\ Silent(p, 1..m, f))
    BY FoldMembers DEF InFold, m
  <2>3. f \in FoldLeft(After, FoldLeft(After, S, p), q)
          <=> SaysDeleted(q, 1..n, f) \/ (f \in FoldLeft(After, S, p) /\ Silent(q, 1..n, f))
    BY FoldMembers DEF InFold, n
  <2> QED BY <1>4, <1>5, <2>1, <2>2, <2>3
<1>7. FoldLeft(After, S, both) = FoldLeft(After, FoldLeft(After, S, p), q)
  <2>1. /\ FoldLeft(After, S, both) = Told(S, both, 1..Len(both))
        /\ FoldLeft(After, FoldLeft(After, S, p), q) = Told(FoldLeft(After, S, p), q, 1..Len(q))
    BY <1>1, FoldIsTold
  <2> QED BY <1>6, <2>1 DEF Told
<1> QED BY <1>7 DEF both

LEMMA FoldEmpty == \A S : FoldLeft(After, S, <<>>) = S
<1> TAKE S
<1>1. <<>> \in Seq(Events) /\ Len(<<>>) = 0 /\ 1..0 = {}
  OBVIOUS
<1>2. Told(S, <<>>, {}) = S
  BY DEF Told, SaysDeleted, Silent
<1> QED BY <1>1, <1>2, FoldIsTold

LEMMA FoldTyped ==
    ASSUME NEW S \in SUBSET Files, NEW q \in Seq(Events)
    PROVE  FoldLeft(After, S, q) \in SUBSET Files
<1>1. ASSUME NEW i \in 1..Len(q) PROVE q[i].path \in Files
  <2>1. q[i] \in Events
    OBVIOUS
  <2> QED BY <2>1 DEF Events
<1> QED BY <1>1, FoldIsTold DEF Told

-----------------------------------------------------------------------------
(* The invariant.  The events on their way are one queue, wherever the      *)
(* observer and the event loop have got to.                                 *)
Queue == (IF draining THEN events ELSE drained \o events) \o observed

WatcherInv ==
    /\ WatcherTypeOK /\ changed \subseteq vault
    /\ (draining => drained = events)
    /\ DeletionAccounted

LEMMA QueueTyped == WatcherTypeOK => Queue \in Seq(Events) /\ Pending = FoldLeft(After, deletedPaths, Queue)
BY DEF WatcherTypeOK, Queue, Pending

LEMMA WatcherStart == WatcherInit => WatcherInv
<1>1. WatcherInit => WatcherTypeOK
  <2>1. <<>> \in Seq(Events) /\ 0 \in 0..MaxFileChanges
    BY WatcherAssumption
  <2> QED BY <2>1 DEF WatcherInit, WatcherTypeOK
<1> QED BY <1>1 DEF WatcherInit, WatcherInv, DeletionAccounted

(* Nothing is reported and nothing leaves the disk, and the queue keeps its *)
(* meaning.                                                                 *)
LEMMA NothingSaid ==
    ASSUME WatcherInv, WatcherTypeOK', UNCHANGED <<vault, changed, missed, lastDoc>>,
           draining' => drained' = events', Pending' = Pending
    PROVE  WatcherInv'
BY DEF WatcherInv, DeletionAccounted

(* The user changes a file: one event joins the queue if somebody watches.  *)
LEMMA QueueNotified ==
    ASSUME WatcherTypeOK, NEW f \in Files, NEW type \in {"created", "modified", "deleted"},
           Notify(f, type), UNCHANGED <<watching, draining, events, drained, deletedPaths>>
    PROVE  /\ observed' \in Seq(Events)
           /\ Pending' = IF watching THEN After(Pending, [path |-> f, type |-> type]) ELSE Pending
<1> DEFINE e == [path |-> f, type |-> type]
           front == IF draining THEN events ELSE drained \o events
<1>1. e \in Events
  BY DEF Events
<1>2. front \in Seq(Events) /\ observed \in Seq(Events)
  BY DEF WatcherTypeOK
<1>3. Queue = front \o observed /\ Pending = FoldLeft(After, deletedPaths, front \o observed)
      /\ Pending' = FoldLeft(After, deletedPaths, front \o observed')
  BY DEF Queue, Pending
<1> HIDE DEF e, front
<1>4. CASE watching
  <2>1. observed' = Append(observed, e)
    BY <1>4 DEF Notify, e
  <2>2. front \o observed' = Append(front \o observed, e) /\ front \o observed \in Seq(Events)
    BY <1>1, <1>2, <2>1
  <2>3. Pending' = After(Pending, e)
    BY <1>1, <1>3, <2>2, FoldOneMore
  <2> QED BY <1>1, <1>2, <1>4, <2>1, <2>3 DEF e
<1>5. CASE ~watching
  BY <1>2, <1>3, <1>5 DEF Notify
<1> QED BY <1>4, <1>5

LEMMA WatcherStep == WatcherInv /\ [WatcherNext]_watcherVars => WatcherInv'
<1> SUFFICES ASSUME WatcherInv, [WatcherNext]_watcherVars PROVE WatcherInv'
  OBVIOUS
<1>a. /\ WatcherTypeOK /\ changed \subseteq vault /\ (draining => drained = events) /\ DeletionAccounted
      /\ observed \in Seq(Events) /\ events \in Seq(Events) /\ drained \in Seq(Events)
      /\ deletedPaths \in SUBSET Files
  BY DEF WatcherInv, WatcherTypeOK
<1>b. MaxFileChanges \in Nat
  BY WatcherAssumption
<1>1. ASSUME NEW f \in Files, Write(f) PROVE WatcherInv'
  <2>1. PICK type \in {"created", "modified"} : Notify(f, type)
    BY <1>1 DEF Write
  <2>2. /\ observed' \in Seq(Events)
        /\ Pending' = IF watching THEN After(Pending, [path |-> f, type |-> type]) ELSE Pending
    BY <1>1, <1>a, <2>1, QueueNotified DEF Write
  <2>3. \A g \in Files : g # f => (g \in Pending' <=> g \in Pending)
    BY <2>1, <2>2 DEF After
  <2>4. WatcherTypeOK'
    BY <1>1, <1>a, <1>b, <2>2 DEF Write, WatcherTypeOK
  <2> QED BY <1>1, <1>a, <2>3, <2>4 DEF Write, WatcherInv, DeletionAccounted
<1>2. ASSUME NEW f \in Files, Delete(f) PROVE WatcherInv'
  <2>1. Notify(f, "deleted")
    BY <1>2 DEF Delete
  <2>2. /\ observed' \in Seq(Events)
        /\ Pending' = IF watching THEN After(Pending, [path |-> f, type |-> "deleted"]) ELSE Pending
    BY <1>2, <1>a, <2>1, QueueNotified DEF Delete
  <2>3. /\ \A g \in Files : g \in Pending => g \in Pending'
        /\ watching => f \in Pending'
    BY <2>2 DEF After
  <2>4. WatcherTypeOK'
    BY <1>2, <1>a, <1>b, <2>2 DEF Delete, WatcherTypeOK
  <2>5. f \in missed' \/ watching
    BY <1>2 DEF Delete
  <2>6. missed \subseteq missed'
    BY <1>2 DEF Delete
  <2>7. DeletionAccounted'
    BY <1>2, <1>a, <2>3, <2>5, <2>6 DEF Delete, DeletionAccounted
  <2> QED BY <1>2, <1>a, <2>4, <2>7 DEF Delete, WatcherInv
<1>12. ASSUME NEW S \in SUBSET Files, MoveFolderOut(S) PROVE WatcherInv'
  <2>1. /\ vault' = vault \ S /\ changed' = changed \ S /\ missed' = missed \cup S
        /\ fileChanges' \in 0..MaxFileChanges
        /\ UNCHANGED <<observed, watching, draining, events, drained, deletedPaths, scanning, lastDoc>>
    BY <1>12, <1>a, <1>b DEF MoveFolderOut, WatcherTypeOK
  <2>2. Pending' = Pending
    BY <2>1 DEF Pending
  <2>3. WatcherTypeOK'
    BY <1>a, <2>1 DEF WatcherTypeOK
  <2>4. DeletionAccounted'
    BY <1>a, <2>1, <2>2 DEF DeletionAccounted
  <2> QED BY <1>a, <2>1, <2>3, <2>4 DEF WatcherInv
<1>3. CASE AppendEvent
  <2>1. /\ ~draining /\ draining' = draining /\ drained' = drained /\ deletedPaths' = deletedPaths
        /\ observed # <<>> /\ events' = Append(events, Head(observed)) /\ observed' = Tail(observed)
        /\ UNCHANGED <<vault, changed, missed, lastDoc, fileChanges, watching, scanning>>
    BY <1>3 DEF AppendEvent, LockFree
  <2>2. events' \in Seq(Events) /\ observed' \in Seq(Events)
    BY <1>a, <2>1
  <2>3. (drained \o events') \o observed' = (drained \o events) \o observed
    <3>1. PICK head \in Seq(Events), tail \in Seq(Events) :
            /\ observed = head \o tail /\ events' = events \o head /\ observed' = tail
      <4>1. /\ <<Head(observed)>> \in Seq(Events) /\ Tail(observed) \in Seq(Events)
            /\ observed = <<Head(observed)>> \o Tail(observed)
            /\ events' = events \o <<Head(observed)>>
        BY <1>a, <2>1
      <4> QED BY <2>1, <4>1
    <3>2. drained \in Seq(Events) /\ events \in Seq(Events)
      BY <1>a
    <3>3. (drained \o (events \o head)) \o tail = (drained \o events) \o (head \o tail)
      BY <3>2
    <3> QED BY <3>1, <3>3
  <2>4. Pending' = Pending
    BY <2>1, <2>3 DEF Pending
  <2>5. WatcherTypeOK'
    BY <1>a, <2>1, <2>2 DEF WatcherTypeOK
  <2> QED BY <2>1, <2>4, <2>5, NothingSaid
<1>4. CASE StartWatcher
  <2>1. /\ watching' = TRUE
        /\ UNCHANGED <<vault, changed, observed, missed, fileChanges, draining, events, drained,
                       deletedPaths, scanning, lastDoc>>
    BY <1>4 DEF StartWatcher, vaultFiles
  <2>2. Pending' = Pending
    BY <2>1 DEF Pending
  <2>3. WatcherTypeOK'
    BY <1>a, <2>1 DEF WatcherTypeOK
  <2> QED BY <1>a, <2>1, <2>2, <2>3, NothingSaid
<1>5. CASE StopWatcher
  <2>1. /\ ~draining /\ drained = <<>> /\ watching' = FALSE /\ missed' = missed \cup (Lost \ vault)
        /\ events' = <<>> /\ observed' = <<>>
        /\ UNCHANGED <<vault, changed, fileChanges, draining, drained, deletedPaths, scanning, lastDoc>>
    BY <1>5 DEF StopWatcher, Between
  <2>2. Pending = FoldLeft(After, deletedPaths, events \o observed) /\ events \o observed \in Seq(Events)
    <3>1. drained \o events = events
      BY <1>a, <2>1
    <3> QED BY <1>a, <2>1, <3>1 DEF Pending
  <2>3. Pending' = deletedPaths
    <3>1. (<<>> \o <<>>) \o <<>> = <<>>
      OBVIOUS
    <3>2. Pending' = FoldLeft(After, deletedPaths, (<<>> \o <<>>) \o <<>>)
      BY <2>1 DEF Pending
    <3> QED BY <3>1, <3>2, FoldEmpty
  <2>4. ASSUME NEW f \in Files, f \in Pending PROVE f \in Pending' \cup Lost
    <3> DEFINE q == events \o observed
    <3>1. q \in Seq(Events)
      BY <2>2
    <3>2. InFold(deletedPaths, q, f)
      BY <2>2, <2>4, FoldMembers
    <3>3. CASE SaysDeleted(q, 1..Len(q), f)
      <4>1. PICK i \in 1..Len(q) : q[i].path = f /\ q[i].type = "deleted"
        BY <3>3 DEF SaysDeleted
      <4>2. q[i] \in ToSet(q)
        BY <3>1 DEF ToSet
      <4> QED BY <4>1, <4>2 DEF Lost
    <3> QED BY <2>3, <3>2, <3>3 DEF InFold
  <2>5. DeletionAccounted'
    BY <1>a, <2>1, <2>4 DEF DeletionAccounted
  <2>6. WatcherTypeOK'
    <3>1. Lost \subseteq Files
      BY DEF Lost
    <3>2. <<>> \in Seq(Events)
      OBVIOUS
    <3> QED BY <1>a, <2>1, <3>1, <3>2 DEF WatcherTypeOK
  <2> QED BY <1>a, <2>1, <2>5, <2>6 DEF WatcherInv
<1>6. CASE CopyEvents
  <2>1. /\ ~draining /\ drained = <<>> /\ draining' = TRUE /\ drained' = events
        /\ UNCHANGED <<vault, changed, observed, missed, fileChanges, watching, events, deletedPaths,
                       scanning, lastDoc>>
    BY <1>6 DEF CopyEvents, Between, vaultFiles
  <2>2. drained \o events = events
    BY <1>a, <2>1
  <2>3. Pending' = Pending
    BY <2>1, <2>2 DEF Pending
  <2>4. WatcherTypeOK'
    BY <1>a, <2>1 DEF WatcherTypeOK
  <2> QED BY <2>1, <2>3, <2>4, NothingSaid
<1>7. CASE ClearEvents
  <2>1. /\ draining /\ draining' = FALSE /\ events' = <<>>
        /\ UNCHANGED <<vault, changed, observed, missed, fileChanges, watching, drained, deletedPaths,
                       scanning, lastDoc>>
    BY <1>7 DEF ClearEvents, vaultFiles
  <2>2. drained \o <<>> = events
    BY <1>a, <2>1
  <2>3. Pending' = Pending
    BY <2>1, <2>2 DEF Pending
  <2>4. WatcherTypeOK'
    <3>1. <<>> \in Seq(Events)
      OBVIOUS
    <3> QED BY <1>a, <2>1, <3>1 DEF WatcherTypeOK
  <2> QED BY <2>1, <2>3, <2>4, NothingSaid
<1>8. CASE ProcessEvents
  <2>1. /\ ~draining /\ drained' = <<>> /\ deletedPaths' = FoldLeft(After, deletedPaths, drained)
        /\ UNCHANGED <<vault, changed, observed, missed, fileChanges, watching, draining, events,
                       scanning, lastDoc>>
    BY <1>8 DEF ProcessEvents, vaultFiles
  <2>2. /\ (drained \o events) \o observed = drained \o (events \o observed)
        /\ (<<>> \o events) \o observed = events \o observed
        /\ events \o observed \in Seq(Events)
    BY <1>a
  <2>3. Pending' = Pending
    <3>1. Pending = FoldLeft(After, deletedPaths, drained \o (events \o observed))
      BY <2>1, <2>2 DEF Pending
    <3>2. Pending' = FoldLeft(After, deletedPaths', events \o observed)
      BY <2>1, <2>2 DEF Pending
    <3> QED BY <1>a, <2>1, <2>2, <3>1, <3>2, FoldInTwo
  <2>4. deletedPaths' \in SUBSET Files
    BY <1>a, <2>1, FoldTyped
  <2>5. WatcherTypeOK'
    <3>1. <<>> \in Seq(Events)
      OBVIOUS
    <3> QED BY <1>a, <2>1, <2>4, <3>1 DEF WatcherTypeOK
  <2> QED BY <2>1, <2>3, <2>5, NothingSaid
<1>9. CASE ScanVault
  <2>1. /\ lastDoc' = [f \in Files |-> IF f \in changed THEN "present" ELSE lastDoc[f]]
        /\ changed' = {} /\ scanning' = TRUE
        /\ UNCHANGED <<vault, observed, missed, fileChanges, watching, draining, events, drained, deletedPaths>>
    BY <1>9 DEF ScanVault
  <2>2. Pending' = Pending
    BY <2>1 DEF Pending
  <2>3. WatcherTypeOK'
    BY <1>a, <2>1 DEF WatcherTypeOK
  <2> QED BY <1>a, <2>1, <2>2, <2>3 DEF WatcherInv, DeletionAccounted
<1>10. CASE ReportDeleted
  <2>1. /\ scanning' = FALSE /\ deletedPaths' = {}
        /\ lastDoc' = [f \in Files |-> IF f \in deletedPaths THEN "deleted" ELSE lastDoc[f]]
        /\ UNCHANGED <<vault, changed, observed, missed, fileChanges, watching, draining, events, drained>>
    BY <1>10 DEF ReportDeleted, vaultFiles
  <2>2. /\ Queue' = Queue /\ Queue \in Seq(Events)
        /\ Pending = FoldLeft(After, deletedPaths, Queue) /\ Pending' = FoldLeft(After, {}, Queue)
    BY <1>a, <2>1, QueueTyped DEF Queue, Pending
  <2>3. ASSUME NEW f \in Files, f \in Pending, f \notin deletedPaths PROVE f \in Pending'
    BY <2>2, <2>3, FoldMembers DEF InFold
  <2>4. DeletionAccounted'
    BY <1>a, <2>1, <2>3 DEF DeletionAccounted
  <2>5. WatcherTypeOK'
    BY <1>a, <2>1 DEF WatcherTypeOK
  <2> QED BY <1>a, <2>1, <2>4, <2>5 DEF WatcherInv
<1>11. CASE UNCHANGED watcherVars
  <2>1. UNCHANGED <<vault, changed, observed, missed, fileChanges, watching, draining, events, drained,
                    deletedPaths, scanning, lastDoc>>
    BY <1>11 DEF watcherVars, vaultFiles
  <2>2. Pending' = Pending /\ WatcherTypeOK'
    BY <1>a, <2>1 DEF Pending, WatcherTypeOK
  <2> QED BY <1>a, <2>1, <2>2, NothingSaid
<1> QED BY <1>1, <1>2, <1>3, <1>4, <1>5, <1>6, <1>7, <1>8, <1>9, <1>10, <1>11, <1>12 DEF WatcherNext

(* Whatever the user does while the observer appends, the event loop drains *)
(* and a scan reports, a file that is gone is on its way to be reported, or *)
(* its deletion gave no event that was kept: nobody watched, or it left     *)
(* with its folder (_handle, drain_events, process_watcher_events,          *)
(* fetch_since).                                                            *)
THEOREM DeletionsAreAccounted == WatcherSpec => []DeletionAccounted
<1>1. WatcherInv => DeletionAccounted
  BY DEF WatcherInv
<1> QED BY <1>1, WatcherStart, WatcherStep, PTL DEF WatcherSpec

-----------------------------------------------------------------------------
(* The remaining types, from what is proved of each component.              *)
LEMMA RateTypeFollows == LimitInv => RateTypeOK
BY DEF LimitInv, CounterInv, CountersTyped, MemoryTyped, RateTypeOK

BillingCounters ==
    /\ emitted \in 0..MaxStripeEvents /\ redelivered \in 0..MaxRedeliveries
    /\ {disordered, overlapped, replaced, raced} \subseteq BOOLEAN

LEMMA BillingCountersStart == BillingInit => BillingCounters
<1>1. 0 \in 0..MaxStripeEvents /\ 0 \in 0..MaxRedeliveries
  BY BillingAssumption
<1> QED BY <1>1 DEF BillingInit, BillingCounters

LEMMA BillingCountersStep == BillingCounters /\ [BillingNext]_billingVars => BillingCounters'
<1> SUFFICES ASSUME BillingCounters, [BillingNext]_billingVars PROVE BillingCounters'
  OBVIOUS
<1>1. /\ emitted \in 0..MaxStripeEvents /\ redelivered \in 0..MaxRedeliveries
      /\ disordered \in BOOLEAN /\ overlapped \in BOOLEAN /\ replaced \in BOOLEAN /\ raced \in BOOLEAN
      /\ MaxStripeEvents \in Nat /\ MaxRedeliveries \in Nat
  BY BillingAssumption DEF BillingCounters
<1> SUFFICES /\ emitted' \in 0..MaxStripeEvents /\ redelivered' \in 0..MaxRedeliveries
             /\ disordered' \in BOOLEAN /\ overlapped' \in BOOLEAN /\ replaced' \in BOOLEAN
             /\ raced' \in BOOLEAN
  BY DEF BillingCounters
<1> DEFINE Counted == /\ emitted' \in 0..MaxStripeEvents /\ redelivered' \in 0..MaxRedeliveries
                      /\ disordered' \in BOOLEAN /\ overlapped' \in BOOLEAN /\ replaced' \in BOOLEAN
                      /\ raced' \in BOOLEAN
<1>2. ASSUME NEW es, Emit(es), Len(es) \in {1, 2} PROVE emitted' \in 0..MaxStripeEvents
  BY <1>1, <1>2 DEF Emit
<1>3. CASE ViewSubscription
  BY <1>1, <1>3 DEF ViewSubscription, stripe, billingHistory
<1>4. ASSUME NEW r \in Checkouts, ReadSubscription(r) \/ OpenCheckout(r) PROVE Counted
  BY <1>1, <1>4 DEF ReadSubscription, OpenCheckout, stripe, billingHistory
<1>5. ASSUME NEW r \in Checkouts,
             Pay(r) \/ SubscriptionEnds(r) \/ \E status \in Ongoing : StatusChanges(r, status)
      PROVE  Counted
  <2>1. PICK es : Emit(es) /\ Len(es) \in {1, 2}
    <3>1. \A e, d : Len(<<e>>) = 1 /\ Len(<<e, d>>) = 2
      OBVIOUS
    <3>2. CASE Pay(r)
      BY <3>1, <3>2 DEF Pay
    <3>3. CASE SubscriptionEnds(r)
      BY <3>1, <3>3 DEF SubscriptionEnds
    <3>4. ASSUME NEW status \in Ongoing, StatusChanges(r, status) PROVE \E es : Emit(es) /\ Len(es) \in {1, 2}
      BY <3>1, <3>4 DEF StatusChanges
    <3> QED BY <1>5, <3>2, <3>3, <3>4
  <2>2. emitted' \in 0..MaxStripeEvents
    BY <1>2, <2>1
  <2>3. redelivered' = redelivered /\ disordered' = disordered /\ replaced' = replaced /\ raced' = raced
    BY <1>5 DEF Pay, StatusChanges, SubscriptionEnds, billingHistory
  <2>4. overlapped' \in BOOLEAN
    BY <1>1, <1>5 DEF Pay, StatusChanges, SubscriptionEnds, billingHistory
  <2> QED BY <1>1, <2>2, <2>3, <2>4
<1>6. ASSUME NEW h, NEW i, ReadForEvent(h, i) PROVE Counted
  BY <1>1, <1>6 DEF ReadForEvent
<1>7. ASSUME NEW h, WriteForEvent(h) PROVE Counted
  <2>1. emitted' = emitted /\ overlapped' = overlapped /\ replaced' = replaced /\ raced' = raced
    BY <1>7 DEF WriteForEvent
  <2>2. \/ redelivered' = redelivered /\ disordered' = disordered
        \/ redelivered < MaxRedeliveries /\ redelivered' = redelivered + 1 /\ disordered' = TRUE
    BY <1>7 DEF WriteForEvent
  <2>3. redelivered' \in 0..MaxRedeliveries
    BY <1>1, <2>2
  <2>4. disordered' \in BOOLEAN
    BY <1>1, <2>2
  <2> QED BY <1>1, <2>1, <2>3, <2>4
<1>8. ASSUME NEW h, AbortHandler(h) PROVE Counted
  BY <1>1, <1>8 DEF AbortHandler, billingHistory
<1>9. CASE UNCHANGED billingVars
  BY <1>1, <1>9 DEF billingVars, stripe, billingHistory
<1> QED BY <1>3, <1>4, <1>5, <1>6, <1>7, <1>8, <1>9 DEF BillingNext

LEMMA BillingTypeFollows == PaidInv /\ BillingCounters => BillingTypeOK
BY DEF PaidInv, MirrorTyped, BillingCounters, BillingTypeOK, StripeEvent, CheckoutRecords, HandlerRecords

DedupHistory ==
    /\ batches \in 0..MaxBatches /\ chunkRows \subseteq TextChunks
    /\ again \subseteq Names /\ unlinked \in [Names -> Nat] /\ parallel \subseteq SUBSET Names

LEMMA DedupHistoryStart == DedupInit => DedupHistory
BY DedupAssumption DEF DedupInit, DedupHistory

LEMMA DedupHistoryStep == DedupInv /\ DedupHistory /\ [DedupNext]_dedupVars => DedupHistory'
<1> SUFFICES ASSUME DedupInv, DedupHistory, [DedupNext]_dedupVars PROVE DedupHistory'
  OBVIOUS
<1>1. /\ batches \in 0..MaxBatches /\ chunkRows \subseteq TextChunks
      /\ again \subseteq Names /\ unlinked \in [Names -> Nat] /\ parallel \subseteq SUBSET Names
      /\ MaxBatches \in Nat
  BY DedupAssumption DEF DedupHistory
<1>2. txn \in [Transactions -> Txns]
  BY DEF DedupInv, RowsTyped
<1>3. ASSUME NEW x \in Transactions, NEW c \in TextChunks, NEW b \in Batch, BeginBatch(x, c, b)
      PROVE  DedupHistory'
  BY <1>1, <1>3 DEF BeginBatch, DedupHistory
<1>4. ASSUME NEW x \in Transactions, Resolve(x) PROVE DedupHistory'
  <2>1. PICK m \in Resolved(Head(txn[x].names)) :
          parallel' = IF HasRow(m) THEN parallel ELSE parallel \cup {{m, k} : k \in NewElsewhere}
    BY <1>4 DEF Resolve
  <2>2. txn[x].names # <<>> /\ UNCHANGED <<batches, chunkRows, again, unlinked>>
    BY <1>4 DEF Resolve
  <2>3. m \in Names
    <3>1. txn[x] \in Txns
      BY <1>2
    <3>2. txn[x].names \in Seq(Names)
      BY <3>1 DEF Txns
    <3>3. Head(txn[x].names) \in Names
      BY <2>2, <3>2
    <3> QED BY <2>1, <3>3 DEF Resolved, SimilarRows
  <2>4. NewElsewhere \subseteq Names
    <3>1. ASSUME NEW y \in Transactions PROVE txn[y].new \in SUBSET Names
      <4>1. txn[y] \in Txns
        BY <1>2
      <4> QED BY <4>1 DEF Txns
    <3> QED BY <3>1 DEF NewElsewhere
  <2>5. parallel' \subseteq SUBSET Names
    BY <1>1, <2>1, <2>3, <2>4
  <2> QED BY <1>1, <2>2, <2>5 DEF DedupHistory
<1>5. ASSUME NEW x \in Transactions, UpsertEntity(x) \/ AbortBatch(x) PROVE DedupHistory'
  BY <1>1, <1>5 DEF UpsertEntity, AbortBatch, DedupHistory
<1>6. ASSUME NEW x \in Transactions, CommitBatch(x) PROVE DedupHistory'
  BY <1>1, <1>6 DEF CommitBatch, DedupHistory
<1>7. ASSUME NEW c \in TextChunks, DeleteChunk(c) PROVE DedupHistory'
  <2>1. unlinked' \in [Names -> Nat]
    <3>1. \A n \in Names : unlinked[n] \in Nat /\ unlinked[n] + 1 \in Nat
      BY <1>1
    <3> QED BY <1>7, <3>1 DEF DeleteChunk
  <2>2. chunkRows' \subseteq TextChunks /\ UNCHANGED <<batches, again, parallel>>
    BY <1>1, <1>7 DEF DeleteChunk
  <2> QED BY <1>1, <2>1, <2>2 DEF DedupHistory
<1>8. CASE UNCHANGED dedupVars
  BY <1>1, <1>8 DEF dedupVars, DedupHistory
<1> QED BY <1>3, <1>4, <1>5, <1>6, <1>7, <1>8 DEF DedupNext

LEMMA DedupTypeFollows == DedupInv /\ DedupHistory => DedupTypeOK
BY DEF DedupInv, RowsTyped, Txns, DedupHistory, DedupTypeOK

-----------------------------------------------------------------------------
(* The composition: whatever is in focus, the whole is a behaviour of every *)
(* component, so that what is proved of a component holds of the run.       *)
EachInit ==
    /\ RateInit /\ LlmInit /\ WatcherInit /\ BillingInit /\ MarketplaceInit
    /\ ChunkingInit /\ CoherenceInit /\ DedupInit /\ Init

EachStep ==
    /\ [RateNext]_rateVars /\ [LlmNext]_llmVars /\ [WatcherNext]_watcherVars
    /\ [BillingNext]_billingVars /\ [MarketplaceNext]_marketplaceVars
    /\ [ChunkingNext]_chunkingVars /\ [CoherenceNext]_coherenceVars
    /\ [DedupNext]_dedupVars /\ [Next]_vars

LEMMA ServicesStepIsEach == [ServicesNext]_servicesVars => EachStep
<1> SUFFICES ASSUME [ServicesNext]_servicesVars PROVE EachStep
  OBVIOUS
<1>1. CASE UNCHANGED servicesVars
  BY <1>1 DEF servicesVars, noRate, EachStep
<1>2. CASE ServicesNext
  BY <1>2 DEF ServicesNext, EachStep, noRate, noLlm, noWatcher, noBilling, noMarketplace, noChunking,
              noCoherence, noDedup, noBreaker
<1> QED BY <1>1, <1>2

THEOREM ServicesAreEach ==
    ServicesSpec => /\ RateSpec /\ LlmSpec /\ WatcherSpec /\ BillingSpec /\ MarketplaceSpec
                    /\ ChunkingSpec /\ CoherenceSpec /\ DedupSpec /\ Spec
<1>1. ServicesInit => EachInit
  BY DEF ServicesInit, EachInit
<1> QED
  BY <1>1, ServicesStepIsEach, PTL
     DEF ServicesSpec, EachInit, EachStep, RateSpec, LlmSpec, WatcherSpec, BillingSpec, MarketplaceSpec,
         ChunkingSpec, CoherenceSpec, DedupSpec, Spec

(* Every table, every counter and every task of the services has its type   *)
(* (ServicesTypeOK).                                                        *)
THEOREM ServicesTyped == ServicesSpec => []ServicesTypeOK
<1>1. RateSpec => []RateTypeOK
  BY LimitStart, LimitStep, RateTypeFollows, PTL DEF RateSpec
<1>2. WatcherSpec => []WatcherTypeOK
  <2>1. WatcherInv => WatcherTypeOK
    BY DEF WatcherInv
  <2> QED BY <2>1, WatcherStart, WatcherStep, PTL DEF WatcherSpec
<1>3. BillingSpec => []BillingTypeOK
  BY PaidStart, PaidStep, BillingCountersStart, BillingCountersStep, BillingTypeFollows, PTL DEF BillingSpec
<1>4. MarketplaceSpec => []MarketplaceTypeOK
  <2>1. MarketplaceInv => MarketplaceTypeOK
    BY DEF MarketplaceInv
  <2> QED BY <2>1, PlacesHold, PTL
<1>5. ChunkingSpec => []ChunkingTypeOK
  <2>1. ChunkingInv => ChunkingTypeOK
    BY DEF ChunkingInv
  <2> QED BY <2>1, BehindIsCovered, PTL
<1>6. CoherenceSpec => []CoherenceTypeOK
  <2>1. CoherenceInv => CoherenceTypeOK
    BY DEF CoherenceInv
  <2> QED BY <2>1, CoherenceInvariance, PTL
<1>7. DedupSpec => []DedupTypeOK
  BY DedupStart, DedupStep, DedupHistoryStart, DedupHistoryStep, DedupTypeFollows, PTL DEF DedupSpec
<1>8. (RateTypeOK /\ LlmTypeOK /\ WatcherTypeOK /\ BillingTypeOK /\ MarketplaceTypeOK
       /\ ChunkingTypeOK /\ CoherenceTypeOK /\ DedupTypeOK /\ TypeOK) => ServicesTypeOK
  BY DEF ServicesTypeOK
<1> QED
  BY <1>1, <1>2, <1>3, <1>4, <1>5, <1>6, <1>7, <1>8, ServicesAreEach, ExtractionTyped, TypeCorrect, PTL
=============================================================================
