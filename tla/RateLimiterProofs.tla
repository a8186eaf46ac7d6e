---------------------------- MODULE RateLimiterProofs -----------------------------
(* Theorems about RateLimiter, for every rate, length of the second and number  *)
(* of requests.  Before anything else: what % says from one moment to the next. *)
EXTENDS RateLimiter, TLAPS

LEMMA Division ==
  ASSUME NEW I \in Nat \ {0}, NEW a \in Nat
  PROVE  a = I * (a \div I) + (a % I) /\ a \div I \in Nat /\ a % I \in 0..(I - 1)
  OBVIOUS

LEMMA Multiples ==
  ASSUME NEW I \in Nat \ {0}, NEW p \in Int, NEW q \in Int, p < q
  PROVE  I * p + I <= I * q
  OBVIOUS

LEMMA OneMore ==
  ASSUME NEW I \in Nat \ {0}, NEW n \in Int
  PROVE  (n + 1) * I = n * I + I
  OBVIOUS

LEMMA LaterByOne ==
  ASSUME NEW a \in Int, NEW I \in Int, NEW p \in Int, NEW d \in Int, NEW e \in Int,
         a <= d - p, d + I <= e
  PROVE  a + I <= e - p
  OBVIOUS

LEMMA Later ==
  ASSUME NEW a \in Int, NEW I \in Nat, NEW e, e = a + I
  PROVE  e \in Int /\ a <= e /\ a + I <= e
  OBVIOUS

LEMMA Element ==
  ASSUME NEW S, NEW s \in Seq(S), NEW i \in 1..Len(s)
  PROVE  s[i] \in S
  OBVIOUS

LEMMA HeadAndTail ==
  ASSUME NEW S, NEW s \in Seq(S), s # <<>>
  PROVE  /\ Len(s) \in Nat \ {0} /\ Head(s) \in S /\ Head(s) = s[1]
         /\ Tail(s) \in Seq(S) /\ Len(Tail(s)) = Len(s) - 1
         /\ \A i \in 1..(Len(s) - 1) : Tail(s)[i] = s[i + 1]
  OBVIOUS

(* The remainder grows with the clock, until a period is over. *)
LEMMA Remainder ==
  ASSUME NEW I \in Nat \ {0}, NEW a \in Nat
  PROVE  /\ (a + 1) % I = 0 => a % I = I - 1
         /\ (a + 1) % I # 0 => (a + 1) % I = (a % I) + 1
  <1> DEFINE p == a \div I
             q == (a + 1) \div I
             r == a % I
             s == (a + 1) % I
  <1>1. a = I * p + r /\ p \in Nat /\ r \in 0..(I - 1)
    BY Division
  <1>2. a + 1 = I * q + s /\ q \in Nat /\ s \in 0..(I - 1)
    <2>1. a + 1 \in Nat
      OBVIOUS
    <2> QED BY <2>1, Division
  <1>3. I * p \in Int /\ I * q \in Int
    BY <1>1, <1>2
  <1> HIDE DEF p, q, r, s
  <1>4. p < q => I * p + I <= I * q
    BY <1>1, <1>2, Multiples
  <1>5. q < p => I * q + I <= I * p
    BY <1>1, <1>2, Multiples
  <1>6. p < q \/ q < p \/ p = q
    BY <1>1, <1>2
  <1>7. p + 1 < q => I * (p + 1) + I <= I * q
    BY <1>1, <1>2, Multiples
  <1>8. I * (p + 1) = I * p + I
    BY <1>1
  <1>9. s = 0 => r = I - 1
    BY <1>1, <1>2, <1>3, <1>4, <1>5, <1>6
  <1>10. s # 0 => s = r + 1
    BY <1>1, <1>2, <1>3, <1>4, <1>5, <1>6, <1>7, <1>8
  <1> QED BY <1>9, <1>10 DEF r, s

--------------------------------------------------------------------------------
(* The last tick of the clock, and the time at which a request that comes next *)
(* may pass: the tick in the channel is as old as that.                        *)
Last == now - (now % Interval)
Due  == IF ticks > 0 THEN Last ELSE Last + Interval

Types ==
  /\ rps \in Rates
  /\ now \in 0..MaxTime
  /\ ticks \in 0..1
  /\ waiting \in Seq([since : 0..MaxTime, ahead : 0..MaxRequests])
  /\ passed \in Seq([since : 0..MaxTime, ahead : 0..MaxRequests, at : 0..MaxTime])
  /\ Len(waiting) <= MaxRequests

(* One request waits for one tick. *)
QueueInv ==
  /\ ticks > 0 => waiting = <<>>
  /\ rps <= 0 => waiting = <<>>

(* Every pass has cost a tick, and the next one will. *)
PaceInv == rps > 0 => \A i \in 1..Len(passed) : (Len(passed) - i) * Interval <= Due - passed[i].at

(* The request at place i of the queue passes with the i-th tick from now. *)
PatienceInv ==
  rps > 0 =>
    \A i \in 1..Len(waiting) :
      Last + i * Interval <= waiting[i].since + (waiting[i].ahead + 1) * Interval

(* Arrival times grow along passed, then along waiting, then to now. *)
OrderInv ==
  /\ \A i \in 1..Len(passed) : passed[i].since <= now
  /\ \A i \in 1..Len(waiting) : waiting[i].since <= now
  /\ \A i, j \in 1..Len(waiting) : i <= j => waiting[i].since <= waiting[j].since
  /\ \A i \in 1..Len(passed), j \in 1..Len(waiting) : passed[i].since <= waiting[j].since

Waits == rps > 0 => \A i \in 1..Len(passed) :
           passed[i].at - passed[i].since <= (passed[i].ahead + 1) * Interval

IInv ==
  /\ Types /\ QueueInv /\ PaceInv /\ PatienceInv /\ OrderInv
  /\ RateBounded /\ Waits /\ FirstComeFirstServed

--------------------------------------------------------------------------------
LEMMA Period ==
  ASSUME rps \in Int, rps > 0
  PROVE  Interval \in Nat \ {0}
  <1>1. Second \div rps \in Int
    BY SecondAssumption
  <1> QED BY <1>1, SecondAssumption DEF Interval

LEMMA LastTick ==
  ASSUME Types, rps > 0
  PROVE  Last \in Int /\ Last <= now /\ now < Last + Interval /\ Interval \in Nat \ {0}
  <1>1. rps \in Int /\ now \in Nat
    BY RatesAssumption, BoundsAssumption DEF Types
  <1>2. Interval \in Nat \ {0}
    BY <1>1, Period
  <1>3. now % Interval \in 0..(Interval - 1)
    BY <1>1, <1>2, Division
  <1> QED BY <1>1, <1>2, <1>3 DEF Last

LEMMA NextTick ==
  ASSUME Types, rps > 0, now' = now + 1, rps' = rps
  PROVE  /\ Interval' = Interval
         /\ now' % Interval = 0 => Last' = Last + Interval /\ Last' = now'
         /\ now' % Interval # 0 => Last' = Last
  <1>1. rps \in Int /\ now \in Nat
    BY RatesAssumption, BoundsAssumption DEF Types
  <1>2. Interval \in Nat \ {0}
    BY <1>1, Period
  <1>3. Interval' = Interval
    BY DEF Interval
  <1>4. /\ now' % Interval = 0 => now % Interval = Interval - 1
        /\ now' % Interval # 0 => now' % Interval = (now % Interval) + 1
    BY <1>1, <1>2, Remainder
  <1>5. now % Interval \in 0..(Interval - 1)
    BY <1>1, <1>2, Division
  <1>6. Last' = now' - (now' % Interval)
    BY <1>3 DEF Last
  <1> QED BY <1>1, <1>2, <1>3, <1>4, <1>5, <1>6 DEF Last

LEMMA Start == Init => IInv
  <1> SUFFICES ASSUME Init PROVE IInv
    OBVIOUS
  <1>1. Types
    BY BoundsAssumption DEF Init, Types
  <1> QED BY <1>1 DEF Init, IInv, QueueInv, PaceInv, PatienceInv, OrderInv, RateBounded, Waits,
             FirstComeFirstServed

(* A request passes: what Append does to the sequence of those that have. *)
LEMMA PassTypes ==
  ASSUME Types, NEW r \in [since : 0..MaxTime, ahead : 0..MaxRequests], NEW t \in 0..MaxTime,
         passed' = Append(passed, Passed(r, t))
  PROVE  /\ passed' \in Seq([since : 0..MaxTime, ahead : 0..MaxRequests, at : 0..MaxTime])
         /\ Len(passed') = Len(passed) + 1 /\ Len(passed) \in Nat
         /\ \A i \in 1..Len(passed) : passed'[i] = passed[i]
         /\ passed'[Len(passed) + 1] = Passed(r, t)
         /\ Passed(r, t) \in [since : 0..MaxTime, ahead : 0..MaxRequests, at : 0..MaxTime]
  <1>1. Passed(r, t) \in [since : 0..MaxTime, ahead : 0..MaxRequests, at : 0..MaxTime]
    BY DEF Passed
  <1> HIDE DEF Passed
  <1> QED BY <1>1 DEF Types

(* The first n passes of s keep the pace I, the next may come at time d.       *)
KeepPace(s, n, I, d) ==
  /\ \A i \in 1..n : (n - i) * I <= d - s[i].at
  /\ \A i, j \in 1..n : i <= j => (j - i - 1) * I <= s[j].at - s[i].at

(* One more pass, at time t, keeps the pace: d and e are when the next request *)
(* could pass, before and after.                                               *)
LEMMA Paced ==
  ASSUME NEW n \in Nat, NEW s, NEW u, NEW I \in Nat \ {0},
         NEW d \in Int, NEW e \in Int, NEW t \in Int, d <= t, t <= e, d + I <= e,
         \A i \in 1..n : s[i].at \in Int /\ u[i] = s[i],
         u[n + 1].at = t, KeepPace(s, n, I, d)
  PROVE  KeepPace(u, n + 1, I, e)
  <1> USE DEF KeepPace
  <1>1. ASSUME NEW i \in 1..n
        PROVE  /\ (n - i) * I <= d - s[i].at /\ (n - i) * I \in Int
               /\ (n + 1 - i) * I = (n - i) * I + I
               /\ u[i].at = s[i].at /\ s[i].at \in Int
    <2>1. n - i \in Int /\ n + 1 - i = (n - i) + 1
      OBVIOUS
    <2> QED BY <2>1, OneMore
  <1>2. ASSUME NEW i \in 1..(n + 1) PROVE (n + 1 - i) * I <= e - u[i].at
    <2>1. CASE i \in 1..n
      <3>1. (n - i) * I + I <= e - s[i].at
        BY <1>1, <2>1, LaterByOne
      <3> QED BY <1>1, <2>1, <3>1
    <2>2. CASE i = n + 1
      <3>1. (n + 1 - i) * I = 0
        BY <2>2
      <3> QED BY <2>2, <3>1
    <2> QED BY <2>1, <2>2
  <1>3. ASSUME NEW i \in 1..(n + 1), NEW j \in 1..(n + 1), i <= j
        PROVE  (j - i - 1) * I <= u[j].at - u[i].at
    <2>1. CASE j \in 1..n
      <3>1. i \in 1..n
        BY <1>3, <2>1
      <3>2. (j - i - 1) * I <= s[j].at - s[i].at
        BY <1>3, <2>1, <3>1
      <3> QED BY <1>1, <2>1, <3>1, <3>2
    <2>2. CASE j = n + 1 /\ i \in 1..n
      <3>1. j - i - 1 = n - i
        BY <2>2
      <3>2. (n - i) * I <= d - s[i].at /\ (n - i) * I \in Int /\ u[i].at = s[i].at /\ s[i].at \in Int
        BY <1>1, <2>2
      <3>3. (n - i) * I <= u[j].at - u[i].at
        BY <2>2, <3>2
      <3> QED BY <3>1, <3>3
    <2>3. CASE j = n + 1 /\ i = n + 1
      <3>1. j - i - 1 = -1 /\ (-1) * I <= 0
        BY <2>3
      <3> QED BY <2>3, <3>1
    <2> QED BY <2>1, <2>2, <2>3
  <1> QED BY <1>2, <1>3

LEMMA PassKeepsPace ==
  ASSUME Types, PaceInv, RateBounded, rps > 0, rps' = rps,
         NEW r \in [since : 0..MaxTime, ahead : 0..MaxRequests], NEW t \in 0..MaxTime,
         passed' = Append(passed, Passed(r, t)),
         Due \in Int, Due' \in Int, Due <= t, t <= Due', Due + Interval <= Due'
  PROVE  PaceInv' /\ RateBounded'
  <1>1. Interval \in Nat \ {0} /\ Interval' = Interval
    BY RatesAssumption, Period DEF Types, Interval
  <1>2. /\ Len(passed') = Len(passed) + 1 /\ Len(passed) \in Nat
        /\ \A i \in 1..Len(passed) : passed'[i] = passed[i]
        /\ passed'[Len(passed) + 1].at = t
    BY PassTypes DEF Passed
  <1>3. t \in Int /\ \A i \in 1..Len(passed) : passed[i].at \in Int
    <2>1. 0..MaxTime \subseteq Int
      BY BoundsAssumption
    <2>2. \A i \in 1..Len(passed) :
            passed[i] \in [since : 0..MaxTime, ahead : 0..MaxRequests, at : 0..MaxTime]
      BY Element DEF Types
    <2> QED BY <2>1, <2>2
  <1>4. KeepPace(passed, Len(passed), Interval, Due)
    BY DEF PaceInv, RateBounded, KeepPace
  <1>5. KeepPace(passed', Len(passed) + 1, Interval, Due')
    <2> HIDE DEF Due, Interval, KeepPace
    <2> QED BY <1>1, <1>2, <1>3, <1>4, Paced
  <1>6. KeepPace(passed', Len(passed'), Interval', Due')
    <2> HIDE DEF Due, Interval, KeepPace
    <2> QED BY <1>1, <1>2, <1>5, Zenon
  <1> QED BY <1>6 DEF PaceInv, RateBounded, KeepPace

LEMMA PassKeepsWaits ==
  ASSUME Types, Waits, rps' = rps,
         NEW r \in [since : 0..MaxTime, ahead : 0..MaxRequests], NEW t \in 0..MaxTime,
         passed' = Append(passed, Passed(r, t)),
         rps > 0 => t - r.since <= (r.ahead + 1) * Interval
  PROVE  Waits'
  <1>1. Interval' = Interval
    BY DEF Interval
  <1>2. /\ Len(passed') = Len(passed) + 1 /\ Len(passed) \in Nat
        /\ \A i \in 1..Len(passed) : passed'[i] = passed[i]
        /\ LET p == passed'[Len(passed) + 1] IN p.at = t /\ p.since = r.since /\ p.ahead = r.ahead
    BY PassTypes DEF Passed
  <1> QED BY <1>1, <1>2 DEF Waits

LEMMA PassKeepsOrder ==
  ASSUME Types, FirstComeFirstServed,
         NEW r \in [since : 0..MaxTime, ahead : 0..MaxRequests], NEW t \in 0..MaxTime,
         passed' = Append(passed, Passed(r, t)),
         \A i \in 1..Len(passed) : passed[i].since <= r.since
  PROVE  FirstComeFirstServed' /\ \A i \in 1..Len(passed') : passed'[i].since <= r.since
  <1>1. /\ Len(passed') = Len(passed) + 1 /\ Len(passed) \in Nat
        /\ \A i \in 1..Len(passed) : passed'[i] = passed[i]
        /\ passed'[Len(passed) + 1].since = r.since
    BY PassTypes DEF Passed
  <1>2. r.since \in Int
    BY BoundsAssumption
  <1> QED BY <1>1, <1>2 DEF FirstComeFirstServed

LEMMA RequestType ==
  ASSUME Types
  PROVE  Request \in [since : 0..MaxTime, ahead : 0..MaxRequests]
  <1>1. Len(waiting) \in 0..MaxRequests
    BY BoundsAssumption DEF Types
  <1> QED BY <1>1 DEF Types, Request

LEMMA TimesAreNumbers ==
  ASSUME Types
  PROVE  /\ now \in Nat
         /\ \A i \in 1..Len(passed) : passed[i].since \in Int
         /\ \A i \in 1..Len(waiting) : waiting[i].since \in Int /\ waiting[i].ahead \in Int
  <1>1. 0..MaxTime \subseteq Nat /\ 0..MaxRequests \subseteq Nat
    BY BoundsAssumption
  <1>2. \A i \in 1..Len(passed) :
          passed[i] \in [since : 0..MaxTime, ahead : 0..MaxRequests, at : 0..MaxTime]
    BY Element DEF Types
  <1>3. \A i \in 1..Len(waiting) : waiting[i] \in [since : 0..MaxTime, ahead : 0..MaxRequests]
    BY Element DEF Types
  <1> QED BY <1>1, <1>2, <1>3 DEF Types

LEMMA UnlimitedKeeps == IInv /\ ArriveUnlimited => IInv'
  <1> SUFFICES ASSUME IInv, ArriveUnlimited PROVE IInv'
    OBVIOUS
  <1> USE DEF IInv
  <1>1. Request \in [since : 0..MaxTime, ahead : 0..MaxRequests] /\ Request.since = now
    BY RequestType DEF Request
  <1>2. /\ passed' = Append(passed, Passed(Request, now)) /\ now \in 0..MaxTime
        /\ rps <= 0 /\ rps' = rps /\ now' = now /\ ticks' = ticks /\ waiting' = waiting
    BY DEF ArriveUnlimited, Types
  <1>3. ~(rps > 0)
    BY <1>2, RatesAssumption DEF Types
  <1>4. Types'
    <2>1. passed' \in Seq([since : 0..MaxTime, ahead : 0..MaxRequests, at : 0..MaxTime])
      BY <1>1, <1>2, PassTypes
    <2> QED BY <1>2, <2>1 DEF Types
  <1>5. QueueInv' /\ PaceInv' /\ PatienceInv' /\ RateBounded' /\ Waits' /\ waiting' = <<>>
    BY <1>2, <1>3 DEF QueueInv, PaceInv, PatienceInv, RateBounded, Waits
  <1>6. \A i \in 1..Len(passed) : passed[i].since <= Request.since
    BY <1>1 DEF OrderInv
  <1>7. FirstComeFirstServed' /\ \A i \in 1..Len(passed') : passed'[i].since <= Request.since
    BY <1>1, <1>2, <1>6, PassKeepsOrder
  <1>8. OrderInv'
    BY <1>1, <1>2, <1>5, <1>7 DEF OrderInv
  <1> QED BY <1>4, <1>5, <1>7, <1>8

(* A request takes the tick in the channel, which came not after it. *)
LEMMA TakeTickKeeps == IInv /\ Arrive /\ ticks > 0 => IInv'
  <1> SUFFICES ASSUME IInv, Arrive, ticks > 0 PROVE IInv'
    OBVIOUS
  <1> USE DEF IInv
  <1>1. Request \in [since : 0..MaxTime, ahead : 0..MaxRequests] /\ Request.since = now
    BY RequestType DEF Request
  <1>2. /\ passed' = Append(passed, Passed(Request, now)) /\ now \in 0..MaxTime
        /\ rps > 0 /\ rps' = rps /\ now' = now /\ ticks' = 0 /\ waiting' = waiting
        /\ waiting = <<>> /\ Len(waiting) = 0
    BY DEF Arrive, Types, QueueInv
  <1>3. Types'
    <2>1. passed' \in Seq([since : 0..MaxTime, ahead : 0..MaxRequests, at : 0..MaxTime])
      BY <1>1, <1>2, PassTypes
    <2> QED BY <1>2, <2>1 DEF Types
  <1>4. Last \in Int /\ Last <= now /\ now < Last + Interval /\ Interval \in Nat \ {0}
    BY <1>2, LastTick
  <1>5. Due = Last /\ Due' = Last + Interval
    <2>1. Last' = Last /\ Interval' = Interval
      BY <1>2 DEF Last, Interval
    <2>2. ~(ticks' > 0)
      BY <1>2
    <2> QED BY <2>1, <2>2 DEF Due
  <1>6. PaceInv' /\ RateBounded'
    <2>1. Due \in Int /\ Due' \in Int /\ Due <= now /\ now <= Due' /\ Due + Interval <= Due'
      <3> HIDE DEF Last, Interval, Due
      <3>1. now \in Int
        BY TimesAreNumbers
      <3> QED BY <1>4, <1>5, <3>1
    <2> QED BY <1>1, <1>2, <2>1, PassKeepsPace
  <1>7. Waits'
    <2>1. now - Request.since <= (Request.ahead + 1) * Interval
      <3>1. Request.ahead = 0 /\ now \in Int
        BY <1>2, TimesAreNumbers DEF Request
      <3> QED BY <1>1, <1>4, <3>1
    <2> QED BY <1>1, <1>2, <2>1, PassKeepsWaits
  <1>8. \A i \in 1..Len(passed) : passed[i].since <= Request.since
    BY <1>1 DEF OrderInv
  <1>9. FirstComeFirstServed' /\ \A i \in 1..Len(passed') : passed'[i].since <= Request.since
    BY <1>1, <1>2, <1>8, PassKeepsOrder
  <1>10. OrderInv' /\ QueueInv' /\ PatienceInv'
    BY <1>1, <1>2, <1>9 DEF OrderInv, QueueInv, PatienceInv
  <1> QED BY <1>3, <1>6, <1>7, <1>9, <1>10

(* A request queues up behind those that wait. *)
LEMMA QueueUpKeeps == IInv /\ Arrive /\ ~(ticks > 0) => IInv'
  <1> SUFFICES ASSUME IInv, Arrive, ~(ticks > 0) PROVE IInv'
    OBVIOUS
  <1> USE DEF IInv
  <1> DEFINE n == Len(waiting)
  <1>1. /\ Request \in [since : 0..MaxTime, ahead : 0..MaxRequests]
        /\ Request.since = now /\ Request.ahead = n
    BY RequestType DEF Request
  <1>2. /\ waiting' = Append(waiting, Request)
        /\ rps > 0 /\ rps' = rps /\ now' = now /\ ticks' = 0 /\ passed' = passed
        /\ Len(passed) + n < MaxRequests
    BY DEF Arrive
  <1>3. /\ waiting' \in Seq([since : 0..MaxTime, ahead : 0..MaxRequests])
        /\ Len(waiting') = n + 1 /\ n \in Nat
        /\ \A i \in 1..n : waiting'[i] = waiting[i]
        /\ waiting'[n + 1].since = now /\ waiting'[n + 1].ahead = n
    <2> HIDE DEF Request
    <2> QED BY <1>1, <1>2 DEF Types
  <1>4. Types' /\ ticks = 0
    <2>1. Len(passed) \in Nat
      BY DEF Types
    <2> QED BY <1>2, <1>3, <2>1, BoundsAssumption DEF Types
  <1>5. Last' = Last /\ Interval' = Interval /\ Due' = Due
    BY <1>2, <1>4 DEF Last, Interval, Due
  <1>6. PaceInv' /\ RateBounded' /\ Waits' /\ FirstComeFirstServed'
    <2> HIDE DEF Last, Interval, Due
    <2> QED BY <1>2, <1>5 DEF PaceInv, RateBounded, Waits, FirstComeFirstServed
  <1>7. Last \in Int /\ Last <= now /\ Interval \in Nat \ {0} /\ now \in Int
    BY <1>2, LastTick, TimesAreNumbers
  <1>8. PatienceInv'
    <2> HIDE DEF n
    <2>1. ASSUME NEW i \in 1..(n + 1)
          PROVE  Last + i * Interval <= waiting'[i].since + (waiting'[i].ahead + 1) * Interval
      <3>1. CASE i \in 1..n
        BY <1>2, <1>3, <3>1 DEF PatienceInv, n
      <3>2. CASE i = n + 1
        <4>1. waiting'[i].since = now /\ waiting'[i].ahead = n
          BY <1>3, <3>2
        <4> HIDE DEF Last, Interval
        <4>2. waiting'[i].ahead + 1 = i /\ i \in Int
          BY <1>3, <3>2, <4>1
        <4>3. i * Interval \in Int
          BY <1>7, <4>2
        <4>4. (waiting'[i].ahead + 1) * Interval = i * Interval
          BY <4>2, Zenon
        <4> QED BY <1>7, <4>1, <4>3, <4>4
      <3> QED BY <1>3, <3>1, <3>2
    <2> QED BY <1>3, <1>5, <2>1 DEF PatienceInv
  <1>9. OrderInv' /\ QueueInv'
    <2>1. \A i \in 1..n : waiting[i].since \in Int
      BY TimesAreNumbers
    <2>2. QueueInv'
      BY <1>2, RatesAssumption DEF QueueInv, Types
    <2> HIDE DEF n
    <2>3. OrderInv'
      BY <1>2, <1>3, <1>7, <2>1 DEF OrderInv, n
    <2> QED BY <2>2, <2>3
  <1> QED BY <1>4, <1>6, <1>8, <1>9

(* Time goes on within a period: nothing happens. *)
LEMMA NoTickKeeps ==
  ASSUME IInv, Clock, ~(rps > 0 /\ now' % Interval = 0)
  PROVE  IInv'
  <1> USE DEF IInv
  <1>1. /\ now' = now + 1 /\ now < MaxTime
        /\ rps' = rps /\ ticks' = ticks /\ waiting' = waiting /\ passed' = passed
    BY DEF Clock
  <1>2. now \in Nat /\ \A i \in 1..Len(passed) : passed[i].since \in Int
    BY TimesAreNumbers
  <1>3. \A i \in 1..Len(waiting) : waiting[i].since \in Int
    BY TimesAreNumbers
  <1>4. Types'
    BY <1>1, <1>2, BoundsAssumption DEF Types
  <1>5. rps > 0 => Last' = Last /\ Interval' = Interval /\ Due' = Due
    <2>1. ASSUME rps > 0 PROVE Last' = Last /\ Interval' = Interval
      <3>1. now' % Interval # 0
        BY <2>1
      <3> QED BY <1>1, <2>1, <3>1, NextTick
    <2> HIDE DEF Last, Interval
    <2> QED BY <1>1, <2>1 DEF Due
  <1>6. PaceInv' /\ RateBounded' /\ Waits' /\ FirstComeFirstServed' /\ QueueInv' /\ PatienceInv'
    <2> HIDE DEF Last, Interval, Due
    <2> QED BY <1>1, <1>5
            DEF PaceInv, RateBounded, Waits, FirstComeFirstServed, QueueInv, PatienceInv
  <1>7. OrderInv'
    BY <1>1, <1>2, <1>3 DEF OrderInv
  <1> QED BY <1>4, <1>6, <1>7

(* Nobody waits: the tick is kept in the channel, which makes nobody due later *)
(* than before.                                                                *)
LEMMA TickKeptKeeps ==
  ASSUME IInv, Clock, rps > 0, now' % Interval = 0, waiting = <<>>
  PROVE  IInv'
  <1> USE DEF IInv
  <1>1. /\ now' = now + 1 /\ now < MaxTime
        /\ rps' = rps /\ ticks' = 1 /\ waiting' = waiting /\ passed' = passed
    BY DEF Clock
  <1>2. now \in Nat /\ \A i \in 1..Len(passed) : passed[i].since \in Int
    BY TimesAreNumbers
  <1>3. Types'
    BY <1>1, <1>2, BoundsAssumption DEF Types
  <1>4. /\ Last' = Last + Interval /\ Interval' = Interval
        /\ Last \in Int /\ Interval \in Nat \ {0}
    BY <1>1, NextTick, LastTick
  <1>5. Due' = Last + Interval /\ Due <= Due' /\ Due \in Int /\ Due' \in Int
    <2> HIDE DEF Last, Interval
    <2> QED BY <1>1, <1>4 DEF Due
  <1>6. PaceInv'
    <2> HIDE DEF Last, Interval, Due
    <2>1. ASSUME NEW i \in 1..Len(passed)
          PROVE  (Len(passed) - i) * Interval <= Due' - passed[i].at
      <3>1. (Len(passed) - i) * Interval <= Due - passed[i].at
        BY DEF PaceInv
      <3>2. passed[i] \in [since : 0..MaxTime, ahead : 0..MaxRequests, at : 0..MaxTime]
        BY Element DEF Types
      <3>3. passed[i].at \in Int
        BY <3>2, BoundsAssumption
      <3>4. (Len(passed) - i) * Interval \in Int
        <4>1. Len(passed) - i \in Int
          BY DEF Types
        <4> QED BY <1>4, <4>1
      <3> QED BY <1>5, <3>1, <3>3, <3>4
    <2> QED BY <1>1, <1>4, <2>1 DEF PaceInv
  <1>7. RateBounded' /\ Waits' /\ FirstComeFirstServed' /\ QueueInv' /\ PatienceInv'
    <2> HIDE DEF Last, Interval, Due
    <2> QED BY <1>1, <1>4 DEF RateBounded, Waits, FirstComeFirstServed, QueueInv, PatienceInv
  <1>8. OrderInv'
    BY <1>1, <1>2 DEF OrderInv
  <1> QED BY <1>3, <1>6, <1>7, <1>8

(* The first of the queue passes, the others move up. *)
LEMMA TickServesKeeps ==
  ASSUME IInv, Clock, rps > 0, now' % Interval = 0, waiting # <<>>
  PROVE  IInv'
  <1> USE DEF IInv
  <1> DEFINE h == Head(waiting)
             n == Len(waiting)
  <1>1. /\ now' = now + 1 /\ now < MaxTime
        /\ rps' = rps /\ ticks' = ticks
        /\ passed' = Append(passed, Passed(h, now')) /\ waiting' = Tail(waiting)
    BY DEF Clock
  <1>2. /\ h \in [since : 0..MaxTime, ahead : 0..MaxRequests] /\ h = waiting[1] /\ 1 \in 1..n
        /\ waiting' \in Seq([since : 0..MaxTime, ahead : 0..MaxRequests])
        /\ n \in Nat /\ Len(waiting') = n - 1 /\ \A i \in 1..(n - 1) : waiting'[i] = waiting[i + 1]
    <2>1. /\ n \in Nat \ {0} /\ h \in [since : 0..MaxTime, ahead : 0..MaxRequests] /\ h = waiting[1]
          /\ Tail(waiting) \in Seq([since : 0..MaxTime, ahead : 0..MaxRequests])
          /\ Len(Tail(waiting)) = n - 1
          /\ \A i \in 1..(n - 1) : Tail(waiting)[i] = waiting[i + 1]
      BY HeadAndTail DEF Types
    <2>2. 1 \in 1..n
      BY <2>1
    <2> HIDE DEF h, n
    <2> QED BY <1>1, <2>1, <2>2
  <1>3. /\ now \in Nat /\ \A i \in 1..Len(passed) : passed[i].since \in Int
        /\ \A i \in 1..n : waiting[i].since \in Int /\ waiting[i].ahead \in Int
    BY TimesAreNumbers
  <1>4. now' \in 0..MaxTime
    BY <1>1, <1>3, BoundsAssumption
  <1>5. Types'
    <2>1. passed' \in Seq([since : 0..MaxTime, ahead : 0..MaxRequests, at : 0..MaxTime])
      BY <1>1, <1>2, <1>4, PassTypes
    <2>2. Len(waiting') <= MaxRequests
      BY <1>2, BoundsAssumption DEF Types
    <2> QED BY <1>1, <1>2, <1>4, <2>1, <2>2 DEF Types
  <1>6. /\ Last' = Last + Interval /\ Last' = now' /\ Interval' = Interval
        /\ Last \in Int /\ Interval \in Nat \ {0}
    BY <1>1, NextTick, LastTick
  <1>7. Due = now' /\ Due' = now' + Interval
    <2>1. ~(ticks > 0) /\ ~(ticks' > 0)
      BY <1>1 DEF QueueInv
    <2> HIDE DEF Last, Interval
    <2> QED BY <1>6, <2>1 DEF Due
  <1>8. PaceInv' /\ RateBounded'
    <2>1. /\ Due \in Int /\ Due' \in Int /\ Due <= now' /\ now' <= Due'
          /\ Due + Interval <= Due'
      <3> HIDE DEF Last, Interval, Due
      <3>1. now' \in Int /\ Interval \in Nat \ {0}
        BY <1>1, <1>3, <1>6
      <3>2. Due \in Int /\ Due <= now' /\ Due + Interval = now' + Interval
        BY <1>7, <3>1
      <3>3. Due' \in Int /\ now' <= Due' /\ now' + Interval <= Due'
        BY <1>7, <3>1, Later
      <3> QED BY <3>2, <3>3
    <2> QED BY <1>1, <1>2, <1>4, <2>1, PassKeepsPace
  <1>9. Waits'
    <2>1. Last + 1 * Interval <= h.since + (h.ahead + 1) * Interval
      BY <1>2 DEF PatienceInv
    <2>2. (h.ahead + 1) * Interval \in Int /\ h.since \in Int /\ h.ahead \in Int
      <3>1. h.since \in Int /\ h.ahead \in Int
        BY <1>2, <1>3
      <3> QED BY <1>6, <3>1
    <2>3. now' - h.since <= (h.ahead + 1) * Interval
      <3> HIDE DEF Last, Interval, h
      <3>1. now' = Last + 1 * Interval
        BY <1>6
      <3> QED BY <1>6, <2>1, <2>2, <3>1
    <2> QED BY <1>1, <1>2, <1>4, <2>3, PassKeepsWaits
  <1>10. PatienceInv'
    <2>1. ASSUME NEW i \in 1..(n - 1)
          PROVE  Last' + i * Interval
                   <= waiting'[i].since + (waiting'[i].ahead + 1) * Interval
      <3>1. i + 1 \in 1..n /\ i \in Int /\ waiting'[i] = waiting[i + 1]
        BY <1>2
      <3>2. Last + (i + 1) * Interval
              <= waiting[i + 1].since + (waiting[i + 1].ahead + 1) * Interval
        BY <3>1 DEF PatienceInv
      <3>3. (i + 1) * Interval = i * Interval + Interval /\ i * Interval \in Int
        BY <1>6, <3>1, OneMore
      <3>4. Last' + i * Interval = Last + (i + 1) * Interval
        <4> HIDE DEF Last, Interval
        <4> QED BY <1>6, <3>3
      <3> HIDE DEF Last, Interval
      <3> QED BY <3>1, <3>2, <3>4
    <2> HIDE DEF Last, Interval, n
    <2> QED BY <1>2, <1>6, <2>1 DEF PatienceInv
  <1>11. \A i \in 1..Len(passed) : passed[i].since <= h.since
    BY <1>2 DEF OrderInv
  <1>12. FirstComeFirstServed' /\ \A i \in 1..Len(passed') : passed'[i].since <= h.since
    BY <1>1, <1>2, <1>4, <1>11, PassKeepsOrder
  <1>13. OrderInv'
    <2>1. \A i \in 1..n : h.since <= waiting[i].since
      BY <1>2 DEF OrderInv
    <2>2. \A i \in 1..Len(passed') : passed'[i].since \in Int
      <3>1. /\ \A i \in 1..Len(passed) : passed'[i] = passed[i]
            /\ passed'[Len(passed) + 1].since = h.since
            /\ Len(passed') = Len(passed) + 1 /\ Len(passed) \in Nat
        BY <1>1, <1>2, <1>4, PassTypes DEF Passed
      <3>2. h.since \in Int
        BY <1>2, <1>3
      <3>3. ASSUME NEW i \in 1..(Len(passed) + 1) PROVE passed'[i].since \in Int
        <4>1. CASE i \in 1..Len(passed)
          BY <1>3, <3>1, <4>1
        <4>2. CASE i = Len(passed) + 1
          BY <3>1, <3>2, <4>2
        <4> QED BY <3>1, <4>1, <4>2
      <3> QED BY <3>1, <3>3
    <2>3. h.since \in Int /\ h.since <= now
      BY <1>2, <1>3 DEF OrderInv
    <2>4. \A i \in 1..(n - 1) :
            i + 1 \in 1..n /\ waiting'[i] = waiting[i + 1] /\ waiting[i + 1].since \in Int
      <3> TAKE i \in 1..(n - 1)
      <3>1. i + 1 \in 1..n
        BY <1>2
      <3> QED BY <1>2, <1>3, <3>1
    <2>5. \A i \in 1..Len(passed') : passed'[i].since <= now'
      <3> HIDE DEF h
      <3> QED BY <1>1, <1>3, <1>12, <2>2, <2>3
    <2>6. \A i \in 1..(n - 1) : waiting'[i].since <= now'
      <3> TAKE i \in 1..(n - 1)
      <3>1. i + 1 \in 1..n /\ waiting'[i] = waiting[i + 1] /\ waiting[i + 1].since \in Int
        BY <2>4
      <3>2. waiting[i + 1].since <= now
        BY <3>1 DEF OrderInv
      <3> QED BY <1>1, <1>3, <3>1, <3>2
    <2>7. \A i, j \in 1..(n - 1) : i <= j => waiting'[i].since <= waiting'[j].since
      BY <2>4 DEF OrderInv
    <2>8. \A i \in 1..Len(passed'), j \in 1..(n - 1) : passed'[i].since <= waiting'[j].since
      <3> HIDE DEF h, n
      <3> QED BY <1>12, <2>1, <2>2, <2>3, <2>4
    <2> HIDE DEF h, n
    <2> QED BY <1>2, <2>5, <2>6, <2>7, <2>8 DEF OrderInv
  <1>14. QueueInv'
    BY <1>1, RatesAssumption DEF QueueInv, Types
  <1> QED BY <1>5, <1>8, <1>9, <1>10, <1>12, <1>13, <1>14

LEMMA StepKeeps == IInv /\ [Next]_vars => IInv'
  <1> SUFFICES ASSUME IInv, [Next]_vars PROVE IInv'
    OBVIOUS
  <1>1. CASE ArriveUnlimited
    BY <1>1, UnlimitedKeeps
  <1>2. CASE Arrive
    BY <1>2, TakeTickKeeps, QueueUpKeeps
  <1>3. CASE Clock
    BY <1>3, NoTickKeeps, TickKeptKeeps, TickServesKeeps
  <1>4. CASE UNCHANGED vars
    BY <1>4 DEF vars, IInv, Types, QueueInv, PaceInv, PatienceInv, OrderInv, RateBounded, Waits,
                FirstComeFirstServed, Due, Last, Interval
  <1> QED BY <1>1, <1>2, <1>3, <1>4 DEF Next, Finished

LEMMA Inductive == Spec => []IInv
  <1> QED BY Start, StepKeeps, PTL DEF Spec

(* At every rate and with every number of requests, the state keeps its shape.   *)
THEOREM TypeCorrect == Spec => []TypeOK
  <1>1. IInv => TypeOK
    BY DEF IInv, Types, TypeOK
  <1> QED BY <1>1, Inductive, PTL

(* In any stretch of time no more requests pass than ticks fell into it, and the *)
(* one kept before it: middleware.Rate holds its rate whatever the arrivals.     *)
THEOREM RateIsBounded == Spec => []RateBounded
  <1>1. IInv => RateBounded
    BY DEF IInv
  <1> QED BY <1>1, Inductive, PTL

(* Every request, passed or still blocked in <-ticker.C, has waited no longer    *)
(* than one period for each request ahead of it and one for itself.              *)
THEOREM WaitIsBounded == Spec => []WaitBounded
  <1>1. IInv => WaitBounded
    <2> SUFFICES ASSUME IInv, rps > 0 PROVE
          \A i \in 1..Len(waiting) :
            now - waiting[i].since <= (waiting[i].ahead + 1) * Interval
      BY DEF IInv, Waits, WaitBounded
    <2> TAKE i \in 1..Len(waiting)
    <2>1. Last + i * Interval <= waiting[i].since + (waiting[i].ahead + 1) * Interval
      BY DEF IInv, PatienceInv
    <2>2. now < Last + Interval /\ Last \in Int /\ Interval \in Nat \ {0}
      BY LastTick DEF IInv
    <2>3. now \in Int /\ waiting[i].since \in Int /\ waiting[i].ahead \in Int /\ i \in Nat \ {0}
      BY TimesAreNumbers DEF IInv
    <2> HIDE DEF Last, Interval
    <2>4. Interval <= i * Interval /\ i * Interval \in Int
      BY <2>2, <2>3
    <2>5. (waiting[i].ahead + 1) * Interval \in Int
      BY <2>2, <2>3
    <2> DEFINE w == waiting[i].since
               m == (waiting[i].ahead + 1) * Interval
               k == i * Interval
    <2>6. w \in Int /\ m \in Int /\ k \in Int /\ Last + k <= w + m /\ Interval <= k
      BY <2>1, <2>3, <2>4, <2>5
    <2> HIDE DEF w, m, k
    <2>7. now - w <= m
      BY <2>2, <2>3, <2>6
    <2> QED BY <2>7 DEF w, m
  <1> QED BY <1>1, Inductive, PTL

(* Nobody is overtaken: the goroutines blocked in <-ticker.C are served in the   *)
(* order of their arrival, and a kept tick serves nobody while others wait.      *)
THEOREM ServedInOrder == Spec => []FirstComeFirstServed
  <1>1. IInv => FirstComeFirstServed
    BY DEF IInv
  <1> QED BY <1>1, Inductive, PTL

================================================================================
