------------------------------- MODULE RateLimiter --------------------------------
(*******************************************************************************)
(* middleware.Rate of the API gateway, which guards GET /api/isearch: every     *)
(* request receives from the channel of one time.Ticker before it goes on.  The *)
(* channel keeps one tick nobody waits for and drops the others; waiting        *)
(* goroutines are served in the order in which they came.  A request whose      *)
(* client has gone keeps its place: nothing in Rate looks at the context.       *)
(*******************************************************************************)
EXTENDS Integers, Sequences

CONSTANTS
  Rates,        \* values of SearchRate; zero or less means no limit
  Second,       \* time.Second, in units of the clock
  MaxTime,      \* bound: how long the clock runs
  MaxRequests   \* bound: how many requests arrive

ASSUME RatesAssumption == Rates \subseteq Int
ASSUME SecondAssumption == Second \in Nat \ {0}
ASSUME BoundsAssumption == MaxTime \in Nat /\ MaxRequests \in Nat

VARIABLES
  rps,      \* the configured rate
  now,      \* the clock, which starts with the ticker
  ticks,    \* ticks in the ticker's channel, which has room for one
  waiting,  \* the requests blocked in <-ticker.C, in order of arrival
  passed    \* the requests for which next was called, in that order

vars == <<rps, now, ticks, waiting, passed>>

(* The period of the ticker; a division that gives zero is repaired. *)
Interval == IF Second \div rps > 0 THEN Second \div rps ELSE Second

(* A request, with the time of its arrival and the number of requests then     *)
(* ahead of it; when it passes, also with the time of that.                    *)
Request == [since |-> now, ahead |-> Len(waiting)]
Passed(r, t) == [since |-> r.since, ahead |-> r.ahead, at |-> t]

Init ==
  /\ rps \in Rates
  /\ now = 0
  /\ ticks = 0
  /\ waiting = <<>>
  /\ passed = <<>>

(* rps <= 0: the handler is next itself. *)
ArriveUnlimited ==
  /\ rps <= 0
  /\ Len(passed) < MaxRequests
  /\ passed' = Append(passed, Passed(Request, now))
  /\ UNCHANGED <<rps, now, ticks, waiting>>

(* Mutant: the tick found in the channel is not taken from it. *)
ArriveKeepingTick ==
  /\ rps > 0
  /\ Len(passed) + Len(waiting) < MaxRequests
  /\ IF ticks > 0
       THEN passed' = Append(passed, Passed(Request, now)) /\ UNCHANGED waiting
       ELSE waiting' = Append(waiting, Request) /\ UNCHANGED passed
  /\ UNCHANGED <<rps, now, ticks>>

(* Mutant: requests poll the channel in a loop, and the newest may win. *)
ArrivePolling ==
  /\ rps > 0
  /\ Len(passed) + Len(waiting) < MaxRequests
  /\ IF ticks > 0
       THEN passed' = Append(passed, Passed(Request, now)) /\ UNCHANGED waiting
       ELSE waiting' = <<Request>> \o waiting /\ UNCHANGED passed
  /\ ticks' = 0
  /\ UNCHANGED <<rps, now>>

(* A request arrives: it takes the tick in the channel, or queues up. *)
Arrive ==
  /\ rps > 0
  /\ Len(passed) + Len(waiting) < MaxRequests
  /\ IF ticks > 0
       THEN passed' = Append(passed, Passed(Request, now)) /\ UNCHANGED waiting
       ELSE waiting' = Append(waiting, Request) /\ UNCHANGED passed
  /\ ticks' = 0
  /\ UNCHANGED <<rps, now>>

(* Time goes on.  When the period is over the ticker sends without blocking:   *)
(* to the first request that waits, or into the channel if that is empty.      *)
Clock ==
  /\ now < MaxTime
  /\ now' = now + 1
  /\ IF rps > 0 /\ now' % Interval = 0
       THEN IF waiting = <<>>
              THEN ticks' = 1 /\ UNCHANGED <<waiting, passed>>
              ELSE /\ passed' = Append(passed, Passed(Head(waiting), now'))
                   /\ waiting' = Tail(waiting)
                   /\ UNCHANGED ticks
       ELSE UNCHANGED <<ticks, waiting, passed>>
  /\ UNCHANGED rps

(* The bounds of the model are reached. *)
Finished == now = MaxTime /\ UNCHANGED vars

Next == ArriveUnlimited \/ Arrive \/ Clock \/ Finished

Spec == Init /\ [][Next]_vars

--------------------------------------------------------------------------------
(* Properties. *)

TypeOK ==
  /\ rps \in Rates
  /\ now \in 0..MaxTime
  /\ ticks \in 0..1
  /\ waiting \in Seq([since : 0..MaxTime, ahead : 0..MaxRequests])
  /\ passed \in Seq([since : 0..MaxTime, ahead : 0..MaxRequests, at : 0..MaxTime])

(* However requests bunch up, the gateway lets through no more than the ticks  *)
(* that fell into any stretch of time, and the one that was kept before it.    *)
RateBounded ==
  rps > 0 =>
    \A i, j \in 1..Len(passed) :
      i <= j => (j - i - 1) * Interval <= passed[j].at - passed[i].at

(* Nobody starves: a request waits for one tick per request ahead of it and    *)
(* one for itself, no longer; this holds of those who still wait, too.         *)
WaitBounded ==
  rps > 0 =>
    /\ \A i \in 1..Len(passed) :
         passed[i].at - passed[i].since <= (passed[i].ahead + 1) * Interval
    /\ \A i \in 1..Len(waiting) :
         now - waiting[i].since <= (waiting[i].ahead + 1) * Interval

(* Nobody is overtaken by a request that came after it. *)
FirstComeFirstServed ==
  \A i, j \in 1..Len(passed) : i <= j => passed[i].since <= passed[j].since
================================================================================
