-------------------------------- MODULE MCLimiters --------------------------------
(* The two limiters of the API gateway, with small sets for their run.  They    *)
(* guard different routes and share nothing, so what one does while the other   *)
(* rests is all that it can do: the behaviours of both are interleavings of it. *)
EXTENDS ConcurrencyLimiter, RateLimiter

CONSTANTS r1, r2, r3, r4

FourRequests == {r1, r2, r3, r4}

(* No limit, limits that bite, and one that never does. *)
SomeLimits == {0, 1, 2, 5}

(* No limit, a tick per second, several ticks per second, a rate that does not *)
(* divide the second, and one that the clock cannot resolve.                   *)
SomeRates == {0, 1, 2, 4, 7}

SearchRests  == In("new") = Requests
ISearchRests == now = 0 /\ waiting = <<>> /\ passed = <<>>

LimitersInit == SemInit /\ Init /\ (limit = 0 \/ rps = 0)

LimitersNext ==
  \/ ISearchRests /\ SemNext /\ UNCHANGED vars
  \/ SearchRests /\ Next /\ UNCHANGED semVars

LimitersSpec == LimitersInit /\ [][LimitersNext]_<<semVars, vars>>
================================================================================
