---------------------------- MODULE ConcurrencyLimiter ----------------------------
(*******************************************************************************)
(* middleware.Concurrency of the API gateway, which guards GET /api/search: a   *)
(* buffered channel as a semaphore, taken without waiting and given back by a   *)
(* deferred receive.  Each request is served by a goroutine of its own.         *)
(*******************************************************************************)
EXTENDS Integers, FiniteSets

CONSTANTS
  Requests,  \* the requests of one test pack, or of one burst
  Limits     \* values of SearchConcurrency; zero or less means no limit

ASSUME RequestsAssumption == IsFiniteSet(Requests)
ASSUME LimitsAssumption == Limits \subseteq Int

VARIABLES
  limit,  \* the configured limit
  sem,    \* number of elements in the channel sem
  pc      \* where the goroutine of each request is

semVars == <<limit, sem, pc>>

In(where) == {r \in Requests : pc[r] = where}

(* Requests for which next has been called. *)
Admitted == In("inside") \cup In("served") \cup In("panicked")

SemInit ==
  /\ limit \in Limits
  /\ sem = 0
  /\ pc = [r \in Requests |-> "new"]

(* limit <= 0: the handler is next itself. *)
Pass(r) ==
  /\ pc[r] = "new"
  /\ limit <= 0
  /\ pc' = [pc EXCEPT ![r] = "inside"]
  /\ UNCHANGED <<limit, sem>>

(* case sem <- struct{}{} *)
Enter(r) ==
  /\ pc[r] = "new"
  /\ limit > 0
  /\ sem < limit
  /\ sem' = sem + 1
  /\ pc' = [pc EXCEPT ![r] = "inside"]
  /\ UNCHANGED limit

(* Mutant: the channel has room for one element less. *)
RefuseEarly(r) ==
  /\ pc[r] = "new"
  /\ limit > 0
  /\ sem >= limit - 1
  /\ pc' = [pc EXCEPT ![r] = "refused"]
  /\ UNCHANGED <<limit, sem>>

(* default: 503 *)
Refuse(r) ==
  /\ pc[r] = "new"
  /\ limit > 0
  /\ sem = limit
  /\ pc' = [pc EXCEPT ![r] = "refused"]
  /\ UNCHANGED <<limit, sem>>

(* Mutant: the slot is given back after next, not deferred. *)
LeaveUndeferred(r) ==
  /\ pc[r] = "inside"
  /\ \/ pc' = [pc EXCEPT ![r] = "served"] /\ sem' = IF limit > 0 THEN sem - 1 ELSE sem
     \/ pc' = [pc EXCEPT ![r] = "panicked"] /\ UNCHANGED sem
  /\ UNCHANGED limit

(* next returns, or panics (net/http recovers): the deferred receive runs.     *)
Leave(r) ==
  /\ pc[r] = "inside"
  /\ \E end \in {"served", "panicked"} : pc' = [pc EXCEPT ![r] = end]
  /\ sem' = IF limit > 0 THEN sem - 1 ELSE sem
  /\ UNCHANGED limit

PackServed == (\A r \in Requests : pc[r] \notin {"new", "inside"}) /\ UNCHANGED semVars

SemNext == (\E r \in Requests : Pass(r) \/ Enter(r) \/ Refuse(r) \/ Leave(r)) \/ PackServed

SemSpec == SemInit /\ [][SemNext]_semVars

--------------------------------------------------------------------------------
(* Properties. *)

SemTypeOK ==
  /\ limit \in Limits
  /\ sem \in 0..Cardinality(Requests)
  /\ pc \in [Requests -> {"new", "inside", "served", "panicked", "refused"}]

(* Never more than limit requests are in the search handler, and no slot is    *)
(* lost: the channel holds as many elements as there are requests inside.      *)
SlotsMatch ==
  limit > 0 =>
    /\ sem = Cardinality(In("inside"))
    /\ sem <= limit

(* However a pack of requests interleaves, at least limit of them get through  *)
(* before the first is refused (tests/middleware_test.go, lines 15 and 44).    *)
FirstLimitServed == In("refused") # {} => Cardinality(Admitted) >= limit
================================================================================
