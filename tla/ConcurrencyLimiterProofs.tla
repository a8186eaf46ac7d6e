------------------------- MODULE ConcurrencyLimiterProofs -------------------------
(* Theorems about ConcurrencyLimiter, for every set of requests and every limit. *)
EXTENDS ConcurrencyLimiter, FiniteSetTheorems, TLAPS

IInv ==
  /\ limit \in Limits
  /\ limit \in Int
  /\ pc \in [Requests -> {"new", "inside", "served", "panicked", "refused"}]
  /\ limit <= 0 => sem = 0
  /\ SlotsMatch
  /\ FirstLimitServed

LEMMA Finite ==
  /\ \A S \in SUBSET Requests : IsFiniteSet(S) /\ Cardinality(S) \in Nat
  /\ \A S, T \in SUBSET Requests : S \subseteq T => Cardinality(S) <= Cardinality(T)
  BY RequestsAssumption, FS_Subset, FS_CardinalityType

LEMMA Places ==
  /\ \A where : In(where) \in SUBSET Requests /\ In(where)' \in SUBSET Requests
  /\ Admitted \in SUBSET Requests /\ Admitted' \in SUBSET Requests
  BY DEF In, Admitted

LEMMA Start == SemInit => IInv
  <1> SUFFICES ASSUME SemInit PROVE IInv
    OBVIOUS
  <1>1. In("inside") = {} /\ In("refused") = {}
    BY DEF SemInit, In
  <1> QED BY <1>1, LimitsAssumption, FS_EmptySet
          DEF SemInit, IInv, SlotsMatch, FirstLimitServed

LEMMA StepKeeps == IInv /\ [SemNext]_semVars => IInv'
  <1> SUFFICES ASSUME IInv, [SemNext]_semVars PROVE IInv'
    OBVIOUS
  <1> USE DEF IInv
  <1>1. ASSUME NEW r \in Requests, Pass(r) PROVE IInv'
    <2>1. Cardinality(Admitted') \in Nat
      BY Finite, Places
    <2> QED BY <1>1, <2>1 DEF Pass, SlotsMatch, FirstLimitServed
  <1>2. ASSUME NEW r \in Requests, Enter(r) PROVE IInv'
    <2>1. /\ In("inside")' = In("inside") \cup {r} /\ r \notin In("inside")
          /\ In("refused")' = In("refused")
          /\ Admitted' = Admitted \cup {r}
      BY <1>2 DEF Enter, In, Admitted
    <2>2. Cardinality(In("inside")') = Cardinality(In("inside")) + 1
      BY <2>1, Finite, Places, FS_AddElement
    <2>3. /\ Cardinality(Admitted') >= Cardinality(Admitted)
          /\ Cardinality(Admitted') \in Nat /\ Cardinality(Admitted) \in Nat
      BY <2>1, Finite, Places
    <2>4. Cardinality(In("inside")) \in Nat
      BY Finite, Places
    <2> QED BY <1>2, <2>1, <2>2, <2>3, <2>4 DEF Enter, SlotsMatch, FirstLimitServed
  <1>3. ASSUME NEW r \in Requests, Refuse(r) PROVE IInv'
    <2>1. In("inside")' = In("inside") /\ Admitted' = Admitted
      BY <1>3 DEF Refuse, In, Admitted
    <2>2. In("inside") \subseteq Admitted
      BY DEF Admitted
    <2>3. /\ Cardinality(In("inside")) <= Cardinality(Admitted)
          /\ Cardinality(In("inside")) \in Nat /\ Cardinality(Admitted) \in Nat
      BY <2>2, Finite, Places
    <2> QED BY <1>3, <2>1, <2>3 DEF Refuse, SlotsMatch, FirstLimitServed
  <1>4. ASSUME NEW r \in Requests, Leave(r) PROVE IInv'
    <2>1. PICK end \in {"served", "panicked"} : pc' = [pc EXCEPT ![r] = end]
      BY <1>4 DEF Leave
    <2>2. /\ In("inside")' = In("inside") \ {r} /\ r \in In("inside")
          /\ In("refused")' = In("refused")
          /\ Admitted' = Admitted
      BY <1>4, <2>1 DEF Leave, In, Admitted
    <2>3. Cardinality(In("inside")') = Cardinality(In("inside")) - 1
      BY <2>2, Finite, Places, FS_RemoveElement
    <2>4. Cardinality(In("inside")) \in Nat
      BY Finite, Places
    <2> QED BY <1>4, <2>1, <2>2, <2>3, <2>4 DEF Leave, SlotsMatch, FirstLimitServed
  <1>5. CASE UNCHANGED semVars
    BY <1>5 DEF semVars, SlotsMatch, FirstLimitServed, In, Admitted
  <1> QED BY <1>1, <1>2, <1>3, <1>4, <1>5 DEF SemNext, PackServed

THEOREM Inductive == SemSpec => []IInv
  <1> QED BY Start, StepKeeps, PTL DEF SemSpec

(* The state keeps its shape; the channel never holds more than one element per  *)
(* request.                                                                      *)
THEOREM TypeCorrect == SemSpec => []SemTypeOK
  <1>1. ASSUME IInv PROVE SemTypeOK
    <2>1. sem \in 0..Cardinality(Requests)
      <3>1. /\ Cardinality(In("inside")) \in Nat /\ Cardinality(Requests) \in Nat
            /\ Cardinality(In("inside")) <= Cardinality(Requests)
        BY Finite, Places
      <3> QED BY <1>1, <3>1 DEF IInv, SlotsMatch
    <2> QED BY <1>1, <2>1 DEF IInv, SemTypeOK
  <1> QED BY <1>1, Inductive, PTL

(* No slot of the semaphore is ever lost or doubled.                             *)
THEOREM SlotsAlwaysMatch == SemSpec => []SlotsMatch
  <1> QED BY Inductive, PTL DEF IInv

(* The first refusal comes after limit admissions.                               *)
THEOREM LimitServedBeforeRefusal == SemSpec => []FirstLimitServed
  <1> QED BY Inductive, PTL DEF IInv

================================================================================
