----------------------------- MODULE MCAdminSession -------------------------------
(* Model values and small sets for the runs of AdminSession. *)
EXTENDS AdminSession

CONSTANTS r1, r2, r3

TwoRequests   == {r1, r2}
ThreeRequests == {r1, r2, r3}
================================================================================
