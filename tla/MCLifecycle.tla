------------------------------ MODULE MCLifecycle --------------------------------
(* Model values and small sets for the run of Lifecycle. *)
EXTENDS Lifecycle

CONSTANT r1

OneRequest == {r1}
================================================================================
