---------------------------- MODULE MCLateStatements ------------------------------
(* Model values and small sets for the run of LateStatements. *)
EXTENDS LateStatements

CONSTANTS u1, u2, d1, w1, w2

TwoUpdates == {u1, u2}
OneDrop    == {d1}
TwoWorkers == {w1, w2}

Faults == {"fault", "crash", "canceled"}

(* Comic 2 plays the part of 404: XKCD has none, the client makes it up.       *)
MissingComics == {2}
================================================================================
