----------------------------- MODULE MCUpdateService -----------------------------
(* Model values and small sets for the runs of UpdateService. *)
EXTENDS UpdateService, TLC

CONSTANTS u1, u2, d1, w1, w2

OneUpdate  == {u1}
TwoUpdates == {u1, u2}
OneDrop    == {d1}
NoDrops    == {}
OneWorker  == {w1}
TwoWorkers == {w1, w2}

NoHazards     == {}
AllHazards    == {"fault", "crash", "canceled", "deadline"}
FaultsOnly    == {"fault"}

(* Comic 2 plays the part of 404: XKCD has no such comic, the client makes it  *)
(* up.  Comic 3, where there is one, is missing for good.                      *)
MissingComics == {2, 3}

Symmetry == Permutations(Updates) \cup Permutations(Workers)
================================================================================
