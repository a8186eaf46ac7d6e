------------------------------ MODULE MCStatsService ------------------------------
(* Model values and small sets for the runs of StatsService. *)
EXTENDS StatsService

CONSTANTS u1, d1, a, b

OneUpdate == {u1}
OneDrop   == {d1}
NoComics  == {}
TwoWords  == {a, b}

(* The first two comics share a word; the third one has none. *)
SharedWords == <<{a, b}, {b}, {}>>
================================================================================
