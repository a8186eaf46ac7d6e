------------------------------- MODULE MCAdminPage --------------------------------
(* Model values and small sets for the run of AdminPage. *)
EXTENDS AdminPage

CONSTANTS u1, d1, a, b

OneUpdate == {u1}
OneDrop   == {d1}
NoComics  == {}
TwoWords  == {a, b}

(* The first two comics share a word; the third one has none. *)
SharedWords == <<{a, b}, {b}, {}>>
================================================================================
