---------------------------------- MODULE MCSearch ---------------------------------
(* Small sets for the runs of Search. *)
EXTENDS Search

ThreeComics == 1..3
FewTokens   == {"the", "fox", "foxes", "dog"}
StopOnly    == {"the"}
Stemming    == [t \in FewTokens \ StopOnly |-> IF t = "foxes" THEN "fox" ELSE t]

(* A comic that says everything, one that shares a stem with it only in        *)
(* another inflection, and one that shares the other word and a stop word.     *)
Descriptions == <<{"dog", "the"}, {"foxes"}, {"fox", "dog"}>>

TypedLimits ==
  {Blank, [kind |-> "junk", n |-> 0], Number(-1), Number(0), Number(1), Number(3)}
================================================================================
