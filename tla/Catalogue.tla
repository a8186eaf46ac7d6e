-------------------------------- MODULE Catalogue --------------------------------
(*******************************************************************************)
(* What the update service promises about the comics table and its events,     *)
(* whatever happens inside a call: one call at a time holds the table; an       *)
(* Update only adds comics that are not there, none beyond the latest it saw    *)
(* when it began; a Drop only empties the table; a session announces at most    *)
(* one event, only while the event tells the truth, and does nothing after it.  *)
(* UpdateService is shown to implement this module.                             *)
(*******************************************************************************)
EXTENDS Integers, Sequences

CONSTANTS Updates, Drops, MaxComic, Absent

VARIABLES
  comics,  \* ids stored in the table
  holder,  \* the call that holds the table, a set of at most one
  goal,    \* per call: up to where the table must be complete before its event
  latest,  \* XKCD's latest comic
  events   \* subjects published, oldest first

catalogueVars == <<comics, holder, goal, latest, events>>

NoGoal == -1
Told   == -2  \* the session has announced its event, or never will

CatalogueInit ==
  /\ comics = {}
  /\ holder = {}
  /\ goal = [c \in Updates \cup Drops |-> NoGoal]
  /\ latest \in 0..MaxComic
  /\ events = <<>>

Begin(c) ==
  /\ holder = {}
  /\ holder' = {c}
  /\ UNCHANGED <<comics, goal, latest, events>>

(* The call learns how many comics there are and will announce no fewer. *)
Promise(c) ==
  /\ c \in holder \cap Updates
  /\ goal[c] = NoGoal
  /\ goal' = [goal EXCEPT ![c] = latest]
  /\ UNCHANGED <<comics, holder, latest, events>>

Store(c, id) ==
  /\ c \in holder \cap Updates
  /\ id \in (1..latest) \ (comics \cup Absent)
  /\ id <= goal[c]
  /\ comics' = comics \cup {id}
  /\ UNCHANGED <<holder, goal, latest, events>>

(* The table may have been emptied without the call knowing; it then gives up. *)
Clear(c) ==
  /\ c \in holder \cap Drops
  /\ goal[c] = NoGoal
  /\ comics' = {}
  /\ \E g \in {0, Told} : goal' = [goal EXCEPT ![c] = g]
  /\ UNCHANGED <<holder, latest, events>>

GiveUp(c) ==
  /\ c \in holder
  /\ goal' = [goal EXCEPT ![c] = Told]
  /\ UNCHANGED <<comics, holder, latest, events>>

Announce(c) ==
  /\ c \in holder
  /\ goal[c] \in Nat
  /\ \/ c \in Updates /\ 1..goal[c] \subseteq comics \cup Absent
                      /\ events' = Append(events, "xkcd.db.updated")
     \/ c \in Drops /\ comics = {} /\ events' = Append(events, "xkcd.db.dropped")
  /\ goal' = [goal EXCEPT ![c] = Told]
  /\ UNCHANGED <<comics, holder, latest>>

(* The call ends, by returning or with the process. *)
End(c) ==
  /\ c \in holder
  /\ holder' = {}
  /\ goal' = [goal EXCEPT ![c] = NoGoal]
  /\ UNCHANGED <<comics, latest, events>>

PublishComic ==
  /\ latest < MaxComic
  /\ latest' = latest + 1
  /\ UNCHANGED <<comics, holder, goal, events>>

CatalogueNext ==
  \/ \E c \in Updates \cup Drops :
       \/ Begin(c) \/ Promise(c) \/ Clear(c) \/ GiveUp(c) \/ Announce(c) \/ End(c)
       \/ \E id \in 1..MaxComic : Store(c, id)
  \/ PublishComic

CatalogueSpec == CatalogueInit /\ [][CatalogueNext]_catalogueVars
================================================================================
