------------------------------- MODULE StatsService -------------------------------
(*******************************************************************************)
(* GET /api/db/stats while the table changes: Service.Stats and DB.Stats of the *)
(* update service, which ask Postgres three times and XKCD once without a       *)
(* transaction and without looking at the status, and the client of the API     *)
(* gateway that passes the reply on.  The table, its writers and XKCD are those *)
(* of Catalogue, which UpdateService is shown to implement.                     *)
(*******************************************************************************)
EXTENDS Catalogue, FiniteSets

CONSTANTS
  Words,     \* the stems that comics are indexed under
  WordsOf,   \* the words column of each comic: stems without repetition
  MaxEvents  \* bound: how many events are published

Comics == 1..MaxComic

ASSUME TableAssumption == MaxComic \in Nat /\ WordsOf \in [Comics -> SUBSET Words]
ASSUME WordsAssumption == IsFiniteSet(Words)

VARIABLES
  step,    \* 0: no call is running; k in 1..4: query k comes next; 5: all answered
  stats,   \* the ServiceStats under construction, then what the API replied
  window   \* history: what happened since the call began

readerVars == <<step, stats, window>>
vars == <<catalogueVars, readerVars>>

Zero == [ComicsFetched |-> 0, WordsTotal |-> 0, WordsUnique |-> 0, ComicsTotal |-> 0]

(* The number of rows. *)
CountComics(rows) == Cardinality(rows)

(* coalesce(SUM(array_length(words, 1)), 0) *)
CountWords(rows) == Cardinality({p \in rows \X Words : p[2] \in WordsOf[p[1]]})

(* The number of rows of distinct(unnest(words)). *)
CountUnique(rows) == Cardinality(UNION {WordsOf[id] : id \in rows})

(* Mutant: XKCD is asked before the table. *)
XkcdFirst == <<"ComicsTotal", "ComicsFetched", "WordsTotal", "WordsUnique">>

(* Mutant: the words are counted before the comics. *)
WordsFirst == <<"WordsTotal", "ComicsFetched", "WordsUnique", "ComicsTotal">>

(* The order of the queries: DB.Stats, then LastID. *)
Order == <<"ComicsFetched", "WordsTotal", "WordsUnique", "ComicsTotal">>

(* What a query finds now. *)
Found(field) ==
  CASE field = "ComicsFetched" -> CountComics(comics)
    [] field = "WordsTotal"    -> CountWords(comics)
    [] field = "WordsUnique"   -> CountUnique(comics)
    [] field = "ComicsTotal"   -> latest

Init ==
  /\ CatalogueInit
  /\ step = 0
  /\ stats = Zero
  /\ window = [latest |-> latest, quiet |-> FALSE, growing |-> FALSE]

(* A call of Stats arrives. *)
Ask ==
  /\ step = 0
  /\ step' = 1
  /\ stats' = Zero
  /\ window' = [latest |-> latest, quiet |-> holder = {}, growing |-> TRUE]
  /\ UNCHANGED catalogueVars

Query ==
  /\ step \in 1..4
  /\ step' = step + 1
  /\ stats' = [stats EXCEPT ![Order[step]] = Found(Order[step])]
  /\ UNCHANGED <<catalogueVars, window>>

(* A query fails, the caller's context is over or the reply is lost: an error, *)
(* and no stats.                                                               *)
Fail ==
  /\ step \in 1..5
  /\ step' = 0
  /\ stats' = Zero
  /\ UNCHANGED <<catalogueVars, window>>

(* Mutant: the gateway adds the stored comics to the total. *)
RelaySum ==
  /\ step = 5
  /\ step' = 0
  /\ stats' = [stats EXCEPT !.ComicsTotal = @ + stats.ComicsFetched]
  /\ UNCHANGED <<catalogueVars, window>>

(* Mutant: the gateway replaces the other one of the two numbers. *)
RelaySwapped ==
  /\ step = 5
  /\ step' = 0
  /\ stats' = [stats EXCEPT !.ComicsFetched = stats.ComicsTotal]
  /\ UNCHANGED <<catalogueVars, window>>

(* The gateway takes the number of stored comics, if there are any, for the    *)
(* number of comics.                                                           *)
Relay ==
  /\ step = 5
  /\ step' = 0
  /\ stats' = [stats EXCEPT !.ComicsTotal =
                 IF stats.ComicsFetched > 0 THEN stats.ComicsFetched ELSE @]
  /\ UNCHANGED <<catalogueVars, window>>

(* Update, Drop and XKCD go on meanwhile. *)
Write ==
  /\ CatalogueNext
  /\ Len(events') <= MaxEvents
  /\ window' = [window EXCEPT !.quiet = @ /\ holder' = {},
                              !.growing = @ /\ comics \subseteq comics']
  /\ UNCHANGED <<step, stats>>

Next == Ask \/ Query \/ Fail \/ Relay \/ Write

Spec == Init /\ [][Next]_vars

--------------------------------------------------------------------------------
(* Properties. *)

StatsType == [ComicsFetched : 0..MaxComic, WordsTotal : Nat, WordsUnique : Nat,
              ComicsTotal : 0..MaxComic]

TypeOK ==
  /\ comics \subseteq Comics
  /\ holder \subseteq Updates \cup Drops
  /\ latest \in 0..MaxComic
  /\ step \in 0..5
  /\ stats \in StatsType
  /\ window \in [latest : 0..MaxComic, quiet : BOOLEAN, growing : BOOLEAN]

(* A reply never says that more comics were fetched than there are: the count  *)
(* is taken before XKCD is asked, the table never runs ahead of XKCD, and XKCD *)
(* never goes back, whatever was stored or dropped between the queries.        *)
FetchedWithinTotal == step = 5 => stats.ComicsFetched <= stats.ComicsTotal

Wordless == {id \in Comics : WordsOf[id] = {}}

(* As long as nothing is dropped during the call, no more comics are counted   *)
(* than words and wordless comics: the comics are counted first, and an Update *)
(* that goes on between the queries can only add to the later ones.            *)
WordsCoverComics ==
  step = 5 /\ window.growing =>
    stats.ComicsFetched <= stats.WordsTotal + Cardinality(Wordless)

(* A call that no Update and no Drop overlaps sees one state of the table, the *)
(* present one; after a Drop all its numbers are zero (tests/update_test.go,    *)
(* lines 95 to 98).                                                             *)
SnapshotIfAlone ==
  step = 5 /\ window.quiet =>
    /\ stats.ComicsFetched = CountComics(comics)
    /\ stats.WordsTotal = CountWords(comics)
    /\ stats.WordsUnique = CountUnique(comics)

(* comics_total says how many comics XKCD has: a reply that reaches the admin  *)
(* page never shows a total below the number XKCD had when the call began, next *)
(* to the number of stored comics (web/templates/admin.html:60).  A call that  *)
(* fails shows no total.                                                        *)
TotalIsXkcds == [][Relay => stats'.ComicsTotal >= window.latest]_vars
================================================================================
