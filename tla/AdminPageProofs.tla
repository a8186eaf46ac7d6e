----------------------------- MODULE AdminPageProofs ------------------------------
(* Theorems about StatsService and about AdminPage, which calls it, for every   *)
(* number of comics, every table of words and every set of calls that write     *)
(* meanwhile.                                                                   *)
EXTENDS AdminPage, FiniteSetTheorems, TLAPS

--------------------------------------------------------------------------------
(* StatsService. *)

(* The table never runs ahead of XKCD. *)
TableInv == comics \subseteq 1..latest

(* The count is at most what XKCD has by now; while nothing is dropped it is    *)
(* also at most what the table holds by now, and the words then cover it.       *)
CountInv ==
  /\ step > 1 => stats.ComicsFetched <= latest
  /\ step > 1 /\ window.growing => stats.ComicsFetched <= CountComics(comics)
  /\ FetchedWithinTotal
  /\ step > 2 /\ window.growing =>
       stats.ComicsFetched <= stats.WordsTotal + Cardinality(Wordless)

(* While nobody holds the table, what was read is what is there. *)
QuietInv ==
  window.quiet =>
    /\ holder = {}
    /\ step > 1 => stats.ComicsFetched = CountComics(comics)
    /\ step > 2 => stats.WordsTotal = CountWords(comics)
    /\ step > 3 => stats.WordsUnique = CountUnique(comics)

IInv == TypeOK /\ TableInv /\ CountInv /\ QuietInv

--------------------------------------------------------------------------------
(* Counting. *)

(* A table of comics up to n holds at most n of them. *)
LEMMA CountComicsBound ==
  ASSUME NEW n \in Nat, NEW rows \in SUBSET (1..n)
  PROVE  /\ IsFiniteSet(rows)
         /\ CountComics(rows) \in Nat
         /\ CountComics(rows) <= n
  <1>1. IsFiniteSet(1..n) /\ Cardinality(1..n) = n
    BY FS_Interval
  <1> QED BY <1>1, FS_Subset, FS_CardinalityType DEF CountComics

(* A larger table has no fewer comics. *)
LEMMA CountComicsMonotone ==
  ASSUME NEW rows \in SUBSET Comics, NEW more \in SUBSET Comics, rows \subseteq more
  PROVE  CountComics(rows) <= CountComics(more)
  <1>1. IsFiniteSet(more)
    BY TableAssumption, CountComicsBound DEF Comics
  <1> QED BY <1>1, FS_Subset DEF CountComics

Pairs(rows) == {p \in rows \X Words : p[2] \in WordsOf[p[1]]}

LEMMA PairsFinite ==
  ASSUME NEW rows \in SUBSET Comics
  PROVE  IsFiniteSet(Pairs(rows)) /\ CountWords(rows) = Cardinality(Pairs(rows))
  <1>1. IsFiniteSet(rows)
    BY TableAssumption, CountComicsBound DEF Comics
  <1>2. IsFiniteSet(rows \X Words)
    BY <1>1, WordsAssumption, FS_Product
  <1>3. Pairs(rows) \in SUBSET (rows \X Words)
    BY DEF Pairs
  <1>4. IsFiniteSet(Pairs(rows))
    BY <1>2, <1>3, FS_Subset
  <1> QED BY <1>4 DEF Pairs, CountWords

LEMMA CountTypes ==
  ASSUME NEW rows \in SUBSET Comics
  PROVE  CountWords(rows) \in Nat /\ CountUnique(rows) \in Nat
  <1>1. CountWords(rows) \in Nat
    BY PairsFinite, FS_CardinalityType
  <1>2. UNION {WordsOf[id] : id \in rows} \in SUBSET Words
    BY TableAssumption
  <1> QED BY <1>1, <1>2, WordsAssumption, FS_Subset, FS_CardinalityType DEF CountUnique

(* Every comic of the table has a word of its own, or is without words. *)
LEMMA WordsCover ==
  ASSUME NEW rows \in SUBSET Comics
  PROVE  /\ Cardinality(Wordless) \in Nat
         /\ CountComics(rows) <= CountWords(rows) + Cardinality(Wordless)
  <1> DEFINE Wordy == rows \ Wordless
             f == [id \in Wordy |-> <<id, CHOOSE w \in Words : w \in WordsOf[id]>>]
  <1>1. IsFiniteSet(rows) /\ IsFiniteSet(Comics)
    BY TableAssumption, CountComicsBound, FS_Interval DEF Comics
  <1>2. IsFiniteSet(Wordless) /\ IsFiniteSet(Wordy) /\ IsFiniteSet(rows \cap Wordless)
    <2>1. Wordless \in SUBSET Comics /\ Wordy \in SUBSET rows
      BY DEF Wordless
    <2>2. rows \cap Wordless \in SUBSET rows
      OBVIOUS
    <2> QED BY <1>1, <2>1, <2>2, FS_Subset
  <1>3. \A id \in Wordy : \E w \in Words : w \in WordsOf[id]
    BY TableAssumption DEF Wordless
  <1>4. f \in Injection(Wordy, Pairs(rows))
    <2>1. \A id \in Wordy : f[id] \in Pairs(rows)
      BY <1>3 DEF Pairs
    <2>2. \A i, j \in Wordy : f[i] = f[j] => i = j
      OBVIOUS
    <2> QED BY <2>1, <2>2 DEF Injection, IsInjective
  <1>5. Cardinality(Wordy) <= CountWords(rows)
    BY <1>4, PairsFinite, FS_Injection
  <1>6. Cardinality(rows \cap Wordless) <= Cardinality(Wordless)
    BY <1>2, FS_Subset
  <1>7. Cardinality(Wordy) = Cardinality(rows) - Cardinality(rows \cap Wordless)
    BY <1>1, FS_Difference
  <1>8. /\ Cardinality(Wordy) \in Nat /\ Cardinality(rows \cap Wordless) \in Nat
        /\ Cardinality(Wordless) \in Nat /\ CountWords(rows) \in Nat
        /\ Cardinality(rows) \in Nat
    BY <1>1, <1>2, FS_CardinalityType, CountTypes
  <1> HIDE DEF Wordy, f
  <1> QED BY <1>5, <1>6, <1>7, <1>8 DEF CountComics

--------------------------------------------------------------------------------
(* What the writers and XKCD do to a table that does not run ahead. *)
LEMMA WriterStep ==
  ASSUME CatalogueNext, TableInv, latest \in 0..MaxComic, comics \subseteq Comics,
         holder \subseteq Updates \cup Drops
  PROVE  /\ TableInv'
         /\ latest' \in 0..MaxComic /\ latest <= latest'
         /\ comics' \subseteq Comics
         /\ holder' \subseteq Updates \cup Drops
         /\ holder = {} => comics' = comics
  <1> USE TableAssumption DEF TableInv, Comics
  <1>1. ASSUME NEW c \in Updates \cup Drops,
               Begin(c) \/ Promise(c) \/ GiveUp(c) \/ Announce(c) \/ End(c)
        PROVE  /\ UNCHANGED <<comics, latest>>
               /\ holder' \subseteq Updates \cup Drops
    BY <1>1 DEF Begin, Promise, GiveUp, Announce, End
  <1>2. ASSUME NEW c \in Updates \cup Drops, Clear(c)
        PROVE  comics' = {} /\ c \in holder /\ UNCHANGED <<holder, latest>>
    BY <1>2 DEF Clear
  <1>3. ASSUME NEW c \in Updates \cup Drops, NEW id \in 1..MaxComic, Store(c, id)
        PROVE  /\ c \in holder /\ id \in 1..latest /\ comics' = comics \cup {id}
               /\ UNCHANGED <<holder, latest>>
    BY <1>3 DEF Store
  <1>4. ASSUME PublishComic
        PROVE  latest < MaxComic /\ latest' = latest + 1 /\ UNCHANGED <<comics, holder>>
    BY <1>4 DEF PublishComic
  <1>5. CASE comics' = comics /\ latest' = latest /\ holder' \subseteq Updates \cup Drops
    BY <1>5
  <1>6. CASE \E c \in Updates \cup Drops : Clear(c)
    BY <1>2, <1>6
  <1>7. CASE \E c \in Updates \cup Drops, id \in 1..MaxComic : Store(c, id)
    <2>1. PICK c \in Updates \cup Drops, id \in 1..MaxComic : Store(c, id)
      BY <1>7
    <2>2. /\ c \in holder /\ id \in 1..latest /\ comics' = comics \cup {id}
          /\ UNCHANGED <<holder, latest>>
      BY <1>3, <2>1
    <2>3. comics' \subseteq 1..latest /\ comics' \subseteq 1..MaxComic /\ holder # {}
      BY <2>2
    <2> QED BY <2>2, <2>3
  <1>8. CASE PublishComic
    <2>1. latest' \in 0..MaxComic /\ latest <= latest' /\ 1..latest \subseteq 1..latest'
      BY <1>4, <1>8
    <2> QED BY <1>4, <1>8, <2>1
  <1> QED BY <1>1, <1>5, <1>6, <1>7, <1>8 DEF CatalogueNext

LEMMA Start == Init => IInv
  <1> SUFFICES ASSUME Init PROVE IInv
    OBVIOUS
  <1> QED BY TableAssumption
          DEF Init, CatalogueInit, IInv, TypeOK, TableInv, CountInv, QuietInv, StatsType,
              Zero, FetchedWithinTotal, Comics

LEMMA QueryKeeps == IInv /\ Query => IInv'
  <1> SUFFICES ASSUME IInv, Query PROVE IInv'
    OBVIOUS
  <1> USE DEF IInv
  <1>1. /\ UNCHANGED <<comics, holder, goal, latest, events, window>>
        /\ step \in 1..4 /\ step' = step + 1
    BY DEF Query, catalogueVars
  <1>2. CountComics(comics) \in 0..latest /\ latest \in 0..MaxComic
    BY CountComicsBound, TableAssumption DEF TypeOK, TableInv
  <1>3. CountWords(comics) \in Nat /\ CountUnique(comics) \in Nat
    BY CountTypes DEF TypeOK
  <1>4. /\ Cardinality(Wordless) \in Nat
        /\ CountComics(comics) <= CountWords(comics) + Cardinality(Wordless)
    BY WordsCover DEF TypeOK
  <1>5. CASE step = 1
    <2>1. stats' = [stats EXCEPT !.ComicsFetched = CountComics(comics)]
      BY <1>5 DEF Query, Order, Found
    <2> QED BY <1>1, <1>2, <1>5, <2>1, TableAssumption
            DEF TypeOK, StatsType, TableInv, CountInv, QuietInv, FetchedWithinTotal
  <1>6. CASE step = 2
    <2>1. stats' = [stats EXCEPT !.WordsTotal = CountWords(comics)]
      BY <1>6 DEF Query, Order, Found
    <2> QED BY <1>1, <1>2, <1>3, <1>4, <1>6, <2>1
            DEF TypeOK, StatsType, TableInv, CountInv, QuietInv, FetchedWithinTotal
  <1>7. CASE step = 3
    <2>1. stats' = [stats EXCEPT !.WordsUnique = CountUnique(comics)]
      BY <1>7 DEF Query, Order, Found
    <2> QED BY <1>1, <1>2, <1>3, <1>4, <1>7, <2>1
            DEF TypeOK, StatsType, TableInv, CountInv, QuietInv, FetchedWithinTotal
  <1>8. CASE step = 4
    <2>1. stats' = [stats EXCEPT !.ComicsTotal = latest]
      BY <1>8 DEF Query, Order, Found
    <2> QED BY <1>1, <1>2, <1>4, <1>8, <2>1
            DEF TypeOK, StatsType, TableInv, CountInv, QuietInv, FetchedWithinTotal
  <1> QED BY <1>1, <1>5, <1>6, <1>7, <1>8

LEMMA WriteKeeps == IInv /\ Write => IInv'
  <1> SUFFICES ASSUME IInv, Write PROVE IInv'
    OBVIOUS
  <1> USE DEF IInv
  <1>1. /\ window' = [window EXCEPT !.quiet = @ /\ holder' = {},
                                    !.growing = @ /\ comics \subseteq comics']
        /\ UNCHANGED <<step, stats>>
    BY DEF Write
  <1>2. /\ TableInv'
        /\ latest' \in 0..MaxComic /\ latest <= latest'
        /\ comics' \subseteq Comics
        /\ holder' \subseteq Updates \cup Drops
        /\ holder = {} => comics' = comics
    BY WriterStep DEF Write, TypeOK
  <1>3. /\ window' \in [latest : 0..MaxComic, quiet : BOOLEAN, growing : BOOLEAN]
        /\ window'.quiet => window.quiet /\ holder' = {}
        /\ window'.growing => window.growing /\ comics \subseteq comics'
    BY <1>1 DEF TypeOK
  <1>4. TypeOK'
    BY <1>1, <1>2, <1>3 DEF TypeOK, StatsType
  <1>5. CountInv'
    <2>1. CountComics(comics) \in Nat /\ CountComics(comics') \in Nat
      BY <1>2, CountComicsBound, TableAssumption DEF TypeOK, Comics
    <2>2. comics \subseteq comics' => CountComics(comics) <= CountComics(comics')
      BY <1>2, CountComicsMonotone DEF TypeOK
    <2>3. stats.ComicsFetched \in Nat /\ latest \in Nat /\ latest' \in Nat
      BY <1>2, TableAssumption DEF TypeOK, StatsType
    <2> QED BY <1>1, <1>2, <1>3, <2>1, <2>2, <2>3 DEF CountInv, FetchedWithinTotal, Wordless
  <1>6. QuietInv'
    BY <1>1, <1>2, <1>3 DEF QuietInv
  <1> QED BY <1>2, <1>4, <1>5, <1>6

LEMMA StepKeeps == IInv /\ [Next]_vars => IInv'
  <1> SUFFICES ASSUME IInv, [Next]_vars PROVE IInv'
    OBVIOUS
  <1>1. CASE Ask
    BY <1>1, TableAssumption
       DEF IInv, Ask, catalogueVars, TypeOK, StatsType, Zero, TableInv, CountInv, QuietInv,
           FetchedWithinTotal
  <1>2. CASE Query
    BY <1>2, QueryKeeps
  <1>3. CASE Fail
    BY <1>3, TableAssumption
       DEF IInv, Fail, catalogueVars, TypeOK, StatsType, Zero, TableInv, CountInv, QuietInv,
           FetchedWithinTotal
  <1>4. CASE Relay
    BY <1>4
       DEF IInv, Relay, catalogueVars, TypeOK, StatsType, TableInv, CountInv, QuietInv,
           FetchedWithinTotal
  <1>5. CASE Write
    BY <1>5, WriteKeeps
  <1>6. CASE UNCHANGED vars
    BY <1>6 DEF IInv, vars, catalogueVars, readerVars, TypeOK, TableInv, CountInv, QuietInv,
                FetchedWithinTotal
  <1> QED BY <1>1, <1>2, <1>3, <1>4, <1>5, <1>6 DEF Next

THEOREM Inductive == Spec => []IInv
  <1> QED BY Start, StepKeeps, PTL DEF Spec

(* The variables of a call of Stats stay in their types. *)
THEOREM TypeCorrect == Spec => []TypeOK
  <1> QED BY Inductive, PTL DEF IInv

(* A reply of Stats never counts more stored comics than XKCD has published.    *)
THEOREM FetchedNeverExceedsTotal == Spec => []FetchedWithinTotal
  <1> QED BY Inductive, PTL DEF IInv, CountInv

(* While nothing is dropped, the word count covers every counted comic.         *)
THEOREM WordsCoverCounted == Spec => []WordsCoverComics
  <1>1. IInv => WordsCoverComics
    BY DEF IInv, CountInv, WordsCoverComics
  <1> QED BY <1>1, Inductive, PTL

(* A call of Stats that no Update and no Drop overlaps reads one state of the   *)
(* table, although it reads without a transaction.                              *)
THEOREM AloneMeansSnapshot == Spec => []SnapshotIfAlone
  <1>1. IInv => SnapshotIfAlone
    BY DEF IInv, QuietInv, SnapshotIfAlone
  <1> QED BY <1>1, Inductive, PTL

--------------------------------------------------------------------------------
(* AdminPage. *)

(* While nothing is dropped the table holds no fewer words than were counted.   *)
GrowInv ==
  window.growing =>
    /\ step > 2 => stats.WordsTotal <= CountWords(comics)
    /\ step > 3 => stats.WordsUnique <= CountUnique(comics)

(* The page and the call behind it. *)
PlaceInv ==
  /\ page \in PageType
  /\ page.at = "stats" <=> step # 0
  /\ page.at \in {"none", "stats"} => ~page.hasStats /\ page.error \in {"none", "given"}
  /\ page.at \in {"none", "stats", "status"} => page.status = "unknown"
  /\ page.at = "answer" => page.status # "unknown"
  /\ page.at \in {"status", "answer"} =>
       page.error # "status" /\ (page.hasStats \/ page.error # "none")
  /\ page.error = "stats" => ~page.hasStats

(* The numbers on the page and the table of the moment. *)
NumbersInv ==
  page.hasStats =>
    /\ window.quiet =>
         /\ stats.ComicsFetched = CountComics(comics)
         /\ stats.WordsTotal = CountWords(comics)
         /\ stats.WordsUnique = CountUnique(comics)
         /\ comics # {} => stats.ComicsTotal = CountComics(comics)
    /\ window.growing =>
         /\ stats.ComicsFetched <= CountComics(comics)
         /\ stats.WordsTotal <= CountWords(comics)
         /\ stats.WordsUnique <= CountUnique(comics)

PageInv == IInv /\ GrowInv /\ PlaceInv /\ NumbersInv /\ RunningIsTrue /\ NothingMadeUp

--------------------------------------------------------------------------------
(* The page is a caller of Stats like any other: whatever StatsService keeps is *)
(* kept behind the page.                                                        *)
THEOREM PageIsACaller == PageSpec => Spec
  <1>1. PageInit => Init
    BY DEF PageInit
  <1>2. [PageNext]_pageVars => [Next]_vars
    <2> SUFFICES ASSUME PageNext \/ UNCHANGED pageVars PROVE [Next]_vars
      OBVIOUS
    <2> QED BY DEF PageNext, pageVars, Next, Open, StatsAnswered, StatsFailed, StatusRead,
                   StatusAnswered, StatusFailed, Deadline, Behind
  <1> QED BY <1>1, <1>2, PTL DEF PageSpec, Spec

(* A larger table has no fewer words. *)
LEMMA WordsMonotone ==
  ASSUME NEW rows \in SUBSET Comics, NEW more \in SUBSET Comics, rows \subseteq more
  PROVE  CountWords(rows) <= CountWords(more) /\ CountUnique(rows) <= CountUnique(more)
  <1>1. Pairs(rows) \in SUBSET Pairs(more) /\ IsFiniteSet(Pairs(more))
    BY PairsFinite DEF Pairs
  <1>2. CountWords(rows) <= CountWords(more)
    BY <1>1, PairsFinite, FS_Subset
  <1> DEFINE Of(table) == UNION {WordsOf[id] : id \in table}
  <1>3. Of(rows) \in SUBSET Of(more) /\ Of(more) \in SUBSET Words
    BY TableAssumption
  <1>4. Cardinality(Of(rows)) <= Cardinality(Of(more))
    <2> HIDE DEF Of
    <2> QED BY <1>3, WordsAssumption, FS_Subset
  <1> QED BY <1>2, <1>4 DEF CountUnique

(* The number of comics in a table that is not empty is positive. *)
LEMMA CountPositive ==
  ASSUME NEW rows \in SUBSET Comics, rows # {}
  PROVE  CountComics(rows) \in Nat /\ CountComics(rows) > 0
  <1>1. IsFiniteSet(rows) /\ CountComics(rows) \in Nat
    BY TableAssumption, CountComicsBound DEF Comics
  <1>2. Cardinality(rows) # 0
    BY <1>1, FS_EmptySet
  <1> QED BY <1>1, <1>2 DEF CountComics

LEMMA PageStart == PageInit => PageInv
  <1>1. PageInit => IInv
    BY Start DEF PageInit
  <1> QED BY <1>1 DEF PageInit, Init, PageInv, GrowInv, PlaceInv, NumbersInv, RunningIsTrue,
                      NothingMadeUp, PageType, Places, Statuses, Errors

(* The types of the numbers, for the steps below. *)
LEMMA Numbers ==
  ASSUME IInv
  PROVE  /\ comics \subseteq Comics
         /\ CountComics(comics) \in Nat /\ CountWords(comics) \in Nat /\ CountUnique(comics) \in Nat
         /\ stats \in StatsType /\ step \in 0..5 /\ latest \in 0..MaxComic
         /\ window \in [latest : 0..MaxComic, quiet : BOOLEAN, growing : BOOLEAN]
  <1> QED BY CountComicsBound, CountTypes, TableAssumption DEF IInv, TypeOK, Comics

(* The steps behind the page. *)
LEMMA QueryKeepsPage ==
  ASSUME PageInv, Query, UNCHANGED page PROVE PageInv'
  <1>1. IInv'
    BY QueryKeeps DEF PageInv
  <1>2. /\ UNCHANGED <<comics, holder, window>> /\ step \in 1..4 /\ step' = step + 1
        /\ stats' = [stats EXCEPT ![Order[step]] = Found(Order[step])]
    BY DEF Query, catalogueVars
  <1>3. GrowInv'
    BY <1>2, Numbers DEF PageInv, GrowInv, Order, Found, StatsType
  <1>4. page.at = "stats" /\ ~page.hasStats
    BY <1>2 DEF PageInv, PlaceInv
  <1>5. PlaceInv' /\ NumbersInv' /\ RunningIsTrue' /\ NothingMadeUp'
    BY <1>2, <1>4 DEF PageInv, PlaceInv, NumbersInv, RunningIsTrue, NothingMadeUp
  <1> QED BY <1>1, <1>3, <1>5 DEF PageInv

LEMMA WriteKeepsPage ==
  ASSUME PageInv, Write, UNCHANGED page PROVE PageInv'
  <1>1. IInv /\ IInv'
    BY WriteKeeps DEF PageInv
  <1>2. /\ UNCHANGED <<step, stats>>
        /\ window'.growing => window.growing /\ comics \subseteq comics'
        /\ window'.quiet => window.quiet /\ holder' = {}
    BY <1>1, Numbers DEF Write
  <1>3. window'.quiet => comics' = comics
    <2>1. window.quiet => holder = {}
      BY <1>1 DEF IInv, QuietInv
    <2>2. holder = {} => comics' = comics
      BY <1>1, WriterStep DEF Write, IInv, TypeOK
    <2> QED BY <1>2, <2>1, <2>2
  <1>4. /\ comics \subseteq Comics /\ comics' \subseteq Comics
        /\ CountComics(comics) \in Nat /\ CountComics(comics') \in Nat
        /\ CountWords(comics) \in Nat /\ CountWords(comics') \in Nat
        /\ CountUnique(comics) \in Nat /\ CountUnique(comics') \in Nat
    BY <1>1, CountComicsBound, CountTypes, TableAssumption DEF IInv, TypeOK, Comics
  <1>5. window'.growing =>
          /\ CountComics(comics) <= CountComics(comics')
          /\ CountWords(comics) <= CountWords(comics')
          /\ CountUnique(comics) <= CountUnique(comics')
    BY <1>2, <1>4, CountComicsMonotone, WordsMonotone
  <1>6. GrowInv'
    BY <1>1, <1>2, <1>4, <1>5, Numbers DEF PageInv, GrowInv, StatsType
  <1>7. NumbersInv'
    BY <1>1, <1>2, <1>3, <1>4, <1>5, Numbers DEF PageInv, NumbersInv, StatsType
  <1>8. PlaceInv' /\ RunningIsTrue' /\ NothingMadeUp'
    BY <1>2 DEF PageInv, PlaceInv, RunningIsTrue, NothingMadeUp
  <1> QED BY <1>1, <1>6, <1>7, <1>8 DEF PageInv

(* The steps of the web handler that take no answer. *)
LEMMA HandlerKeepsPage ==
  ASSUME PageInv, Open \/ StatsFailed \/ StatusRead \/ StatusAnswered \/ StatusFailed \/ Deadline
  PROVE  PageInv'
  <1> USE DEF PageInv
  <1>1. IInv'
    BY StepKeeps DEF Open, StatsFailed, StatusRead, StatusAnswered, StatusFailed, Deadline, Next
  <1>2. CASE Open
    <2>1. /\ step' = 1 /\ page'.at = "stats" /\ ~page'.hasStats /\ page'.status = "unknown"
          /\ page'.error \in {"none", "given"} /\ page' \in PageType
      BY <1>2 DEF Open, Ask, PageType, Places, Statuses, Errors
    <2> QED BY <1>1, <2>1 DEF GrowInv, PlaceInv, NumbersInv, RunningIsTrue, NothingMadeUp
  <1>3. CASE StatsFailed \/ (Deadline /\ page.at = "stats")
    <2>1. /\ step' = 0 /\ page.at = "stats"
          /\ \/ page' = [page EXCEPT !.at = "status", !.error = ErrorOr("stats")]
             \/ page' = [page EXCEPT !.at = "shown", !.status = "unknown", !.error = ErrorOr("stats")]
      BY <1>3 DEF StatsFailed, Deadline, Fail
    <2>2. /\ page'.at \in {"status", "shown"} /\ ~page'.hasStats /\ page'.status = "unknown"
          /\ page'.error \in {"given", "stats"} /\ page' \in PageType
      BY <2>1 DEF PlaceInv, ErrorOr, PageType, Places, Statuses, Errors
    <2> QED BY <1>1, <2>1, <2>2 DEF GrowInv, PlaceInv, NumbersInv, RunningIsTrue, NothingMadeUp
  <1>4. CASE StatusRead
    <2>1. /\ UNCHANGED vars /\ page.at = "status"
          /\ page' = [page EXCEPT !.at = "answer", !.status = IF holder = {} THEN "idle" ELSE "running"]
      BY <1>4 DEF StatusRead
    <2>2. window.quiet => holder = {}
      BY DEF IInv, QuietInv
    <2>3. UNCHANGED <<comics, window, stats, step>>
      BY <2>1 DEF vars, catalogueVars, readerVars
    <2> QED BY <1>1, <2>1, <2>2, <2>3
            DEF GrowInv, PlaceInv, NumbersInv, RunningIsTrue, NothingMadeUp, PageType, Places,
                Statuses, Errors
  <1>5. CASE StatusAnswered
    <2>1. UNCHANGED <<comics, window, stats, step>> /\ page.at = "answer"
          /\ page' = [page EXCEPT !.at = "shown"]
      BY <1>5 DEF StatusAnswered, vars, catalogueVars, readerVars
    <2>2. /\ page'.at = "shown" /\ page'.status = page.status /\ page'.hasStats = page.hasStats
          /\ page'.error = page.error /\ page' \in PageType
      BY <2>1 DEF PlaceInv, PageType, Places
    <2>3. page.status # "unknown"
      BY <2>1 DEF PlaceInv
    <2> QED BY <1>1, <2>1, <2>2, <2>3 DEF GrowInv, PlaceInv, NumbersInv, RunningIsTrue, NothingMadeUp
  <1>6. CASE StatusFailed \/ (Deadline /\ page.at # "stats")
    <2>1. UNCHANGED <<comics, window, stats, step>> /\ page.at \in {"status", "answer"}
          /\ page' = [page EXCEPT !.at = "shown", !.status = "unknown", !.error = ErrorOr("status")]
      BY <1>6 DEF StatusFailed, Deadline, Waiting, vars, catalogueVars, readerVars
    <2>2. /\ page'.at = "shown" /\ page'.status = "unknown" /\ page'.hasStats = page.hasStats
          /\ page'.error = ErrorOr("status") /\ page' \in PageType
      BY <2>1 DEF PlaceInv, ErrorOr, PageType, Places, Statuses, Errors
    <2>3. GrowInv' /\ NumbersInv' /\ RunningIsTrue'
      BY <2>1, <2>2 DEF GrowInv, NumbersInv, RunningIsTrue
    <2>4. PlaceInv' /\ NothingMadeUp'
      BY <2>1, <2>2 DEF PlaceInv, NothingMadeUp, ErrorOr
    <2> QED BY <1>1, <2>3, <2>4
  <1> QED BY <1>2, <1>3, <1>4, <1>5, <1>6

(* The statistics arrive. *)
LEMMA AnswerKeepsPage ==
  ASSUME PageInv, StatsAnswered PROVE PageInv'
  <1> USE DEF PageInv
  <1>1. IInv'
    BY StepKeeps DEF StatsAnswered, Next
  <1>2. /\ UNCHANGED <<comics, window>> /\ step = 5 /\ step' = 0
        /\ stats' = [stats EXCEPT !.ComicsTotal =
                       IF stats.ComicsFetched > 0 THEN stats.ComicsFetched ELSE @]
        /\ page.at = "stats" /\ page' = [page EXCEPT !.at = "status", !.hasStats = TRUE]
    BY DEF StatsAnswered, Relay, catalogueVars
  <1>3. comics # {} => CountComics(comics) > 0
    BY CountPositive, Numbers
  <1>4. NumbersInv'
    BY <1>2, <1>3, Numbers DEF IInv, CountInv, QuietInv, GrowInv, NumbersInv, StatsType
  <1>5. /\ page'.at = "status" /\ page'.hasStats /\ page'.status = page.status
        /\ page'.error = page.error /\ page' \in PageType
    BY <1>2 DEF PlaceInv, PageType, Places
  <1>6. PlaceInv'
    BY <1>2, <1>5 DEF PlaceInv
  <1>7. GrowInv' /\ RunningIsTrue' /\ NothingMadeUp'
    BY <1>2, <1>5 DEF GrowInv, RunningIsTrue, NothingMadeUp, PlaceInv
  <1> QED BY <1>1, <1>4, <1>6, <1>7 DEF PageInv

LEMMA PageStepKeeps == PageInv /\ [PageNext]_pageVars => PageInv'
  <1> SUFFICES ASSUME PageInv, [PageNext]_pageVars PROVE PageInv'
    OBVIOUS
  <1>1. CASE Behind
    BY <1>1, QueryKeepsPage, WriteKeepsPage DEF Behind
  <1>2. CASE Open \/ StatsFailed \/ StatusRead \/ StatusAnswered \/ StatusFailed \/ Deadline
    BY <1>2, HandlerKeepsPage
  <1>3. CASE StatsAnswered
    BY <1>3, AnswerKeepsPage
  <1>4. CASE UNCHANGED pageVars
    <2>1. IInv'
      BY <1>4, StepKeeps DEF PageInv, pageVars
    <2> QED BY <1>4, <2>1 DEF PageInv, pageVars, vars, catalogueVars, readerVars, GrowInv, PlaceInv,
               NumbersInv, RunningIsTrue, NothingMadeUp
  <1> QED BY <1>1, <1>2, <1>3, <1>4 DEF PageNext

THEOREM PageInductive == PageSpec => []PageInv
  <1> QED BY PageStart, PageStepKeeps, PTL DEF PageSpec

--------------------------------------------------------------------------------
(* The page and the call behind it stay in their types. *)
THEOREM PageTypeCorrect == PageSpec => []PageTypeOK
  <1>1. PageInv => PageTypeOK
    BY DEF PageInv, IInv, PlaceInv, PageTypeOK
  <1> QED BY <1>1, PageInductive, PTL

(* handleAdmin shows no number and no status without having been told, and says *)
(* which of the two calls has failed.                                           *)
THEOREM PageMakesNothingUp == PageSpec => []NothingMadeUp
  <1> QED BY PageInductive, PTL DEF PageInv

(* A page that says "running" has met an Update or a Drop.                      *)
THEOREM PageRunningIsTrue == PageSpec => []RunningIsTrue
  <1> QED BY PageInductive, PTL DEF PageInv

(* The page of a request that no call overlaps shows the table as it is, though *)
(* its numbers and its status are read one after the other.                     *)
THEOREM PageIsExact == PageSpec => []IdlePageIsExact
  <1>1. PageInv => IdlePageIsExact
    BY DEF PageInv, NumbersInv, RunningIsTrue, IdlePageIsExact
  <1> QED BY <1>1, PageInductive, PTL

(* Unless something is dropped, the page never counts what is not there.        *)
THEOREM PageIsNeverAhead == PageSpec => []PageNeverAhead
  <1>1. PageInv => PageNeverAhead
    BY DEF PageInv, NumbersInv, PageNeverAhead
  <1> QED BY <1>1, PageInductive, PTL

================================================================================
