------------------------------- MODULE SearchProofs -------------------------------
(* Theorems about Search, for every table, every description, every phrase and *)
(* every way to stem.  The answer of the SELECT is described by a CHOOSE, so    *)
(* that the first thing to prove is that there is an order to be chosen.       *)
EXTENDS Search, FiniteSetTheorems, SequenceTheorems, TLAPS

(* The rows of a table that the phrase selects. *)
Hits(rows) == {id \in rows : WordsOf(id) \cap stems # {}}

--------------------------------------------------------------------------------
(* The order of the rows. *)

LEMMA ScoreType ==
  ASSUME NEW id \in Comics, NEW words
  PROVE  /\ Score(id, words) \in Nat
         /\ Score(id, words) = 0 <=> WordsOf(id) \cap words = {}
  <1> DEFINE kept == Description[id] \ StopWords
             f    == [t \in kept |-> StemOf[t]]
  <1>1. IsFiniteSet(kept)
    BY ComicsAssumption, FS_Subset
  <1>2. f \in Surjection(kept, WordsOf(id))
    BY DEF WordsOf, Norm, Surjection
  <1>3. IsFiniteSet(WordsOf(id))
    BY <1>1, <1>2, FS_Surjection
  <1>4. IsFiniteSet(WordsOf(id) \cap words)
    BY <1>3, FS_Subset
  <1> QED BY <1>4, FS_CardinalityType, FS_EmptySet DEF Score

(* Before is a strict total order of the comics. *)
LEMMA BeforeOrder ==
  ASSUME NEW i \in Comics, NEW j \in Comics, NEW k \in Comics
  PROVE  /\ ~Before(i, i)
         /\ Before(i, j) /\ Before(j, k) => Before(i, k)
         /\ i # j => Before(i, j) \/ Before(j, i)
         /\ ~(Before(i, j) /\ Before(j, i))
  <1>1. Score(i, stems) \in Int /\ Score(j, stems) \in Int /\ Score(k, stems) \in Int
    BY ScoreType
  <1>2. i \in Int /\ j \in Int /\ k \in Int
    BY ComicsAssumption
  <1> QED BY <1>1, <1>2 DEF Before

(* The place of a row among the hits is one more than the number of rows before *)
(* it, which gives each of them a place of its own.                             *)
RowsBefore(hits, id) == {x \in hits : Before(x, id)}
Place(hits) == [id \in hits |-> Cardinality(RowsBefore(hits, id)) + 1]

LEMMA PlaceType ==
  ASSUME NEW hits \in SUBSET Comics
  PROVE  /\ Place(hits) \in [hits -> 1..Cardinality(hits)]
         /\ \A x, y \in hits : Before(x, y) => Place(hits)[x] < Place(hits)[y]
  <1>1. IsFiniteSet(hits) /\ Cardinality(hits) \in Nat
    BY ComicsAssumption, FS_Subset, FS_CardinalityType
  <1>2. ASSUME NEW id \in hits
        PROVE  /\ IsFiniteSet(RowsBefore(hits, id)) /\ Cardinality(RowsBefore(hits, id)) \in Nat
               /\ Cardinality(RowsBefore(hits, id)) < Cardinality(hits)
    <2>1. RowsBefore(hits, id) \in SUBSET hits /\ RowsBefore(hits, id) # hits
      BY BeforeOrder DEF RowsBefore
    <2>2. /\ IsFiniteSet(RowsBefore(hits, id)) /\ Cardinality(RowsBefore(hits, id)) <= Cardinality(hits)
          /\ Cardinality(RowsBefore(hits, id)) # Cardinality(hits)
      BY <1>1, <2>1, FS_Subset
    <2> QED BY <1>1, <2>2, FS_CardinalityType
  <1>3. ASSUME NEW id \in hits PROVE Cardinality(RowsBefore(hits, id)) + 1 \in 1..Cardinality(hits)
    BY <1>1, <1>2
  <1>4. ASSUME NEW x \in hits, NEW y \in hits, Before(x, y)
        PROVE  Cardinality(RowsBefore(hits, x)) < Cardinality(RowsBefore(hits, y))
    <2>1. RowsBefore(hits, x) \in SUBSET RowsBefore(hits, y)
      <3> SUFFICES ASSUME NEW z \in hits, Before(z, x) PROVE Before(z, y)
        BY DEF RowsBefore
      <3> QED BY <1>4, BeforeOrder
    <2>2. x \in RowsBefore(hits, y) /\ x \notin RowsBefore(hits, x)
      BY <1>4, BeforeOrder DEF RowsBefore
    <2>3. /\ Cardinality(RowsBefore(hits, x)) <= Cardinality(RowsBefore(hits, y))
          /\ Cardinality(RowsBefore(hits, x)) # Cardinality(RowsBefore(hits, y))
      BY <1>2, <2>1, <2>2, FS_Subset
    <2> QED BY <1>2, <2>3
  <1> QED BY <1>2, <1>3, <1>4 DEF Place

(* So the hits can be put in order ... *)
LEMMA OrderExists ==
  ASSUME NEW hits \in SUBSET Comics
  PROVE  \E s \in SetToSeqs(hits) : \A i, j \in 1..Len(s) : i < j => Before(s[i], s[j])
  <1> DEFINE n == Cardinality(hits)
             p == Place(hits)
             s == [i \in 1..n |-> CHOOSE x \in hits : p[x] = i]
  <1>1. IsFiniteSet(hits) /\ n \in Nat
    BY ComicsAssumption, FS_Subset, FS_CardinalityType
  <1>2. p \in [hits -> 1..n]
    BY PlaceType
  <1>3. \A x, y \in hits : Before(x, y) => p[x] < p[y]
    BY PlaceType
  <1>4. \A x \in hits : p[x] \in Int
    BY <1>1, <1>2
  <1> HIDE DEF p, n
  <1>5. ASSUME NEW x \in hits, NEW y \in hits, x # y PROVE p[x] # p[y]
    <2>1. Before(x, y) \/ Before(y, x)
      BY <1>5, BeforeOrder
    <2> QED BY <1>3, <1>4, <2>1
  <1>6. p \in Injection(hits, 1..n)
    BY <1>2, <1>5 DEF Injection, IsInjective
  <1>7. IsFiniteSet(1..n) /\ Cardinality(1..n) = n
    BY <1>1, FS_Interval
  <1>8. p \in Surjection(hits, 1..n)
    BY <1>6, <1>7, FS_Injection DEF n
  <1>9. ASSUME NEW i \in 1..n PROVE s[i] \in hits /\ p[s[i]] = i
    <2>1. \E x \in hits : p[x] = i
      BY <1>8 DEF Surjection
    <2> QED BY <2>1
  <1>10. s \in [1..n -> hits] /\ DOMAIN s = 1..n
    BY <1>9
  <1>11. Len(s) = n
    BY <1>1, <1>10
  <1> HIDE DEF s
  <1>12. \A i, j \in 1..n : i # j => s[i] # s[j]
    BY <1>9
  <1>13. s \in SetToSeqs(hits)
    BY <1>10, <1>12 DEF SetToSeqs, n
  <1>14. ASSUME NEW i \in 1..n, NEW j \in 1..n, i < j PROVE Before(s[i], s[j])
    <2>1. s[i] \in hits /\ s[j] \in hits /\ p[s[i]] = i /\ p[s[j]] = j /\ s[i] # s[j]
      BY <1>9, <1>12, <1>14
    <2>2. ~Before(s[j], s[i])
      BY <1>3, <1>14, <2>1
    <2> QED BY <2>1, <2>2, BeforeOrder
  <1> QED BY <1>11, <1>13, <1>14

(* ... and the order chosen has every hit exactly once.                        *)
LEMMA OrderedProperties ==
  ASSUME NEW hits \in SUBSET Comics
  PROVE  /\ Ordered(hits) \in Seq(hits)
         /\ \A x \in hits : \E i \in 1..Len(Ordered(hits)) : Ordered(hits)[i] = x
         /\ \A i, j \in 1..Len(Ordered(hits)) : i < j => Before(Ordered(hits)[i], Ordered(hits)[j])
  <1> DEFINE s == Ordered(hits)
             n == Cardinality(hits)
  <1>1. s \in SetToSeqs(hits) /\ \A i, j \in 1..Len(s) : i < j => Before(s[i], s[j])
    BY OrderExists DEF Ordered
  <1>2. IsFiniteSet(hits) /\ n \in Nat
    BY ComicsAssumption, FS_Subset, FS_CardinalityType
  <1>3. s \in [1..n -> hits] /\ \A i, j \in 1..n : i # j => s[i] # s[j]
    BY <1>1 DEF SetToSeqs
  <1> HIDE DEF s, n
  <1>4. s \in Injection(1..n, hits)
    BY <1>3 DEF Injection, IsInjective
  <1>5. IsFiniteSet(1..n) /\ Cardinality(1..n) = Cardinality(hits)
    BY <1>2, FS_Interval DEF n
  <1>6. s \in Surjection(1..n, hits)
    BY <1>2, <1>4, <1>5, FS_Injection
  <1>7. s \in Seq(hits) /\ Len(s) = n
    BY <1>2, <1>3
  <1>8. \A x \in hits : \E i \in 1..n : s[i] = x
    BY <1>6 DEF Surjection
  <1> QED BY <1>1, <1>7, <1>8 DEF s

(* What a page of the n best rows is. *)
IsTop(shown, rows, n) ==
  /\ shown \in Seq(Hits(rows))
  /\ Len(shown) <= n
  /\ \A i, j \in 1..Len(shown) : i < j => Before(shown[i], shown[j])
  /\ \A x \in Hits(rows) :
       \/ \E i \in 1..Len(shown) : shown[i] = x
       \/ Len(shown) = n /\ \A i \in 1..Len(shown) : Before(shown[i], x)

LEMMA BestIsTop ==
  ASSUME NEW rows \in SUBSET Comics, NEW n \in Nat
  PROVE  IsTop(Best(rows, n), rows, n)
  <1> DEFINE s == Ordered(Hits(rows))
             m == IF n < Len(s) THEN n ELSE Len(s)
             best == SubSeq(s, 1, m)
  <1>1. Hits(rows) \in SUBSET Comics
    BY DEF Hits
  <1>2. s \in Seq(Hits(rows)) /\ \A x \in Hits(rows) : \E i \in 1..Len(s) : s[i] = x
    BY <1>1, OrderedProperties
  <1>3. \A i, j \in 1..Len(s) : i < j => Before(s[i], s[j])
    BY <1>1, OrderedProperties
  <1>4. Best(rows, n) = best
    BY DEF Best, FirstOf, Hits
  <1> HIDE DEF s
  <1>5. Len(s) \in Nat /\ m \in Nat /\ m <= Len(s) /\ m <= n /\ (m = n \/ m = Len(s))
    BY <1>2
  <1> HIDE DEF m
  <1>6. \A i \in 1..m : s[i] \in Hits(rows)
    BY <1>2, <1>5
  <1>7. /\ best \in Seq(Hits(rows))
        /\ Len(best) = m
        /\ \A i \in 1..m : best[i] = s[i]
    BY <1>2, <1>5, <1>6, SubSeqProperties
  <1> HIDE DEF best
  <1>8. ASSUME NEW x \in Hits(rows)
        PROVE  \/ \E i \in 1..m : best[i] = x
               \/ m = n /\ \A i \in 1..m : Before(best[i], x)
    <2>1. PICK k \in 1..Len(s) : s[k] = x
      BY <1>2
    <2>2. CASE k <= m
      BY <1>5, <1>7, <2>1, <2>2
    <2>3. CASE k > m
      BY <1>3, <1>5, <1>7, <2>1, <2>3
    <2> QED BY <1>5, <2>1, <2>2, <2>3
  <1>9. \A i, j \in 1..m : i < j => Before(best[i], best[j])
    BY <1>3, <1>5, <1>7
  <1> QED BY <1>4, <1>5, <1>7, <1>8, <1>9 DEF IsTop

(* On a page of best rows the i-th row has the i-th place among all the hits ... *)
LEMMA TopHasItsPlace ==
  ASSUME NEW rows \in SUBSET Comics, NEW n, NEW s, IsTop(s, rows, n), NEW i \in 1..Len(s)
  PROVE  Place(Hits(rows))[s[i]] = i
  <1> DEFINE h == Hits(rows)
             first == [j \in 1..(i - 1) |-> s[j]]
  <1>1. h \in SUBSET Comics /\ s \in Seq(h)
    BY DEF Hits, IsTop
  <1>2. Len(s) \in Nat /\ \A j \in 1..Len(s) : s[j] \in h
    BY <1>1
  <1>3. /\ \A j, k \in 1..Len(s) : j < k => Before(s[j], s[k])
        /\ \A x \in h : (\E j \in 1..Len(s) : s[j] = x) \/ \A j \in 1..Len(s) : Before(s[j], x)
    BY DEF IsTop
  <1> HIDE DEF h
  <1>4. \A j, k \in 1..Len(s) : Before(s[j], s[k]) => j < k
    <2> SUFFICES ASSUME NEW j \in 1..Len(s), NEW k \in 1..Len(s), Before(s[j], s[k]), ~(j < k)
                 PROVE  FALSE
      OBVIOUS
    <2>1. s[j] \in Comics /\ s[k] \in Comics
      BY <1>1, <1>2
    <2>2. CASE k < j
      BY <1>3, <2>1, <2>2, BeforeOrder
    <2>3. CASE k = j
      BY <2>1, <2>3, BeforeOrder
    <2> QED BY <1>2, <2>2, <2>3
  <1>5. ASSUME NEW x \in h, Before(x, s[i]) PROVE \E j \in 1..(i - 1) : s[j] = x
    <2>1. PICK j \in 1..Len(s) : s[j] = x
      <3>1. x \in Comics /\ s[i] \in Comics
        BY <1>1, <1>2
      <3>2. ~Before(s[i], x)
        BY <1>5, <3>1, BeforeOrder
      <3> QED BY <1>3, <3>2
    <2>2. j < i
      BY <1>4, <1>5, <2>1
    <2> QED BY <1>2, <2>1, <2>2
  <1>6. \A j \in 1..(i - 1) : first[j] \in RowsBefore(h, s[i])
    BY <1>2, <1>3 DEF RowsBefore
  <1>7. \A j, k \in 1..(i - 1) : first[j] = first[k] => j = k
    <2> SUFFICES ASSUME NEW j \in 1..(i - 1), NEW k \in 1..(i - 1), s[j] = s[k], j # k
                 PROVE  FALSE
      OBVIOUS
    <2>1. /\ j \in 1..Len(s) /\ k \in 1..Len(s) /\ s[j] \in Comics
          /\ j < k \/ k < j
      BY <1>1, <1>2
    <2> QED BY <1>3, <2>1, BeforeOrder
  <1>8. \A x \in RowsBefore(h, s[i]) : \E j \in 1..(i - 1) : first[j] = x
    BY <1>5 DEF RowsBefore
  <1>9. first \in Bijection(1..(i - 1), RowsBefore(h, s[i]))
    <2>1. first \in [1..(i - 1) -> RowsBefore(h, s[i])]
      BY <1>6
    <2> HIDE DEF first
    <2> QED BY <1>7, <1>8, <2>1 DEF Bijection, Injection, Surjection, IsInjective
  <1>10. IsFiniteSet(1..(i - 1)) /\ Cardinality(1..(i - 1)) = i - 1
    <2>1. i \in Nat /\ i - 1 \in Int /\ i - 1 >= 0
      BY <1>2
    <2>2. Cardinality(1..(i - 1)) = (IF 1 > i - 1 THEN 0 ELSE (i - 1) - 1 + 1) /\ IsFiniteSet(1..(i - 1))
      BY <2>1, FS_Interval
    <2> QED BY <2>1, <2>2
  <1>11. Cardinality(RowsBefore(h, s[i])) = i - 1
    <2>1. ExistsBijection(1..(i - 1), RowsBefore(h, s[i]))
      BY <1>9 DEF ExistsBijection
    <2>2. Cardinality(RowsBefore(h, s[i])) = Cardinality(1..(i - 1))
      BY <1>10, <2>1, FS_Bijection
    <2> QED BY <1>10, <2>2
  <1> QED BY <1>2, <1>11 DEF Place, h

(* ... so that there is one such page only.                                     *)
LEMMA TopIsUnique ==
  ASSUME NEW rows \in SUBSET Comics, NEW n \in Nat,
         NEW s, IsTop(s, rows, n), NEW t, IsTop(t, rows, n)
  PROVE  s = t
  <1> DEFINE h == Hits(rows)
             p == Place(h)
  <1>1. h \in SUBSET Comics /\ s \in Seq(h) /\ t \in Seq(h)
    BY DEF Hits, IsTop
  <1>2. /\ Len(s) \in Nat /\ \A i \in 1..Len(s) : s[i] \in h
        /\ Len(t) \in Nat /\ \A i \in 1..Len(t) : t[i] \in h
    BY <1>1
  <1>3. /\ \A i \in 1..Len(s) : p[s[i]] = i
        /\ \A i \in 1..Len(t) : p[t[i]] = i
    BY TopHasItsPlace
  <1>4. /\ n \in Nat /\ Len(s) <= n /\ (Len(s) = n \/ \A x \in h : \E i \in 1..Len(s) : s[i] = x)
        /\ Len(t) <= n /\ (Len(t) = n \/ \A x \in h : \E i \in 1..Len(t) : t[i] = x)
    BY DEF IsTop
  <1>5. \A x, y \in h : p[x] = p[y] => x = y
    <2> SUFFICES ASSUME NEW x \in h, NEW y \in h, p[x] = p[y], x # y PROVE FALSE
      OBVIOUS
    <2>1. Before(x, y) \/ Before(y, x)
      BY <1>1, BeforeOrder
    <2>2. p[x] < p[y] \/ p[y] < p[x]
      BY <1>1, <2>1, PlaceType
    <2>3. p[x] \in Int
      <3>1. IsFiniteSet(h) /\ Cardinality(h) \in Nat /\ p \in [h -> 1..Cardinality(h)]
        BY <1>1, ComicsAssumption, FS_Subset, FS_CardinalityType, PlaceType
      <3> QED BY <3>1
    <2> QED BY <2>2, <2>3
  <1> HIDE DEF h, p
  <1>6. Len(s) = Len(t)
    <2>1. ~(Len(s) < Len(t))
      <3> SUFFICES ASSUME Len(s) < Len(t) PROVE FALSE
        OBVIOUS
      <3>1. Len(s) # n /\ Len(s) + 1 \in 1..Len(t)
        BY <1>2, <1>4
      <3>2. t[Len(s) + 1] \in h /\ p[t[Len(s) + 1]] = Len(s) + 1
        BY <1>2, <1>3, <3>1
      <3>3. PICK i \in 1..Len(s) : s[i] = t[Len(s) + 1]
        BY <1>4, <3>1, <3>2
      <3> QED BY <1>2, <1>3, <3>2, <3>3
    <2>2. ~(Len(t) < Len(s))
      <3> SUFFICES ASSUME Len(t) < Len(s) PROVE FALSE
        OBVIOUS
      <3>1. Len(t) # n /\ Len(t) + 1 \in 1..Len(s)
        BY <1>2, <1>4
      <3>2. s[Len(t) + 1] \in h /\ p[s[Len(t) + 1]] = Len(t) + 1
        BY <1>2, <1>3, <3>1
      <3>3. PICK i \in 1..Len(t) : t[i] = s[Len(t) + 1]
        BY <1>4, <3>1, <3>2
      <3> QED BY <1>2, <1>3, <3>2, <3>3
    <2> QED BY <1>2, <2>1, <2>2
  <1>7. \A i \in 1..Len(s) : s[i] = t[i]
    BY <1>2, <1>3, <1>5, <1>6
  <1> QED BY <1>1, <1>6, <1>7, SeqEqual

--------------------------------------------------------------------------------
(* The request on its way. *)

Places == {"web", "gateway", "norm", "select", "reply", "answered"}

(* Before the SELECT there is no answer; a form that was sent on carries a      *)
(* phrase and a number.                                                         *)
PathInv ==
  /\ at \in {"web", "gateway", "norm", "select"} =>
       code = "none" /\ page = "none" /\ found = <<>> /\ seen = {}
  /\ at = "web" => origin = "web"
  /\ at = "gateway" /\ origin = "web" => phrase.kind # "blank" /\ Positive(limit)
  /\ at = "reply" => code # "none" /\ page = "none"
  /\ at = "select" => stems = Norm(phrase.tokens)

(* An answer is the best of the table it was made from, which is no table at    *)
(* all where the phrase has no words.                                           *)
AnswerInv ==
  /\ code = "200" =>
       stems = Norm(phrase.tokens) /\ Positive(limit) /\ IsTop(found, seen, limit.n)
  /\ page = "nothing" => code = "200" /\ found = <<>>

SearchInv == TypeOK /\ PathInv /\ WebNeverRefused /\ AnswerInv

LEMMA NormType ==
  ASSUME NEW tokens \in SUBSET Tokens
  PROVE  Norm(tokens) \subseteq {StemOf[t] : t \in Tokens \ StopWords}
  BY DEF Norm

LEMMA SearchInit == Init => SearchInv
  <1> SUFFICES ASSUME Init PROVE SearchInv
    OBVIOUS
  <1>1. TypeOK
    BY LimitsAssumption DEF Init, TypeOK
  <1>2. PathInv /\ WebNeverRefused /\ AnswerInv
    BY DEF Init, PathInv, WebNeverRefused, AnswerInv
  <1> QED BY <1>1, <1>2 DEF SearchInv

LEMMA SearchStep == SearchInv /\ [Next]_vars => SearchInv'
  <1> SUFFICES ASSUME SearchInv, [Next]_vars PROVE SearchInv'
    OBVIOUS
  <1> USE DEF SearchInv
  <1>1. CASE HandleSearch
    <2>1. limit' = limit \/ (limit' = Number(DefaultLimit) /\ Positive(limit') /\ limit'.n \in Int)
      BY <1>1, DefaultAssumption DEF HandleSearch, Number, Positive
    <2>2. Positive(limit')
      <3>1. Positive(Number(DefaultLimit))
        BY DefaultAssumption DEF Positive, Number
      <3> QED BY <1>1, <3>1 DEF HandleSearch
    <2>3. TypeOK'
      BY <1>1, <2>1 DEF HandleSearch, TypeOK
    <2>4. PathInv'
      BY <1>1, <2>2 DEF HandleSearch, PathInv, Positive
    <2>5. WebNeverRefused' /\ AnswerInv'
      BY <1>1 DEF HandleSearch, PathInv, WebNeverRefused, AnswerInv
    <2> QED BY <2>3, <2>4, <2>5
  <1>2. CASE Gateway
    <2>1. limit' = limit \/ (limit' = Number(DefaultLimit) /\ Positive(limit') /\ limit'.n \in Int)
      BY <1>2, DefaultAssumption DEF Gateway, Number, Positive
    <2>2. at' = "norm" => Positive(limit')
      BY <1>2, DefaultAssumption DEF Gateway, Number, Positive, Answer
    <2>3. TypeOK'
      BY <1>2, <2>1, <2>2 DEF Gateway, Answer, TypeOK
    <2>4. PathInv'
      BY <1>2 DEF Gateway, Answer, PathInv
    <2>5. WebNeverRefused' /\ AnswerInv'
      BY <1>2 DEF Gateway, Answer, PathInv, Positive, WebNeverRefused, AnswerInv
    <2> QED BY <2>3, <2>4, <2>5
  <1>3. CASE Normalize
    <2>1. stems' \subseteq {StemOf[t] : t \in Tokens \ StopWords}
      BY <1>3, NormType DEF Normalize, TypeOK, Phrases
    <2>2. TypeOK'
      BY <1>3, <2>1 DEF Normalize, Answer, TypeOK, Positive
    <2>3. PathInv' /\ WebNeverRefused'
      BY <1>3 DEF Normalize, Answer, PathInv, WebNeverRefused
    <2>4. AnswerInv'
      <3>1. page' = "none" /\ found' = <<>> /\ seen' = {} /\ limit' = limit
        BY <1>3 DEF Normalize, PathInv
      <3>a. Positive(limit) /\ limit.n \in Nat
        BY <1>3 DEF Normalize, TypeOK, Positive
      <3>2. code' = "200" => stems' = Norm(phrase'.tokens)
        BY <1>3 DEF Normalize, Answer, PathInv
      <3>3. IsTop(found, seen, limit.n)'
        BY <3>1, <3>a DEF IsTop, Hits
      <3> QED BY <3>1, <3>2, <3>3, <3>a DEF AnswerInv, Positive
    <2> QED BY <2>2, <2>3, <2>4
  <1>4. CASE Select
    <2>0. limit.n \in Nat /\ Positive(limit) /\ comics \in SUBSET Comics /\ stems' = stems
      BY <1>4 DEF Select, TypeOK, Positive
    <2>1. CASE found' = Best(comics, limit.n) /\ seen' = comics /\ Answer("200")
      <3>1. IsTop(Best(comics, limit.n), comics, limit.n)
        BY <2>0, BestIsTop
      <3>2. IsTop(found', seen', limit.n)
        BY <2>1, <3>1
      <3>3. IsTop(found, seen, limit.n)'
        BY <1>4, <2>0, <3>2 DEF Select, IsTop, Hits, Before
      <3>4. found' \in Seq(Comics)
        BY <2>0, <2>1, <3>1 DEF IsTop, Hits
      <3>5. TypeOK'
        BY <1>4, <2>1, <3>4 DEF Select, Answer, TypeOK, Positive
      <3>6. PathInv' /\ WebNeverRefused' /\ AnswerInv'
        BY <1>4, <2>0, <2>1, <3>3 DEF Select, Answer, PathInv, WebNeverRefused, AnswerInv, Positive
      <3> QED BY <3>5, <3>6
    <2>2. CASE Answer("500") /\ UNCHANGED <<found, seen>>
      BY <1>4, <2>2 DEF Select, Answer, TypeOK, PathInv, WebNeverRefused, AnswerInv, Positive
    <2> QED BY <1>4, <2>1, <2>2 DEF Select
  <1>5. CASE ShowPage
    <2>1. /\ page' \in {"none", "hits", "nothing", "error"}
          /\ page' = "nothing" => code = "200" /\ found = <<>>
      BY <1>5 DEF ShowPage, PageOf, Lost, PathInv
    <2>2. TypeOK'
      BY <1>5, <2>1 DEF ShowPage, TypeOK, Positive
    <2>3. IsTop(found, seen, limit.n) => IsTop(found, seen, limit.n)'
      BY <1>5 DEF ShowPage, IsTop, Hits, Before
    <2>4. PathInv' /\ WebNeverRefused' /\ AnswerInv'
      BY <1>5, <2>1, <2>3 DEF ShowPage, PathInv, WebNeverRefused, AnswerInv, Positive
    <2> QED BY <2>2, <2>4
  <1>6. CASE TableChanges \/ UNCHANGED vars
    <2>1. UNCHANGED <<at, phrase, limit, stems, code, page, found, seen, origin>>
      BY <1>6 DEF TableChanges, vars
    <2>2. comics' \subseteq Comics
      BY <1>6 DEF TableChanges, vars, TypeOK
    <2>3. IsTop(found, seen, limit.n) => IsTop(found, seen, limit.n)'
      BY <2>1 DEF IsTop, Hits, Before
    <2>4. TypeOK'
      BY <2>1, <2>2 DEF TypeOK, Positive
    <2>5. PathInv' /\ WebNeverRefused' /\ AnswerInv'
      BY <2>1, <2>3 DEF PathInv, WebNeverRefused, AnswerInv, Positive
    <2> QED BY <2>4, <2>5
  <1>7. CASE NoSlot
    <2>1. IsTop(found, seen, limit.n) => IsTop(found, seen, limit.n)'
      BY <1>7 DEF NoSlot, IsTop, Hits, Before
    <2> QED BY <1>7, <2>1 DEF NoSlot, Answer, TypeOK, PathInv, WebNeverRefused, AnswerInv, Positive
  <1> QED BY <1>1, <1>2, <1>3, <1>4, <1>5, <1>6, <1>7 DEF Next, Finished

LEMMA SearchInductive == Spec => []SearchInv
  BY SearchInit, SearchStep, PTL DEF Spec

--------------------------------------------------------------------------------
(* The state stays within its types in every search. *)
THEOREM TypeCorrect == Spec => []TypeOK
  <1> QED BY SearchInductive, PTL DEF SearchInv

(* The gateway never refuses what the form sends on. *)
THEOREM WebIsNeverRefused == Spec => []WebNeverRefused
  <1> QED BY SearchInductive, PTL DEF SearchInv

(* A page shows the best matches of the table it was made from, in their order. *)
THEOREM BestAreShown == Spec => []BestMatchesShown
  <1>1. SearchInv => BestMatchesShown
    <2> SUFFICES ASSUME SearchInv, code = "200" PROVE BestMatchesShown
      BY DEF BestMatchesShown
    <2>1. stems = Norm(phrase.tokens) /\ IsTop(found, seen, limit.n) /\ seen \subseteq Comics
      BY DEF SearchInv, AnswerInv, TypeOK
    <2>2. /\ Shown \subseteq Hits(seen)
          /\ \A i \in 1..Len(found) : found[i] \in Hits(seen)
      BY <2>1 DEF IsTop, Shown
    <2>3. \A i, j : Ahead(i, j) <=> Before(i, j)
      BY <2>1 DEF Ahead, Before, Score, WordsOf
    <2>4. ASSUME NEW id \in seen \ Shown, NEW i \in 1..Len(found) PROVE Before(found[i], id)
      <3>1. CASE id \in Hits(seen)
        BY <2>1, <2>4, <3>1 DEF IsTop, Shown
      <3>2. CASE id \notin Hits(seen)
        <4>1. /\ Score(id, stems) = 0
              /\ Score(found[i], stems) \in Nat /\ Score(found[i], stems) # 0
          BY <2>1, <2>2, <3>2, ScoreType DEF Hits
        <4> QED BY <4>1 DEF Before
      <3> QED BY <3>1, <3>2
    <2>5. Shown \subseteq seen
      BY <2>2 DEF Hits
    <2>6. /\ Len(found) <= limit.n
          /\ \A i, j \in 1..Len(found) : i < j => Before(found[i], found[j])
      BY <2>1 DEF IsTop
    <2> QED BY <2>3, <2>4, <2>5, <2>6 DEF BestMatchesShown
  <1> QED BY <1>1, SearchInductive, PTL

(* What a page shows is settled by the table, the phrase and the limit: there   *)
(* are no two ways to answer one search.                                        *)
OneWayToAnswer ==
  code = "200" => \A s : IsTop(s, seen, limit.n) => s = found

THEOREM AnswerIsUnique == Spec => []OneWayToAnswer
  <1>1. SearchInv => OneWayToAnswer
    <2> SUFFICES ASSUME SearchInv, code = "200", NEW s, IsTop(s, seen, limit.n) PROVE s = found
      BY DEF OneWayToAnswer
    <2>1. IsTop(found, seen, limit.n) /\ limit.n \in Nat /\ seen \in SUBSET Comics
      BY DEF SearchInv, AnswerInv, TypeOK, Positive
    <2> QED BY <2>1, TopIsUnique
  <1> QED BY <1>1, SearchInductive, PTL

(* What is a hit: the phrase and the description share a stem. *)
LEMMA HitsShareAStem ==
  ASSUME NEW id, NEW tokens
  PROVE  (\E t \in tokens \ StopWords, d \in Description[id] \ StopWords : StemOf[t] = StemOf[d])
           <=> WordsOf(id) \cap Norm(tokens) # {}
  BY DEF WordsOf, Norm

(* A comic is found by any word of its description, where the page has room.   *)
THEOREM FoundByItsOwnWords == Spec => []FoundByItsWords
  <1>1. SearchInv => FoundByItsWords
    <2> SUFFICES ASSUME SearchInv, code = "200", Len(found) < limit.n, NEW id \in seen
                 PROVE  (\E t \in phrase.tokens \ StopWords, d \in Description[id] \ StopWords :
                           StemOf[t] = StemOf[d]) <=> id \in Shown
      BY DEF FoundByItsWords
    <2>1. stems = Norm(phrase.tokens) /\ IsTop(found, seen, limit.n) /\ limit.n \in Int
      BY DEF SearchInv, AnswerInv, TypeOK, Positive
    <2>2. Len(found) \in Nat
      BY <2>1 DEF IsTop
    <2>3. id \in Hits(seen) <=> id \in Shown
      BY <2>1, <2>2 DEF IsTop, Shown
    <2> QED BY <2>1, <2>3, HitsShareAStem DEF Hits
  <1> QED BY <1>1, SearchInductive, PTL

(* "Nothing found" is said only of a table without a match. *)
THEOREM NothingIsNothing == Spec => []NothingMeansNothing
  <1>1. SearchInv => NothingMeansNothing
    <2> SUFFICES ASSUME SearchInv, page = "nothing" PROVE NothingMeansNothing
      BY DEF NothingMeansNothing
    <2>1. /\ code = "200" /\ found = <<>> /\ stems = Norm(phrase.tokens) /\ Positive(limit)
          /\ IsTop(found, seen, limit.n)
      BY DEF SearchInv, AnswerInv
    <2>2. limit.n # 0
      BY <2>1 DEF Positive
    <2>3. Hits(seen) = {}
      BY <2>1, <2>2 DEF IsTop
    <2> QED BY <2>1, <2>3 DEF NothingMeansNothing, Hits, Norm
  <1> QED BY <1>1, SearchInductive, PTL

================================================================================
