----------------------------------- MODULE Search ----------------------------------
(*******************************************************************************)
(* One search from the form to the page: the web server's handleSearch, the API *)
(* gateway's search handler (GET /api/search and /api/isearch are the same one), *)
(* the search service, the words service and the SELECT over the comics table.  *)
(*                                                                              *)
(* A text is the set of its tokens.  Norm of the words service, which Update    *)
(* applies to descriptions and Search to phrases, drops stop words and maps     *)
(* different tokens to one stem.                                                *)
(*******************************************************************************)
EXTENDS Integers, Sequences, FiniteSets, SequencesExt

CONSTANTS
  Comics,        \* ids of comics
  Tokens,        \* words as they are written
  StopWords,     \* those of them that Norm drops
  StemOf,        \* the stem of each of the others
  Description,   \* the tokens of each comic's description
  LimitTexts,    \* what may stand in the field limit
  DefaultLimit,  \* the limit where none is given, 10 in the code
  Faults         \* whether a service may fail, TRUE or FALSE

ASSUME TokensAssumption == StopWords \subseteq Tokens /\ Description \in [Comics -> SUBSET Tokens]
ASSUME ComicsAssumption ==
  Comics \subseteq Int /\ IsFiniteSet(Comics) /\ \A id \in Comics : IsFiniteSet(Description[id])
ASSUME LimitsAssumption == LimitTexts \subseteq [kind : {"blank", "number", "junk"}, n : Int]
ASSUME DefaultAssumption == DefaultLimit \in Nat \ {0}

VARIABLES
  at,      \* the hop that has the request
  phrase,  \* kind: "blank", "plain" or "long" (over 20000 bytes), and the tokens
  limit,   \* the field limit, parsed hop by hop
  stems,   \* the phrase after Norm
  code,    \* the gateway's answer
  page,    \* what the web server shows
  found,   \* the ids on the page, best first
  comics,  \* the table
  seen,    \* history: the table at the SELECT
  origin   \* who asked: the web form or another client of the API

vars == <<at, phrase, limit, stems, code, page, found, comics, seen, origin>>

Number(n) == [kind |-> "number", n |-> n]
Blank == [kind |-> "blank", n |-> 0]
Positive(text) == text.kind = "number" /\ text.n > 0

Phrases == {p \in [kind : {"blank", "plain", "long"}, tokens : SUBSET Tokens] :
              p.kind = "blank" => p.tokens = {}}

(* Mutant: stop words are kept. *)
NormKeepingStopWords(tokens) == {IF t \in StopWords THEN t ELSE StemOf[t] : t \in tokens}

(* words.Norm *)
Norm(tokens) == {StemOf[t] : t \in tokens \ StopWords}

(* The words column of a comic, as Update has stored it. *)
WordsOf(id) == Norm(Description[id])

Score(id, words) == Cardinality(WordsOf(id) \cap words)

Before(i, j) ==
  \/ Score(i, stems) > Score(j, stems)
  \/ Score(i, stems) = Score(j, stems) /\ i < j

(* ORDER BY score DESC, id *)
Ordered(hits) ==
  CHOOSE s \in SetToSeqs(hits) : \A i, j \in 1..Len(s) : i < j => Before(s[i], s[j])

(* LIMIT n *)
FirstOf(s, n) == SubSeq(s, 1, IF n < Len(s) THEN n ELSE Len(s))

(* Mutant: the order of the scores is turned round. *)
BestWorstFirst(rows, n) ==
  FirstOf(Reverse(Ordered({id \in rows : WordsOf(id) \cap stems # {}})), n)

(* Mutant: words @> $1, every word of the phrase is required. *)
BestContainingAll(rows, n) == FirstOf(Ordered({id \in rows : stems \subseteq WordsOf(id)}), n)

(* WHERE words && $1 ORDER BY score DESC, id LIMIT $2 *)
Best(rows, n) == FirstOf(Ordered({id \in rows : WordsOf(id) \cap stems # {}}), n)

Init ==
  /\ origin \in {"web", "api"}
  /\ at = IF origin = "web" THEN "web" ELSE "gateway"
  /\ phrase \in Phrases
  /\ limit \in LimitTexts
  /\ stems = {}
  /\ code = "none"
  /\ page = "none"
  /\ found = <<>>
  /\ comics \in SUBSET Comics
  /\ seen = {}

(* The answer goes back to the gateway's caller. *)
Answer(c) == at' = "reply" /\ code' = c

(* Mutant: the field limit is passed on as it was typed. *)
HandleSearchVerbatim ==
  /\ at = "web"
  /\ IF phrase.kind = "blank"
       THEN at' = "answered" /\ page' = "form"
       ELSE at' = "gateway" /\ UNCHANGED page
  /\ UNCHANGED <<limit, phrase, stems, code, found, comics, seen, origin>>

(* handleSearch: an empty phrase shows the form, a strange limit counts for    *)
(* none.                                                                        *)
HandleSearch ==
  /\ at = "web"
  /\ limit' = IF Positive(limit) THEN limit ELSE Number(DefaultLimit)
  /\ IF phrase.kind = "blank"
       THEN at' = "answered" /\ page' = "form"
       ELSE at' = "gateway" /\ UNCHANGED page
  /\ UNCHANGED <<phrase, stems, code, found, comics, seen, origin>>

(* The middleware Concurrency of /api/search: others have taken every slot.    *)
NoSlot ==
  /\ at = "gateway"
  /\ Answer("503")
  /\ UNCHANGED <<phrase, limit, stems, page, found, comics, seen, origin>>

(* newSearchHTTPHandler: an empty phrase or a strange limit is a bad request.  *)
Gateway ==
  /\ at = "gateway"
  /\ IF phrase.kind = "blank" \/ (limit.kind # "blank" /\ ~Positive(limit))
       THEN Answer("400") /\ UNCHANGED limit
       ELSE /\ at' = "norm"
            /\ limit' = IF limit.kind = "blank" THEN Number(DefaultLimit) ELSE limit
            /\ UNCHANGED code
  /\ UNCHANGED <<phrase, stems, page, found, comics, seen, origin>>

(* Service.Search up to the SELECT: a phrase that is too long is an error, one *)
(* without a word has no answer.                                               *)
Normalize ==
  /\ at = "norm"
  /\ \/ /\ phrase.kind # "long"
        /\ stems' = Norm(phrase.tokens)
        /\ IF stems' = {} THEN Answer("200") ELSE at' = "select" /\ UNCHANGED code
     \/ /\ phrase.kind = "long" \/ Faults
        /\ Answer("500")
        /\ UNCHANGED stems
  /\ UNCHANGED <<phrase, limit, page, found, comics, seen, origin>>

(* The SELECT, which sees one state of the table. *)
Select ==
  /\ at = "select"
  /\ \/ Answer("200") /\ found' = Best(comics, limit.n) /\ seen' = comics
     \/ Faults /\ Answer("500") /\ UNCHANGED <<found, seen>>
  /\ UNCHANGED <<phrase, limit, stems, page, comics, origin>>

(* What the form shows under the phrase. *)
PageOf(status, ids) ==
  IF status # "200" THEN "error" ELSE IF ids = <<>> THEN "nothing" ELSE "hits"

(* The reply is late for withTimeout, or the connection breaks. *)
Lost == IF Faults THEN {"error"} ELSE {}

(* Mutant: an error of the gateway is an empty reply. *)
ShowPageForgiving ==
  /\ at = "reply"
  /\ at' = "answered"
  /\ page' \in IF origin = "web" THEN {PageOf("200", found)} \cup Lost ELSE {page}
  /\ UNCHANGED <<phrase, limit, stems, code, found, comics, seen, origin>>

(* The web server's client takes anything but 200 for an error; another client *)
(* of the gateway has the answer as it is.                                     *)
ShowPage ==
  /\ at = "reply"
  /\ at' = "answered"
  /\ page' \in IF origin = "web" THEN {PageOf(code, found)} \cup Lost ELSE {page}
  /\ UNCHANGED <<phrase, limit, stems, code, found, comics, seen, origin>>

(* Update stores a comic or Drop empties the table meanwhile. *)
TableChanges ==
  /\ at # "answered"
  /\ \/ \E id \in Comics \ comics : comics' = comics \cup {id}
     \/ comics # {} /\ comics' = {}
  /\ UNCHANGED <<at, phrase, limit, stems, code, page, found, seen, origin>>

Finished == at = "answered" /\ UNCHANGED vars

Next == HandleSearch \/ NoSlot \/ Gateway \/ Normalize \/ Select \/ ShowPage \/ TableChanges \/ Finished

Spec == Init /\ [][Next]_vars

--------------------------------------------------------------------------------
(* Properties. *)

TypeOK ==
  /\ at \in {"web", "gateway", "norm", "select", "reply", "answered"}
  /\ phrase \in Phrases
  /\ limit.kind = "number" => limit.n \in Int
  /\ at \in {"norm", "select"} => Positive(limit)
  /\ stems \subseteq {StemOf[t] : t \in Tokens \ StopWords}
  /\ code \in {"none", "200", "400", "500", "503"}
  /\ page \in {"none", "form", "hits", "nothing", "error"}
  /\ found \in Seq(Comics)
  /\ comics \subseteq Comics /\ seen \subseteq Comics
  /\ origin \in {"web", "api"}

Shown == {found[i] : i \in 1..Len(found)}

(* A page shows the best matches of the table it was made from: no comic twice, *)
(* every one ahead of all that come later or are cut off by the limit, those of *)
(* the same score by their ids, so that the same search shows the same page.   *)
Ahead(i, j) ==
  LET Common(id) == Cardinality(Norm(Description[id]) \cap Norm(phrase.tokens))
  IN Common(i) > Common(j) \/ (Common(i) = Common(j) /\ i < j)

BestMatchesShown ==
  code = "200" =>
    /\ Shown \subseteq seen /\ Len(found) <= limit.n
    /\ \A i, j \in 1..Len(found) : i < j => Ahead(found[i], found[j])
    /\ \A id \in seen \ Shown, i \in 1..Len(found) : Ahead(found[i], id)

(* A comic is found by any word of its own description that is no stop word,   *)
(* however it is inflected there and in the phrase, as long as the page has    *)
(* room (tests/search_test.go:119).                                             *)
FoundByItsWords ==
  code = "200" /\ seen # {} /\ Len(found) < limit.n =>
    \A id \in seen :
      (\E t \in phrase.tokens \ StopWords, d \in Description[id] \ StopWords :
         StemOf[t] = StemOf[d]) <=> id \in Shown

(* Whatever is typed into the form, the gateway does not call it a bad request: *)
(* the web server and the gateway agree on what an empty phrase and a number    *)
(* are.                                                                         *)
WebNeverRefused == origin = "web" => code # "400"

(* "Nothing found" is said only of a table without a match: of no table at all *)
(* if the phrase is nothing but stop words, and never instead of an error.     *)
NothingMeansNothing ==
  page = "nothing" =>
    /\ code = "200"
    /\ \A id \in seen, t \in phrase.tokens \ StopWords : StemOf[t] \notin WordsOf(id)
================================================================================
