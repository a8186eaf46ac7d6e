-------------------------------- MODULE AdminPage --------------------------------
(*******************************************************************************)
(* GET /admin of the web server while the table changes: handleAdmin asks the   *)
(* API for the statistics and then for the status, one after the other and both *)
(* under one deadline, and shows what it got.  The statistics are those of      *)
(* StatsService, the table and its holder those of Catalogue; the status the    *)
(* update service reports is "running" exactly while a call holds the table     *)
(* (UpdateService, Exclusion).                                                  *)
(*******************************************************************************)
EXTENDS StatsService

VARIABLE page  \* the page under construction, a record of PageType

pageVars == <<vars, page>>

Places   == {"none", "stats", "status", "answer", "shown"}
Statuses == {"unknown", "idle", "running"}
Errors   == {"none", "given", "stats", "status"}

(* "given" is the error that the address of the page carries after a redirect. *)
PageType ==
  [at : Places, hasStats : BOOLEAN, status : Statuses, error : Errors]

(* The handler waits for the API. *)
Waiting == page.at \in {"stats", "status", "answer"}

PageInit ==
  /\ Init
  /\ page = [at |-> "none", hasStats |-> FALSE, status |-> "unknown", error |-> "none"]

(* if data.Error == "" { data.Error = err.Error() } *)
ErrorOr(error) == IF page.error = "none" THEN error ELSE page.error

(* The page is asked for; the first call goes out. *)
Open ==
  /\ page.at \in {"none", "shown"}
  /\ Ask
  /\ \E error \in {"none", "given"} :
       page' = [at |-> "stats", hasStats |-> FALSE, status |-> "unknown", error |-> error]

(* The statistics arrive through the API gateway. *)
StatsAnswered ==
  /\ page.at = "stats"
  /\ Relay
  /\ page' = [page EXCEPT !.at = "status", !.hasStats = TRUE]

(* A query, the gateway or the connection fails: the page goes on without.  The *)
(* call only reads, so that one that goes on unobserved makes no difference.   *)
StatsFailed ==
  /\ page.at = "stats"
  /\ Fail
  /\ page' = [page EXCEPT !.at = "status", !.error = ErrorOr("stats")]

(* Mutant: the gateway swaps the two values of the enumeration. *)
StatusReadSwapped ==
  /\ page.at = "status"
  /\ page' = [page EXCEPT !.at = "answer", !.status = IF holder = {} THEN "running" ELSE "idle"]
  /\ UNCHANGED vars

(* Service.Status, under its mutex; its answer is on the way. *)
StatusRead ==
  /\ page.at = "status"
  /\ page' = [page EXCEPT !.at = "answer", !.status = IF holder = {} THEN "idle" ELSE "running"]
  /\ UNCHANGED vars

(* The status arrives. *)
StatusAnswered ==
  /\ page.at = "answer"
  /\ page' = [page EXCEPT !.at = "shown"]
  /\ UNCHANGED vars

(* The call of Status fails, or its answer is lost. *)
StatusFailed ==
  /\ page.at \in {"status", "answer"}
  /\ page' = [page EXCEPT !.at = "shown", !.status = "unknown", !.error = ErrorOr("status")]
  /\ UNCHANGED vars

(* Mutant: the status is asked for without the deadline. *)
DeadlineOfStats ==
  /\ page.at = "stats"
  /\ page' = [page EXCEPT !.at = "status", !.error = ErrorOr("stats")]
  /\ Fail

(* The deadline of withTimeout passes: the call that is out fails, and one that *)
(* was to follow fails at once.                                                *)
Deadline ==
  /\ Waiting
  /\ page' = [page EXCEPT !.at = "shown", !.status = "unknown",
                          !.error = ErrorOr(IF page.at = "stats" THEN "stats" ELSE "status")]
  /\ IF page.at = "stats" THEN Fail ELSE UNCHANGED vars

(* What is behind the web server goes on. *)
Behind == (Query \/ Write) /\ UNCHANGED page

PageNext ==
  \/ Open \/ StatsAnswered \/ StatsFailed
  \/ StatusRead \/ StatusAnswered \/ StatusFailed
  \/ Deadline \/ Behind

PageSpec == PageInit /\ [][PageNext]_pageVars

(* The web handler takes an answer that has arrived, or its timer fires.       *)
(* Nobody behind it is obliged to answer: Postgres and XKCD may hang.          *)
FairPageSpec == PageSpec /\ WF_pageVars(StatsAnswered \/ StatusAnswered \/ Deadline)

--------------------------------------------------------------------------------
(* Properties. *)

PageTypeOK == TypeOK /\ page \in PageType

(* The page says nothing it was not told: without an error on it, it shows     *)
(* numbers and a status; an error of its own says which of them is missing.    *)
NothingMadeUp ==
  page.at = "shown" =>
    /\ page.error = "none" => page.hasStats /\ page.status # "unknown"
    /\ page.error = "stats" => ~page.hasStats
    /\ page.error = "status" => page.hasStats /\ page.status = "unknown"

(* A page that says "running" has met a call: some Update or Drop held the     *)
(* table at a moment between the request and the answer.                       *)
RunningIsTrue ==
  page.at \in {"answer", "shown"} /\ page.status = "running" => ~window.quiet

(* The numbers and the status are read at different moments, and an Update may *)
(* begin or end between them.  A page that says "idle" and whose request no    *)
(* call has overlapped since shows the table as it is: count and words fit, and *)
(* the total is what the gateway makes of it, the number of stored comics once *)
(* there are any (TotalIsXkcds is about that).                                 *)
IdlePageIsExact ==
  page.at = "shown" /\ page.hasStats /\ window.quiet =>
    /\ page.status # "running"
    /\ stats.ComicsFetched = CountComics(comics)
    /\ stats.WordsTotal = CountWords(comics)
    /\ stats.WordsUnique = CountUnique(comics)
    /\ comics # {} => stats.ComicsTotal = CountComics(comics)

(* Unless something has been dropped since, the page never counts a comic that *)
(* is not in the table: it may lag behind an Update but not run ahead of it.   *)
PageNeverAhead ==
  page.at = "shown" /\ page.hasStats /\ window.growing =>
    /\ stats.ComicsFetched <= CountComics(comics)
    /\ stats.WordsTotal <= CountWords(comics)
    /\ stats.WordsUnique <= CountUnique(comics)

(* The admin page appears although Stats or Status never answers: both calls   *)
(* run under the one deadline of withTimeout.                                  *)
PageShown == Waiting ~> page.at = "shown"
================================================================================
