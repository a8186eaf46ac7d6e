------------------------------ MODULE UpdateService ------------------------------
(*******************************************************************************)
(* The update service of comics-scout: update/core/service.go together with the *)
(* adapters its two writing operations go through (xkcd, words, db, broker).    *)
(*                                                                              *)
(* Every gRPC call of Update or Drop is a process of its own, used once.  A     *)
(* call that Update accepts starts Concurrency worker goroutines, feeds them    *)
(* over the unbuffered channel idsCh and collects their errors in the buffered  *)
(* channel errCh, which it reads only after every worker has returned.          *)
(* Postgres (comics), XKCD (latest) and NATS (events) are external and appear   *)
(* as the service sees them.                                                    *)
(*******************************************************************************)
EXTENDS Integers, Sequences, FiniteSets

CONSTANTS
  Updates,      \* the gRPC calls of Update
  Drops,        \* the gRPC calls of Drop
  Workers,      \* the worker goroutines of an Update, XKCD.Concurrency of them
  MaxComic,     \* bound: XKCD publishes comics 1..MaxComic
  Missing,      \* the comics XKCD answers with status 404
  Placeholder,  \* the comic the client makes up itself (404 in the code)
  Hazards       \* what may happen: "fault", "crash", "canceled", "deadline"

ASSUME CallsAssumption == Updates \cap Drops = {}
ASSUME WorkersAssumption == IsFiniteSet(Workers) /\ Workers # {}
ASSUME ComicAssumption == MaxComic \in Nat

VARIABLES
  status,  \* Service.status, guarded by statusMu
  pc,      \* where each call's handler is
  ctx,     \* the call's context: "live", or the error ctx.Err() returns
  reply,   \* what the handler of an accepted call is about to return
  last,    \* lastID of each Update
  todo,    \* ids of 1..lastID, not known, that the feeding loop has yet to send
  worker,  \* the worker goroutines of each Update
  errCh,   \* the buffered error channel of each Update
  comics,  \* ids (primary keys) stored in the comics table
  latest,  \* number of XKCD's latest comic
  events   \* subjects published to the broker, oldest first

callVars == <<pc, reply, last, todo>>
vars == <<status, callVars, ctx, worker, errCh, comics, latest, events>>

Calls  == Updates \cup Drops
Comics == 1..MaxComic

(* The number of workers, and the capacity of errCh. *)
Concurrency == Cardinality(Workers)

(* Comics that no Update can ever store: Get answers ErrNotFound for them. *)
Absent == Missing \ {Placeholder}

CtxError    == {"canceled", "deadline"}
WorkerError == CtxError \cup {"failed"}
Reply       == WorkerError \cup {"none", "ok"}
HandlerPC   == {"new", "lastID", "ids", "feed", "wait", "abort", "truncate",
                "publish", "release", "done"}
Busy        == {"check", "get", "norm", "add"}    \* a worker that holds an id
Reporting   == {"report", "stop"}                 \* a worker at errCh <- err
WorkerPC    == Busy \cup Reporting \cup {"off", "recv"}

Goroutine(at, id, err) == [at |-> at, id |-> id, err |-> err]
Off  == Goroutine("off", 0, "none")
Recv == Goroutine("recv", 0, "none")

(* The handler holds the status: setStatusRunning returned true and the        *)
(* deferred setStatusIdle has not run.                                         *)
InSection(c) == pc[c] \notin {"new", "done"}

(* Workers of a call that have been started and have not returned. *)
Alive(c) == {w \in Workers : worker[c][w].at # "off"}

(* Every comic up to n is stored, unless XKCD has none under that number. *)
CompleteUpTo(n) == 1..n \subseteq comics \cup Absent

(* A call to another service may fail: the service is faulty or the caller's   *)
(* context is over.                                                            *)
CanFail(c) == "fault" \in Hazards \/ ctx[c] # "live"

Init ==
  /\ status = "idle"
  /\ pc = [c \in Calls |-> "new"]
  /\ ctx = [c \in Calls |-> "live"]
  /\ reply = [c \in Calls |-> "none"]
  /\ last = [c \in Updates |-> 0]
  /\ todo = [c \in Updates |-> {}]
  /\ worker = [c \in Updates |-> [w \in Workers |-> Off]]
  /\ errCh = [c \in Updates |-> <<>>]
  /\ comics = {}
  /\ latest \in 0..MaxComic
  /\ events = <<>>

--------------------------------------------------------------------------------
(* The handler of a call. *)

Goto(c, to) == pc' = [pc EXCEPT ![c] = to] /\ UNCHANGED reply

(* return r: the deferred setStatusIdle is still to run. *)
Return(c, r) == pc' = [pc EXCEPT ![c] = "release"] /\ reply' = [reply EXCEPT ![c] = r]

(* Mutant: defer setStatusIdle stands before the check. *)
StartDeferFirst(c) ==
  /\ pc[c] = "new"
  /\ IF status = "idle"
       THEN status' = "running" /\ Goto(c, IF c \in Updates THEN "lastID" ELSE "truncate")
       ELSE UNCHANGED status /\ Return(c, "failed")
  /\ UNCHANGED <<ctx, last, todo, worker, errCh, comics, latest, events>>

(* The arrival of a call and setStatusRunning, which is atomic under statusMu. *)
Start(c) ==
  /\ pc[c] = "new"
  /\ \/ /\ status = "idle"
        /\ status' = "running"
        /\ Goto(c, IF c \in Updates THEN "lastID" ELSE "truncate")
     \/ /\ status = "running"
        /\ Goto(c, "done")    \* return ErrAlreadyExists
        /\ UNCHANGED status
  /\ UNCHANGED <<ctx, last, todo, worker, errCh, comics, latest, events>>

(* Forgets the locals of the calls in S.  Their workers are no locals. *)
Forget(S) ==
  /\ pc' = [c \in Calls |-> IF c \in S THEN "done" ELSE pc[c]]
  /\ ctx' = [c \in Calls |-> IF c \in S THEN "live" ELSE ctx[c]]
  /\ reply' = [c \in Calls |-> IF c \in S THEN "none" ELSE reply[c]]
  /\ last' = [c \in Updates |-> IF c \in S THEN 0 ELSE last[c]]
  /\ todo' = [c \in Updates |-> IF c \in S THEN {} ELSE todo[c]]
  /\ errCh' = [c \in Updates |-> IF c \in S THEN <<>> ELSE errCh[c]]

(* The deferred setStatusIdle; the handler is over. *)
Release(c) ==
  /\ pc[c] = "release"
  /\ status' = "idle"
  /\ Forget({c})
  /\ UNCHANGED <<worker, comics, latest, events>>

(* lastID, err := s.xkcd.LastID(ctx) *)
LastID(c) ==
  /\ pc[c] = "lastID"
  /\ \/ Goto(c, "ids") /\ last' = [last EXCEPT ![c] = latest]
     \/ CanFail(c) /\ Return(c, "failed") /\ UNCHANGED last
  /\ UNCHANGED <<status, ctx, todo, worker, errCh, comics, latest, events>>

(* The successful half of IDs, for mutants: the loop will send ids. *)
Feed(c, ids) ==
  /\ pc[c] = "ids"
  /\ Goto(c, "feed")
  /\ todo' = [todo EXCEPT ![c] = ids]
  /\ worker' = [worker EXCEPT ![c] = [w \in Workers |-> Recv]]
  /\ UNCHANGED <<status, ctx, last, errCh, comics, latest, events>>

(* Mutant: the loop runs one id too far. *)
IDsPastLast(c) == Feed(c, (1..(last[c] + 1)) \ comics)

(* Mutant: the ids already stored are not skipped. *)
IDsAgain(c) == Feed(c, 1..last[c])

(* existingIDs, err := s.db.IDs(ctx), the known map, both channels and the     *)
(* workers.                                                                    *)
IDs(c) ==
  /\ pc[c] = "ids"
  /\ \/ /\ Goto(c, "feed")
        /\ todo' = [todo EXCEPT ![c] = (1..last[c]) \ comics]
        /\ worker' = [worker EXCEPT ![c] = [w \in Workers |-> Recv]]
     \/ /\ CanFail(c)
        /\ \E e \in {"failed", ctx[c]} \ {"live"} : Return(c, e)
        /\ UNCHANGED <<todo, worker>>
  /\ UNCHANGED <<status, ctx, last, errCh, comics, latest, events>>

(* case idsCh <- id: the loop hands the next unknown id to a waiting worker. *)
Handoff(c, w) ==
  /\ pc[c] = "feed"
  /\ worker[c][w].at = "recv"
  /\ \E id \in todo[c] :
       /\ \A j \in todo[c] : id <= j
       /\ todo' = [todo EXCEPT ![c] = @ \ {id}]
       /\ worker' = [worker EXCEPT ![c][w] = Goroutine("check", id, "none")]
  /\ UNCHANGED <<status, pc, reply, last, ctx, errCh, comics, latest, events>>

(* The loop is over: close(idsCh), then wg.Wait(). *)
FeedDone(c) ==
  /\ pc[c] = "feed"
  /\ todo[c] = {}
  /\ Goto(c, "wait")
  /\ UNCHANGED <<status, ctx, last, todo, worker, errCh, comics, latest, events>>

(* case <-ctx.Done() of the loop: close(idsCh), then wg.Wait(). *)
FeedAbort(c) ==
  /\ pc[c] = "feed"
  /\ todo[c] # {}
  /\ ctx[c] # "live"
  /\ Goto(c, "abort")
  /\ UNCHANGED <<status, ctx, last, todo, worker, errCh, comics, latest, events>>

(* Mutant: the path that gives up does not wait for the workers. *)
JoinAbortedAtOnce(c) ==
  /\ pc[c] = "abort"
  /\ Return(c, ctx[c])
  /\ UNCHANGED <<status, ctx, last, todo, worker, errCh, comics, latest, events>>

(* wg.Wait() returns on the path that gave up: return ctx.Err(). *)
JoinAborted(c) ==
  /\ pc[c] = "abort"
  /\ Alive(c) = {}
  /\ Return(c, ctx[c])
  /\ UNCHANGED <<status, ctx, last, todo, worker, errCh, comics, latest, events>>

(* Mutant: the errors the workers left in errCh are not looked at. *)
JoinIgnoringErrors(c) ==
  /\ pc[c] = "wait"
  /\ Alive(c) = {}
  /\ Goto(c, "publish")
  /\ UNCHANGED <<status, ctx, last, todo, worker, errCh, comics, latest, events>>

(* wg.Wait() returns on the normal path, then the loop over errCh: the first   *)
(* error other than context.Canceled is returned; without one Update goes on.  *)
Join(c) ==
  /\ pc[c] = "wait"
  /\ Alive(c) = {}
  /\ \/ \E i \in 1..Len(errCh[c]) :
          /\ errCh[c][i] # "canceled"
          /\ \A j \in 1..(i - 1) : errCh[c][j] = "canceled"
          /\ Return(c, errCh[c][i])
     \/ /\ \A i \in 1..Len(errCh[c]) : errCh[c][i] = "canceled"
        /\ Goto(c, "publish")
  /\ UNCHANGED <<status, ctx, last, todo, worker, errCh, comics, latest, events>>

(* Mutant: the error of db.Drop is not looked at. *)
TruncateUnchecked(c) ==
  /\ pc[c] = "truncate"
  /\ Goto(c, "publish")
  /\ comics' \in IF CanFail(c) THEN {comics, {}} ELSE {{}}
  /\ UNCHANGED <<status, ctx, last, todo, worker, errCh, latest, events>>

(* s.db.Drop(ctx): TRUNCATE, which may have happened when it reports an error. *)
Truncate(c) ==
  /\ pc[c] = "truncate"
  /\ \/ Goto(c, "publish") /\ comics' = {}
     \/ /\ CanFail(c)
        /\ comics' \in {comics, {}}
        /\ \E e \in {"failed", ctx[c]} \ {"live"} : Return(c, e)
  /\ UNCHANGED <<status, ctx, last, todo, worker, errCh, latest, events>>

Subject(c) == IF c \in Updates THEN "xkcd.db.updated" ELSE "xkcd.db.dropped"

(* Mutant: a publication whose answer is lost is tried again. *)
PublishRetrying(c) ==
  /\ pc[c] = "publish"
  /\ \/ ctx[c] # "live" /\ Return(c, ctx[c]) /\ UNCHANGED events
     \/ /\ ctx[c] = "live"
        /\ events' = Append(events, Subject(c))
        /\ Return(c, "ok") \/ ("fault" \in Hazards /\ Goto(c, "publish"))
  /\ UNCHANGED <<status, ctx, last, todo, worker, errCh, comics, latest>>

(* s.publisher.Publish: the context is looked at first, then NATS is asked. *)
Publish(c) ==
  /\ pc[c] = "publish"
  /\ \/ ctx[c] # "live" /\ Return(c, ctx[c]) /\ UNCHANGED events
     \/ ctx[c] = "live" /\ "fault" \in Hazards /\ Return(c, "failed") /\ UNCHANGED events
     \/ ctx[c] = "live" /\ Return(c, "ok") /\ events' = Append(events, Subject(c))
  /\ UNCHANGED <<status, ctx, last, todo, worker, errCh, comics, latest>>

--------------------------------------------------------------------------------
(* A worker goroutine. *)

Become(c, w, g) == worker' = [worker EXCEPT ![c][w] = g]

(* errCh <- err comes next, then continue. *)
Report(c, w, e) == Become(c, w, Goroutine("report", 0, e))

(* Mutant: idsCh is not closed on the path that gives up. *)
DrainedOnWait(c, w) ==
  /\ worker[c][w].at = "recv"
  /\ pc[c] \notin {"feed", "abort"}
  /\ Become(c, w, Off)
  /\ UNCHANGED <<status, callVars, ctx, errCh, comics, latest, events>>

(* for id := range idsCh ends: the channel is closed. *)
Drained(c, w) ==
  /\ worker[c][w].at = "recv"
  /\ pc[c] # "feed"
  /\ Become(c, w, Off)
  /\ UNCHANGED <<status, callVars, ctx, errCh, comics, latest, events>>

(* select { case <-ctx.Done(): errCh <- ctx.Err(); return; default: } *)
Check(c, w) ==
  /\ worker[c][w].at = "check"
  /\ Become(c, w, IF ctx[c] = "live"
                    THEN Goroutine("get", worker[c][w].id, "none")
                    ELSE Goroutine("stop", 0, ctx[c]))
  /\ UNCHANGED <<status, callVars, ctx, errCh, comics, latest, events>>

(* Mutant: every error of Get counts as ErrNotFound. *)
GetForgiving(c, w) ==
  /\ worker[c][w].at = "get"
  /\ LET id == worker[c][w].id
     IN \/ id \notin Absent /\ Become(c, w, Goroutine("norm", id, "none"))
        \/ (id \in Absent \/ CanFail(c)) /\ Become(c, w, Recv)
  /\ UNCHANGED <<status, callVars, ctx, errCh, comics, latest, events>>

(* Mutant: ErrNotFound is an error like the others. *)
GetStrict(c, w) ==
  /\ worker[c][w].at = "get"
  /\ LET id == worker[c][w].id
     IN \/ id \notin Absent /\ Become(c, w, Goroutine("norm", id, "none"))
        \/ (id \in Absent \/ CanFail(c)) /\ Report(c, w, "failed")
  /\ UNCHANGED <<status, callVars, ctx, errCh, comics, latest, events>>

(* s.xkcd.Get(ctx, id).  The placeholder is made up without asking XKCD; the   *)
(* error of a failed request is wrapped, so it never equals context.Canceled.  *)
Get(c, w) ==
  /\ worker[c][w].at = "get"
  /\ LET id == worker[c][w].id
     IN \/ id \notin Absent /\ Become(c, w, Goroutine("norm", id, "none"))
        \/ id \in Absent /\ Become(c, w, Recv)
        \/ id # Placeholder /\ CanFail(c) /\ Report(c, w, "failed")
  /\ UNCHANGED <<status, callVars, ctx, errCh, comics, latest, events>>

(* s.words.Norm(ctx, info.Description) *)
Norm(c, w) ==
  /\ worker[c][w].at = "norm"
  /\ \/ Become(c, w, Goroutine("add", worker[c][w].id, "none"))
     \/ CanFail(c) /\ Report(c, w, "failed")
  /\ UNCHANGED <<status, callVars, ctx, errCh, comics, latest, events>>

(* s.db.Add(ctx, comics): an INSERT that breaks the primary key is refused; one *)
(* that reports another error may have been applied all the same.              *)
Add(c, w) ==
  /\ worker[c][w].at = "add"
  /\ LET id == worker[c][w].id
     IN \/ id \notin comics /\ Become(c, w, Recv) /\ comics' = comics \cup {id}
        \/ id \in comics /\ Report(c, w, "failed") /\ UNCHANGED comics
        \/ /\ CanFail(c)
           /\ \E e \in {"failed", ctx[c]} \ {"live"} : Report(c, w, e)
           /\ comics' \in {comics, comics \cup {id}}
  /\ UNCHANGED <<status, callVars, ctx, errCh, latest, events>>

(* Mutant: an error that finds the buffer full is thrown away. *)
SendErrorOrDrop(c, w) ==
  /\ worker[c][w].at \in Reporting
  /\ errCh' = IF Len(errCh[c]) < Concurrency
                THEN [errCh EXCEPT ![c] = Append(@, worker[c][w].err)] ELSE errCh
  /\ Become(c, w, IF worker[c][w].at = "stop" THEN Off ELSE Recv)
  /\ UNCHANGED <<status, callVars, ctx, comics, latest, events>>

(* errCh <- err, which blocks while the channel's buffer is full. *)
SendError(c, w) ==
  /\ worker[c][w].at \in Reporting
  /\ Len(errCh[c]) < Concurrency
  /\ errCh' = [errCh EXCEPT ![c] = Append(@, worker[c][w].err)]
  /\ Become(c, w, IF worker[c][w].at = "stop" THEN Off ELSE Recv)
  /\ UNCHANGED <<status, callVars, ctx, comics, latest, events>>

--------------------------------------------------------------------------------
(* The environment. *)

(* The caller of a running call goes away or its deadline passes. *)
Cancel(c) ==
  /\ InSection(c)
  /\ ctx[c] = "live"
  /\ \E e \in CtxError \cap Hazards : ctx' = [ctx EXCEPT ![c] = e]
  /\ UNCHANGED <<status, callVars, worker, errCh, comics, latest, events>>

(* XKCD publishes its next comic. *)
NewComic ==
  /\ latest < MaxComic
  /\ latest' = latest + 1
  /\ UNCHANGED <<status, callVars, ctx, worker, errCh, comics, events>>

(* The process dies and the container is restarted: NewService starts idle,    *)
(* the table is kept, the calls in progress are lost.                          *)
Crash ==
  /\ "crash" \in Hazards
  /\ \E c \in Calls : InSection(c)
  /\ status' = "idle"
  /\ Forget({c \in Calls : InSection(c)})
  /\ worker' = [c \in Updates |-> [w \in Workers |-> Off]]
  /\ UNCHANGED <<comics, latest, events>>

(* Every call has been answered: the model may rest. *)
Finished == (\A c \in Calls : pc[c] = "done") /\ UNCHANGED vars

--------------------------------------------------------------------------------
UpdateStep(c) ==
  \/ LastID(c) \/ IDs(c) \/ FeedDone(c) \/ FeedAbort(c) \/ JoinAborted(c) \/ Join(c)
  \/ \E w \in Workers : Handoff(c, w)

HandlerStep(c) ==
  \/ Release(c) \/ Publish(c)
  \/ c \in Updates /\ UpdateStep(c)
  \/ c \in Drops /\ Truncate(c)

WorkerStep(c, w) ==
  Drained(c, w) \/ Check(c, w) \/ Get(c, w) \/ Norm(c, w) \/ Add(c, w) \/ SendError(c, w)

Next ==
  \/ \E c \in Calls : Start(c) \/ HandlerStep(c) \/ Cancel(c)
  \/ \E c \in Updates, w \in Workers : WorkerStep(c, w)
  \/ NewComic \/ Crash \/ Finished

Spec == Init /\ [][Next]_vars

(* The Go scheduler runs every goroutine that can run, and the services called *)
(* answer: the XKCD client has a timeout, words and Postgres are assumed to.   *)
(* Nothing obliges clients to call or to cancel, XKCD to publish, or a crash.  *)
Fairness ==
  /\ \A c \in Calls : WF_vars(HandlerStep(c))
  /\ \A c \in Updates, w \in Workers : WF_vars(WorkerStep(c, w))

FairSpec == Spec /\ Fairness

--------------------------------------------------------------------------------
(* Properties. *)

TypeOK ==
  /\ status \in {"idle", "running"}
  /\ pc \in [Calls -> HandlerPC]
  /\ ctx \in [Calls -> CtxError \cup {"live"}]
  /\ reply \in [Calls -> Reply]
  /\ last \in [Updates -> 0..MaxComic]
  /\ todo \in [Updates -> SUBSET Comics]
  /\ worker \in [Updates -> [Workers ->
                   [at : WorkerPC, id : 0..MaxComic, err : WorkerError \cup {"none"}]]]
  /\ errCh \in [Updates -> Seq(WorkerError)]
  /\ \A c \in Updates : Len(errCh[c]) <= Concurrency
  /\ comics \subseteq Comics
  /\ latest \in 0..MaxComic
  /\ events \in Seq({"xkcd.db.updated", "xkcd.db.dropped"})

(* setStatusRunning and the deferred setStatusIdle make Update and Drop        *)
(* exclusive, across every early return: the status is "running" exactly while *)
(* one accepted call is unfinished, and a refused call never releases it.      *)
Exclusion ==
  /\ \A c, d \in Calls : InSection(c) /\ InSection(d) => c = d
  /\ status = "running" <=> \E c \in Calls : InSection(c)

(* When Status says "idle" no goroutine of an earlier Update is left that      *)
(* could still write: every path out of Update, the cancelled one too, waits   *)
(* for its workers before setStatusIdle.                                       *)
IdleMeansQuiet == status = "idle" => \A c \in Updates : Alive(c) = {}

(* No INSERT ever meets a row that is already there: the ids read once at the  *)
(* start stay accurate, no id is handed to two workers, and nothing another    *)
(* call or an earlier, half-failed one stored is fetched again.                *)
FreshInserts ==
  \A c \in Updates, w \in Workers :
    worker[c][w].at = "add" => worker[c][w].id \notin comics

(* An Update that is about to return nil has stored every comic up to the      *)
(* lastID it read, except those XKCD has none for: no error of any worker is   *)
(* lost between the worker, errCh and the loop that skips context.Canceled.    *)
SuccessIsComplete ==
  \A c \in Updates : pc[c] = "release" /\ reply[c] = "ok" => CompleteUpTo(last[c])

(* An event is true at the moment it is published: "updated" by an Update that *)
(* holds a complete table, "dropped" by a Drop that holds an empty one.        *)
TellsTheTruth ==
  events' # events =>
    \E c \in Calls :
      /\ pc[c] = "publish"
      /\ events' = Append(events, Subject(c))
      /\ IF c \in Updates THEN CompleteUpTo(last[c]) ELSE comics = {}

EventsTruthful == [][TellsTheTruth]_vars

(* Rows appear only while an Update runs and vanish only under a Drop; in      *)
(* particular no row written by a cancelled or failed Update appears after the *)
(* call has ended, and no table is emptied under an Update.                    *)
WritesOnlyIfHeld ==
  /\ comics' \ comics # {} => \E c \in Updates : InSection(c) /\ Alive(c) # {}
  /\ comics \ comics' # {} => \A c \in Updates : ~InSection(c)

WritesAreOwned == [][WritesOnlyIfHeld]_vars

(* The bookkeeping of one Update, spread over the loop, the channel idsCh, the *)
(* workers, errCh and the table.  First, no id is in two of these places.      *)
NoIdTwice(c) ==
  /\ todo[c] \cap comics = {}
  /\ \A w \in Workers :
       worker[c][w].at \in Busy =>
         /\ worker[c][w].id \in (1..last[c]) \ (todo[c] \cup comics)
         /\ \A v \in Workers \ {w} :
              worker[c][v].at \in Busy => worker[c][v].id # worker[c][w].id

Accounted(c, id) ==
  \/ id \in todo[c] \cup comics \cup Absent
  \/ \E w \in Workers : worker[c][w].at \in Busy /\ worker[c][w].id = id

ErrorKnown(c) ==
  errCh[c] # <<>> \/ \E w \in Workers : worker[c][w].at \in Reporting

(* Second, no id is in none of them, unless a worker has an error to show.     *)
NoIdForgotten(c) ==
  pc[c] \in {"feed", "wait"} =>
    ErrorKnown(c) \/ \A id \in 1..last[c] : Accounted(c, id)

(* Third, the error that the last loop skips is known only after the context   *)
(* was cancelled, so that Publish will notice.                                 *)
CanceledIsTrue(c) ==
  ctx[c] = "live" =>
    /\ \A i \in 1..Len(errCh[c]) : errCh[c][i] # "canceled"
    /\ \A w \in Workers :
         worker[c][w].at \in Reporting => worker[c][w].err # "canceled"

(* The ids an accepted Update has to deal with are each in exactly one place,  *)
(* or an error is on its way to the caller.                                    *)
Bookkeeping ==
  \A c \in Updates : NoIdTwice(c) /\ NoIdForgotten(c) /\ CanceledIsTrue(c)

(* The ids nobody deals with any more. *)
Lost(c) == {id \in 1..last[c] : ~Accounted(c, id)}

(* Workers with an id in hand, or with the error it became. *)
Laden(c) == {w \in Workers : worker[c][w].at \in Busy \cup Reporting}

(* One failure costs the one comic it was about, and one comic costs one error *)
(* at most.  While an Update runs there are never more ids without a place     *)
(* than errors on their way to the caller, so that a comic which fails for     *)
(* ever keeps no other from being stored; and the errors that were sent, the   *)
(* ids and errors in workers' hands and the ids yet to be sent never add up to *)
(* more than the comics there are, so that errCh does not fill any faster.     *)
OneComicPerError ==
  \A c \in Updates :
    pc[c] \in {"feed", "wait", "abort"} =>
      /\ Cardinality(Lost(c)) <=
           Len(errCh[c]) + Cardinality({w \in Workers : worker[c][w].at \in Reporting})
      /\ Len(errCh[c]) + Cardinality(Laden(c)) + Cardinality(todo[c]) <= last[c]

(* Where nothing fails and nobody goes away, an accepted Update returns nil,   *)
(* however many comics are missing and however few workers there are.          *)
UpdateSucceeds ==
  \A c \in Updates : InSection(c) ~> pc[c] = "release" /\ reply[c] = "ok"

(* Every accepted call ends and gives the status back, its own error or not:   *)
(* "expected idle status after update" (update/core/service_test.go:127).      *)
IdleAfterUpdate == status = "running" ~> status = "idle"

--------------------------------------------------------------------------------
(* Refinement: the service implements Catalogue. *)

Holder == {c \in Calls : InSection(c)}

GoalOf(c) ==
  IF c \in Updates /\ pc[c] \in {"ids", "feed", "wait", "abort", "publish"} THEN last[c]
  ELSE IF c \in Drops /\ pc[c] = "publish" THEN 0
  ELSE IF pc[c] = "release" THEN -2
  ELSE -1

Goal == [c \in Calls |-> GoalOf(c)]

Abstract == INSTANCE Catalogue WITH holder <- Holder, goal <- Goal

(* Whatever faults, cancellations and crashes do to its calls, the service     *)
(* behaves as Catalogue says.                                                  *)
ImplementsCatalogue == Abstract!CatalogueSpec
================================================================================
