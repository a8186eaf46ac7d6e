---------------------------- MODULE UpdateServiceProofs ----------------------------
(* Theorems about UpdateService, for every set of calls and of workers, every  *)
(* number of comics and every combination of hazards.                          *)
EXTENDS UpdateService, FiniteSetTheorems, TLAPS

(* What a worker can be: it has an id while it works on one, and an error while *)
(* it is at errCh <- err.                                                       *)
Goroutines ==
  {g \in [at : WorkerPC, id : 0..MaxComic, err : WorkerError \cup {"none"}] :
     /\ g.at \in Busy => g.id \in Comics
     /\ g.at \in Reporting => g.err \in WorkerError}

(* TypeOK, the shape of the workers, and that the path that gives up was taken *)
(* because the context is over.                                                *)
TypeInv ==
  /\ TypeOK
  /\ worker \in [Updates -> [Workers -> Goroutines]]
  /\ \A c \in Updates : pc[c] = "abort" => ctx[c] # "live"

(* Goroutines run only between the start of the workers and wg.Wait(). *)
WorkersJoined ==
  \A c \in Updates, w \in Workers :
    worker[c][w].at # "off" => pc[c] \in {"feed", "wait", "abort"}

SectionInv == Exclusion /\ WorkersJoined

(* What the loop has yet to send is between 1 and lastID, and is nothing before *)
(* the loop; what a worker normalizes or adds exists; an idle call is clean.    *)
LoopInv(c) ==
  /\ todo[c] \subseteq 1..last[c]
  /\ todo[c] # {} => pc[c] \in {"feed", "abort", "release"}
  /\ last[c] <= latest
  /\ pc[c] \in {"new", "lastID", "ids", "done"} => errCh[c] = <<>>
  /\ \A w \in Workers : worker[c][w].at \in {"norm", "add"} => worker[c][w].id \notin Absent

(* An Update that comes to Publish with a live context has done what the event *)
(* says; one that will return nil has done it too.                             *)
UpdateTold(c) ==
  /\ pc[c] = "publish" /\ ctx[c] = "live" => CompleteUpTo(last[c])
  /\ pc[c] = "release" /\ reply[c] = "ok" => CompleteUpTo(last[c])

(* NoIdTwice in two halves.  No id is twice among the loop and the workers ... *)
DistinctIds(c) ==
  \A w \in Workers :
    worker[c][w].at \in Busy =>
      /\ worker[c][w].id \in (1..last[c]) \ todo[c]
      /\ \A v \in Workers \ {w} :
           worker[c][v].at \in Busy => worker[c][v].id # worker[c][w].id

(* ... and none of these is in the table.                                      *)
FreshIds(c) ==
  /\ todo[c] \cap comics = {}
  /\ \A w \in Workers : worker[c][w].at \in Busy => worker[c][w].id \notin comics

(* The ledger of an Update has three parts.  The first is about its own         *)
(* variables only; the second stays true as long as nobody else inserts, the    *)
(* third as long as nobody else empties the table.                              *)
OwnBooks(c) == LoopInv(c) /\ DistinctIds(c) /\ CanceledIsTrue(c)
NothingLost(c) == NoIdForgotten(c) /\ UpdateTold(c)

DropTold(d) == pc[d] = "publish" => comics = {}

LedgerInv ==
  /\ \A c \in Updates : OwnBooks(c) /\ FreshIds(c) /\ NothingLost(c)
  /\ \A d \in Drops : DropTold(d)

(* What a step leaves of each part is stated separately, so that the lemmas     *)
(* serve a specification in which others do insert and truncate.                *)
BooksKept(c) ==
  /\ OwnBooks(c)'
  /\ FreshIds(c) => FreshIds(c)'
  /\ NothingLost(c) => NothingLost(c)'

LedgerKept ==
  /\ \A c \in Updates : BooksKept(c)
  /\ \A d \in Drops : DropTold(d) => DropTold(d)'

OwnBooksInv == \A c \in Updates : OwnBooks(c)

--------------------------------------------------------------------------------
LEMMA ConcurrencyType == Concurrency \in Nat /\ Concurrency > 0
  <1>1. Concurrency \in Nat
    BY WorkersAssumption, FS_CardinalityType DEF Concurrency
  <1>2. Concurrency # 0
    BY WorkersAssumption, FS_EmptySet DEF Concurrency
  <1> QED BY <1>1, <1>2

LEMMA GoroutineTypes ==
  /\ Recv \in Goroutines
  /\ Off \in Goroutines
  /\ \A at \in Busy, id \in Comics : Goroutine(at, id, "none") \in Goroutines
  /\ \A at \in Reporting, e \in WorkerError : Goroutine(at, 0, e) \in Goroutines
  BY ComicAssumption
     DEF Recv, Off, Goroutine, Goroutines, WorkerPC, Busy, Reporting, Comics

(* goto or return: the handler's own variables keep their types. *)
LEMMA MoveType ==
  ASSUME TypeInv, NEW c \in Calls,
         \/ \E r \in Reply : Return(c, r)
         \/ \E to \in HandlerPC \ {"abort"} : Goto(c, to)
  PROVE  /\ pc' \in [Calls -> HandlerPC]
         /\ reply' \in [Calls -> Reply]
         /\ \A d \in Calls : pc'[d] = "abort" => pc[d] = "abort"
  <1>1. CASE \E r \in Reply : Return(c, r)
    BY <1>1 DEF TypeInv, TypeOK, Return, HandlerPC
  <1>2. CASE \E to \in HandlerPC \ {"abort"} : Goto(c, to)
    BY <1>2 DEF TypeInv, TypeOK, Goto
  <1> QED BY <1>1, <1>2

(* A step of one worker keeps the types of all of them. *)
LEMMA BecomeType ==
  ASSUME TypeInv, NEW c \in Updates, NEW w \in Workers, NEW g \in Goroutines,
         Become(c, w, g)
  PROVE  worker' \in [Updates -> [Workers -> Goroutines]]
  BY DEF TypeInv, Become

LEMMA WorkerType ==
  worker \in [Updates -> [Workers -> Goroutines]]
    => worker \in [Updates -> [Workers ->
                     [at : WorkerPC, id : 0..MaxComic, err : WorkerError \cup {"none"}]]]
  BY DEF Goroutines

LEMMA TypeInit == Init => TypeInv
  <1> SUFFICES ASSUME Init PROVE TypeInv
    OBVIOUS
  <1>1. worker \in [Updates -> [Workers -> Goroutines]]
    BY GoroutineTypes DEF Init
  <1>2. TypeOK
    BY <1>1, WorkerType, ConcurrencyType, ComicAssumption
       DEF Init, TypeOK, HandlerPC, Reply, Comics
  <1> QED BY <1>1, <1>2 DEF TypeInv, Init, Calls

LEMMA TypeStep == TypeInv /\ [Next]_vars => TypeInv'
  <1> SUFFICES ASSUME TypeInv, [Next]_vars PROVE TypeInv'
    OBVIOUS
  <1> USE ConcurrencyType, ComicAssumption DEF TypeInv
  <1>0. Updates \subseteq Calls /\ Drops \subseteq Calls
    BY DEF Calls
  <1>1. ASSUME NEW c \in Calls, Start(c) PROVE TypeInv'
    BY <1>0, <1>1 DEF TypeOK, Start, Goto, HandlerPC
  <1>2. ASSUME NEW c \in Calls, Release(c) PROVE TypeInv'
    BY <1>0, <1>2 DEF TypeOK, Release, Forget, HandlerPC, Reply, Comics
  <1>3. ASSUME NEW c \in Calls, Publish(c) PROVE TypeInv'
    <2>1. \E r \in Reply : Return(c, r)
      BY <1>3 DEF Publish, TypeOK, Reply, WorkerError
    <2>2. events' \in Seq({"xkcd.db.updated", "xkcd.db.dropped"})
      <3>1. Subject(c) \in {"xkcd.db.updated", "xkcd.db.dropped"}
        BY DEF Subject
      <3>2. events' = events \/ events' = Append(events, Subject(c))
        BY <1>3 DEF Publish
      <3>3. events \in Seq({"xkcd.db.updated", "xkcd.db.dropped"})
        BY DEF TypeOK
      <3> HIDE DEF TypeInv
      <3> QED BY <3>1, <3>2, <3>3
    <2>3. UNCHANGED <<status, ctx, last, todo, worker, errCh, comics, latest>>
      BY <1>3 DEF Publish
    <2> QED BY <1>0, <2>1, <2>2, <2>3, MoveType DEF TypeOK
  <1>4. ASSUME NEW c \in Updates, LastID(c) PROVE TypeInv'
    <2>1. \/ \E r \in Reply : Return(c, r)
          \/ \E to \in HandlerPC \ {"abort"} : Goto(c, to)
      BY <1>4 DEF LastID, HandlerPC, Reply, WorkerError
    <2> QED BY <1>0, <1>4, <2>1, MoveType DEF TypeOK, LastID
  <1>5. ASSUME NEW c \in Updates, IDs(c) PROVE TypeInv'
    <2>1. \/ \E r \in Reply : Return(c, r)
          \/ \E to \in HandlerPC \ {"abort"} : Goto(c, to)
      BY <1>0, <1>5 DEF IDs, TypeOK, HandlerPC, Reply, WorkerError
    <2>2. worker' \in [Updates -> [Workers -> Goroutines]]
      <3>1. worker' = worker \/ worker' = [worker EXCEPT ![c] = [w \in Workers |-> Recv]]
        BY <1>5 DEF IDs
      <3> QED BY <3>1, GoroutineTypes
    <2>3. todo' \in [Updates -> SUBSET Comics]
      <3>1. last[c] \in 0..MaxComic /\ todo \in [Updates -> SUBSET Comics]
        BY DEF TypeOK
      <3>2. (1..last[c]) \ comics \subseteq Comics
        BY <3>1 DEF Comics
      <3>3. todo' = todo \/ todo' = [todo EXCEPT ![c] = (1..last[c]) \ comics]
        BY <1>5 DEF IDs
      <3> QED BY <3>1, <3>2, <3>3
    <2>4. UNCHANGED <<status, ctx, last, errCh, comics, latest, events>>
      BY <1>5 DEF IDs
    <2> QED BY <1>0, <2>1, <2>2, <2>3, <2>4, MoveType, WorkerType DEF TypeOK, Goroutines
  <1>6. ASSUME NEW c \in Updates, NEW w \in Workers, Handoff(c, w) PROVE TypeInv'
    <2>1. \E g \in Goroutines : Become(c, w, g)
      BY <1>6, GoroutineTypes DEF Handoff, TypeOK, Busy, Become
    <2>2. worker' \in [Updates -> [Workers -> Goroutines]]
      BY <2>1, BecomeType
    <2> QED BY <1>6, <2>2 DEF Handoff, TypeOK, Goroutines
  <1>7. ASSUME NEW c \in Updates, FeedDone(c) \/ FeedAbort(c) PROVE TypeInv'
    BY <1>0, <1>7 DEF TypeOK, FeedDone, FeedAbort, Goto, HandlerPC
  <1>8. ASSUME NEW c \in Updates, JoinAborted(c) \/ Join(c) PROVE TypeInv'
    <2>1. CASE JoinAborted(c)
      <3>1. \E r \in Reply : Return(c, r)
        BY <1>0, <2>1 DEF JoinAborted, TypeOK, Reply, WorkerError
      <3> QED BY <1>0, <2>1, <3>1, MoveType DEF TypeOK, JoinAborted
    <2>2. CASE Join(c)
      <3>1. \A i \in 1..Len(errCh[c]) : errCh[c][i] \in Reply
        BY DEF TypeOK, Reply
      <3>2. \/ \E r \in Reply : Return(c, r)
            \/ \E to \in HandlerPC \ {"abort"} : Goto(c, to)
        BY <2>2, <3>1 DEF Join, HandlerPC
      <3> QED BY <1>0, <2>2, <3>2, MoveType DEF TypeOK, Join
    <2> QED BY <1>8, <2>1, <2>2
  <1>9. ASSUME NEW c \in Drops, Truncate(c) PROVE TypeInv'
    <2>1. \/ \E r \in Reply : Return(c, r)
          \/ \E to \in HandlerPC \ {"abort"} : Goto(c, to)
      BY <1>0, <1>9 DEF Truncate, TypeOK, HandlerPC, Reply, WorkerError
    <2> QED BY <1>0, <1>9, <2>1, MoveType DEF TypeOK, Truncate
  <1>10. ASSUME NEW c \in Calls, Cancel(c) PROVE TypeInv'
    BY <1>0, <1>10 DEF TypeOK, Cancel, CtxError, callVars
  <1>11. ASSUME NEW c \in Updates, NEW w \in Workers, WorkerStep(c, w) PROVE TypeInv'
    <2>1. \E g \in Goroutines : Become(c, w, g)
      <3>0. /\ worker[c][w] \in Goroutines
            /\ ctx[c] # "live" => ctx[c] \in WorkerError
        BY <1>0 DEF TypeOK, WorkerError
      <3>1. CASE Drained(c, w)
        BY <3>1, GoroutineTypes DEF Drained
      <3>2. CASE Check(c, w)
        BY <3>0, <3>2, GoroutineTypes DEF Check, Goroutines, Busy, Reporting
      <3>3. CASE Get(c, w) \/ Norm(c, w)
        BY <3>0, <3>3, GoroutineTypes DEF Get, Norm, Report, Goroutines, Busy, Reporting, WorkerError
      <3>4. CASE Add(c, w)
        BY <3>0, <3>4, GoroutineTypes DEF Add, Report, Reporting, WorkerError
      <3>5. CASE SendError(c, w)
        BY <3>5, GoroutineTypes DEF SendError
      <3> QED BY <1>11, <3>1, <3>2, <3>3, <3>4, <3>5 DEF WorkerStep
    <2>2. worker' \in [Updates -> [Workers -> Goroutines]]
      BY <2>1, BecomeType
    <2>3. comics' \subseteq Comics
      BY <1>11 DEF WorkerStep, Drained, Check, Get, Norm, Add, SendError, TypeOK, Goroutines, Busy
    <2>4. /\ errCh' \in [Updates -> Seq(WorkerError)]
          /\ \A d \in Updates : Len(errCh'[d]) <= Concurrency
      <3>1. CASE SendError(c, w)
        <4>1. worker[c][w].err \in WorkerError
          BY <3>1 DEF SendError, Goroutines
        <4>2. \A d \in Updates : errCh[d] \in Seq(WorkerError) /\ Len(errCh[d]) <= Concurrency
          BY DEF TypeOK
        <4>3. /\ Append(errCh[c], worker[c][w].err) \in Seq(WorkerError)
              /\ Len(Append(errCh[c], worker[c][w].err)) <= Concurrency
          BY <3>1, <4>1, <4>2 DEF SendError
        <4> QED BY <3>1, <4>2, <4>3 DEF SendError, TypeOK
      <3>2. CASE UNCHANGED errCh
        BY <3>2 DEF TypeOK
      <3> QED BY <1>11, <3>1, <3>2 DEF WorkerStep, Drained, Check, Get, Norm, Add
    <2>5. UNCHANGED <<status, callVars, ctx, latest, events>>
      BY <1>11 DEF WorkerStep, Drained, Check, Get, Norm, Add, SendError
    <2> QED BY <2>2, <2>3, <2>4, <2>5, WorkerType DEF TypeOK, callVars, Goroutines
  <1>12. CASE NewComic
    BY <1>12 DEF TypeOK, NewComic, callVars
  <1>13. CASE Crash
    <2>1. worker' \in [Updates -> [Workers -> Goroutines]]
      BY <1>13, GoroutineTypes DEF Crash
    <2> QED BY <1>0, <1>13, <2>1, WorkerType DEF TypeOK, Crash, Forget, HandlerPC, Reply, Comics, Goroutines
  <1>14. CASE UNCHANGED vars
    BY <1>14 DEF TypeOK, vars, callVars
  <1> QED
    BY <1>1, <1>2, <1>3, <1>4, <1>5, <1>6, <1>7, <1>8, <1>9, <1>10, <1>11, <1>12, <1>13, <1>14
       DEF Next, HandlerStep, UpdateStep, Finished

(* The state stays within its types in every behaviour; in particular errCh    *)
(* never holds more than Concurrency errors.                                   *)
THEOREM TypeCorrect == Spec => []TypeOK
  <1>1. Spec => []TypeInv
    BY TypeInit, TypeStep, PTL DEF Spec
  <1> QED BY <1>1, PTL DEF TypeInv

--------------------------------------------------------------------------------
(* A call that keeps the status, or never had it, disturbs nobody's section. *)
LEMMA SectionKept ==
  ASSUME Exclusion, status' = status,
         \A c \in Calls : InSection(c)' <=> InSection(c)
  PROVE  Exclusion'
  BY DEF Exclusion

LEMMA SectionInit == Init => SectionInv
  BY DEF Init, SectionInv, Exclusion, InSection, WorkersJoined, Off, Goroutine, Calls

LEMMA SectionStep == TypeInv /\ SectionInv /\ [Next]_vars => SectionInv'
  <1> SUFFICES ASSUME TypeInv, SectionInv, [Next]_vars PROVE SectionInv'
    OBVIOUS
  <1> USE DEF SectionInv
  <1>0. /\ Updates \subseteq Calls /\ Drops \subseteq Calls
        /\ pc \in [Calls -> HandlerPC]
        /\ worker \in [Updates -> [Workers -> Goroutines]]
    BY DEF Calls, TypeInv, TypeOK
  <1>1. ASSUME NEW c \in Calls, Start(c) PROVE SectionInv'
    <2>1. WorkersJoined'
      BY <1>0, <1>1 DEF Start, Goto, WorkersJoined
    <2>2. CASE status = "idle"
      <3>1. /\ status' = "running"
            /\ \A d \in Calls : ~InSection(d)
            /\ \A d \in Calls : InSection(d)' <=> d = c
        BY <1>0, <1>1, <2>2 DEF Start, Goto, Exclusion, InSection
      <3> QED BY <2>1, <3>1 DEF Exclusion
    <2>3. CASE status = "running"
      BY <1>0, <1>1, <2>1, <2>3, SectionKept DEF Start, Goto, InSection
    <2> QED BY <1>1, <2>2, <2>3 DEF Start
  <1>2. ASSUME NEW c \in Calls, Release(c) PROVE SectionInv'
    <2>1. WorkersJoined'
      BY <1>0, <1>2 DEF Release, Forget, WorkersJoined
    <2>2. InSection(c) /\ status' = "idle" /\ \A d \in Calls : InSection(d)' <=> InSection(d) /\ d # c
      BY <1>0, <1>2 DEF Release, Forget, InSection
    <2> QED BY <2>1, <2>2 DEF Exclusion
  <1>3. ASSUME NEW c \in Calls, Publish(c) PROVE SectionInv'
    <2>1. WorkersJoined'
      BY <1>0, <1>3 DEF Publish, Return, WorkersJoined
    <2> QED BY <1>0, <1>3, <2>1, SectionKept DEF Publish, Return, InSection
  <1>4. ASSUME NEW c \in Updates, LastID(c) PROVE SectionInv'
    <2>1. WorkersJoined'
      BY <1>0, <1>4 DEF LastID, Goto, Return, WorkersJoined
    <2> QED BY <1>0, <1>4, <2>1, SectionKept DEF LastID, Goto, Return, InSection
  <1>5. ASSUME NEW c \in Updates, IDs(c) PROVE SectionInv'
    <2>1. WorkersJoined'
      BY <1>0, <1>5 DEF IDs, Goto, Return, WorkersJoined
    <2> QED BY <1>0, <1>5, <2>1, SectionKept DEF IDs, Goto, Return, InSection
  <1>6. ASSUME NEW c \in Updates, NEW w \in Workers, Handoff(c, w) PROVE SectionInv'
    <2>1. WorkersJoined'
      BY <1>0, <1>6 DEF Handoff, WorkersJoined
    <2> QED BY <1>6, <2>1, SectionKept DEF Handoff, InSection
  <1>7. ASSUME NEW c \in Updates, FeedDone(c) \/ FeedAbort(c) PROVE SectionInv'
    <2>1. WorkersJoined'
      BY <1>0, <1>7 DEF FeedDone, FeedAbort, Goto, WorkersJoined
    <2> QED BY <1>0, <1>7, <2>1, SectionKept DEF FeedDone, FeedAbort, Goto, InSection
  <1>8. ASSUME NEW c \in Updates, JoinAborted(c) \/ Join(c) PROVE SectionInv'
    <2>1. \A w \in Workers : worker[c][w].at = "off"
      BY <1>8 DEF JoinAborted, Join, Alive
    <2>2. WorkersJoined'
      BY <1>0, <1>8, <2>1 DEF JoinAborted, Join, Goto, Return, WorkersJoined
    <2>3. \A d \in Calls : InSection(d)' <=> InSection(d)
      BY <1>0, <1>8 DEF JoinAborted, Join, Goto, Return, InSection
    <2> QED BY <1>8, <2>2, <2>3, SectionKept DEF JoinAborted, Join
  <1>9. ASSUME NEW c \in Drops, Truncate(c) PROVE SectionInv'
    <2>1. WorkersJoined'
      BY <1>0, <1>9 DEF Truncate, Goto, Return, WorkersJoined
    <2> QED BY <1>0, <1>9, <2>1, SectionKept DEF Truncate, Goto, Return, InSection
  <1>10. ASSUME NEW c \in Updates, NEW w \in Workers, WorkerStep(c, w) PROVE SectionInv'
    <2>1. \E g : Become(c, w, g) /\ worker[c][w].at # "off"
      BY <1>10 DEF WorkerStep, Drained, Check, Get, Norm, Add, SendError, Report, Busy, Reporting
    <2>2. UNCHANGED <<status, pc>>
      BY <1>10 DEF WorkerStep, Drained, Check, Get, Norm, Add, SendError, callVars
    <2>3. WorkersJoined'
      BY <1>0, <2>1, <2>2 DEF Become, WorkersJoined
    <2> QED BY <2>2, <2>3, SectionKept DEF InSection
  <1>11. ASSUME NEW c \in Calls, Cancel(c) PROVE SectionInv'
    BY <1>11, SectionKept DEF Cancel, callVars, InSection, WorkersJoined
  <1>12. CASE NewComic \/ UNCHANGED vars
    BY <1>12, SectionKept DEF NewComic, vars, callVars, InSection, WorkersJoined
  <1>13. CASE Crash
    <2>1. WorkersJoined'
      BY <1>13 DEF Crash, Off, Goroutine, WorkersJoined
    <2> QED BY <1>0, <1>13, <2>1 DEF Crash, Forget, InSection, Exclusion
  <1> QED
    BY <1>1, <1>2, <1>3, <1>4, <1>5, <1>6, <1>7, <1>8, <1>9, <1>10, <1>11, <1>12, <1>13
       DEF Next, HandlerStep, UpdateStep, Finished

(* setStatusRunning and the deferred setStatusIdle exclude: the status says    *)
(* "running" exactly while one accepted call is unfinished.                    *)
THEOREM MutualExclusion == Spec => []Exclusion
  <1> QED BY TypeInit, TypeStep, SectionInit, SectionStep, PTL DEF Spec, SectionInv

(* No goroutine of an earlier Update outlives the status "running". *)
THEOREM QuietWhenIdle == Spec => []IdleMeansQuiet
  <1>1. SectionInv => IdleMeansQuiet
    BY DEF SectionInv, Exclusion, WorkersJoined, IdleMeansQuiet, Alive, InSection, Calls
  <1> QED BY <1>1, TypeInit, TypeStep, SectionInit, SectionStep, PTL DEF Spec

--------------------------------------------------------------------------------
(* A call that is not in its section, and an Update before its loop: nothing    *)
(* is going on in its name.                                                     *)
Dormant(c) ==
  /\ pc[c] \in {"new", "lastID", "ids", "done"}
  /\ todo[c] = {} /\ errCh[c] = <<>>
  /\ \A w \in Workers : worker[c][w].at = "off"

LEMMA DormantLedger ==
  ASSUME NEW c \in Updates, Dormant(c), last[c] <= latest
  PROVE  OwnBooks(c) /\ FreshIds(c) /\ NothingLost(c)
  BY DEF Dormant, OwnBooks, FreshIds, NothingLost, LoopInv, DistinctIds, NoIdForgotten, CanceledIsTrue,
         UpdateTold, Busy, Reporting

LEMMA DormantPrime ==
  ASSUME NEW c \in Updates, Dormant(c)', last'[c] <= latest'
  PROVE  BooksKept(c)
  BY DEF Dormant, BooksKept, OwnBooks, FreshIds, NothingLost, LoopInv, DistinctIds, NoIdForgotten,
         CanceledIsTrue, UpdateTold, Busy, Reporting

(* A step that does not touch an Update keeps its ledger. *)
LEMMA Untouched ==
  ASSUME NEW c \in Updates, OwnBooks(c), comics' = comics, latest \in Nat,
         latest' = latest \/ latest' = latest + 1, last[c] \in Nat,
         pc'[c] = pc[c], ctx'[c] = ctx[c], reply'[c] = reply[c], last'[c] = last[c],
         todo'[c] = todo[c], errCh'[c] = errCh[c], worker'[c] = worker[c]
  PROVE  BooksKept(c)
  <1>1. LoopInv(c)'
    BY DEF OwnBooks, LoopInv
  <1>2. DistinctIds(c)' /\ CanceledIsTrue(c)'
    BY DEF OwnBooks, DistinctIds, CanceledIsTrue
  <1>3. FreshIds(c) => FreshIds(c)'
    BY DEF FreshIds
  <1>4. NothingLost(c) => NothingLost(c)'
    BY DEF NothingLost, NoIdForgotten, ErrorKnown, Accounted, UpdateTold, CompleteUpTo
  <1> QED BY <1>1, <1>2, <1>3, <1>4 DEF BooksKept, OwnBooks

(* While a call is in its section every Update but itself is dormant. *)
LEMMA Alone ==
  ASSUME TypeInv, SectionInv, OwnBooksInv, NEW c \in Calls, InSection(c), NEW d \in Updates, d # c
  PROVE  ~InSection(d) /\ Dormant(d)
  <1>1. ~InSection(d)
    BY DEF SectionInv, Exclusion, Calls
  <1> QED BY <1>1 DEF SectionInv, WorkersJoined, OwnBooksInv, OwnBooks, LoopInv, InSection, Dormant

(* So a step of that call that leaves the others' variables alone leaves them   *)
(* their ledgers, whatever it does to the table.                                *)
LEMMA OthersDormant ==
  ASSUME TypeInv, SectionInv, OwnBooksInv, NEW c \in Calls, InSection(c),
         NEW d \in Updates, d # c, latest' = latest,
         pc'[d] = pc[d], last'[d] = last[d], todo'[d] = todo[d], errCh'[d] = errCh[d],
         worker'[d] = worker[d]
  PROVE  BooksKept(d)
  <1>1. Dormant(d)
    BY Alone
  <1>2. Dormant(d)'
    BY <1>1 DEF Dormant
  <1>3. last'[d] <= latest'
    BY DEF OwnBooksInv, OwnBooks, LoopInv
  <1> QED BY <1>2, <1>3, DormantPrime

(* The calls other than c are as they were. *)
OthersSame(c) ==
  \A d \in Updates : d # c =>
    /\ pc'[d] = pc[d] /\ ctx'[d] = ctx[d] /\ reply'[d] = reply[d] /\ last'[d] = last[d]
    /\ todo'[d] = todo[d] /\ errCh'[d] = errCh[d] /\ worker'[d] = worker[d]

(* A call moves to a place where neither the loop nor wg.Wait() is ahead, with  *)
(* everything else of it unchanged.                                             *)
LEMMA Moved ==
  ASSUME TypeInv, NEW c \in Updates, OwnBooks(c), comics' = comics, latest' = latest,
         ctx'[c] = ctx[c], last'[c] = last[c],
         todo'[c] = todo[c], errCh'[c] = errCh[c], worker'[c] = worker[c],
         pc'[c] \in {"abort", "publish", "release"} \/ (pc[c] = "feed" /\ pc'[c] = "wait"),
         todo[c] # {} => pc'[c] \in {"abort", "release"}, NothingLost(c) => UpdateTold(c)'
  PROVE  BooksKept(c)
  <1>1. LoopInv(c)'
    BY DEF OwnBooks, LoopInv
  <1>2. DistinctIds(c)' /\ CanceledIsTrue(c)'
    BY DEF OwnBooks, DistinctIds, CanceledIsTrue
  <1>3. FreshIds(c) => FreshIds(c)'
    BY DEF FreshIds
  <1>4. NothingLost(c) => NoIdForgotten(c)'
    BY DEF NothingLost, NoIdForgotten, ErrorKnown, Accounted
  <1> QED BY <1>1, <1>2, <1>3, <1>4 DEF BooksKept, OwnBooks, NothingLost

LEMMA LedgerInit == Init => LedgerInv
  <1> SUFFICES ASSUME Init PROVE LedgerInv
    OBVIOUS
  <1>1. ASSUME NEW c \in Updates PROVE OwnBooks(c) /\ FreshIds(c) /\ NothingLost(c)
    <2>1. Dormant(c) /\ last[c] <= latest
      BY ComicAssumption DEF Init, Dormant, Off, Goroutine, Calls
    <2> QED BY <2>1, DormantLedger
  <1>2. \A d \in Drops : DropTold(d)
    BY DEF Init, DropTold, Calls
  <1> QED BY <1>1, <1>2 DEF LedgerInv

(* The steps of a call's handler keep the ledger. *)
LEMMA HandlerLedger ==
  ASSUME TypeInv, SectionInv, OwnBooksInv, NEW c \in Updates, UpdateStep(c)
  PROVE  LedgerKept
  <1>0. /\ c \in Calls /\ Updates \cap Drops = {} /\ latest \in 0..MaxComic
        /\ pc \in [Calls -> HandlerPC] /\ ctx \in [Calls -> CtxError \cup {"live"}]
        /\ reply \in [Calls -> Reply] /\ last \in [Updates -> 0..MaxComic]
        /\ todo \in [Updates -> SUBSET Comics] /\ errCh \in [Updates -> Seq(WorkerError)]
        /\ worker \in [Updates -> [Workers -> Goroutines]]
    BY CallsAssumption DEF Calls, TypeInv, TypeOK
  <1>1. /\ InSection(c) /\ OwnBooks(c)
        /\ UNCHANGED <<comics, latest, ctx, errCh>>
    BY DEF OwnBooksInv, UpdateStep, LastID, IDs, Handoff, FeedDone, FeedAbort, JoinAborted, Join, InSection
  <1>2. OthersSame(c)
    BY <1>0 DEF OthersSame, UpdateStep, LastID, IDs, Handoff, FeedDone, FeedAbort, JoinAborted, Join,
         Goto, Return, Calls
  <1>3. \A d \in Updates : d # c => BooksKept(d)
    BY <1>0, <1>1, <1>2, OthersDormant DEF OthersSame
  <1>4. \A d \in Drops : DropTold(d) => DropTold(d)'
    <2>1. \A d \in Drops : pc'[d] = pc[d]
      BY <1>0, <1>1 DEF UpdateStep, LastID, IDs, Handoff, FeedDone, FeedAbort, JoinAborted, Join,
           Goto, Return, Calls
    <2> QED BY <1>1, <2>1 DEF DropTold
  <1>5. BooksKept(c)
    <2>1. CASE LastID(c)
      <3>1. Dormant(c)
        BY <2>1 DEF LastID, Dormant, SectionInv, WorkersJoined, OwnBooksInv, OwnBooks, LoopInv
      <3>2. CASE pc'[c] = "ids"
        <4>1. /\ last'[c] = latest
              /\ UNCHANGED <<todo, errCh, worker, latest>>
          BY <1>0, <2>1, <3>2 DEF LastID, Return
        <4>2. Dormant(c)'
          BY <3>1, <3>2, <4>1 DEF Dormant
        <4> QED BY <1>0, <4>1, <4>2, DormantPrime
      <3>3. CASE pc'[c] = "release"
        <4>1. UpdateTold(c)'
          BY <1>0, <2>1, <3>3 DEF LastID, Goto, Return, UpdateTold
        <4> QED BY <1>0, <1>1, <2>1, <3>1, <3>3, <4>1, Moved DEF LastID, Goto, Return, Dormant
      <3> QED BY <1>0, <2>1, <3>2, <3>3 DEF LastID, Goto, Return
    <2>2. CASE IDs(c)
      <3>1. Dormant(c)
        BY <2>2 DEF IDs, Dormant, SectionInv, WorkersJoined, OwnBooksInv, OwnBooks, LoopInv
      <3>2. CASE pc'[c] = "feed"
        <4>1. /\ todo'[c] = (1..last[c]) \ comics /\ UNCHANGED <<last, comics, errCh, latest>>
              /\ \A w \in Workers : worker'[c][w] = Recv
          BY <1>0, <2>2, <3>2 DEF IDs, Return
        <4>2. LoopInv(c)' /\ DistinctIds(c)' /\ FreshIds(c)'
          BY <1>1, <3>2, <4>1 DEF OwnBooks, LoopInv, DistinctIds, FreshIds, Recv, Goroutine, Busy
        <4>3. NoIdForgotten(c)' /\ CanceledIsTrue(c)'
          BY <3>1, <3>2, <4>1 DEF Dormant, NoIdForgotten, Accounted, CanceledIsTrue, Recv, Goroutine, Reporting
        <4> QED BY <3>2, <4>2, <4>3 DEF BooksKept, OwnBooks, NothingLost, UpdateTold
      <3>3. CASE pc'[c] = "release"
        <4>1. UpdateTold(c)'
          BY <1>0, <2>2, <3>3 DEF IDs, Goto, Return, UpdateTold, CtxError
        <4> QED BY <1>0, <1>1, <2>2, <3>1, <3>3, <4>1, Moved DEF IDs, Goto, Return, Dormant
      <3> QED BY <1>0, <2>2, <3>2, <3>3 DEF IDs, Goto, Return
    <2>3. ASSUME NEW w \in Workers, Handoff(c, w) PROVE BooksKept(c)
      <3>1. PICK id \in todo[c] :
              /\ todo' = [todo EXCEPT ![c] = @ \ {id}]
              /\ worker' = [worker EXCEPT ![c][w] = Goroutine("check", id, "none")]
        BY <2>3 DEF Handoff
      <3>2. /\ todo'[c] = todo[c] \ {id}
            /\ worker'[c][w] = Goroutine("check", id, "none") /\ worker[c][w].at = "recv"
            /\ \A v \in Workers \ {w} : worker'[c][v] = worker[c][v]
            /\ UNCHANGED <<pc, reply, last, ctx, errCh, comics, latest>> /\ pc[c] = "feed"
        BY <1>0, <2>3, <3>1 DEF Handoff
      <3> HIDE <3>1
      <3>3. LoopInv(c)'
        BY <1>1, <3>2 DEF OwnBooks, LoopInv, Goroutine
      <3>4. DistinctIds(c)'
        BY <1>1, <3>2 DEF OwnBooks, DistinctIds, LoopInv, Goroutine, Busy
      <3>5. CanceledIsTrue(c)'
        BY <1>1, <3>2 DEF OwnBooks, CanceledIsTrue, Goroutine, Reporting
      <3>6. FreshIds(c) => FreshIds(c)'
        BY <3>2 DEF FreshIds, Goroutine, Busy
      <3>7. \A j : Accounted(c, j) => Accounted(c, j)'
        BY <3>2 DEF Accounted, Goroutine, Busy
      <3>8. ErrorKnown(c) => ErrorKnown(c)'
        BY <3>2 DEF ErrorKnown, Reporting
      <3> QED BY <3>2, <3>3, <3>4, <3>5, <3>6, <3>7, <3>8
              DEF BooksKept, OwnBooks, NothingLost, NoIdForgotten, UpdateTold
    <2>4. CASE FeedDone(c) \/ FeedAbort(c) \/ JoinAborted(c)
      <3>1. UpdateTold(c)'
        BY <1>0, <2>4 DEF FeedDone, FeedAbort, JoinAborted, Goto, Return, UpdateTold, CtxError
      <3> QED BY <1>0, <1>1, <2>4, <3>1, Moved DEF FeedDone, FeedAbort, JoinAborted, Goto, Return
    <2>5. CASE Join(c)
      <3>1. \A w \in Workers : worker[c][w].at = "off"
        BY <2>5 DEF Join, Alive
      <3>2. todo[c] = {}
        BY <1>1, <2>5 DEF Join, OwnBooks, LoopInv
      <3>3. \A i \in 1..Len(errCh[c]) : errCh[c][i] # "ok"
        <4>1. errCh[c] \in Seq(WorkerError)
          BY <1>0
        <4>2. \A i \in 1..Len(errCh[c]) : errCh[c][i] \in WorkerError
          BY <4>1
        <4> QED BY <4>2 DEF WorkerError, CtxError
      <3>4. ASSUME NothingLost(c), pc'[c] = "publish", ctx[c] = "live" PROVE CompleteUpTo(last[c])
        <4>1. \A i \in 1..Len(errCh[c]) : errCh[c][i] = "canceled"
          BY <1>0, <2>5, <3>4 DEF Join, Return
        <4>2. Len(errCh[c]) = 0
          BY <1>0, <1>1, <3>4, <4>1 DEF OwnBooks, CanceledIsTrue
        <4>3. ~ErrorKnown(c)
          BY <1>0, <3>1, <4>2 DEF ErrorKnown, Reporting
        <4> QED BY <2>5, <3>1, <3>2, <3>4, <4>3
                DEF Join, NothingLost, NoIdForgotten, Accounted, CompleteUpTo, Busy
      <3>5. NothingLost(c) => UpdateTold(c)'
        BY <1>0, <2>5, <3>3, <3>4 DEF Join, Goto, Return, UpdateTold, CompleteUpTo
      <3> QED BY <1>0, <1>1, <2>5, <3>2, <3>5, Moved DEF Join, Goto, Return
    <2> QED BY <2>1, <2>2, <2>3, <2>4, <2>5 DEF UpdateStep
  <1> QED BY <1>3, <1>4, <1>5 DEF LedgerKept

(* The steps of a worker keep the ledger. *)
LEMMA WorkerLedger ==
  ASSUME TypeInv, SectionInv, OwnBooksInv,
         NEW c \in Updates, NEW w \in Workers, WorkerStep(c, w)
  PROVE  LedgerKept
  <1>0. /\ c \in Calls /\ ctx[c] \in CtxError \cup {"live"} /\ OwnBooks(c)
        /\ errCh \in [Updates -> Seq(WorkerError)]
        /\ worker \in [Updates -> [Workers -> Goroutines]]
    BY DEF Calls, TypeInv, TypeOK, OwnBooksInv
  <1>1. /\ InSection(c) /\ pc[c] \in {"feed", "wait", "abort"}
        /\ UNCHANGED <<pc, reply, last, todo, ctx, latest>>
    BY <1>0 DEF WorkerStep, Drained, Check, Get, Norm, Add, SendError, callVars, Busy, Reporting,
         SectionInv, WorkersJoined, InSection
  <1>2. PICK g : Become(c, w, g)
    <2>1. CASE Drained(c, w) \/ Check(c, w) \/ SendError(c, w)
      BY <2>1 DEF Drained, Check, SendError
    <2>2. CASE Get(c, w) \/ Norm(c, w) \/ Add(c, w)
      BY <2>2 DEF Get, Norm, Add, Report
    <2> QED BY <2>1, <2>2 DEF WorkerStep
  <1>3. /\ worker'[c][w] = g
        /\ \A v \in Workers \ {w} : worker'[c][v] = worker[c][v]
        /\ \A d \in Updates : d # c => worker'[d] = worker[d]
    BY <1>0, <1>2 DEF Become
  <1>4. \A d \in Updates : d # c => BooksKept(d)
    <2>1. \A d \in Updates : d # c => errCh'[d] = errCh[d]
      BY <1>0 DEF WorkerStep, Drained, Check, Get, Norm, Add, SendError
    <2> QED BY <1>0, <1>1, <1>3, <2>1, OthersDormant
  <1>5. \A d \in Drops : DropTold(d) => DropTold(d)'
    BY <1>0, <1>1, CallsAssumption DEF DropTold, SectionInv, Exclusion, InSection, Calls
  <1>6. UpdateTold(c)'
    BY <1>1 DEF UpdateTold
  <1> HIDE <1>2
  (* The worker keeps its id, or gives it up, or reports; what it gives up is    *)
  (* stored or absent.                                                           *)
  <1>7. CASE /\ UNCHANGED <<comics, errCh>>
             /\ g.at \in Busy => worker[c][w].at \in Busy /\ g.id = worker[c][w].id
             /\ g.at \in {"norm", "add"} => g.id \notin Absent
             /\ g.at \in Reporting => g.err # "canceled" \/ ctx[c] # "live"
             /\ worker[c][w].at \notin Reporting
             /\ worker[c][w].at \in Busy =>
                  g.at \in Busy \cup Reporting \/ worker[c][w].id \in Absent
    <2>0. LoopInv(c)'
      BY <1>0, <1>1, <1>3, <1>7 DEF OwnBooks, LoopInv
    <2>1. \A v \in Workers : worker'[c][v].at \in Busy =>
              worker[c][v].at \in Busy /\ worker'[c][v].id = worker[c][v].id
      BY <1>3, <1>7
    <2>2. DistinctIds(c)' /\ (FreshIds(c) => FreshIds(c)')
      BY <1>0, <1>1, <1>7, <2>1 DEF OwnBooks, DistinctIds, FreshIds
    <2>3. CanceledIsTrue(c)'
      BY <1>0, <1>1, <1>3, <1>7 DEF OwnBooks, CanceledIsTrue
    <2>4. g.at \in Reporting => ErrorKnown(c)'
      BY <1>3 DEF ErrorKnown
    <2>5. ErrorKnown(c) => ErrorKnown(c)'
      BY <1>3, <1>7 DEF ErrorKnown
    <2>6. g.at \notin Reporting => \A id : Accounted(c, id) => Accounted(c, id)'
      BY <1>1, <1>3, <1>7 DEF Accounted
    <2>7. NothingLost(c) => NoIdForgotten(c)'
      BY <1>0, <1>1, <2>4, <2>5, <2>6 DEF NothingLost, NoIdForgotten
    <2> QED BY <1>4, <1>5, <1>6, <2>0, <2>2, <2>3, <2>7 DEF LedgerKept, BooksKept, OwnBooks, NothingLost
  <1>8. CASE Add(c, w)
    <2>0. /\ worker[c][w].at = "add" /\ UNCHANGED errCh
          /\ comics \subseteq comics' /\ comics' \subseteq comics \cup {worker[c][w].id}
          /\ \/ g = Recv /\ worker[c][w].id \in comics'
             \/ \E e : g = Goroutine("report", 0, e) /\ (e # "canceled" \/ ctx[c] # "live")
      BY <1>0, <1>3, <1>8 DEF Add, Report, Become
    <2>a. g.at \in {"recv", "report"}
      BY <2>0 DEF Recv, Goroutine
    <2>1. LoopInv(c)'
      BY <1>0, <1>1, <1>3, <2>0, <2>a DEF OwnBooks, LoopInv
    <2>2. CanceledIsTrue(c)'
      BY <1>0, <1>1, <1>3, <2>0 DEF OwnBooks, CanceledIsTrue, Recv, Goroutine, Reporting
    <2>b. \A v \in Workers : worker'[c][v].at \in Busy =>
            v # w /\ worker[c][v].at \in Busy /\ worker'[c][v].id = worker[c][v].id
      BY <1>3, <2>a DEF Busy
    <2>3. DistinctIds(c)'
      BY <1>0, <1>1, <2>b DEF OwnBooks, DistinctIds
    <2>4. FreshIds(c) => FreshIds(c)'
      <3>1. /\ worker[c][w].id \notin todo[c]
            /\ \A v \in Workers : worker'[c][v].at \in Busy => worker[c][v].id # worker[c][w].id
        BY <1>0, <2>0, <2>b DEF OwnBooks, DistinctIds, Busy
      <3> QED BY <1>1, <2>0, <2>b, <3>1 DEF FreshIds
    <2>5. g.at = "report" => ErrorKnown(c)'
      BY <1>3 DEF ErrorKnown, Reporting
    <2>6. ErrorKnown(c) => ErrorKnown(c)'
      BY <1>3, <2>0 DEF ErrorKnown, Reporting
    <2>7. ASSUME g = Recv, NEW id \in 1..last[c], Accounted(c, id) PROVE Accounted(c, id)'
      <3>1. CASE id \in todo[c] \cup comics \cup Absent
        BY <1>1, <2>0, <3>1 DEF Accounted
      <3>2. ASSUME NEW v \in Workers, worker[c][v].at \in Busy, worker[c][v].id = id
            PROVE  Accounted(c, id)'
        <4>1. CASE v = w
          BY <2>0, <2>7, <3>2, <4>1 DEF Accounted, Recv, Goroutine
        <4>2. CASE v # w
          BY <1>3, <3>2, <4>2 DEF Accounted
        <4> QED BY <4>1, <4>2
      <3> QED BY <2>7, <3>1, <3>2 DEF Accounted
    <2>8. NothingLost(c) => NoIdForgotten(c)'
      BY <1>0, <1>1, <2>0, <2>5, <2>6, <2>7 DEF NothingLost, NoIdForgotten, Goroutine
    <2> QED BY <1>4, <1>5, <1>6, <2>1, <2>2, <2>3, <2>4, <2>8 DEF LedgerKept, BooksKept, OwnBooks, NothingLost
  <1>9. CASE SendError(c, w)
    <2>0. /\ worker[c][w].at \in Reporting /\ UNCHANGED comics /\ g \in {Off, Recv}
          /\ errCh'[c] = Append(errCh[c], worker[c][w].err)
          /\ errCh[c] \in Seq(WorkerError) /\ worker[c][w].err \in WorkerError
      BY <1>0, <1>3, <1>9 DEF SendError, Become, Goroutines
    <2>a. g.at \in {"off", "recv"}
      BY <2>0 DEF Off, Recv, Goroutine
    <2>1. LoopInv(c)'
      BY <1>0, <1>1, <1>3, <2>0, <2>a DEF OwnBooks, LoopInv
    <2>2. DistinctIds(c)' /\ (FreshIds(c) => FreshIds(c)')
      <3>1. \A v \in Workers : worker'[c][v].at \in Busy => worker'[c][v] = worker[c][v]
        BY <1>3, <2>a DEF Busy
      <3> QED BY <1>0, <1>1, <2>0, <3>1 DEF OwnBooks, DistinctIds, FreshIds
    <2>3. ASSUME ctx[c] = "live" PROVE \A i \in 1..Len(errCh'[c]) : errCh'[c][i] # "canceled"
      BY <1>0, <2>0, <2>3 DEF OwnBooks, CanceledIsTrue
    <2>4. CanceledIsTrue(c)'
      BY <1>0, <1>1, <1>3, <2>a, <2>3 DEF OwnBooks, CanceledIsTrue, Reporting
    <2>5. NoIdForgotten(c)'
      <3>1. Append(errCh[c], worker[c][w].err) # <<>>
        BY <2>0
      <3> QED BY <2>0, <3>1 DEF NoIdForgotten, ErrorKnown
    <2> QED BY <1>4, <1>5, <1>6, <2>1, <2>2, <2>4, <2>5 DEF LedgerKept, BooksKept, OwnBooks, NothingLost
  <1>10. CASE Drained(c, w) \/ Check(c, w) \/ Get(c, w) \/ Norm(c, w)
    <2>1. /\ UNCHANGED <<comics, errCh>>
          /\ g.at \in Busy => worker[c][w].at \in Busy /\ g.id = worker[c][w].id
          /\ g.at \in Reporting => g.err # "canceled" \/ ctx[c] # "live"
          /\ worker[c][w].at \notin Reporting
          /\ worker[c][w].at \in Busy => g.at \in Busy \cup Reporting \/ worker[c][w].id \in Absent
      BY <1>0, <1>3, <1>10 DEF Drained, Check, Get, Norm, Report, Become, Off, Recv, Goroutine, Busy, Reporting
    <2>2. g.at \in {"norm", "add"} => g.id \notin Absent
      BY <1>0, <1>3, <1>10 DEF Drained, Check, Get, Norm, Report, Become, Off, Recv, Goroutine, OwnBooks, LoopInv
    <2> QED BY <1>7, <2>1, <2>2
  <1> QED BY <1>8, <1>9, <1>10 DEF WorkerStep

(* Every step of the service keeps the ledger, part by part. *)
LEMMA StepKeepsLedger == TypeInv /\ SectionInv /\ OwnBooksInv /\ [Next]_vars => LedgerKept
  <1> SUFFICES ASSUME TypeInv, SectionInv, OwnBooksInv, [Next]_vars PROVE LedgerKept
    OBVIOUS
  <1>0. /\ Updates \subseteq Calls /\ Drops \subseteq Calls /\ Updates \cap Drops = {}
        /\ pc \in [Calls -> HandlerPC] /\ ctx \in [Calls -> CtxError \cup {"live"}]
        /\ reply \in [Calls -> Reply] /\ last \in [Updates -> 0..MaxComic]
        /\ latest \in Nat /\ \A d \in Updates : last[d] \in Nat /\ OwnBooks(d)
    BY CallsAssumption, ComicAssumption DEF Calls, TypeInv, TypeOK, OwnBooksInv
  <1>1. ASSUME NEW c \in Calls, Start(c) PROVE LedgerKept
    <2>1. OthersSame(c) /\ UNCHANGED <<comics, latest>>
      BY <1>0, <1>1 DEF Start, Goto, OthersSame
    <2>2. \A d \in Updates : d # c => BooksKept(d)
      BY <1>0, <2>1, Untouched DEF OthersSame
    <2>3. ASSUME c \in Updates PROVE BooksKept(c)
      <3>1. Dormant(c)
        BY <1>0, <1>1, <2>3 DEF Start, Dormant, SectionInv, WorkersJoined, OwnBooks, LoopInv
      <3>2. Dormant(c)' /\ last'[c] <= latest'
        BY <1>0, <1>1, <2>3, <3>1 DEF Start, Goto, Dormant, OwnBooks, LoopInv
      <3> QED BY <2>3, <3>2, DormantPrime
    <2>4. \A d \in Drops : DropTold(d) => DropTold(d)'
      BY <1>0, <1>1 DEF Start, Goto, DropTold
    <2> QED BY <2>2, <2>3, <2>4 DEF LedgerKept
  <1>2. ASSUME NEW c \in Calls, Release(c) PROVE LedgerKept
    <2>1. OthersSame(c) /\ UNCHANGED <<comics, latest>>
      BY <1>0, <1>2 DEF Release, Forget, OthersSame
    <2>2. \A d \in Updates : d # c => BooksKept(d)
      BY <1>0, <2>1, Untouched DEF OthersSame
    <2>3. ASSUME c \in Updates PROVE BooksKept(c)
      <3>1. Dormant(c)' /\ last'[c] <= latest'
        BY <1>0, <1>2, <2>3 DEF Release, Forget, Dormant, SectionInv, WorkersJoined
      <3> QED BY <2>3, <3>1, DormantPrime
    <2>4. \A d \in Drops : DropTold(d) => DropTold(d)'
      BY <1>0, <1>2 DEF Release, Forget, DropTold
    <2> QED BY <2>2, <2>3, <2>4 DEF LedgerKept
  <1>3. ASSUME NEW c \in Calls, Publish(c) PROVE LedgerKept
    <2>1. OthersSame(c) /\ UNCHANGED <<comics, latest>>
      BY <1>0, <1>3 DEF Publish, Return, OthersSame
    <2>2. \A d \in Updates : d # c => BooksKept(d)
      BY <1>0, <2>1, Untouched DEF OthersSame
    <2>3. ASSUME c \in Updates PROVE BooksKept(c)
      <3>1. todo[c] = {}
        BY <1>0, <1>3, <2>3 DEF Publish, OwnBooks, LoopInv
      <3>2. NothingLost(c) => UpdateTold(c)'
        BY <1>0, <1>3, <2>3 DEF Publish, Return, NothingLost, UpdateTold, CompleteUpTo, CtxError
      <3> QED BY <1>0, <1>3, <2>3, <3>1, <3>2, Moved DEF Publish, Return
    <2>4. \A d \in Drops : DropTold(d) => DropTold(d)'
      BY <1>0, <1>3 DEF Publish, Return, DropTold
    <2> QED BY <2>2, <2>3, <2>4 DEF LedgerKept
  <1>4. ASSUME NEW c \in Drops, Truncate(c) PROVE LedgerKept
    <2>1. c \in Calls /\ c \notin Updates /\ InSection(c)
      BY <1>0, <1>4 DEF Truncate, InSection
    <2>2. OthersSame(c) /\ latest' = latest
      BY <1>0, <1>4 DEF Truncate, Goto, Return, OthersSame
    <2>3. \A d \in Updates : BooksKept(d)
      BY <2>1, <2>2, OthersDormant DEF OthersSame
    <2>4. \A d \in Drops : d # c => pc[d] # "publish"
      BY <1>0, <2>1 DEF SectionInv, Exclusion, InSection
    <2>5. \A d \in Drops : DropTold(d)'
      BY <1>0, <1>4, <2>4 DEF Truncate, Goto, Return, DropTold
    <2> QED BY <2>3, <2>5 DEF LedgerKept
  <1>5. ASSUME NEW c \in Calls, Cancel(c) PROVE LedgerKept
    <2>1. OthersSame(c) /\ UNCHANGED <<comics, latest, pc, reply, last, todo, worker, errCh>>
      BY <1>0, <1>5 DEF Cancel, callVars, OthersSame
    <2>2. \A d \in Updates : d # c => BooksKept(d)
      BY <1>0, <2>1, Untouched DEF OthersSame
    <2>3. ASSUME c \in Updates PROVE BooksKept(c)
      <3>1. ctx'[c] # "live"
        BY <1>0, <1>5 DEF Cancel, CtxError
      <3>2. LoopInv(c)' /\ DistinctIds(c)' /\ CanceledIsTrue(c)' /\ (FreshIds(c) => FreshIds(c)')
        BY <1>0, <2>1, <2>3, <3>1 DEF OwnBooks, LoopInv, DistinctIds, CanceledIsTrue, FreshIds
      <3>3. NothingLost(c) => NothingLost(c)'
        BY <2>1, <3>1 DEF NothingLost, NoIdForgotten, ErrorKnown, Accounted, UpdateTold, CompleteUpTo
      <3> QED BY <3>2, <3>3 DEF BooksKept, OwnBooks
    <2>4. \A d \in Drops : DropTold(d) => DropTold(d)'
      BY <1>0, <2>1 DEF DropTold
    <2> QED BY <2>2, <2>3, <2>4 DEF LedgerKept
  <1>6. CASE NewComic \/ UNCHANGED vars
    <2>1. \A d \in Updates : BooksKept(d)
      BY <1>0, <1>6, Untouched DEF NewComic, vars, callVars
    <2>2. \A d \in Drops : DropTold(d) => DropTold(d)'
      BY <1>0, <1>6 DEF NewComic, vars, callVars, DropTold
    <2> QED BY <2>1, <2>2 DEF LedgerKept
  <1>7. CASE Crash
    <2>1. ASSUME NEW d \in Updates PROVE BooksKept(d)
      <3>1. CASE InSection(d)
        <4>1. Dormant(d)' /\ last'[d] <= latest'
          BY <1>0, <1>7, <3>1 DEF Crash, Forget, Dormant, Off, Goroutine
        <4> QED BY <4>1, DormantPrime
      <3>2. CASE ~InSection(d)
        <4>1. Dormant(d)
          BY <1>0, <3>2 DEF Dormant, InSection, SectionInv, WorkersJoined, OwnBooks, LoopInv
        <4>2. Dormant(d)' /\ last'[d] <= latest'
          BY <1>0, <1>7, <3>2, <4>1 DEF Crash, Forget, Dormant, Off, Goroutine, OwnBooks, LoopInv
        <4> QED BY <4>2, DormantPrime
      <3> QED BY <3>1, <3>2
    <2>2. \A d \in Drops : DropTold(d) => DropTold(d)'
      BY <1>0, <1>7 DEF Crash, Forget, DropTold
    <2> QED BY <2>1, <2>2 DEF LedgerKept
  <1> QED
    BY <1>1, <1>2, <1>3, <1>4, <1>5, <1>6, <1>7, HandlerLedger, WorkerLedger
       DEF Next, HandlerStep, Finished

--------------------------------------------------------------------------------
(* The inductive invariant: types, sections and ledgers. *)
IInv == TypeInv /\ SectionInv /\ LedgerInv

LEMMA LedgerStep == IInv /\ [Next]_vars => LedgerInv'
  <1> SUFFICES ASSUME IInv, [Next]_vars PROVE LedgerInv'
    OBVIOUS
  <1>1. OwnBooksInv
    BY DEF IInv, LedgerInv, OwnBooksInv
  <1>2. LedgerKept
    BY <1>1, StepKeepsLedger DEF IInv
  <1> QED BY <1>2 DEF IInv, LedgerInv, LedgerKept, BooksKept

LEMMA Inductive == Spec => []IInv
  <1>1. Init => IInv
    BY TypeInit, SectionInit, LedgerInit DEF IInv
  <1>2. IInv /\ [Next]_vars => IInv'
    BY TypeStep, SectionStep, LedgerStep DEF IInv
  <1> QED BY <1>1, <1>2, PTL DEF Spec

(* Every id an accepted Update has to deal with is in exactly one place, or an *)
(* error is on its way.                                                        *)
THEOREM BookkeepingCorrect == Spec => []Bookkeeping
  <1>1. IInv => Bookkeeping
    BY DEF IInv, LedgerInv, OwnBooks, FreshIds, DistinctIds, NothingLost, NoIdTwice, Bookkeeping
  <1> QED BY <1>1, Inductive, PTL

(* No INSERT meets a row that is already there. *)
THEOREM InsertsAreFresh == Spec => []FreshInserts
  <1>1. IInv => FreshInserts
    BY DEF IInv, LedgerInv, FreshIds, FreshInserts, Busy
  <1> QED BY <1>1, Inductive, PTL

(* An Update that returns nil has stored every comic there is up to lastID. *)
THEOREM NilMeansComplete == Spec => []SuccessIsComplete
  <1>1. IInv => SuccessIsComplete
    BY DEF IInv, LedgerInv, NothingLost, UpdateTold, SuccessIsComplete
  <1> QED BY <1>1, Inductive, PTL

LEMMA OnlyPublishTells ==
  ASSUME Next, events' # events
  PROVE  \E c \in Calls : Publish(c)
  BY DEF Next, Start, HandlerStep, Release, UpdateStep, LastID, IDs, Handoff, FeedDone, FeedAbort,
         JoinAborted, Join, Truncate, Cancel, WorkerStep, Drained, Check, Get, Norm, Add, SendError,
         NewComic, Crash, Finished, vars

(* "updated" is published over a complete table, "dropped" over an empty one. *)
THEOREM EventsTellTheTruth == Spec => EventsTruthful
  <1>1. IInv /\ [Next]_vars => [TellsTheTruth]_vars
    <2> SUFFICES ASSUME IInv, Next, events' # events
                 PROVE  TellsTheTruth
      BY DEF TellsTheTruth, vars
    <2>1. PICK c \in Calls : Publish(c)
      BY OnlyPublishTells
    <2>2. pc[c] = "publish" /\ ctx[c] = "live" /\ events' = Append(events, Subject(c))
      BY <2>1 DEF Publish
    <2>3. IF c \in Updates THEN CompleteUpTo(last[c]) ELSE comics = {}
      BY <2>2 DEF IInv, LedgerInv, NothingLost, UpdateTold, DropTold, Calls
    <2> QED BY <2>2, <2>3 DEF TellsTheTruth
  <1> QED BY <1>1, Inductive, PTL DEF Spec, EventsTruthful

(* Rows appear only under an unfinished Update and vanish only under a Drop. *)
THEOREM WritesBelongToACall == Spec => WritesAreOwned
  <1>1. IInv /\ [Next]_vars => [WritesOnlyIfHeld]_vars
    <2> SUFFICES ASSUME IInv, Next, comics' # comics
                 PROVE  WritesOnlyIfHeld
      BY DEF WritesOnlyIfHeld, vars
    <2>1. \/ \E c \in Drops : Truncate(c)
          \/ \E c \in Updates, w \in Workers : Add(c, w)
      BY DEF Next, Start, HandlerStep, Release, UpdateStep, LastID, IDs, Handoff, FeedDone, FeedAbort,
           JoinAborted, Join, Publish, Cancel, WorkerStep, Drained, Check, Get, Norm, SendError,
           NewComic, Crash, Finished, vars
    <2>2. ASSUME NEW c \in Drops, Truncate(c) PROVE WritesOnlyIfHeld
      <3>1. comics' \ comics = {} /\ InSection(c) /\ c \in Calls /\ c \notin Updates
        BY <2>2, CallsAssumption DEF Truncate, InSection, Calls
      <3> QED BY <3>1 DEF WritesOnlyIfHeld, IInv, SectionInv, Exclusion, Calls
    <2>3. ASSUME NEW c \in Updates, NEW w \in Workers, Add(c, w) PROVE WritesOnlyIfHeld
      <3>1. comics \ comics' = {} /\ w \in Alive(c)
        BY <2>3 DEF Add, Alive
      <3>2. InSection(c)
        BY <3>1 DEF IInv, SectionInv, WorkersJoined, Alive, InSection
      <3> QED BY <3>1, <3>2 DEF WritesOnlyIfHeld
    <2> QED BY <2>1, <2>2, <2>3
  <1> QED BY <1>1, Inductive, PTL DEF Spec, WritesAreOwned

--------------------------------------------------------------------------------
(* One comic per error. *)

Reporters(c) == {w \in Workers : worker[c][w].at \in Reporting}

Budget(c) ==
  pc[c] \in {"feed", "wait", "abort"} =>
    Cardinality(Lost(c)) <= Len(errCh[c]) + Cardinality(Reporters(c))

BudgetInv == \A c \in Updates : Budget(c)

(* Counting.  A set that grows by at most x is paid for by a new reporter; a    *)
(* reporter who leaves is paid for by one more error in the channel.           *)
LEMMA OneMoreReporter ==
  ASSUME NEW L, NEW M, NEW x, NEW R, NEW w, NEW n \in Nat, IsFiniteSet(L), IsFiniteSet(R),
         M \subseteq L \cup {x}, w \notin R, Cardinality(L) <= n + Cardinality(R)
  PROVE  Cardinality(M) <= n + Cardinality(R \cup {w})
  <1>0. Cardinality(L) \in Nat /\ Cardinality(R) \in Nat
    BY FS_CardinalityType
  <1>1. IsFiniteSet(L \cup {x}) /\ Cardinality(L \cup {x}) <= Cardinality(L) + 1
    <2>1. /\ IsFiniteSet(L \cup {x})
          /\ Cardinality(L \cup {x}) = IF x \in L THEN Cardinality(L) ELSE Cardinality(L) + 1
      BY FS_AddElement, Zenon
    <2> QED BY <1>0, <2>1
  <1>2. Cardinality(M) \in Nat /\ Cardinality(M) <= Cardinality(L \cup {x})
    BY <1>1, FS_Subset, FS_CardinalityType
  <1>3. Cardinality(R \cup {w}) = Cardinality(R) + 1
    BY FS_AddElement
  <1>4. Cardinality(L \cup {x}) \in Nat
    BY <1>1, FS_CardinalityType
  <1> QED BY <1>0, <1>1, <1>2, <1>3, <1>4

LEMMA OneReporterLess ==
  ASSUME NEW L, NEW M, NEW R, NEW w, NEW n \in Nat, IsFiniteSet(L), IsFiniteSet(R),
         M \subseteq L, w \in R, Cardinality(L) <= n + Cardinality(R)
  PROVE  Cardinality(M) <= n + 1 + Cardinality(R \ {w})
  <1>1. /\ Cardinality(L) \in Nat /\ Cardinality(M) \in Nat /\ Cardinality(R) \in Nat
        /\ Cardinality(M) <= Cardinality(L)
    BY FS_Subset, FS_CardinalityType
  <1>2. Cardinality(R \ {w}) = Cardinality(R) - 1
    BY FS_RemoveElement
  <1> QED BY <1>1, <1>2

LEMMA FiniteBooks ==
  ASSUME TypeInv, NEW c \in Updates
  PROVE  /\ IsFiniteSet(Lost(c)) /\ Cardinality(Lost(c)) \in Nat
         /\ IsFiniteSet(Reporters(c)) /\ Cardinality(Reporters(c)) \in Nat
         /\ Len(errCh[c]) \in Nat
  <1>1. last[c] \in Int /\ errCh[c] \in Seq(WorkerError)
    BY ComicAssumption DEF TypeInv, TypeOK
  <1>2. IsFiniteSet(1..last[c])
    BY <1>1, FS_Interval
  <1>3. IsFiniteSet(Lost(c))
    BY <1>2, FS_Subset DEF Lost
  <1>4. IsFiniteSet(Reporters(c))
    BY WorkersAssumption, FS_Subset DEF Reporters
  <1> QED BY <1>1, <1>3, <1>4, FS_CardinalityType

(* A step after which no more is lost and as many report keeps the budget.     *)
LEMMA BudgetKept ==
  ASSUME TypeInv, NEW c \in Updates, Budget(c),
         pc'[c] \in {"feed", "wait", "abort"} => pc[c] \in {"feed", "wait", "abort"},
         Lost(c)' \subseteq Lost(c), Reporters(c)' = Reporters(c), errCh'[c] = errCh[c]
  PROVE  Budget(c)'
  <1>1. Cardinality(Lost(c)') \in Nat /\ Cardinality(Lost(c)') <= Cardinality(Lost(c))
    BY FiniteBooks, FS_Subset, FS_CardinalityType
  <1> QED BY <1>1, FiniteBooks DEF Budget

LEMMA BudgetUntouched ==
  ASSUME TypeInv, NEW c \in Updates, Budget(c), comics' = comics,
         pc'[c] \in {"feed", "wait", "abort"} => pc[c] \in {"feed", "wait", "abort"},
         last'[c] = last[c], todo'[c] = todo[c], errCh'[c] = errCh[c], worker'[c] = worker[c]
  PROVE  Budget(c)'
  <1>1. Lost(c)' = Lost(c) /\ Reporters(c)' = Reporters(c)
    BY DEF Lost, Accounted, Reporters
  <1> QED BY <1>1, BudgetKept

LEMMA BudgetHandler ==
  ASSUME TypeInv, NEW c \in Updates, Budget(c), UpdateStep(c)
  PROVE  Budget(c)'
  <1>0. /\ c \in Calls /\ pc \in [Calls -> HandlerPC] /\ last \in [Updates -> 0..MaxComic]
        /\ todo \in [Updates -> SUBSET Comics]
        /\ worker \in [Updates -> [Workers -> Goroutines]]
    BY DEF Calls, TypeInv, TypeOK
  <1>1. CASE LastID(c) \/ JoinAborted(c) \/ Join(c)
    BY <1>0, <1>1 DEF LastID, JoinAborted, Join, Goto, Return, Budget
  <1>2. CASE FeedDone(c) \/ FeedAbort(c)
    BY <1>0, <1>2, BudgetUntouched DEF FeedDone, FeedAbort
  <1>3. CASE IDs(c)
    <2>1. CASE pc'[c] = "feed"
      <3>1. /\ todo'[c] = (1..last[c]) \ comics /\ UNCHANGED <<last, comics, errCh>>
            /\ \A w \in Workers : worker'[c][w] = Recv
        BY <1>0, <1>3, <2>1 DEF IDs, Return
      <3>2. Lost(c)' = {}
        BY <3>1 DEF Lost, Accounted
      <3>3. Reporters(c)' = {}
        BY <3>1 DEF Reporters, Recv, Goroutine, Reporting
      <3>4. Len(errCh'[c]) \in Nat
        BY <3>1, FiniteBooks
      <3> QED BY <3>2, <3>3, <3>4, FS_EmptySet DEF Budget
    <2>2. CASE pc'[c] # "feed"
      BY <1>0, <1>3, <2>2 DEF IDs, Goto, Return, Budget
    <2> QED BY <2>1, <2>2
  <1>4. ASSUME NEW w \in Workers, Handoff(c, w) PROVE Budget(c)'
    <2>1. PICK id \in todo[c] :
            /\ todo' = [todo EXCEPT ![c] = @ \ {id}]
            /\ worker' = [worker EXCEPT ![c][w] = Goroutine("check", id, "none")]
      BY <1>4 DEF Handoff
    <2>2. /\ todo'[c] = todo[c] \ {id}
          /\ worker'[c][w] = Goroutine("check", id, "none") /\ worker[c][w].at = "recv"
          /\ \A v \in Workers \ {w} : worker'[c][v] = worker[c][v]
          /\ UNCHANGED <<pc, last, errCh, comics>>
      BY <1>0, <1>4, <2>1 DEF Handoff
    <2> HIDE <2>1
    <2>3. \A j : Accounted(c, j) => Accounted(c, j)'
      BY <2>2 DEF Accounted, Goroutine, Busy
    <2>4. Lost(c)' \subseteq Lost(c)
      BY <2>2, <2>3 DEF Lost
    <2>5. Reporters(c)' = Reporters(c)
      BY <2>2 DEF Reporters, Goroutine, Reporting
    <2> QED BY <2>2, <2>4, <2>5, BudgetKept
  <1> QED BY <1>1, <1>2, <1>3, <1>4 DEF UpdateStep

LEMMA BudgetWorker ==
  ASSUME TypeInv, SectionInv, NEW c \in Updates, Budget(c), NEW w \in Workers, WorkerStep(c, w)
  PROVE  Budget(c)'
  <1>0. /\ errCh \in [Updates -> Seq(WorkerError)]
        /\ worker \in [Updates -> [Workers -> Goroutines]]
    BY DEF TypeInv, TypeOK
  <1>1. pc[c] \in {"feed", "wait", "abort"} /\ UNCHANGED <<pc, last, todo>> /\ comics \subseteq comics'
    BY <1>0 DEF WorkerStep, Drained, Check, Get, Norm, Add, SendError, callVars, Busy, Reporting,
         SectionInv, WorkersJoined
  <1>2. PICK g : Become(c, w, g)
    <2>1. CASE Drained(c, w) \/ Check(c, w) \/ SendError(c, w)
      BY <2>1 DEF Drained, Check, SendError
    <2>2. CASE Get(c, w) \/ Norm(c, w) \/ Add(c, w)
      BY <2>2 DEF Get, Norm, Add, Report
    <2> QED BY <2>1, <2>2 DEF WorkerStep
  <1>3. /\ worker'[c][w] = g
        /\ \A v \in Workers \ {w} : worker'[c][v] = worker[c][v]
    BY <1>0, <1>2 DEF Become
  <1>4. Budget(c) /\ pc'[c] = pc[c]
    BY <1>1
  <1>5. CASE SendError(c, w)
    <2>1. /\ errCh'[c] = Append(errCh[c], worker[c][w].err) /\ comics' = comics
          /\ worker[c][w].at \in Reporting /\ g \in {Off, Recv}
      BY <1>0, <1>3, <1>5 DEF SendError, Become
    <2>2. g.at \notin Busy \cup Reporting
      BY <2>1 DEF Off, Recv, Goroutine, Busy, Reporting
    <2>3. Len(errCh'[c]) = Len(errCh[c]) + 1
      BY <1>0, <2>1 DEF Goroutines
    <2>4. \A j : Accounted(c, j) => Accounted(c, j)'
      BY <1>1, <1>3, <2>1 DEF Accounted, Busy, Reporting
    <2>5. Lost(c)' \subseteq Lost(c)
      BY <1>1, <2>4 DEF Lost
    <2>6. Reporters(c)' = Reporters(c) \ {w} /\ w \in Reporters(c)
      BY <1>3, <2>1, <2>2 DEF Reporters
    <2>7. Cardinality(Lost(c)') <= Len(errCh[c]) + 1 + Cardinality(Reporters(c) \ {w})
      BY <1>1, <2>5, <2>6, FiniteBooks, OneReporterLess DEF Budget
    <2> QED BY <2>3, <2>6, <2>7 DEF Budget
  <1>6. CASE ~SendError(c, w)
    <2>1. /\ errCh' = errCh /\ worker[c][w].at \notin Reporting
          /\ \/ g.at \in Reporting
             \/ g.at \in Busy /\ g.id = worker[c][w].id
             \/ worker[c][w].at \in Busy => worker[c][w].id \in Absent \cup comics'
      BY <1>0, <1>3, <1>6 DEF WorkerStep, Drained, Check, Get, Norm, Add, Report, Become,
           Off, Recv, Goroutine, Busy, Reporting
    <2>2. CASE g.at \in Reporting
      <3>1. ASSUME NEW j, Accounted(c, j), j # worker[c][w].id PROVE Accounted(c, j)'
        BY <1>1, <1>3, <3>1 DEF Accounted
      <3>2. Lost(c)' \subseteq Lost(c) \cup {worker[c][w].id}
        BY <1>1, <3>1 DEF Lost
      <3>3. Reporters(c)' = Reporters(c) \cup {w} /\ w \notin Reporters(c)
        BY <1>3, <2>1, <2>2 DEF Reporters
      <3>4. Cardinality(Lost(c)') <= Len(errCh[c]) + Cardinality(Reporters(c) \cup {w})
        <4>1. Cardinality(Lost(c)) <= Len(errCh[c]) + Cardinality(Reporters(c))
          BY <1>1 DEF Budget
        <4> QED BY <3>2, <3>3, <4>1, FiniteBooks, OneMoreReporter
      <3> QED BY <2>1, <3>3, <3>4 DEF Budget
    <2>3. CASE g.at \notin Reporting
      <3>1. ASSUME NEW j, Accounted(c, j) PROVE Accounted(c, j)'
        BY <1>1, <1>3, <2>1, <2>3, <3>1 DEF Accounted
      <3>2. Lost(c)' \subseteq Lost(c)
        BY <1>1, <3>1 DEF Lost
      <3>3. Reporters(c)' = Reporters(c)
        BY <1>3, <2>1, <2>3 DEF Reporters
      <3> QED BY <1>1, <2>1, <3>2, <3>3, BudgetKept
    <2> QED BY <2>2, <2>3
  <1> QED BY <1>5, <1>6

LEMMA BudgetStep == TypeInv /\ SectionInv /\ BudgetInv /\ [Next]_vars => BudgetInv'
  <1> SUFFICES ASSUME TypeInv, SectionInv, BudgetInv, [Next]_vars, NEW d \in Updates
               PROVE  Budget(d)'
    BY DEF BudgetInv
  <1>0. /\ Updates \subseteq Calls /\ Drops \subseteq Calls /\ Updates \cap Drops = {}
        /\ pc \in [Calls -> HandlerPC] /\ last \in [Updates -> 0..MaxComic]
        /\ todo \in [Updates -> SUBSET Comics] /\ errCh \in [Updates -> Seq(WorkerError)]
        /\ worker \in [Updates -> [Workers -> Goroutines]] /\ Budget(d)
    BY CallsAssumption DEF Calls, TypeInv, TypeOK, BudgetInv
  (* While another call is in its section, d is not in its loop. *)
  <1>1. ASSUME NEW c \in Calls, InSection(c), c # d, pc'[d] = pc[d] PROVE Budget(d)'
    BY <1>0, <1>1 DEF SectionInv, Exclusion, InSection, Budget
  <1>2. ASSUME NEW c \in Calls, Start(c) \/ Release(c) \/ Publish(c) \/ Cancel(c) PROVE Budget(d)'
    <2>1. CASE Release(c)
      BY <1>0, <1>1, <2>1 DEF Release, Forget, InSection, Budget
    <2>2. CASE Start(c) \/ Publish(c) \/ Cancel(c)
      BY <1>0, <2>2, BudgetUntouched DEF Start, Publish, Cancel, Goto, Return, callVars
    <2> QED BY <1>2, <2>1, <2>2
  <1>3. ASSUME NEW c \in Updates, UpdateStep(c) PROVE Budget(d)'
    <2>1. InSection(c) /\ (c # d => pc'[d] = pc[d])
      BY <1>0, <1>3 DEF UpdateStep, LastID, IDs, Handoff, FeedDone, FeedAbort, JoinAborted, Join,
           Goto, Return, InSection
    <2> QED BY <1>0, <1>1, <1>3, <2>1, BudgetHandler
  <1>4. ASSUME NEW c \in Drops, Truncate(c) PROVE Budget(d)'
    BY <1>0, <1>1, <1>4 DEF Truncate, Goto, Return, InSection
  <1>5. ASSUME NEW c \in Updates, NEW w \in Workers, WorkerStep(c, w) PROVE Budget(d)'
    <2>1. InSection(c) /\ pc' = pc
      BY <1>0, <1>5 DEF WorkerStep, Drained, Check, Get, Norm, Add, SendError, callVars, Busy, Reporting,
           SectionInv, WorkersJoined, InSection
    <2> QED BY <1>0, <1>1, <1>5, <2>1, BudgetWorker
  <1>6. CASE NewComic \/ UNCHANGED vars
    BY <1>0, <1>6, BudgetUntouched DEF NewComic, vars, callVars
  <1>7. CASE Crash
    BY <1>0, <1>7 DEF Crash, Forget, InSection, Budget
  <1> QED BY <1>2, <1>3, <1>4, <1>5, <1>6, <1>7 DEF Next, HandlerStep, Finished

(* The other way round: errors sent, workers with an id or an error in hand and *)
(* ids yet to be sent.                                                          *)
Supply(c) ==
  pc[c] \in {"feed", "wait", "abort"} =>
    Len(errCh[c]) + Cardinality(Laden(c)) + Cardinality(todo[c]) <= last[c]

SupplyInv == \A c \in Updates : Supply(c)

LEMMA FiniteSupply ==
  ASSUME TypeInv, NEW c \in Updates
  PROVE  /\ IsFiniteSet(Laden(c)) /\ Cardinality(Laden(c)) \in Nat
         /\ IsFiniteSet(todo[c]) /\ Cardinality(todo[c]) \in Nat
         /\ Len(errCh[c]) \in Nat /\ last[c] \in Nat
  <1>1. IsFiniteSet(Comics)
    BY ComicAssumption, FS_Interval DEF Comics
  <1>2. todo[c] \subseteq Comics /\ errCh[c] \in Seq(WorkerError) /\ last[c] \in Nat
    BY ComicAssumption DEF TypeInv, TypeOK
  <1>3. IsFiniteSet(todo[c])
    BY <1>1, <1>2, FS_Subset
  <1>4. IsFiniteSet(Laden(c))
    BY WorkersAssumption, FS_Subset DEF Laden
  <1> QED BY <1>2, <1>3, <1>4, FS_CardinalityType

LEMMA SupplyUntouched ==
  ASSUME NEW c \in Updates, Supply(c),
         pc'[c] \in {"feed", "wait", "abort"} => pc[c] \in {"feed", "wait", "abort"},
         last'[c] = last[c], todo'[c] = todo[c], errCh'[c] = errCh[c], worker'[c] = worker[c]
  PROVE  Supply(c)'
  <1>1. Laden(c)' = Laden(c)
    BY DEF Laden
  <1> QED BY <1>1 DEF Supply

LEMMA SupplyHandler ==
  ASSUME TypeInv, NEW c \in Updates, OwnBooks(c), Supply(c), UpdateStep(c)
  PROVE  Supply(c)'
  <1>0. /\ c \in Calls /\ pc \in [Calls -> HandlerPC] /\ last \in [Updates -> 0..MaxComic]
        /\ todo \in [Updates -> SUBSET Comics]
        /\ worker \in [Updates -> [Workers -> Goroutines]]
    BY DEF Calls, TypeInv, TypeOK
  <1>1. CASE LastID(c) \/ JoinAborted(c) \/ Join(c)
    BY <1>0, <1>1 DEF LastID, JoinAborted, Join, Goto, Return, Supply
  <1>2. CASE FeedDone(c) \/ FeedAbort(c)
    BY <1>0, <1>2, SupplyUntouched DEF FeedDone, FeedAbort
  <1>3. CASE IDs(c)
    <2>1. CASE pc'[c] = "feed"
      <3>1. /\ todo'[c] = (1..last[c]) \ comics /\ UNCHANGED <<last, errCh>> /\ pc[c] = "ids"
            /\ \A w \in Workers : worker'[c][w] = Recv
        BY <1>0, <1>3, <2>1 DEF IDs, Return
      <3>2. Laden(c)' = {} /\ errCh'[c] = <<>>
        BY <3>1 DEF Laden, Recv, Goroutine, Busy, Reporting, OwnBooks, LoopInv
      <3>3. Cardinality(todo'[c]) <= last[c]
        <4>1. last[c] \in Nat
          BY FiniteSupply
        <4>2. IsFiniteSet(1..last[c]) /\ Cardinality(1..last[c]) = last[c]
          <5>1. Cardinality(1..last[c]) = IF 1 > last[c] THEN 0 ELSE last[c] - 1 + 1
            BY <4>1, FS_Interval
          <5>2. IsFiniteSet(1..last[c])
            BY <4>1, FS_Interval
          <5> QED BY <4>1, <5>1, <5>2
        <4>3. todo'[c] \subseteq 1..last[c]
          BY <3>1
        <4> QED BY <4>2, <4>3, FS_Subset
      <3>4. Cardinality(Laden(c)') = 0 /\ Len(errCh'[c]) = 0
        BY <3>2, FS_EmptySet
      <3>5. Cardinality(todo'[c]) \in Nat /\ last'[c] = last[c]
        <4>1. IsFiniteSet(todo'[c])
          <5>1. last[c] \in Nat
            BY FiniteSupply
          <5>2. IsFiniteSet(1..last[c])
            BY <5>1, FS_Interval
          <5>3. todo'[c] \subseteq 1..last[c]
            BY <3>1
          <5> QED BY <5>2, <5>3, FS_Subset
        <4> QED BY <3>1, <4>1, FS_CardinalityType
      <3> QED BY <3>3, <3>4, <3>5 DEF Supply
    <2>2. CASE pc'[c] # "feed"
      BY <1>0, <1>3, <2>2 DEF IDs, Goto, Return, Supply
    <2> QED BY <2>1, <2>2
  <1>4. ASSUME NEW w \in Workers, Handoff(c, w) PROVE Supply(c)'
    <2>1. PICK id \in todo[c] :
            /\ todo' = [todo EXCEPT ![c] = @ \ {id}]
            /\ worker' = [worker EXCEPT ![c][w] = Goroutine("check", id, "none")]
      BY <1>4 DEF Handoff
    <2>2. /\ todo'[c] = todo[c] \ {id} /\ pc[c] = "feed"
          /\ worker'[c][w] = Goroutine("check", id, "none") /\ worker[c][w].at = "recv"
          /\ \A v \in Workers \ {w} : worker'[c][v] = worker[c][v]
          /\ UNCHANGED <<pc, last, errCh>>
      BY <1>0, <1>4, <2>1 DEF Handoff
    <2> HIDE <2>1
    <2>3. Laden(c)' = Laden(c) \cup {w} /\ w \notin Laden(c)
      BY <2>2 DEF Laden, Goroutine, Busy, Reporting
    <2>4. Cardinality(Laden(c)') = Cardinality(Laden(c)) + 1
      BY <2>3, FiniteSupply, FS_AddElement
    <2>5. Cardinality(todo'[c]) = Cardinality(todo[c]) - 1
      BY <2>2, FiniteSupply, FS_RemoveElement
    <2> QED BY <2>2, <2>4, <2>5, FiniteSupply DEF Supply
  <1> QED BY <1>1, <1>2, <1>3, <1>4 DEF UpdateStep

LEMMA SupplyWorker ==
  ASSUME TypeInv, SectionInv, NEW c \in Updates, Supply(c), NEW w \in Workers, WorkerStep(c, w)
  PROVE  Supply(c)'
  <1>0. /\ errCh \in [Updates -> Seq(WorkerError)]
        /\ worker \in [Updates -> [Workers -> Goroutines]]
    BY DEF TypeInv, TypeOK
  <1>1. pc[c] \in {"feed", "wait", "abort"} /\ UNCHANGED <<pc, last, todo>>
    BY <1>0 DEF WorkerStep, Drained, Check, Get, Norm, Add, SendError, callVars, Busy, Reporting,
         SectionInv, WorkersJoined
  <1>2. PICK g : Become(c, w, g)
    <2>1. CASE Drained(c, w) \/ Check(c, w) \/ SendError(c, w)
      BY <2>1 DEF Drained, Check, SendError
    <2>2. CASE Get(c, w) \/ Norm(c, w) \/ Add(c, w)
      BY <2>2 DEF Get, Norm, Add, Report
    <2> QED BY <2>1, <2>2 DEF WorkerStep
  <1>3. /\ worker'[c][w] = g
        /\ \A v \in Workers \ {w} : worker'[c][v] = worker[c][v]
    BY <1>0, <1>2 DEF Become
  <1>4. Len(errCh[c]) + Cardinality(Laden(c)) + Cardinality(todo[c]) <= last[c]
    BY <1>1 DEF Supply
  <1>5. CASE SendError(c, w)
    <2>1. /\ errCh'[c] = Append(errCh[c], worker[c][w].err)
          /\ worker[c][w].at \in Reporting /\ g \in {Off, Recv}
      BY <1>0, <1>3, <1>5 DEF SendError, Become
    <2>2. g.at \notin Busy \cup Reporting
      BY <2>1 DEF Off, Recv, Goroutine, Busy, Reporting
    <2>3. Len(errCh'[c]) = Len(errCh[c]) + 1
      BY <1>0, <2>1 DEF Goroutines
    <2>4. Laden(c)' = Laden(c) \ {w} /\ w \in Laden(c)
      BY <1>3, <2>1, <2>2 DEF Laden
    <2>5. Cardinality(Laden(c)') = Cardinality(Laden(c)) - 1
      BY <2>4, FiniteSupply, FS_RemoveElement
    <2> QED BY <1>1, <1>4, <2>3, <2>5, FiniteSupply DEF Supply
  <1>6. CASE ~SendError(c, w)
    <2>1. /\ errCh' = errCh
          /\ g.at \in Busy \cup Reporting => worker[c][w].at \in Busy
      BY <1>0, <1>3, <1>6 DEF WorkerStep, Drained, Check, Get, Norm, Add, Report, Become,
           Off, Recv, Goroutine, Busy, Reporting
    <2>2. Laden(c)' \subseteq Laden(c)
      BY <1>3, <2>1 DEF Laden
    <2>3. Cardinality(Laden(c)') <= Cardinality(Laden(c)) /\ Cardinality(Laden(c)') \in Nat
      BY <2>2, FiniteSupply, FS_Subset, FS_CardinalityType
    <2>4. errCh'[c] = errCh[c] /\ todo'[c] = todo[c] /\ last'[c] = last[c]
      BY <1>1, <2>1
    <2>5. Len(errCh[c]) \in Nat /\ Cardinality(Laden(c)) \in Nat /\ Cardinality(todo[c]) \in Nat
          /\ last[c] \in Nat
      BY FiniteSupply
    <2>6. Len(errCh[c]) + Cardinality(Laden(c)') + Cardinality(todo[c]) <= last[c]
      BY <1>4, <2>3, <2>5
    <2> QED BY <2>4, <2>6 DEF Supply
  <1> QED BY <1>5, <1>6

LEMMA SupplyStep == IInv /\ SupplyInv /\ [Next]_vars => SupplyInv'
  <1> SUFFICES ASSUME IInv, SupplyInv, [Next]_vars, NEW d \in Updates
               PROVE  Supply(d)'
    BY DEF SupplyInv
  <1>0. /\ Updates \subseteq Calls /\ Drops \subseteq Calls /\ Updates \cap Drops = {}
        /\ pc \in [Calls -> HandlerPC] /\ last \in [Updates -> 0..MaxComic]
        /\ todo \in [Updates -> SUBSET Comics] /\ errCh \in [Updates -> Seq(WorkerError)]
        /\ worker \in [Updates -> [Workers -> Goroutines]] /\ Supply(d)
        /\ TypeInv /\ SectionInv /\ OwnBooks(d)
    BY CallsAssumption DEF Calls, IInv, TypeInv, TypeOK, LedgerInv, SupplyInv
  <1>1. ASSUME NEW c \in Calls, InSection(c), c # d, pc'[d] = pc[d] PROVE Supply(d)'
    BY <1>0, <1>1 DEF SectionInv, Exclusion, InSection, Supply
  <1>2. ASSUME NEW c \in Calls, Start(c) \/ Release(c) \/ Publish(c) \/ Cancel(c) PROVE Supply(d)'
    <2>1. CASE Release(c)
      BY <1>0, <1>1, <2>1 DEF Release, Forget, InSection, Supply
    <2>2. CASE Start(c) \/ Publish(c) \/ Cancel(c)
      BY <1>0, <2>2, SupplyUntouched DEF Start, Publish, Cancel, Goto, Return, callVars
    <2> QED BY <1>2, <2>1, <2>2
  <1>3. ASSUME NEW c \in Updates, UpdateStep(c) PROVE Supply(d)'
    <2>1. InSection(c) /\ (c # d => pc'[d] = pc[d])
      BY <1>0, <1>3 DEF UpdateStep, LastID, IDs, Handoff, FeedDone, FeedAbort, JoinAborted, Join,
           Goto, Return, InSection
    <2> QED BY <1>0, <1>1, <1>3, <2>1, SupplyHandler
  <1>4. ASSUME NEW c \in Drops, Truncate(c) PROVE Supply(d)'
    BY <1>0, <1>1, <1>4 DEF Truncate, Goto, Return, InSection
  <1>5. ASSUME NEW c \in Updates, NEW w \in Workers, WorkerStep(c, w) PROVE Supply(d)'
    <2>1. InSection(c) /\ pc' = pc
      BY <1>0, <1>5 DEF WorkerStep, Drained, Check, Get, Norm, Add, SendError, callVars, Busy, Reporting,
           SectionInv, WorkersJoined, InSection
    <2> QED BY <1>0, <1>1, <1>5, <2>1, SupplyWorker
  <1>6. CASE NewComic \/ UNCHANGED vars
    BY <1>0, <1>6, SupplyUntouched DEF NewComic, vars, callVars
  <1>7. CASE Crash
    BY <1>0, <1>7 DEF Crash, Forget, InSection, Supply
  <1> QED BY <1>2, <1>3, <1>4, <1>5, <1>6, <1>7 DEF Next, HandlerStep, Finished

(* A failure costs the one comic it is about, and a comic no more than one      *)
(* error: while an Update runs the comics nobody deals with any more never      *)
(* outnumber the errors in errCh and on their way to it, and these, with what   *)
(* workers hold and what is yet to be sent, never outnumber the comics.         *)
THEOREM OneErrorOneComic == Spec => []OneComicPerError
  <1>1. Init => BudgetInv /\ SupplyInv
    BY DEF Init, BudgetInv, Budget, SupplyInv, Supply, Calls
  <1>2. BudgetInv /\ SupplyInv => OneComicPerError
    BY DEF BudgetInv, Budget, Reporters, SupplyInv, Supply, OneComicPerError
  <1>3. IInv => TypeInv /\ SectionInv
    BY DEF IInv
  <1> QED BY <1>1, <1>2, <1>3, Inductive, BudgetStep, SupplyStep, PTL DEF Spec

--------------------------------------------------------------------------------
(* The safety side of two liveness questions. *)

(* What a call can do by itself while its workers run, written out as the       *)
(* guards of its actions.                                                       *)
CanMove(c) ==
  \/ pc[c] = "feed" /\ (todo[c] = {} \/ ctx[c] # "live" \/ \E w \in Workers : worker[c][w].at = "recv")
  \/ pc[c] \in {"wait", "abort"} /\ Alive(c) = {}
  \/ \E w \in Workers :
       \/ worker[c][w].at \in Busy
       \/ worker[c][w].at = "recv" /\ pc[c] # "feed"
       \/ worker[c][w].at \in Reporting /\ Len(errCh[c]) < Concurrency

(* An Update can be stuck only with more errors than errCh holds.              *)
StuckMeansFull ==
  \A c \in Updates :
    pc[c] \in {"feed", "wait", "abort"} /\ ~CanMove(c) =>
      Len(errCh[c]) + Cardinality(Reporters(c)) > Concurrency

(* No worker returns while a live call still feeds it. *)
Staffed(c) ==
  pc[c] = "feed" /\ ctx[c] = "live" =>
    \A w \in Workers : worker[c][w].at \notin {"off", "stop"}

StaffedInv == \A c \in Updates : Staffed(c)

LEMMA StaffedStep == TypeInv /\ SectionInv /\ StaffedInv /\ [Next]_vars => StaffedInv'
  <1> SUFFICES ASSUME TypeInv, SectionInv, StaffedInv, [Next]_vars, NEW d \in Updates
               PROVE  Staffed(d)'
    BY DEF StaffedInv
  <1>0. /\ Updates \subseteq Calls /\ Drops \subseteq Calls /\ Updates \cap Drops = {}
        /\ pc \in [Calls -> HandlerPC] /\ ctx \in [Calls -> CtxError \cup {"live"}]
        /\ worker \in [Updates -> [Workers -> Goroutines]] /\ Staffed(d)
    BY CallsAssumption DEF Calls, TypeInv, TypeOK, StaffedInv
  <1>1. ASSUME NEW c \in Calls, Start(c) \/ Release(c) \/ Publish(c) \/ Cancel(c) PROVE Staffed(d)'
    BY <1>0, <1>1 DEF Start, Release, Forget, Publish, Cancel, CtxError, Goto, Return, callVars, Staffed
  <1>2. ASSUME NEW c \in Updates, UpdateStep(c) PROVE Staffed(d)'
    <2>1. CASE IDs(c)
      <3>1. CASE d = c /\ pc'[c] = "feed"
        <4>1. \A w \in Workers : worker'[c][w] = Recv
          BY <1>0, <2>1, <3>1 DEF IDs, Return
        <4> QED BY <3>1, <4>1 DEF Staffed, Recv, Goroutine
      <3>2. CASE d = c /\ pc'[c] # "feed"
        BY <3>2 DEF Staffed
      <3>3. CASE d # c
        BY <1>0, <2>1, <3>3 DEF IDs, Goto, Return, Staffed
      <3> QED BY <3>1, <3>2, <3>3
    <2>2. ASSUME NEW w \in Workers, Handoff(c, w) PROVE Staffed(d)'
      <3>1. /\ UNCHANGED <<pc, ctx>>
            /\ \A v \in Workers : worker'[d][v] = worker[d][v] \/ worker'[d][v].at = "check"
        BY <1>0, <2>2 DEF Handoff, Goroutine
      <3> QED BY <1>0, <3>1 DEF Staffed
    <2>3. CASE LastID(c) \/ FeedDone(c) \/ FeedAbort(c) \/ JoinAborted(c) \/ Join(c)
      BY <1>0, <2>3 DEF LastID, FeedDone, FeedAbort, JoinAborted, Join, Goto, Return, Staffed
    <2> QED BY <1>2, <2>1, <2>2, <2>3 DEF UpdateStep
  <1>3. ASSUME NEW c \in Drops, Truncate(c) PROVE Staffed(d)'
    BY <1>0, <1>3 DEF Truncate, Goto, Return, Staffed
  <1>4. ASSUME NEW c \in Updates, NEW w \in Workers, WorkerStep(c, w) PROVE Staffed(d)'
    <2>1. UNCHANGED <<pc, ctx>>
      BY <1>4 DEF WorkerStep, Drained, Check, Get, Norm, Add, SendError, callVars
    <2>2. PICK g : /\ Become(c, w, g)
                   /\ g.at \in {"off", "stop"} =>
                        pc[c] # "feed" \/ ctx[c] # "live" \/ worker[c][w].at = "stop"
      <3>1. CASE Drained(c, w)
        BY <3>1 DEF Drained
      <3>2. CASE Check(c, w)
        <4>1. CASE ctx[c] = "live"
          BY <3>2, <4>1 DEF Check, Goroutine
        <4>2. CASE ctx[c] # "live"
          BY <3>2, <4>2 DEF Check
        <4> QED BY <4>1, <4>2
      <3>3. CASE SendError(c, w)
        <4>1. CASE worker[c][w].at = "stop"
          BY <3>3, <4>1 DEF SendError
        <4>2. CASE worker[c][w].at # "stop"
          BY <3>3, <4>2 DEF SendError, Recv, Goroutine
        <4> QED BY <4>1, <4>2
      <3>4. CASE Get(c, w)
        BY <3>4 DEF Get, Report, Goroutine, Recv
      <3>5. CASE Norm(c, w)
        BY <3>5 DEF Norm, Report, Goroutine
      <3>6. CASE Add(c, w)
        <4>1. Become(c, w, Recv) \/ \E e : Become(c, w, Goroutine("report", 0, e))
          BY <3>6 DEF Add, Report
        <4>2. /\ Recv.at \notin {"off", "stop"}
              /\ \A e : Goroutine("report", 0, e).at \notin {"off", "stop"}
          BY DEF Recv, Goroutine
        <4> QED BY <4>1, <4>2
      <3> QED BY <1>4, <3>1, <3>2, <3>3, <3>4, <3>5, <3>6 DEF WorkerStep
    <2>3. /\ worker'[c][w] = g
          /\ \A v \in Workers \ {w} : worker'[c][v] = worker[c][v]
          /\ d # c => worker'[d] = worker[d]
      BY <1>0, <2>2 DEF Become
    <2> QED BY <1>0, <2>1, <2>2, <2>3 DEF Staffed
  <1>5. CASE NewComic \/ UNCHANGED vars
    BY <1>0, <1>5 DEF NewComic, vars, callVars, Staffed
  <1>6. CASE Crash
    BY <1>0, <1>6 DEF Crash, Forget, InSection, Staffed
  <1> QED BY <1>1, <1>2, <1>3, <1>4, <1>5, <1>6 DEF Next, HandlerStep, Finished

(* An Update that can do nothing any more while its workers run has more errors *)
(* on its hands than errCh has room for: this is the only way for it to hang.  *)
THEOREM HangsOnlyWhenFull == Spec => []StuckMeansFull
  <1>1. Init => StaffedInv
    BY DEF Init, StaffedInv, Staffed, Calls
  <1>2. TypeInv /\ StaffedInv => StuckMeansFull
    <2> SUFFICES ASSUME TypeInv, StaffedInv, NEW c \in Updates,
                        pc[c] \in {"feed", "wait", "abort"}, ~CanMove(c)
                 PROVE  Len(errCh[c]) + Cardinality(Reporters(c)) > Concurrency
      BY DEF StuckMeansFull
    <2>1. \A w \in Workers : worker[c][w].at \in Busy \cup Reporting \cup {"off", "recv"}
      BY DEF TypeInv, TypeOK, WorkerPC
    <2>2. \E w \in Workers : worker[c][w].at \notin {"off", "recv"} \cup Busy
      <3>1. CASE pc[c] = "feed"
        BY <2>1, <3>1, WorkersAssumption DEF CanMove, StaffedInv, Staffed
      <3>2. CASE pc[c] \in {"wait", "abort"}
        BY <2>1, <3>2 DEF CanMove, Alive
      <3> QED BY <3>1, <3>2
    <2>3. PICK w \in Workers : worker[c][w].at \in Reporting
      BY <2>1, <2>2
    <2>4. ~(Len(errCh[c]) < Concurrency)
      BY <2>3 DEF CanMove
    <2>5. Cardinality(Reporters(c)) # 0
      BY <2>3, FiniteBooks, FS_EmptySet DEF Reporters
    <2> QED BY <2>4, <2>5, FiniteBooks, ConcurrencyType
  <1> QED BY <1>1, <1>2, TypeInit, TypeStep, SectionInit, SectionStep, StaffedStep, PTL DEF Spec

(* Where no service fails and no caller goes away: no error comes up anywhere.  *)
HealthyInv ==
  /\ \A c \in Calls : ctx[c] = "live" /\ reply[c] \in {"none", "ok"}
  /\ \A c \in Updates : errCh[c] = <<>> /\ \A w \in Workers : worker[c][w].at \notin Reporting

NoCallFails == \A c \in Calls : reply[c] \in {"none", "ok"}

LEMMA HealthyStep ==
  ASSUME Hazards \subseteq {"crash"}
  PROVE  IInv /\ HealthyInv /\ [Next]_vars => HealthyInv'
  <1> SUFFICES ASSUME IInv, HealthyInv, [Next]_vars PROVE HealthyInv'
    OBVIOUS
  <1>0. /\ Updates \subseteq Calls /\ Drops \subseteq Calls
        /\ pc \in [Calls -> HandlerPC] /\ ctx \in [Calls -> CtxError \cup {"live"}]
        /\ reply \in [Calls -> Reply] /\ errCh \in [Updates -> Seq(WorkerError)]
        /\ worker \in [Updates -> [Workers -> Goroutines]]
        /\ \A c \in Calls : ctx[c] = "live" /\ ~CanFail(c)
    BY DEF Calls, IInv, TypeInv, TypeOK, HealthyInv, CanFail
  <1>1. ASSUME NEW c \in Calls, Start(c) \/ Release(c) \/ Publish(c) PROVE HealthyInv'
    BY <1>0, <1>1 DEF Start, Release, Forget, Publish, Goto, Return, HealthyInv
  <1>2. ASSUME NEW c \in Calls, Cancel(c) PROVE FALSE
    BY <1>2 DEF Cancel, CtxError
  <1>3. ASSUME NEW c \in Updates, UpdateStep(c) PROVE HealthyInv'
    <2>1. CASE LastID(c) \/ FeedDone(c)
      BY <1>0, <2>1 DEF LastID, FeedDone, Goto, HealthyInv
    <2>2. CASE IDs(c)
      <3>1. /\ UNCHANGED <<ctx, reply, errCh>>
            /\ worker' = [worker EXCEPT ![c] = [w \in Workers |-> Recv]]
        BY <1>0, <2>2 DEF IDs, Goto
      <3> QED BY <1>0, <3>1 DEF HealthyInv, Recv, Goroutine, Reporting
    <2>3. ASSUME NEW w \in Workers, Handoff(c, w) PROVE HealthyInv'
      <3>1. /\ UNCHANGED <<ctx, reply, errCh>>
            /\ \A d \in Updates, v \in Workers :
                 worker'[d][v] = worker[d][v] \/ worker'[d][v].at = "check"
        BY <1>0, <2>3 DEF Handoff, Goroutine
      <3> QED BY <3>1 DEF HealthyInv, Reporting
    <2>4. ~FeedAbort(c)
      BY <1>0 DEF FeedAbort
    <2>5. ~JoinAborted(c)
      BY <1>0 DEF JoinAborted, IInv, TypeInv
    <2>6. CASE Join(c)
      <3>1. errCh[c] = <<>>
        BY DEF HealthyInv
      <3>2. Goto(c, "publish")
        BY <2>6, <3>1 DEF Join
      <3> QED BY <2>6, <3>2 DEF Join, Goto, HealthyInv
    <2> QED BY <1>3, <2>1, <2>2, <2>3, <2>4, <2>5, <2>6 DEF UpdateStep
  <1>4. ASSUME NEW c \in Drops, Truncate(c) PROVE HealthyInv'
    BY <1>0, <1>4 DEF Truncate, Goto, HealthyInv
  <1>5. ASSUME NEW c \in Updates, NEW w \in Workers, WorkerStep(c, w) PROVE HealthyInv'
    <2>1. worker[c][w].at = "add" => worker[c][w].id \notin comics
      BY DEF IInv, LedgerInv, FreshIds, Busy
    <2>2. worker[c][w].at \notin Reporting
      BY DEF HealthyInv
    <2>3. \E g : Become(c, w, g) /\ g.at \notin Reporting
      <3>1. CASE Drained(c, w)
        BY <3>1 DEF Drained, Off, Goroutine, Reporting
      <3>2. CASE Check(c, w)
        <4>1. ctx[c] = "live"
          BY <1>0
        <4> QED BY <3>2, <4>1 DEF Check, Goroutine, Reporting
      <3>3. CASE Get(c, w)
        <4>1. Become(c, w, Recv) \/ Become(c, w, Goroutine("norm", worker[c][w].id, "none"))
          BY <1>0, <3>3 DEF Get
        <4>2. Recv.at \notin Reporting /\ \A id : Goroutine("norm", id, "none").at \notin Reporting
          BY DEF Recv, Goroutine, Reporting
        <4> QED BY <4>1, <4>2
      <3>4. CASE Norm(c, w)
        BY <1>0, <3>4 DEF Norm, Goroutine, Reporting
      <3>5. CASE Add(c, w)
        BY <1>0, <2>1, <3>5 DEF Add, Recv, Goroutine, Reporting
      <3> QED BY <1>5, <2>2, <3>1, <3>2, <3>3, <3>4, <3>5 DEF WorkerStep, SendError
    <2>4. UNCHANGED <<ctx, reply, errCh>>
      BY <1>5, <2>2 DEF WorkerStep, Drained, Check, Get, Norm, Add, SendError, callVars
    <2> QED BY <1>0, <2>3, <2>4 DEF Become, HealthyInv
  <1>6. CASE NewComic \/ UNCHANGED vars
    BY <1>6 DEF NewComic, vars, callVars, HealthyInv
  <1>7. CASE Crash
    BY <1>0, <1>7 DEF Crash, Forget, HealthyInv, Off, Goroutine, Reporting
  <1> QED BY <1>1, <1>2, <1>3, <1>4, <1>5, <1>6, <1>7 DEF Next, HandlerStep, Finished

(* Where no service fails and no caller goes away, no accepted Update or Drop   *)
(* returns an error, however many comics are missing, whatever other calls do   *)
(* and even if the process is restarted in between.                             *)
THEOREM HealthyCallsSucceed ==
  ASSUME Hazards \subseteq {"crash"}
  PROVE  Spec => []NoCallFails
  <1>1. Init => HealthyInv
    BY DEF Init, HealthyInv, Calls, Off, Goroutine, Reporting
  <1>2. HealthyInv => NoCallFails
    BY DEF HealthyInv, NoCallFails
  <1>3. IInv /\ HealthyInv /\ [Next]_vars => HealthyInv'
    BY HealthyStep
  <1> QED BY <1>1, <1>2, <1>3, Inductive, PTL DEF Spec

(* ... and none of them is ever stuck: together with the last theorem, what is  *)
(* left for termination is that the goroutines are scheduled.                   *)
NeverStuck ==
  \A c \in Updates : pc[c] \in {"feed", "wait", "abort"} => CanMove(c)

THEOREM HealthyNeverStuck ==
  ASSUME Hazards \subseteq {"crash"}
  PROVE  Spec => []NeverStuck
  <1>1. Init => HealthyInv
    BY DEF Init, HealthyInv, Calls, Off, Goroutine, Reporting
  <1>2. IInv /\ HealthyInv /\ [Next]_vars => HealthyInv'
    BY HealthyStep
  <1>3. HealthyInv /\ StuckMeansFull => NeverStuck
    <2> SUFFICES ASSUME HealthyInv, StuckMeansFull, NEW c \in Updates,
                        pc[c] \in {"feed", "wait", "abort"}, ~CanMove(c)
                 PROVE  FALSE
      BY DEF NeverStuck
    <2>1. Len(errCh[c]) = 0
      BY DEF HealthyInv
    <2>2. Reporters(c) = {}
      BY DEF HealthyInv, Reporters
    <2>3. Cardinality(Reporters(c)) = 0
      BY <2>2, FS_EmptySet
    <2> QED BY <2>1, <2>3, ConcurrencyType DEF StuckMeansFull
  <1> QED BY <1>1, <1>2, <1>3, Inductive, HangsOnlyWhenFull, PTL DEF Spec

--------------------------------------------------------------------------------
(* The refinement of Catalogue. *)

(* The steps of the abstract specification, as the mapping sees them. *)
AbstractStep == [Abstract!CatalogueNext]_(Abstract!catalogueVars)

LEMMA RefinedInit == Init => Abstract!CatalogueInit
  <1> SUFFICES ASSUME Init PROVE Abstract!CatalogueInit
    OBVIOUS
  <1>1. \A c \in Calls : pc[c] = "new"
    BY DEF Init
  <1>2. Holder = {}
    BY <1>1 DEF Holder, InSection
  <1>3. Goal = [c \in Updates \cup Drops |-> -1]
    BY <1>1 DEF Goal, GoalOf, Calls
  <1> QED BY <1>2, <1>3 DEF Init, Abstract!CatalogueInit, Abstract!NoGoal

(* A step that moves no call into or out of its section keeps the holder; one   *)
(* that moves only c, within its section, changes at most the goal of c.        *)
LEMMA HolderKept ==
  ASSUME \A d \in Calls : InSection(d)' <=> InSection(d)
  PROVE  Holder' = Holder
  BY DEF Holder

LEMMA GoalKept ==
  ASSUME \A d \in Calls : GoalOf(d)' = GoalOf(d)
  PROVE  Goal' = Goal
  BY DEF Goal

LEMMA GoalMoved ==
  ASSUME NEW c \in Calls, \A d \in Calls \ {c} : GoalOf(d)' = GoalOf(d)
  PROVE  Goal' = [Goal EXCEPT ![c] = GoalOf(c)']
  BY DEF Goal

(* The handler of an accepted call moves, possibly giving its goal up. *)
LEMMA KeepOrGiveUp ==
  ASSUME IInv, NEW c \in Calls, InSection(c), InSection(c)',
         \A d \in Calls \ {c} : pc'[d] = pc[d] /\ (d \in Updates => last'[d] = last[d]),
         GoalOf(c)' \in {GoalOf(c), -2}, UNCHANGED <<comics, latest, events>>
  PROVE  AbstractStep
  <1>1. Holder' = Holder /\ c \in Holder
    BY DEF Holder, InSection
  <1>2. Goal' = [Goal EXCEPT ![c] = GoalOf(c)']
    BY GoalMoved DEF GoalOf
  <1>3. CASE GoalOf(c)' = GoalOf(c)
    <2>1. Goal' = Goal
      BY <1>2, <1>3 DEF Goal
    <2> QED BY <1>1, <2>1 DEF AbstractStep, Abstract!catalogueVars
  <1>4. CASE GoalOf(c)' = -2
    <2>1. Abstract!GiveUp(c)
      BY <1>1, <1>2, <1>4 DEF Abstract!GiveUp, Abstract!Told
    <2> QED BY <2>1 DEF AbstractStep, Abstract!CatalogueNext, Calls
  <1> QED BY <1>3, <1>4

LEMMA RefinedWorker ==
  ASSUME IInv, NEW c \in Updates, NEW w \in Workers, WorkerStep(c, w)
  PROVE  AbstractStep
  <1>1. UNCHANGED <<pc, last, latest, events>>
    BY DEF WorkerStep, Drained, Check, Get, Norm, Add, SendError, callVars
  <1>2. Holder' = Holder /\ Goal' = Goal
    BY <1>1 DEF Holder, InSection, Goal, GoalOf
  <1>3. CASE comics' = comics
    BY <1>1, <1>2, <1>3 DEF AbstractStep, Abstract!catalogueVars
  <1>4. CASE comics' # comics
    <2> DEFINE id == worker[c][w].id
    <2>1. worker[c][w].at = "add" /\ comics' = comics \cup {id}
      BY <1>4 DEF WorkerStep, Drained, Check, Get, Norm, Add, SendError
    <2>2. c \in Holder
      BY <2>1 DEF IInv, SectionInv, WorkersJoined, Holder, InSection, Calls
    <2>3. OwnBooks(c) /\ FreshIds(c) /\ latest \in 0..MaxComic /\ last[c] \in 0..MaxComic
      BY DEF IInv, LedgerInv, TypeInv, TypeOK
    <2>4. id \in (1..last[c]) \ (comics \cup Absent) /\ last[c] <= latest
      BY <2>1, <2>3 DEF OwnBooks, LoopInv, DistinctIds, FreshIds, Busy
    <2>5. id \in (1..latest) \ (comics \cup Absent) /\ id \in 1..MaxComic
      BY <2>3, <2>4, ComicAssumption
    <2>6. Goal[c] = last[c]
      <3>1. c \in Calls /\ pc[c] \in {"feed", "wait", "abort"}
        BY <2>1 DEF IInv, SectionInv, WorkersJoined, Calls
      <3> QED BY <3>1 DEF Goal, GoalOf
    <2>7. id <= Goal[c] /\ id \in Int
      BY <2>3, <2>4, <2>6
    <2>8. Abstract!Store(c, id)
      BY <1>1, <1>2, <2>1, <2>2, <2>5, <2>7 DEF Abstract!Store
    <2> QED BY <2>5, <2>8 DEF AbstractStep, Abstract!CatalogueNext
  <1> QED BY <1>3, <1>4

LEMMA RefinedStep == IInv /\ [Next]_vars => AbstractStep
  <1> SUFFICES ASSUME IInv, [Next]_vars PROVE AbstractStep
    OBVIOUS
  <1>0. /\ Updates \subseteq Calls /\ Drops \subseteq Calls /\ Updates \cap Drops = {}
        /\ pc \in [Calls -> HandlerPC] /\ last \in [Updates -> 0..MaxComic]
        /\ MaxComic \in Nat /\ Exclusion
    BY CallsAssumption, ComicAssumption DEF Calls, IInv, TypeInv, TypeOK, SectionInv
  <1>1. ASSUME NEW c \in Calls, Start(c) PROVE AbstractStep
    <2>1. \A d \in Calls : GoalOf(d)' = GoalOf(d)
      BY <1>0, <1>1 DEF Start, Goto, GoalOf
    <2>2. CASE status = "running"
      <3>1. \A d \in Calls : InSection(d)' <=> InSection(d)
        BY <1>0, <1>1, <2>2 DEF Start, Goto, InSection
      <3> QED BY <1>1, <2>1, <3>1, HolderKept, GoalKept
              DEF Start, AbstractStep, Abstract!catalogueVars
    <2>3. CASE status = "idle"
      <3>1. Holder = {} /\ Holder' = {c}
        BY <1>0, <1>1, <2>3 DEF Start, Goto, InSection, Exclusion, Holder
      <3>2. Abstract!Begin(c)
        BY <1>1, <2>1, <3>1, GoalKept DEF Start, Abstract!Begin
      <3> QED BY <3>2 DEF AbstractStep, Abstract!CatalogueNext, Calls
    <2> QED BY <1>1, <2>2, <2>3 DEF Start
  <1>2. ASSUME NEW c \in Calls, Release(c) PROVE AbstractStep
    <2>1. Holder = {c} /\ Holder' = {}
      BY <1>0, <1>2 DEF Release, Forget, Holder, InSection, Exclusion
    <2>2. /\ \A d \in Calls \ {c} : GoalOf(d)' = GoalOf(d)
          /\ GoalOf(c)' = -1
      BY <1>0, <1>2 DEF Release, Forget, GoalOf
    <2>3. Abstract!End(c)
      BY <1>2, <2>1, <2>2, GoalMoved DEF Release, Abstract!End, Abstract!NoGoal
    <2> QED BY <2>3 DEF AbstractStep, Abstract!CatalogueNext, Calls
  <1>3. ASSUME NEW c \in Calls, Publish(c) PROVE AbstractStep
    <2>1. /\ InSection(c) /\ InSection(c)' /\ GoalOf(c)' = -2
          /\ \A d \in Calls \ {c} : pc'[d] = pc[d]
          /\ UNCHANGED <<comics, latest, last>>
      BY <1>0, <1>3 DEF Publish, Return, InSection, GoalOf
    <2>2. CASE events' = events
      BY <2>1, <2>2, KeepOrGiveUp
    <2>3. CASE events' # events
      <3>1. ctx[c] = "live" /\ pc[c] = "publish" /\ events' = Append(events, Subject(c))
        BY <1>3, <2>3 DEF Publish
      <3>2. Holder' = Holder /\ c \in Holder
        BY <2>1 DEF Holder, InSection
      <3>3. Goal' = [Goal EXCEPT ![c] = -2]
        BY <2>1, GoalMoved DEF GoalOf
      <3>4. Goal[c] = GoalOf(c) /\ GoalOf(c) \in Nat
        <4>1. Goal[c] = GoalOf(c)
          BY Zenon DEF Goal
        <4>2. CASE c \in Updates
          BY <1>0, <3>1, <4>1, <4>2 DEF GoalOf
        <4>3. CASE c \in Drops
          BY <1>0, <3>1, <4>1, <4>3 DEF GoalOf
        <4> QED BY <4>2, <4>3 DEF Calls
      <3>5. CASE c \in Updates
        <4>1. Goal[c] = last[c] /\ CompleteUpTo(last[c])
          BY <3>1, <3>4, <3>5 DEF GoalOf, IInv, LedgerInv, NothingLost, UpdateTold
        <4>2. Abstract!Announce(c)
          BY <2>1, <3>1, <3>2, <3>3, <3>4, <3>5, <4>1
             DEF Abstract!Announce, Abstract!Told, Subject, CompleteUpTo
        <4> QED BY <4>2 DEF AbstractStep, Abstract!CatalogueNext, Calls
      <3>6. CASE c \in Drops
        <4>1. comics = {} /\ c \notin Updates
          BY <1>0, <3>1, <3>6 DEF IInv, LedgerInv, DropTold
        <4>2. Abstract!Announce(c)
          BY <2>1, <3>1, <3>2, <3>3, <3>4, <3>6, <4>1 DEF Abstract!Announce, Abstract!Told, Subject
        <4> QED BY <4>2 DEF AbstractStep, Abstract!CatalogueNext, Calls
      <3> QED BY <3>5, <3>6 DEF Calls
    <2> QED BY <2>2, <2>3
  <1>4. ASSUME NEW c \in Updates, UpdateStep(c) PROVE AbstractStep
    <2>1. CASE LastID(c) /\ pc'[c] = "ids"
      <3>1. /\ c \in Calls /\ InSection(c) /\ InSection(c)' /\ GoalOf(c)' = latest
            /\ \A d \in Calls \ {c} : pc'[d] = pc[d] /\ (d \in Updates => last'[d] = last[d])
            /\ UNCHANGED <<comics, latest, events>>
        BY <1>0, <2>1 DEF LastID, Goto, Return, InSection, GoalOf
      <3>2. Holder' = Holder /\ c \in Holder
        BY <3>1 DEF Holder, InSection
      <3>3. Goal' = [Goal EXCEPT ![c] = latest]
        BY <3>1, GoalMoved DEF GoalOf
      <3>4. Goal[c] = -1
        BY <1>0, <2>1 DEF LastID, Goal, GoalOf
      <3>5. Abstract!Promise(c)
        BY <3>1, <3>2, <3>3, <3>4 DEF Abstract!Promise, Abstract!NoGoal
      <3> QED BY <3>5 DEF AbstractStep, Abstract!CatalogueNext
    <2>2. CASE ~(LastID(c) /\ pc'[c] = "ids")
      <3>1. /\ c \in Calls /\ InSection(c) /\ InSection(c)'
            /\ \A d \in Calls \ {c} : pc'[d] = pc[d]
        BY <1>0, <1>4 DEF UpdateStep, LastID, IDs, Handoff, FeedDone, FeedAbort, JoinAborted, Join,
             Goto, Return, InSection
      <3>2. UNCHANGED <<last, comics, latest, events>>
        BY <1>0, <1>4, <2>2 DEF UpdateStep, LastID, IDs, Handoff, FeedDone, FeedAbort, JoinAborted, Join, Goto
      <3>3. GoalOf(c)' \in {GoalOf(c), -2}
        BY <1>0, <1>4, <2>2, <3>2 DEF UpdateStep, LastID, IDs, Handoff, FeedDone, FeedAbort, JoinAborted,
             Join, Goto, Return, GoalOf
      <3> QED BY <3>1, <3>2, <3>3, KeepOrGiveUp
    <2> QED BY <2>1, <2>2
  <1>5. ASSUME NEW c \in Drops, Truncate(c) PROVE AbstractStep
    <2>1. /\ c \in Calls /\ c \notin Updates /\ InSection(c) /\ InSection(c)'
          /\ \A d \in Calls \ {c} : pc'[d] = pc[d]
          /\ UNCHANGED <<last, latest, events>>
          /\ GoalOf(c) = -1 /\ GoalOf(c)' \in {0, -2}
          /\ comics' = comics => GoalOf(c)' = -2 \/ comics' = {}
          /\ comics' \in {comics, {}}
      BY <1>0, <1>5 DEF Truncate, Goto, Return, InSection, GoalOf
    <2>2. Holder' = Holder /\ c \in Holder
      BY <2>1 DEF Holder, InSection
    <2>3. Goal' = [Goal EXCEPT ![c] = GoalOf(c)'] /\ Goal[c] = -1
      BY <2>1, GoalMoved DEF GoalOf, Goal
    <2>4. CASE comics' = {}
      <3>1. Abstract!Clear(c)
        BY <2>1, <2>2, <2>3, <2>4, <1>5 DEF Abstract!Clear, Abstract!Told, Abstract!NoGoal
      <3> QED BY <2>1, <3>1 DEF AbstractStep, Abstract!CatalogueNext, Calls
    <2>5. CASE comics' # {}
      <3>1. comics' = comics /\ GoalOf(c)' = -2
        BY <2>1, <2>5
      <3> QED BY <2>1, <3>1, KeepOrGiveUp
    <2> QED BY <2>4, <2>5
  <1>6. ASSUME NEW c \in Calls, Cancel(c) PROVE AbstractStep
    <2>1. UNCHANGED <<pc, last, comics, latest, events>>
      BY <1>6 DEF Cancel, callVars
    <2>2. Holder' = Holder /\ Goal' = Goal
      BY <2>1 DEF Holder, InSection, Goal, GoalOf
    <2> QED BY <2>1, <2>2 DEF AbstractStep, Abstract!catalogueVars
  <1>7. CASE UNCHANGED vars
    <2>1. Holder' = Holder /\ Goal' = Goal
      BY <1>7 DEF vars, callVars, Holder, InSection, Goal, GoalOf
    <2> QED BY <1>7, <2>1 DEF vars, AbstractStep, Abstract!catalogueVars
  <1>8. CASE NewComic
    <2>1. Holder' = Holder /\ Goal' = Goal
      BY <1>8 DEF NewComic, callVars, Holder, InSection, Goal, GoalOf
    <2>2. Abstract!PublishComic
      BY <1>8, <2>1 DEF NewComic, Abstract!PublishComic
    <2> QED BY <2>2 DEF AbstractStep, Abstract!CatalogueNext
  <1>9. CASE Crash
    <2>1. PICK c \in Calls : InSection(c)
      BY <1>9 DEF Crash
    <2>2. Holder = {c}
      BY <1>0, <2>1 DEF Holder, Exclusion
    <2>3. Holder' = {}
      BY <1>0, <1>9 DEF Crash, Forget, Holder, InSection
    <2>4. /\ \A d \in Calls \ {c} : ~InSection(d)
          /\ \A d \in Calls \ {c} : GoalOf(d)' = GoalOf(d)
          /\ GoalOf(c)' = -1
      BY <1>0, <1>9, <2>1 DEF Crash, Forget, Exclusion, InSection, GoalOf
    <2>5. Abstract!End(c)
      BY <1>9, <2>2, <2>3, <2>4, GoalMoved DEF Crash, Abstract!End, Abstract!NoGoal
    <2> QED BY <2>5 DEF AbstractStep, Abstract!CatalogueNext, Calls
  <1> QED
    BY <1>1, <1>2, <1>3, <1>4, <1>5, <1>6, <1>7, <1>8, <1>9, RefinedWorker
       DEF Next, HandlerStep, Finished

(* The service implements Catalogue: every step of a call, of a worker or of    *)
(* the environment is one of its steps or changes nothing it speaks of.         *)
THEOREM Refinement == Spec => ImplementsCatalogue
  <1> QED BY RefinedInit, RefinedStep, Inductive, PTL
          DEF Spec, AbstractStep, ImplementsCatalogue, Abstract!CatalogueSpec

================================================================================
