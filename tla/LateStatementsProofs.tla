---------------------------- MODULE LateStatementsProofs ----------------------------
(* Theorems about LateStatements, for every set of calls and of workers, every *)
(* number of comics and every combination of hazards.  The steps of the service *)
(* are those of UpdateService, so its lemmas about types, sections and the      *)
(* parts of the ledger are used again; new is what a statement does that lands. *)
EXTENDS LateStatements, UpdateServiceProofs

Surprises == {"insert", "truncate"}

LateTypeInv == late \subseteq [call : Calls, id : 0..MaxComic] /\ surprise \in [Calls -> SUBSET Surprises]

(* The parts of the ledger are owed only to calls that were not surprised by a  *)
(* statement that breaks them.                                                  *)
OwedToUpdate(c) ==
  /\ OwnBooks(c)
  /\ "insert" \notin surprise[c] => FreshIds(c)
  /\ "truncate" \notin surprise[c] => NothingLost(c)

OwedToDrop(d) == "insert" \notin surprise[d] => DropTold(d)

OwedInv == (\A c \in Updates : OwedToUpdate(c)) /\ (\A d \in Drops : OwedToDrop(d))

LateIInv == TypeInv /\ SectionInv /\ LateTypeInv /\ OwedInv

--------------------------------------------------------------------------------
(* A statement that is left behind leaves the rest of the service as UpdateService *)
(* does when the statement has not been applied: only Land is a new step.      *)
LEMMA BaseSteps ==
  ASSUME LateNext
  PROVE  (Next /\ surprise' = surprise) \/ Land
  <1>1. ASSUME NEW c \in Updates, NEW w \in Workers, LeaveAdd(c, w) PROVE Next
    <2>1. Add(c, w)
      BY <1>1 DEF LeaveAdd, Add
    <2> QED BY <2>1 DEF Next, WorkerStep
  <1>2. ASSUME NEW c \in Drops, LeaveTruncate(c) PROVE Next
    <2>1. Truncate(c)
      BY <1>2 DEF LeaveTruncate, Truncate
    <2> QED BY <2>1 DEF Next, HandlerStep, Calls
  <1>3. \A c, w : LeaveAdd(c, w) => surprise' = surprise
    BY DEF LeaveAdd
  <1>4. \A c : LeaveTruncate(c) => surprise' = surprise
    BY DEF LeaveTruncate
  <1> QED BY <1>1, <1>2, <1>3, <1>4
          DEF LateNext, LateHandlerStep, LateWorkerStep, LeaveByCrash, Next

(* What is in flight was sent by a worker or by a Drop. *)
LEMMA LateTypeStep ==
  ASSUME TypeInv, LateTypeInv, [LateNext]_lateVars
  PROVE  LateTypeInv'
  <1>0. Updates \subseteq Calls /\ Drops \subseteq Calls
        /\ 0 \in 0..MaxComic /\ \A c \in Updates, w \in Workers : worker[c][w].id \in 0..MaxComic
    BY ComicAssumption DEF TypeInv, TypeOK, Goroutines, Calls
  <1>1. ASSUME NEW c \in Updates, NEW w \in Workers, LeaveAdd(c, w) PROVE LateTypeInv'
    BY <1>0, <1>1 DEF LeaveAdd, Statement, LateTypeInv
  <1>2. ASSUME NEW c \in Drops, LeaveTruncate(c) PROVE LateTypeInv'
    BY <1>0, <1>2 DEF LeaveTruncate, Statement, LateTypeInv, TRUNCATE
  <1>3. CASE LeaveByCrash
    <2>1. Sent \subseteq [call : Calls, id : 0..MaxComic]
      BY <1>0 DEF Sent, Statement, TRUNCATE, Comics
    <2> QED BY <1>3, <2>1 DEF LeaveByCrash, LateTypeInv
  <1>4. CASE Land
    <2>1. PICK statement \in late :
            /\ late' = late \ {statement}
            /\ \/ surprise' = surprise
               \/ surprise' = [c \in Calls |->
                    IF InSection(c)
                      THEN surprise[c] \cup {IF statement.id = TRUNCATE THEN "truncate" ELSE "insert"}
                      ELSE surprise[c]]
      BY <1>4 DEF Land
    <2> QED BY <2>1 DEF LateTypeInv, Surprises
  <1>5. CASE UNCHANGED <<late, surprise>>
    BY <1>5 DEF LateTypeInv
  <1> QED BY <1>1, <1>2, <1>3, <1>4, <1>5
          DEF LateNext, LateHandlerStep, LateWorkerStep, lateVars

(* A statement that lands touches the table only. *)
LEMMA LandKeepsService ==
  ASSUME TypeInv, SectionInv, LateTypeInv, Land
  PROVE  TypeInv' /\ SectionInv'
  <1>1. UNCHANGED <<status, pc, reply, last, todo, ctx, worker, errCh, latest, events>>
    BY DEF Land, callVars
  <1>2. comics' \subseteq Comics
    <2>1. PICK statement \in late : comics' = comics \/ comics' = After(statement)
      BY DEF Land
    <2>2. comics \subseteq Comics /\ statement.id \in 0..MaxComic
      BY DEF TypeInv, TypeOK, LateTypeInv
    <2>3. statement.id = TRUNCATE \/ statement.id \in Comics
      BY <2>2, ComicAssumption DEF TRUNCATE, Comics
    <2> QED BY <2>1, <2>2, <2>3 DEF After
  <1>3. TypeInv'
    BY <1>1, <1>2 DEF TypeInv, TypeOK
  <1>4. SectionInv'
    BY <1>1 DEF SectionInv, Exclusion, WorkersJoined, InSection
  <1> QED BY <1>3, <1>4

(* A statement that lands surprises every call that is in its section. *)
LEMMA LandLedger ==
  ASSUME LateIInv, Land
  PROVE  OwedInv'
  <1>0. /\ UNCHANGED <<pc, reply, last, todo, ctx, worker, errCh, latest>>
        /\ Updates \subseteq Calls /\ Drops \subseteq Calls
    BY DEF Land, callVars, Calls
  <1>1. PICK statement \in late :
          \/ UNCHANGED <<comics, surprise>>
          \/ /\ comics' = After(statement)
             /\ surprise' = [c \in Calls |->
                  IF InSection(c)
                    THEN surprise[c] \cup {IF statement.id = TRUNCATE THEN "truncate" ELSE "insert"}
                    ELSE surprise[c]]
    BY DEF Land
  <1>2. CASE UNCHANGED <<comics, surprise>>
    <2>1. ASSUME NEW c \in Updates PROVE OwedToUpdate(c)'
      <3>1. OwedToUpdate(c)
        BY DEF LateIInv, OwedInv
      <3> QED BY <1>0, <1>2, <3>1
              DEF OwedToUpdate, OwnBooks, LoopInv, DistinctIds, CanceledIsTrue, FreshIds, NothingLost,
                  NoIdForgotten, ErrorKnown, Accounted, UpdateTold, CompleteUpTo
    <2>2. \A d \in Drops : OwedToDrop(d)'
      BY <1>0, <1>2 DEF LateIInv, OwedInv, OwedToDrop, DropTold
    <2> QED BY <2>1, <2>2 DEF OwedInv
  <1>3. CASE /\ comics' = After(statement)
             /\ surprise' = [c \in Calls |->
                  IF InSection(c)
                    THEN surprise[c] \cup {IF statement.id = TRUNCATE THEN "truncate" ELSE "insert"}
                    ELSE surprise[c]]
    <2>0. \A c \in Calls : IF InSection(c)
                             THEN IF statement.id = TRUNCATE THEN "truncate" \in surprise'[c]
                                                          ELSE "insert" \in surprise'[c]
                             ELSE TRUE
      BY <1>3
    <2>1. \A c \in Calls : surprise[c] \subseteq surprise'[c]
      BY <1>3
    <2>2. ASSUME NEW c \in Updates PROVE OwedToUpdate(c)'
      <3>1. OwedToUpdate(c) /\ c \in Calls
        BY <1>0 DEF LateIInv, OwedInv
      <3>2. OwnBooks(c)'
        BY <1>0, <3>1 DEF OwedToUpdate, OwnBooks, LoopInv, DistinctIds, CanceledIsTrue
      <3>3. CASE ~InSection(c)
        <4>1. Dormant(c) /\ last[c] <= latest
          BY <3>1, <3>3 DEF Dormant, InSection, LateIInv, SectionInv, WorkersJoined, OwedToUpdate,
             OwnBooks, LoopInv
        <4>2. Dormant(c)' /\ last'[c] <= latest'
          BY <1>0, <4>1 DEF Dormant
        <4>3. FreshIds(c)' /\ NothingLost(c)'
          BY <4>2 DEF Dormant, FreshIds, NothingLost, NoIdForgotten, UpdateTold, Busy
        <4> QED BY <3>2, <4>3 DEF OwedToUpdate
      <3>4. CASE InSection(c) /\ statement.id = TRUNCATE
        <4>1. comics' = {} /\ "truncate" \in surprise'[c]
          BY <1>3, <2>0, <3>1, <3>4 DEF After
        <4>2. FreshIds(c)'
          BY <4>1 DEF FreshIds
        <4> QED BY <3>2, <4>1, <4>2 DEF OwedToUpdate
      <3>5. CASE InSection(c) /\ statement.id # TRUNCATE
        <4>1. comics' = comics \cup {statement.id} /\ "insert" \in surprise'[c]
          BY <1>3, <2>0, <3>1, <3>5 DEF After
        <4>2. NothingLost(c) => NothingLost(c)'
          BY <1>0, <4>1 DEF NothingLost, NoIdForgotten, ErrorKnown, Accounted, UpdateTold, CompleteUpTo
        <4> QED BY <2>1, <3>1, <3>2, <4>1, <4>2 DEF OwedToUpdate
      <3> QED BY <3>3, <3>4, <3>5
    <2>3. ASSUME NEW d \in Drops PROVE OwedToDrop(d)'
      <3>1. CASE pc[d] # "publish"
        BY <1>0, <3>1 DEF OwedToDrop, DropTold
      <3>2. CASE pc[d] = "publish" /\ statement.id = TRUNCATE
        BY <1>3, <3>2 DEF OwedToDrop, DropTold, After
      <3>3. CASE pc[d] = "publish" /\ statement.id # TRUNCATE
        BY <1>0, <2>0, <3>3 DEF OwedToDrop, InSection
      <3> QED BY <3>1, <3>2, <3>3
    <2> QED BY <2>2, <2>3 DEF OwedInv
  <1> QED BY <1>1, <1>2, <1>3

LEMMA LateStep == LateIInv /\ [LateNext]_lateVars => LateIInv'
  <1> SUFFICES ASSUME LateIInv, [LateNext]_lateVars PROVE LateIInv'
    OBVIOUS
  <1>1. LateTypeInv'
    BY LateTypeStep DEF LateIInv
  <1>2. CASE [Next]_vars /\ surprise' = surprise
    <2>1. TypeInv' /\ SectionInv'
      BY <1>2, TypeStep, SectionStep DEF LateIInv
    <2>2. OwnBooksInv
      BY DEF LateIInv, OwedInv, OwedToUpdate, OwnBooksInv
    <2>3. LedgerKept
      BY <1>2, <2>2, StepKeepsLedger DEF LateIInv
    <2>4. OwedInv'
      BY <1>2, <2>3 DEF LateIInv, OwedInv, OwedToUpdate, OwedToDrop, LedgerKept, BooksKept
    <2> QED BY <1>1, <2>1, <2>4 DEF LateIInv
  <1>3. CASE Land
    BY <1>1, <1>3, LandKeepsService, LandLedger DEF LateIInv
  <1> QED BY <1>2, <1>3, BaseSteps DEF lateVars

LEMMA LateInductive == LateSpec => []LateIInv
  <1>1. LateInit => LateIInv
    <2> SUFFICES ASSUME LateInit PROVE LateIInv
      OBVIOUS
    <2>1. TypeInv /\ SectionInv /\ LedgerInv
      BY TypeInit, SectionInit, LedgerInit DEF LateInit
    <2>2. LateTypeInv
      BY DEF LateInit, LateTypeInv
    <2> QED BY <2>1, <2>2 DEF LateIInv, LedgerInv, OwedInv, OwedToUpdate, OwedToDrop
  <1> QED BY <1>1, LateStep, PTL DEF LateSpec

--------------------------------------------------------------------------------
(* Update and Drop exclude each other although Postgres outlives them: the      *)
(* status is "running" exactly while one accepted call is unfinished.           *)
THEOREM LateExclusion == LateSpec => []Exclusion
  <1>1. LateIInv => Exclusion
    BY DEF LateIInv, SectionInv
  <1> QED BY <1>1, LateInductive, PTL

(* An Update returns nil over an incomplete table only if a TRUNCATE that       *)
(* outlived its Drop landed during that Update.                                 *)
THEOREM NilUnlessTruncated == LateSpec => []SuccessUnlessTruncated
  <1>1. LateIInv => SuccessUnlessTruncated
    BY DEF LateIInv, OwedInv, OwedToUpdate, NothingLost, UpdateTold, SuccessUnlessTruncated
  <1> QED BY <1>1, LateInductive, PTL

(* An INSERT is refused only if a late INSERT landed since its Update began.   *)
THEOREM CollisionsAreExplained == LateSpec => []CollisionsExplained
  <1>1. LateIInv => CollisionsExplained
    BY DEF LateIInv, OwedInv, OwedToUpdate, FreshIds, CollisionsExplained, Busy
  <1> QED BY <1>1, LateInductive, PTL

(* An event is untrue only if a late statement of the opposite kind landed     *)
(* during the call that publishes it.                                          *)
THEOREM LateEventsTellTheTruth == LateSpec => LateEventsTruthful
  <1>1. LateIInv /\ [LateNext]_lateVars => [LateTellsTheTruth]_lateVars
    <2> SUFFICES ASSUME LateIInv, LateNext, events' # events
                 PROVE  LateTellsTheTruth
      BY DEF LateTellsTheTruth, lateVars, vars
    <2>1. Next
      BY BaseSteps DEF Land
    <2>2. PICK c \in Calls : Publish(c)
      BY <2>1, OnlyPublishTells
    <2>3. pc[c] = "publish" /\ ctx[c] = "live" /\ events' = Append(events, Subject(c))
      BY <2>2 DEF Publish
    <2>4. IF c \in Updates THEN "truncate" \in surprise[c] \/ CompleteUpTo(last[c])
                           ELSE "insert" \in surprise[c] \/ comics = {}
      BY <2>3 DEF LateIInv, OwedInv, OwedToUpdate, OwedToDrop, NothingLost, UpdateTold, DropTold, Calls
    <2> QED BY <2>3, <2>4 DEF LateTellsTheTruth
  <1> QED BY <1>1, LateInductive, PTL DEF LateSpec, LateEventsTruthful

================================================================================
