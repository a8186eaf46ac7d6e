----------------------------- MODULE LateStatements -----------------------------
(*******************************************************************************)
(* The update service when Postgres outlives its callers.  ExecContext returns  *)
(* as soon as the context is over or the connection breaks, and the process may *)
(* die while a statement is out; the server may still execute it, after the     *)
(* call has reported its error, after the status is idle again and in the       *)
(* middle of the next call.  UpdateService lets such a statement take effect at *)
(* once or never; here it is kept in flight.                                    *)
(*******************************************************************************)
EXTENDS UpdateService

VARIABLES
  late,      \* statements in flight that nobody waits for any more
  surprise   \* history, per call: what such statements changed since it began

lateVars == <<vars, late, surprise>>

(* A statement, with the call that sent it: TRUNCATE, or the id of an INSERT,  *)
(* which is at least 1.                                                        *)
Statement(c, id) == [call |-> c, id |-> id]
TRUNCATE == 0

LateInit ==
  /\ Init
  /\ late = {}
  /\ surprise = [c \in Calls |-> {}]

(* The table after a statement: an INSERT of a row that is there is refused.   *)
After(statement) == IF statement.id = TRUNCATE THEN {} ELSE comics \cup {statement.id}

(* The INSERT is sent and its answer is not awaited. *)
LeaveAdd(c, w) ==
  /\ worker[c][w].at = "add"
  /\ CanFail(c)
  /\ \E e \in {"failed", ctx[c]} \ {"live"} : Report(c, w, e)
  /\ late' = late \cup {Statement(c, worker[c][w].id)}
  /\ UNCHANGED <<status, callVars, ctx, errCh, comics, latest, events, surprise>>

(* The TRUNCATE is sent and its answer is not awaited. *)
LeaveTruncate(c) ==
  /\ pc[c] = "truncate"
  /\ CanFail(c)
  /\ \E e \in {"failed", ctx[c]} \ {"live"} : Return(c, e)
  /\ late' = late \cup {Statement(c, TRUNCATE)}
  /\ UNCHANGED <<status, ctx, last, todo, worker, errCh, comics, latest, events, surprise>>

(* Statements that a crash may leave on the server. *)
Sent ==
  {s \in [call : Updates, id : Comics] :
     \E w \in Workers : worker[s.call][w].at = "add" /\ worker[s.call][w].id = s.id}
    \cup {Statement(d, TRUNCATE) : d \in {e \in Drops : pc[e] = "truncate"}}

LeaveByCrash ==
  /\ Crash
  /\ \E statements \in SUBSET Sent : late' = late \cup statements
  /\ UNCHANGED surprise

(* The server executes a statement nobody waits for, or drops it. *)
Land ==
  \E statement \in late :
    /\ late' = late \ {statement}
    /\ \/ UNCHANGED <<comics, surprise>>
       \/ /\ comics' = After(statement)
          /\ comics' # comics
          /\ surprise' = [c \in Calls |->
               IF InSection(c)
                 THEN surprise[c] \cup {IF statement.id = TRUNCATE THEN "truncate" ELSE "insert"}
                 ELSE surprise[c]]
    /\ UNCHANGED <<status, callVars, ctx, worker, errCh, latest, events>>

LateHandlerStep(c) ==
  \/ HandlerStep(c) /\ UNCHANGED <<late, surprise>>
  \/ c \in Drops /\ LeaveTruncate(c)

LateWorkerStep(c, w) ==
  \/ WorkerStep(c, w) /\ UNCHANGED <<late, surprise>>
  \/ LeaveAdd(c, w)

LateNext ==
  \/ \E c \in Calls :
       \/ (Start(c) \/ Cancel(c)) /\ UNCHANGED <<late, surprise>>
       \/ LateHandlerStep(c)
  \/ \E c \in Updates, w \in Workers : LateWorkerStep(c, w)
  \/ (NewComic \/ Finished) /\ UNCHANGED <<late, surprise>>
  \/ LeaveByCrash \/ Land

(* As in UpdateService; no statement is obliged to land.                       *)
LateFairness ==
  /\ \A c \in Calls : WF_lateVars(LateHandlerStep(c))
  /\ \A c \in Updates, w \in Workers : WF_lateVars(LateWorkerStep(c, w))

LateSpec == LateInit /\ [][LateNext]_lateVars /\ LateFairness

--------------------------------------------------------------------------------
(* Properties. *)

(* An Update that is about to return nil has a complete table, whatever late   *)
(* INSERTs of other calls landed meanwhile; only a TRUNCATE that outlived its  *)
(* Drop and landed during this very Update can make it untrue.                 *)
SuccessUnlessTruncated ==
  \A c \in Updates :
    pc[c] = "release" /\ reply[c] = "ok" /\ "truncate" \notin surprise[c] =>
      CompleteUpTo(last[c])

(* An INSERT meets a row that is there, and fails its Update, only if a late   *)
(* INSERT landed since that Update began: an Update that starts after the last *)
(* statement has landed finds its ids accurate again.                          *)
CollisionsExplained ==
  \A c \in Updates, w \in Workers :
    worker[c][w].at = "add" /\ worker[c][w].id \in comics => "insert" \in surprise[c]

(* An event is untrue only if a late statement of the opposite kind landed     *)
(* during the call that publishes it.                                          *)
LateTellsTheTruth ==
  events' # events =>
    \E c \in Calls :
      /\ pc[c] = "publish"
      /\ events' = Append(events, Subject(c))
      /\ IF c \in Updates THEN "truncate" \in surprise[c] \/ CompleteUpTo(last[c])
                          ELSE "insert" \in surprise[c] \/ comics = {}

LateEventsTruthful == [][LateTellsTheTruth]_lateVars

================================================================================
