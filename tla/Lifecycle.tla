-------------------------------- MODULE Lifecycle --------------------------------
(*******************************************************************************)
(* How the containers come up, serve, are interrupted, die and come up again:   *)
(* the run functions of web, api, search, words and update, the migration of    *)
(* the comics table, the deferred closers, the restart policy of compose.yaml,  *)
(* and the calls of Update and Drop that are on their way through the gateway   *)
(* meanwhile.                                                                   *)
(*                                                                              *)
(* What happens inside a call is UpdateService's; it may never return.  A kill  *)
(* is a crash, which docker repairs, or the SIGTERM of docker stop, which it    *)
(* does not, and for which no program has a handler; an interrupt is the SIGINT *)
(* that web, api and update wait for.                                           *)
(*******************************************************************************)
EXTENDS Naturals, Sequences, SequencesExt

CONSTANTS
  Requests,  \* the requests to /api/db that clients send
  MaxFaults  \* bound: how many kills and interrupts there are

ASSUME MaxFaultsAssumption == MaxFaults \in Nat

VARIABLES
  at,         \* what each program is doing: a step, or "down", "serving", ...
  open,       \* what it has opened and will close by defer, oldest first
  up,         \* which of postgres and nats are running
  stopped,    \* programs and stores that docker leaves alone when they are down
  version,    \* what golang-migrate has recorded in the database
  table,      \* whether the comics table exists
  req,        \* where each request is
  handlers,   \* requests whose handler runs in the update service
  finished,   \* requests whose handler has returned nil
  outbox,     \* their events, as long as they are in the buffer of the NATS client
  delivered,  \* their events that NATS has
  faults,     \* how many kills and interrupts there were
  killed      \* history: which of update and nats were ever killed

programVars == <<at, open>>
storeVars   == <<up, stopped, version, table>>
callVars    == <<req, handlers, finished>>
eventVars   == <<outbox, delivered>>
faultVars   == <<faults, killed>>
vars == <<programVars, storeVars, callVars, eventVars, faultVars>>

Programs == {"web", "api", "search", "words", "update"}
Stores   == {"postgres", "nats"}

(* The steps of each run function that can fail or be told apart from outside. *)
(* The last one listens, asks for SIGINT where the program does, and serves.   *)
WebRun    == <<"serve">>
ApiRun    == <<"clients", "search", "serve">>
SearchRun == <<"db", "words", "serve">>
WordsRun  == <<"serve">>
UpdateRun == <<"db", "migrate", "create", "clear", "words", "broker", "serve">>

Run == [web |-> WebRun, api |-> ApiRun, search |-> SearchRun, words |-> WordsRun, update |-> UpdateRun]

Steps == UNION {ToSet(Run[p]) : p \in Programs}

(* Mutant: the publisher is not closed by defer. *)
OpensWithoutBroker(s) ==
  CASE s = "clients" -> <<"words", "update">>
    [] s \in {"db", "words", "search"} -> <<s>>
    [] OTHER -> <<>>

(* What a step opens; each is followed by a defer of its Close. *)
Opens(s) ==
  CASE s = "clients" -> <<"words", "update">>
    [] s \in {"db", "words", "search", "broker"} -> <<s>>
    [] OTHER -> <<>>

(* The step after s, or "serving". *)
Following(p, s) ==
  LET i == CHOOSE k \in DOMAIN Run[p] : Run[p][k] = s
  IN IF i = Len(Run[p]) THEN "serving" ELSE Run[p][i + 1]

(* What a step needs.  The dial of the search service blocks until it answers; *)
(* the clients of words and update connect when they are first used.           *)
Reachable(s) ==
  CASE s \in {"db", "migrate", "create", "clear"} -> "postgres" \in up
    [] s = "broker" -> "nats" \in up
    [] s = "search" -> at["search"] = "serving"
    [] OTHER -> TRUE

Requested == {"api", "held", "replied"}  \* the gateway has the request
ReqPlaces == Requested \cup {"new", "ok", "error", "lost"}

Init ==
  /\ at = [p \in Programs |-> "down"]
  /\ open = [p \in Programs |-> <<>>]
  /\ up = Stores
  /\ stopped = {}
  /\ version = "none"
  /\ table = FALSE
  /\ req = [r \in Requests |-> "new"]
  /\ handlers = {}
  /\ finished = {}
  /\ outbox = {}
  /\ delivered = {}
  /\ faults = 0
  /\ killed = {}

--------------------------------------------------------------------------------
(* Starting. *)

Goto(p, place) == at' = [at EXCEPT ![p] = place]

(* restart: unless-stopped *)
Restart(p) ==
  /\ at[p] = "down"
  /\ p \notin stopped
  /\ Goto(p, Head(Run[p]))
  /\ UNCHANGED <<open, storeVars, callVars, eventVars, faultVars>>

(* A step of run other than those of the migration succeeds. *)
Step(p) ==
  /\ at[p] \in Steps \ {"migrate", "create", "clear"}
  /\ Reachable(at[p])
  /\ Goto(p, Following(p, at[p]))
  /\ open' = [open EXCEPT ![p] = @ \o Opens(at[p])]
  /\ UNCHANGED <<storeVars, callVars, eventVars, faultVars>>

(* A connection cannot be made, or the 5 s of the dial pass: return err. *)
StepFails(p) ==
  /\ at[p] \in Steps
  /\ ~Reachable(at[p])
  /\ Goto(p, "closing")
  /\ UNCHANGED <<open, storeVars, callVars, eventVars, faultVars>>

(* Mutant: an error of Up is logged and nothing more. *)
MigrateForgiving ==
  /\ at["update"] = "migrate"
  /\ Reachable("migrate")
  /\ IF version = "none"
       THEN version' = "dirty" /\ Goto("update", "create")
       ELSE Goto("update", "words") /\ UNCHANGED version
  /\ UNCHANGED <<open, up, stopped, table, callVars, eventVars, faultVars>>

(* Mutant: ErrNoChange is an error like the others. *)
MigrateStrict ==
  /\ at["update"] = "migrate"
  /\ Reachable("migrate")
  /\ IF version = "none"
       THEN version' = "dirty" /\ Goto("update", "create")
       ELSE Goto("update", "closing") /\ UNCHANGED version
  /\ UNCHANGED <<open, up, stopped, table, callVars, eventVars, faultVars>>

(* m.Up() looks at the version: a new one is recorded as dirty before its SQL  *)
(* runs, ErrNoChange is fine, and a version that was left dirty is an error.   *)
Migrate ==
  /\ at["update"] = "migrate"
  /\ Reachable("migrate")
  /\ \/ version = "none"  /\ version' = "dirty" /\ Goto("update", "create")
     \/ version = "done"  /\ Goto("update", "words") /\ UNCHANGED version
     \/ version = "dirty" /\ Goto("update", "closing") /\ UNCHANGED version
  /\ UNCHANGED <<open, up, stopped, table, callVars, eventVars, faultVars>>

(* CREATE TABLE IF NOT EXISTS comics *)
Create ==
  /\ at["update"] = "create"
  /\ Reachable("create")
  /\ table' = TRUE
  /\ Goto("update", "clear")
  /\ UNCHANGED <<open, up, stopped, version, callVars, eventVars, faultVars>>

(* The version is recorded as clean. *)
Clear ==
  /\ at["update"] = "clear"
  /\ Reachable("clear")
  /\ version' = "done"
  /\ Goto("update", "words")
  /\ UNCHANGED <<open, up, stopped, table, callVars, eventVars, faultVars>>

Starting(p) ==
  \/ Restart(p) \/ Step(p) \/ StepFails(p)
  \/ p = "update" /\ (Migrate \/ Create \/ Clear)

--------------------------------------------------------------------------------
(* Stopping. *)

(* What the end of p does to the calls: a request that the gateway still has   *)
(* is lost with the gateway; a handler is lost with the update service, and    *)
(* the gateway sees the connections of the requests in broken break.           *)
Cut(p, broken) ==
  /\ req' = [r \in Requests |->
       IF p = "api" /\ req[r] \in Requested THEN "lost"
       ELSE IF p = "update" /\ r \in broken THEN "error"
       ELSE req[r]]
  /\ handlers' = IF p = "update" THEN {} ELSE handlers
  /\ outbox' = IF p = "update" THEN {} ELSE outbox
  /\ UNCHANGED finished

Held == {r \in handlers : req[r] = "held"}

(* Mutant: GracefulStop does not keep Serve from returning. *)
InterruptAtOnce(p) ==
  /\ p \in {"web", "api", "update"}
  /\ faults < MaxFaults
  /\ at[p] \in {"serve", "serving"}
  /\ faults' = faults + 1
  /\ Goto(p, "closing")
  /\ UNCHANGED <<open, storeVars, callVars, eventVars, killed>>

(* SIGINT after NotifyContext; before it, and once run has returned, it is a    *)
(* kill, and while update drains it is swallowed.  The gRPC server of update    *)
(* finishes its handlers before Serve returns; ListenAndServe of web and api    *)
(* returns as soon as Shutdown begins, and so does a Serve that comes after     *)
(* the interrupt.                                                              *)
Interrupt(p) ==
  /\ p \in {"web", "api", "update"}
  /\ faults < MaxFaults
  /\ at[p] \in {"serve", "serving"}
  /\ faults' = faults + 1
  /\ Goto(p, IF p = "update" /\ at[p] = "serving" THEN "draining" ELSE "closing")
  /\ UNCHANGED <<open, storeVars, callVars, eventVars, killed>>

(* GracefulStop has seen the last handler return; so does Serve. *)
Drained ==
  /\ at["update"] = "draining"
  /\ handlers = {}
  /\ Goto("update", "closing")
  /\ UNCHANGED <<open, storeVars, callVars, eventVars, faultVars>>

(* The deferred closers, the last one first.  Closing the NATS connection      *)
(* flushes its buffer; closing the gateway's connection to update ends the     *)
(* calls on it with an error.                                                  *)
Close(p) ==
  /\ at[p] = "closing"
  /\ open[p] # <<>>
  /\ open' = [open EXCEPT ![p] = Front(@)]
  /\ IF Last(open[p]) = "broker" /\ "nats" \in up
       THEN delivered' = delivered \cup outbox /\ outbox' = {}
       ELSE UNCHANGED eventVars
  /\ req' = [r \in Requests |->
       IF p = "api" /\ Last(open[p]) = "update" /\ req[r] = "held" THEN "error" ELSE req[r]]
  /\ UNCHANGED <<at, storeVars, handlers, finished, faultVars>>

(* run has returned; so does main, whatever goroutines are left. *)
Exit(p) ==
  /\ at[p] = "closing"
  /\ open[p] = <<>>
  /\ Goto(p, "down")
  /\ Cut(p, Held)
  /\ UNCHANGED <<open, storeVars, delivered, faultVars>>

Stopping(p) == Close(p) \/ Exit(p) \/ (p = "update" /\ Drained)

(* The process dies at once, by a crash or by docker stop.  A reply may be on  *)
(* its way and be lost.                                                        *)
Kill(p) ==
  /\ at[p] # "down"
  /\ faults < MaxFaults
  /\ faults' = faults + 1
  /\ killed' = killed \cup ({p} \cap {"update"})
  /\ stopped' \in {stopped, stopped \cup {p}}
  /\ Goto(p, "down")
  /\ open' = [open EXCEPT ![p] = <<>>]
  /\ \E unread \in SUBSET {r \in Requests : req[r] = "replied"} : Cut(p, Held \cup unread)
  /\ UNCHANGED <<up, version, table, delivered>>

(* A store dies or is stopped; for nats there is no restart policy. *)
KillStore(s) ==
  /\ s \in up
  /\ faults < MaxFaults
  /\ faults' = faults + 1
  /\ killed' = killed \cup ({s} \cap {"nats"})
  /\ up' = up \ {s}
  /\ stopped' \in (IF s = "nats" THEN {} ELSE {stopped}) \cup {stopped \cup {s}}
  /\ UNCHANGED <<programVars, version, table, callVars, eventVars>>

(* Postgres is restarted and keeps its volume; nats comes back if it is told to. *)
RestartStore(s) ==
  /\ s \notin up \cup stopped
  /\ up' = up \cup {s}
  /\ UNCHANGED <<programVars, stopped, version, table, callVars, eventVars, faultVars>>

(* The operator starts a container that was stopped. *)
DockerStart(c) ==
  /\ c \in stopped
  /\ stopped' = stopped \ {c}
  /\ UNCHANGED <<programVars, up, version, table, callVars, eventVars, faultVars>>

--------------------------------------------------------------------------------
(* Serving. *)

Arrive(r) ==
  /\ req[r] = "new"
  /\ at["api"] = "serving"
  /\ req' = [req EXCEPT ![r] = "api"]
  /\ UNCHANGED <<programVars, storeVars, handlers, finished, eventVars, faultVars>>

(* The client goes away; the context of its request is over. *)
Leave(r) ==
  /\ req[r] \in Requested
  /\ req' = [req EXCEPT ![r] = "lost"]
  /\ UNCHANGED <<programVars, storeVars, handlers, finished, eventVars, faultVars>>

(* The gateway's gRPC call reaches a server that accepts it, or fails at once. *)
Call(r) ==
  /\ req[r] = "api"
  /\ IF at["update"] = "serving" /\ Contains(open["api"], "update")
       THEN handlers' = handlers \cup {r} /\ req' = [req EXCEPT ![r] = "held"]
       ELSE req' = [req EXCEPT ![r] = "error"] /\ UNCHANGED handlers
  /\ UNCHANGED <<programVars, storeVars, finished, eventVars, faultVars>>

(* Mutant: the event is published before the errors are looked at. *)
EndPublishingFirst(r) ==
  /\ r \in handlers
  /\ handlers' = handlers \ {r}
  /\ outbox' = outbox \cup {r}
  /\ \/ /\ finished' = finished \cup {r}
        /\ req' = [req EXCEPT ![r] = IF @ = "held" THEN "replied" ELSE @]
     \/ /\ req' = [req EXCEPT ![r] = IF @ = "held" THEN "error" ELSE @]
        /\ UNCHANGED finished
  /\ UNCHANGED <<programVars, storeVars, delivered, faultVars>>

(* A handler returns: nil, with its event given to the NATS client, or an error. *)
End(r) ==
  /\ r \in handlers
  /\ handlers' = handlers \ {r}
  /\ \/ /\ finished' = finished \cup {r}
        /\ outbox' = outbox \cup {r}
        /\ req' = [req EXCEPT ![r] = IF @ = "held" THEN "replied" ELSE @]
     \/ /\ req' = [req EXCEPT ![r] = IF @ = "held" THEN "error" ELSE @]
        /\ UNCHANGED <<finished, outbox>>
  /\ UNCHANGED <<programVars, storeVars, delivered, faultVars>>

(* The gateway passes the reply on. *)
Reply(r) ==
  /\ req[r] = "replied"
  /\ req' = [req EXCEPT ![r] = "ok"]
  /\ UNCHANGED <<programVars, storeVars, handlers, finished, eventVars, faultVars>>

(* The NATS client writes its buffer out. *)
Flush ==
  /\ outbox # {}
  /\ "nats" \in up
  /\ Contains(open["update"], "broker")
  /\ delivered' = delivered \cup outbox
  /\ outbox' = {}
  /\ UNCHANGED <<programVars, storeVars, callVars, faultVars>>

(* Everything serves: the model may rest. *)
Settled == (\A p \in Programs : at[p] = "serving") /\ UNCHANGED vars

--------------------------------------------------------------------------------
Next ==
  \/ \E p \in Programs : Starting(p) \/ Stopping(p) \/ Interrupt(p) \/ Kill(p)
  \/ \E s \in Stores : KillStore(s) \/ RestartStore(s)
  \/ \E c \in Programs \cup Stores : DockerStart(c)
  \/ \E r \in Requests : Arrive(r) \/ Leave(r) \/ Call(r) \/ End(r) \/ Reply(r)
  \/ Flush \/ Settled

Spec == Init /\ [][Next]_vars

(* Programs run and docker restarts what it restarts.  Nobody is obliged to     *)
(* kill, to interrupt, to send a request or to start what was stopped, and a   *)
(* handler need not return: UpdateService shows one that hangs.                *)
Fairness ==
  /\ \A p \in Programs : WF_vars(Starting(p) \/ Stopping(p))
  /\ \A s \in Stores : WF_vars(RestartStore(s))

FairSpec == Spec /\ Fairness

--------------------------------------------------------------------------------
(* Properties. *)

TypeOK ==
  /\ at \in [Programs -> Steps \cup {"down", "serving", "draining", "closing"}]
  /\ \A p \in Programs : ToSet(open[p]) \subseteq {"db", "words", "update", "search", "broker"}
  /\ up \subseteq Stores
  /\ stopped \subseteq Programs \cup Stores
  /\ version \in {"none", "dirty", "done"}
  /\ table \in BOOLEAN
  /\ req \in [Requests -> ReqPlaces]
  /\ handlers \subseteq Requests
  /\ finished \subseteq Requests
  /\ outbox \subseteq finished
  /\ delivered \subseteq finished
  /\ faults \in 0..MaxFaults
  /\ killed \subseteq {"update", "nats"}

(* The update service accepts calls only over a migrated table, although a     *)
(* kill may hit the migration between any two of its writes.                   *)
ServesMigratedTable ==
  at["update"] \in {"serving", "draining"} => table /\ version = "done"

(* Whatever interrupts update, a handler that still runs has its connections   *)
(* to Postgres, words and NATS: the closers wait for the last handler.         *)
ResourcesOutliveHandlers ==
  handlers # {} => open["update"] = <<"db", "words", "broker">>

(* Handlers whose caller waits no longer: the context of their call is over,   *)
(* and what is left of it fails.                                               *)
Cancelled == {r \in handlers : req[r] # "held"}

(* What can happen to a call that the update service has accepted.  It goes    *)
(* away by returning, or with a process that is killed, never by an interrupt  *)
(* of update, which drains first.  It is cancelled by a client that leaves, or *)
(* with the gateway: by a kill, and by an interrupt too, since the gateway     *)
(* closes its connections without waiting for its requests.                    *)
AcceptedCallStep ==
  /\ \A r \in handlers : r \notin handlers' => End(r) \/ Kill("update")
  /\ \A r \in handlers \ Cancelled :
       r \in Cancelled' => Leave(r) \/ Close("api") \/ Exit("api") \/ Kill("api")

AcceptedCallsEnd == [][AcceptedCallStep]_vars

(* A client is told 200 only about a call that did return nil, across kills of *)
(* the gateway, of update, and replies that nobody waits for any more.         *)
AnswersTrue == \A r \in Requests : req[r] = "ok" => r \in finished

(* The event of a call that returned nil gets to NATS although Publish only    *)
(* puts it into a buffer: it is lost only if update or NATS was killed, never  *)
(* by an interrupt, because the publisher is closed before the process ends.   *)
EventsSurviveInterrupts ==
  killed \cap {"update", "nats"} = {} => finished \subseteq outbox \cup delivered

(* The system always comes up again once the faults have stopped: every program *)
(* serves for good, unless it was stopped itself or cannot go without a store  *)
(* or a service that was, and with two exceptions more for update: a migration *)
(* that a kill has left dirty, and an interrupt that waits for a handler which *)
(* never returns.                                                              *)
NeedsStopped(p) ==
  \/ p \in stopped
  \/ p \in {"search", "update", "api"} /\ "postgres" \in stopped
  \/ p = "update" /\ "nats" \in stopped
  \/ p = "api" /\ "search" \in stopped

Excused(p) ==
  \/ NeedsStopped(p)
  \/ p = "update" /\ (version = "dirty" \/ (at[p] = "draining" /\ handlers # {}))

ComesUp == <>[](\A p \in Programs : at[p] = "serving" \/ Excused(p))
================================================================================
