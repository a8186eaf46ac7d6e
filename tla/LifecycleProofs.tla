----------------------------- MODULE LifecycleProofs ------------------------------
(* Theorems about Lifecycle, for every number of requests and of faults.        *)
EXTENDS Lifecycle, TLAPS

Closers == {"db", "words", "update", "search", "broker"}
Names == {"clients", "db", "migrate", "create", "clear", "words", "search", "broker", "serve"}
Idle == {"down", "serving", "draining", "closing"}
Places(p) == ToSet(Run[p]) \cup Idle

Types ==
  /\ at \in [Programs -> Steps \cup Idle]
  /\ \A p \in Programs : at[p] \in Places(p)
  /\ open \in [Programs -> Seq(Closers)]
  /\ up \subseteq Stores
  /\ stopped \subseteq Programs \cup Stores
  /\ version \in {"none", "dirty", "done"}
  /\ table \in BOOLEAN
  /\ req \in [Requests -> ReqPlaces]
  /\ handlers \subseteq Requests
  /\ finished \subseteq Requests
  /\ outbox \subseteq finished
  /\ delivered \subseteq finished
  /\ faults \in 0..MaxFaults
  /\ killed \subseteq {"update", "nats"}

(* How far the migration is, from where the program is that runs it. *)
MigrationInv ==
  /\ version = "done" => table
  /\ at["update"] = "clear" => table
  /\ at["update"] \in {"words", "broker", "serve", "serving", "draining"} => version = "done"

(* What update has opened, from where it is; on its way out it closes that.     *)
OpenInv ==
  /\ at["update"] \in {"down", "db"} => open["update"] = <<>>
  /\ at["update"] \in {"migrate", "create", "clear", "words"} => open["update"] = <<"db">>
  /\ at["update"] = "broker" => open["update"] = <<"db", "words">>
  /\ at["update"] \in {"serve", "serving", "draining"} => open["update"] = <<"db", "words", "broker">>

(* Handlers run only in a process that serves or drains. *)
HandlersInv == handlers # {} => at["update"] \in {"serving", "draining"}

(* A reply on its way is that of a call that returned nil. *)
RepliesInv == \A r \in Requests : req[r] \in {"replied", "ok"} => r \in finished

(* While nothing was killed, events wait only where a closer will flush them.   *)
EventsInv ==
  killed \cap {"update", "nats"} = {} =>
    /\ "nats" \in up
    /\ finished \subseteq outbox \cup delivered
    /\ outbox # {} => open["update"] = <<"db", "words", "broker">>

IInv == Types /\ MigrationInv /\ OpenInv /\ HandlersInv /\ RepliesInv /\ EventsInv

--------------------------------------------------------------------------------
(* The steps of update, one after the other. *)
LEMMA UpdateSteps ==
  /\ Following("update", "db") = "migrate"
  /\ Following("update", "words") = "broker"
  /\ Following("update", "broker") = "serve"
  /\ Following("update", "serve") = "serving"
  <1> DEFINE R == <<"db", "migrate", "create", "clear", "words", "broker", "serve">>
  <1>1. Run["update"] = R
    BY DEF Run, UpdateRun
  <1>2. Len(R) = 7 /\ DOMAIN R = 1..7
    OBVIOUS
  <1>3. \A k \in 1..7 : R[k] = "db" => k = 1
    OBVIOUS
  <1>4. \A k \in 1..7 : R[k] = "words" => k = 5
    OBVIOUS
  <1>5. \A k \in 1..7 : R[k] = "broker" => k = 6
    OBVIOUS
  <1>6. \A k \in 1..7 : R[k] = "serve" => k = 7
    OBVIOUS
  <1>7. (CHOOSE k \in DOMAIN R : R[k] = "db") = 1
    BY <1>2, <1>3
  <1>8. (CHOOSE k \in DOMAIN R : R[k] = "words") = 5
    BY <1>2, <1>4
  <1>9. (CHOOSE k \in DOMAIN R : R[k] = "broker") = 6
    BY <1>2, <1>5
  <1>10. (CHOOSE k \in DOMAIN R : R[k] = "serve") = 7
    BY <1>2, <1>6
  <1> QED BY <1>1, <1>2, <1>7, <1>8, <1>9, <1>10 DEF Following

LEMMA RunSequences == \A p \in Programs : Run[p] \in Seq(Names) /\ Len(Run[p]) > 0
  <1> DEFINE R == <<"db", "migrate", "create", "clear", "words", "broker", "serve">>
  <1>1. Run["web"] = <<"serve">> /\ Run["words"] = <<"serve">>
    BY DEF Run, WebRun, WordsRun
  <1>2. Run["api"] = <<"clients", "search", "serve">>
    BY DEF Run, ApiRun
  <1>3. Run["search"] = <<"db", "words", "serve">>
    BY DEF Run, SearchRun
  <1>4. Run["update"] = R
    BY DEF Run, UpdateRun
  <1>5. <<"serve">> \in Seq(Names) /\ Len(<<"serve">>) > 0
    BY DEF Names
  <1>6. <<"clients", "search", "serve">> \in Seq(Names) /\ Len(<<"clients", "search", "serve">>) > 0
    BY DEF Names
  <1>7. <<"db", "words", "serve">> \in Seq(Names) /\ Len(<<"db", "words", "serve">>) > 0
    BY DEF Names
  <1>8. R \in Seq(Names) /\ Len(R) > 0
    BY DEF Names
  <1> HIDE DEF R
  <1> QED BY <1>1, <1>2, <1>3, <1>4, <1>5, <1>6, <1>7, <1>8 DEF Programs

(* run goes on to a step of its own, or to serving. *)
LEMMA FollowingPlace ==
  ASSUME NEW p \in Programs, NEW s \in ToSet(Run[p])
  PROVE  Following(p, s) \in Places(p)
  <1> DEFINE i == CHOOSE k \in DOMAIN Run[p] : Run[p][k] = s
  <1>1. Run[p] \in Seq(Names)
    BY RunSequences
  <1>2. i \in DOMAIN Run[p]
    BY DEF ToSet
  <1>3. CASE i = Len(Run[p])
    BY <1>3 DEF Following, Places, Idle
  <1>4. CASE i # Len(Run[p])
    <2>1. i + 1 \in DOMAIN Run[p]
      BY <1>1, <1>2, <1>4
    <2>2. Following(p, s) = Run[p][i + 1]
      BY <1>4 DEF Following
    <2> QED BY <2>1, <2>2 DEF Places, ToSet
  <1> QED BY <1>3, <1>4

LEMMA FirstStep ==
  ASSUME NEW p \in Programs
  PROVE  Head(Run[p]) \in Places(p)
  <1>1. Run[p] \in Seq(Names) /\ Len(Run[p]) > 0
    BY RunSequences
  <1>2. Head(Run[p]) = Run[p][1] /\ 1 \in DOMAIN Run[p]
    BY <1>1
  <1> QED BY <1>2 DEF Places, ToSet

LEMMA PlacesInAll == \A p \in Programs : Places(p) \subseteq Steps \cup Idle
  BY DEF Places, Steps

LEMMA OpensClosers ==
  ASSUME NEW s
  PROVE  Opens(s) \in Seq(Closers)
  <1>1. CASE s = "clients"
    <2>1. Opens(s) = <<"words", "update">>
      BY <1>1 DEF Opens
    <2> QED BY <2>1 DEF Closers
  <1>2. CASE s \in {"db", "words", "search", "broker"}
    <2>1. Opens(s) = <<s>>
      BY <1>2 DEF Opens
    <2> QED BY <1>2, <2>1 DEF Closers
  <1>3. CASE s \notin {"clients", "db", "words", "search", "broker"}
    <2>1. Opens(s) = <<>>
      BY <1>3 DEF Opens
    <2> QED BY <2>1
  <1> QED BY <1>1, <1>2, <1>3

LEMMA Start == Init => IInv
  <1> SUFFICES ASSUME Init PROVE IInv
    OBVIOUS
  <1>1. open \in [Programs -> Seq(Closers)]
    BY DEF Init, Closers
  <1>2. at \in [Programs -> Steps \cup Idle] /\ \A p \in Programs : at[p] \in Places(p)
    BY DEF Init, Places, Idle
  <1>3. req \in [Requests -> ReqPlaces] /\ faults \in 0..MaxFaults
    BY MaxFaultsAssumption DEF Init, ReqPlaces
  <1>4. Types
    BY <1>1, <1>2, <1>3 DEF Init, Types
  <1> QED BY <1>4 DEF Init, IInv, MigrationInv, OpenInv, HandlersInv, RepliesInv, EventsInv, Programs, Stores

(* What update opens, one connection after the other. *)
LEMMA UpdateOpens ==
  /\ <<>> \o Opens("db") = <<"db">>
  /\ <<"db">> \o Opens("words") = <<"db", "words">>
  /\ <<"db", "words">> \o Opens("broker") = <<"db", "words", "broker">>
  /\ <<"db", "words", "broker">> \o Opens("serve") = <<"db", "words", "broker">>
  <1>1. Opens("db") = <<"db">> /\ Opens("words") = <<"words">>
        /\ Opens("broker") = <<"broker">> /\ Opens("serve") = <<>>
    BY DEF Opens
  <1>2. \A s \in Seq(Closers) : \A c \in Closers : s \o <<c>> = Append(s, c)
    OBVIOUS
  <1>3. \A s \in Seq(Closers) : s \o <<>> = s /\ <<>> \o s = s
    OBVIOUS
  <1>4. <<>> \in Seq(Closers) /\ <<"db">> \in Seq(Closers) /\ <<"db", "words">> \in Seq(Closers)
        /\ <<"db", "words", "broker">> \in Seq(Closers)
    BY DEF Closers
  <1>5. ASSUME NEW a, NEW b PROVE <<a, b>> = Append(<<a>>, b)
    OBVIOUS
  <1>6. ASSUME NEW a, NEW b, NEW c PROVE <<a, b, c>> = Append(<<a, b>>, c)
    OBVIOUS
  <1>7. "words" \in Closers /\ "broker" \in Closers
    BY DEF Closers
  <1>8. <<>> \o Opens("db") = <<"db">>
    BY <1>1, <1>3, <1>4
  <1>9. <<"db">> \o Opens("words") = <<"db", "words">>
    BY <1>1, <1>2, <1>4, <1>5, <1>7, Zenon
  <1>10. <<"db", "words">> \o Opens("broker") = <<"db", "words", "broker">>
    <2>1. <<"db", "words">> \o <<"broker">> = Append(<<"db", "words">>, "broker")
      BY <1>2, <1>4, <1>7
    <2> QED BY <1>1, <1>6, <2>1, Zenon
  <1>11. <<"db", "words", "broker">> \o Opens("serve") = <<"db", "words", "broker">>
    BY <1>1, <1>3, <1>4
  <1> QED BY <1>8, <1>9, <1>10, <1>11

LEMMA StepsAreNames == Steps \subseteq Names
  <1>1. ASSUME NEW p \in Programs PROVE ToSet(Run[p]) \subseteq Names
    BY RunSequences DEF ToSet
  <1> QED BY <1>1 DEF Steps

LEMMA NotAllOpen ==
  \A s \in {<<>>, <<"db">>, <<"db", "words">>} : s # <<"db", "words", "broker">>
  <1>1. \A s : s = <<"db", "words", "broker">> => Len(s) = 3
    OBVIOUS
  <1>2. \A s : s = <<"db", "words">> => Len(s) # 3
    OBVIOUS
  <1>3. \A s : s = <<"db">> \/ s = <<>> => Len(s) # 3
    OBVIOUS
  <1> QED BY <1>1, <1>2, <1>3, Zenon

LEMMA UpdatePlaces ==
  /\ ToSet(Run["update"]) = {"db", "migrate", "create", "clear", "words", "broker", "serve"}
  /\ Head(Run["update"]) = "db"
  <1> DEFINE R == <<"db", "migrate", "create", "clear", "words", "broker", "serve">>
  <1>1. Run["update"] = R
    BY DEF Run, UpdateRun
  <1>2. DOMAIN R = 1..7 /\ Head(R) = "db"
    OBVIOUS
  <1>3. {R[i] : i \in 1..7} = {"db", "migrate", "create", "clear", "words", "broker", "serve"}
    OBVIOUS
  <1> QED BY <1>1, <1>2, <1>3 DEF ToSet

--------------------------------------------------------------------------------
(* Every action keeps the types. *)
LEMMA GotoTypes ==
  ASSUME Types, NEW p \in Programs, NEW place \in Places(p), Goto(p, place)
  PROVE  at' \in [Programs -> Steps \cup Idle] /\ \A q \in Programs : at'[q] \in Places(q)
  BY PlacesInAll DEF Types, Goto

LEMMA IdlePlaces == \A p \in Programs : Idle \subseteq Places(p)
  BY DEF Places

LEMMA StartingTypes ==
  ASSUME Types, NEW p \in Programs, Starting(p)
  PROVE  Types'
  <1>1. CASE Restart(p)
    BY <1>1, FirstStep, GotoTypes DEF Restart, Types, storeVars, callVars, eventVars, faultVars
  <1>2. CASE Step(p)
    <2>1. at[p] \in ToSet(Run[p])
      <3>1. at[p] \notin Idle
        BY <1>2, StepsAreNames DEF Step, Idle, Names
      <3> QED BY <3>1 DEF Types, Places
    <2>2. at' \in [Programs -> Steps \cup Idle] /\ \A q \in Programs : at'[q] \in Places(q)
      BY <1>2, <2>1, FollowingPlace, GotoTypes DEF Step
    <2>3. open[p] \o Opens(at[p]) \in Seq(Closers)
      BY OpensClosers DEF Types
    <2>4. open' \in [Programs -> Seq(Closers)]
      BY <1>2, <2>3 DEF Step, Types
    <2> QED BY <1>2, <2>2, <2>4 DEF Step, Types, storeVars, callVars, eventVars, faultVars
  <1>3. CASE StepFails(p)
    BY <1>3, IdlePlaces, GotoTypes DEF StepFails, Idle, Types, storeVars, callVars, eventVars, faultVars
  <1>4. {"create", "words", "clear"} \subseteq Places("update") /\ "closing" \in Places("update")
    BY UpdatePlaces DEF Places, Idle
  <1>5. "update" \in Programs
    BY DEF Programs
  <1>6. CASE Migrate
    <2>1. at' \in [Programs -> Steps \cup Idle] /\ \A q \in Programs : at'[q] \in Places(q)
      BY <1>4, <1>5, <1>6, GotoTypes DEF Migrate
    <2> QED BY <1>6, <2>1 DEF Migrate, Types, callVars, eventVars, faultVars
  <1>7. CASE Create
    BY <1>4, <1>5, <1>7, GotoTypes DEF Create, Types, callVars, eventVars, faultVars
  <1>8. CASE Clear
    BY <1>4, <1>5, <1>8, GotoTypes DEF Clear, Types, callVars, eventVars, faultVars
  <1> QED BY <1>1, <1>2, <1>3, <1>6, <1>7, <1>8 DEF Starting

LEMMA CutTypes ==
  ASSUME Types, NEW p, NEW broken, Cut(p, broken)
  PROVE  /\ req' \in [Requests -> ReqPlaces]
         /\ handlers' \subseteq Requests
         /\ finished' = finished
         /\ outbox' \subseteq finished
  BY DEF Types, Cut, ReqPlaces

LEMMA StoppingTypes ==
  ASSUME Types, NEW p \in Programs, Stopping(p) \/ Interrupt(p) \/ Kill(p)
  PROVE  Types'
  <1> USE DEF Types
  <1>1. CASE Close(p)
    <2>1. Front(open[p]) \in Seq(Closers)
      BY <1>1 DEF Close, Front
    <2>2. open' \in [Programs -> Seq(Closers)]
      BY <1>1, <2>1 DEF Close
    <2>3. req' \in [Requests -> ReqPlaces]
      BY <1>1 DEF Close, ReqPlaces
    <2>4. outbox' \subseteq finished /\ delivered' \subseteq finished
      BY <1>1 DEF Close, eventVars
    <2> QED BY <1>1, <2>2, <2>3, <2>4 DEF Close, storeVars, faultVars
  <1>2. CASE Exit(p)
    BY <1>2, CutTypes, IdlePlaces, GotoTypes DEF Exit, Idle, storeVars, faultVars
  <1>3. CASE p = "update" /\ Drained
    BY <1>3, IdlePlaces, GotoTypes DEF Drained, Idle, storeVars, callVars, eventVars, faultVars
  <1>4. CASE Interrupt(p)
    <2>1. faults' \in 0..MaxFaults
      BY <1>4, MaxFaultsAssumption DEF Interrupt
    <2>2. at' \in [Programs -> Steps \cup Idle] /\ \A q \in Programs : at'[q] \in Places(q)
      BY <1>4, IdlePlaces, GotoTypes DEF Interrupt, Idle
    <2> QED BY <1>4, <2>1, <2>2 DEF Interrupt, storeVars, callVars, eventVars
  <1>5. CASE Kill(p)
    <2>1. faults' \in 0..MaxFaults
      BY <1>5, MaxFaultsAssumption DEF Kill
    <2>2. open' \in [Programs -> Seq(Closers)]
      BY <1>5 DEF Kill
    <2>3. PICK broken : Cut(p, broken)
      BY <1>5 DEF Kill
    <2>4. at' \in [Programs -> Steps \cup Idle] /\ \A q \in Programs : at'[q] \in Places(q)
      BY <1>5, IdlePlaces, GotoTypes DEF Kill, Idle
    <2>5. stopped' \subseteq Programs \cup Stores
      BY <1>5 DEF Kill
    <2> QED BY <1>5, <2>1, <2>2, <2>3, <2>4, <2>5, CutTypes DEF Kill
  <1> QED BY <1>1, <1>2, <1>3, <1>4, <1>5 DEF Stopping

StoreStep ==
  \/ \E s \in Stores : KillStore(s) \/ RestartStore(s)
  \/ \E c \in Programs \cup Stores : DockerStart(c)

LEMMA StoreTypes ==
  ASSUME Types, StoreStep \/ Flush
  PROVE  Types'
  <1> USE DEF Types
  <1>1. ASSUME NEW s \in Stores, KillStore(s) PROVE Types'
    <2>1. faults' \in 0..MaxFaults
      BY <1>1, MaxFaultsAssumption DEF KillStore
    <2>2. stopped' \subseteq Programs \cup Stores
      BY <1>1 DEF KillStore
    <2> QED BY <1>1, <2>1, <2>2 DEF KillStore, programVars, callVars, eventVars
  <1>2. ASSUME NEW s \in Stores, RestartStore(s) PROVE Types'
    BY <1>2 DEF RestartStore, programVars, callVars, eventVars, faultVars
  <1>3. ASSUME NEW c \in Programs \cup Stores, DockerStart(c) PROVE Types'
    BY <1>3 DEF DockerStart, programVars, callVars, eventVars, faultVars
  <1>4. CASE Flush
    BY <1>4 DEF Flush, programVars, storeVars, callVars, faultVars
  <1> QED BY <1>1, <1>2, <1>3, <1>4 DEF StoreStep

LEMMA CallTypes ==
  ASSUME Types, NEW r \in Requests, Arrive(r) \/ Leave(r) \/ Call(r) \/ End(r) \/ Reply(r)
  PROVE  Types'
  <1> USE DEF Types, programVars, storeVars, eventVars, faultVars
  <1>1. CASE Arrive(r)
    BY <1>1 DEF Arrive, ReqPlaces, Requested
  <1>2. CASE Call(r)
    BY <1>2 DEF Call, ReqPlaces, Requested
  <1>3. CASE End(r)
    BY <1>3 DEF End, ReqPlaces, Requested
  <1>4. CASE Reply(r)
    BY <1>4 DEF Reply, ReqPlaces
  <1>5. CASE Leave(r)
    BY <1>5 DEF Leave, ReqPlaces
  <1> QED BY <1>1, <1>2, <1>3, <1>4, <1>5

--------------------------------------------------------------------------------
(* Every action keeps the rest of the invariant. *)
Rest == MigrationInv /\ OpenInv /\ HandlersInv /\ RepliesInv /\ EventsInv

(* A step of a program that is not update moves nothing that Rest speaks of. *)
LEMMA StartingRest ==
  ASSUME IInv, NEW p \in Programs, Starting(p)
  PROVE  Rest'
  <1> USE DEF IInv, Rest, MigrationInv, OpenInv, HandlersInv, RepliesInv, EventsInv, Types, Goto,
          storeVars, callVars, eventVars, faultVars
  <1>1. CASE Restart(p)
    BY <1>1, UpdatePlaces DEF Restart
  <1>2. CASE Step(p) /\ p # "update"
    BY <1>2 DEF Step
  <1>3. CASE Step(p) /\ p = "update"
    <2>1. at["update"] \in {"db", "words", "broker", "serve"}
      BY <1>3, UpdatePlaces, StepsAreNames DEF Step, Places, Idle, Names
    <2>2. at'["update"] = Following("update", at["update"])
          /\ open'["update"] = open["update"] \o Opens(at["update"])
      BY <1>3 DEF Step
    <2>3. handlers = {} /\ UNCHANGED <<storeVars, callVars, eventVars, faultVars>>
      BY <1>3, <2>1 DEF Step
    <2>4. /\ at["update"] = "db" => at'["update"] = "migrate" /\ open'["update"] = <<"db">>
          /\ at["update"] = "words" => at'["update"] = "broker" /\ open'["update"] = <<"db", "words">>
          /\ at["update"] = "broker" => at'["update"] = "serve" /\ open'["update"] = <<"db", "words", "broker">>
          /\ at["update"] = "serve" => at'["update"] = "serving" /\ open'["update"] = <<"db", "words", "broker">>
      BY <2>2, UpdateSteps, UpdateOpens
    <2>5. EventsInv'
      BY <2>1, <2>3, <2>4, NotAllOpen
    <2>6. MigrationInv' /\ HandlersInv' /\ RepliesInv'
      BY <2>1, <2>3, <2>4
    <2>7. OpenInv'
      BY <2>1, <2>4
    <2> QED BY <2>5, <2>6, <2>7
  <1>4. CASE StepFails(p)
    <2>1. at[p] \notin Idle
      BY <1>4, StepsAreNames DEF StepFails, Idle, Names
    <2> QED BY <1>4, <2>1 DEF StepFails, Idle
  <1>5. CASE Migrate
    BY <1>5 DEF Migrate
  <1>6. CASE Create
    BY <1>6 DEF Create
  <1>7. CASE Clear
    BY <1>7 DEF Clear
  <1> QED BY <1>1, <1>2, <1>3, <1>4, <1>5, <1>6, <1>7 DEF Starting

LEMMA StoppingRest ==
  ASSUME IInv, NEW p \in Programs, Stopping(p)
  PROVE  Rest'
  <1> USE DEF IInv, Rest, MigrationInv, OpenInv, HandlersInv, RepliesInv, EventsInv, Types, Goto,
          storeVars, callVars, eventVars, faultVars
  <1>1. CASE Close(p)
    <2>1. RepliesInv'
      BY <1>1 DEF Close
    <2>2. MigrationInv' /\ OpenInv' /\ HandlersInv'
      BY <1>1 DEF Close
    <2>3. EventsInv'
      <3>1. CASE p = "update" /\ outbox # {} /\ killed \cap {"update", "nats"} = {}
        <4>1. Last(open[p]) = "broker" /\ "nats" \in up
          BY <3>1 DEF Last
        <4> QED BY <1>1, <4>1 DEF Close
      <3>2. CASE p # "update" \/ outbox = {} \/ killed \cap {"update", "nats"} # {}
        BY <1>1, <3>2 DEF Close
      <3> QED BY <3>1, <3>2
    <2> QED BY <2>1, <2>2, <2>3
  <1>2. CASE Exit(p)
    <2>1. MigrationInv' /\ OpenInv' /\ HandlersInv'
      BY <1>2 DEF Exit, Cut
    <2>2. RepliesInv'
      BY <1>2 DEF Exit, Cut
    <2>3. EventsInv'
      BY <1>2, NotAllOpen DEF Exit, Cut
    <2> QED BY <2>1, <2>2, <2>3
  <1>3. CASE p = "update" /\ Drained
    BY <1>3 DEF Drained
  <1> QED BY <1>1, <1>2, <1>3 DEF Stopping

LEMMA FaultRest ==
  ASSUME IInv, NEW p \in Programs, Interrupt(p) \/ Kill(p)
  PROVE  Rest'
  <1> USE DEF IInv, Rest, MigrationInv, OpenInv, HandlersInv, RepliesInv, EventsInv, Types, Goto,
          storeVars, callVars, eventVars, faultVars
  <1>1. CASE Interrupt(p)
    BY <1>1 DEF Interrupt
  <1>2. CASE Kill(p)
    <2>1. PICK broken : Cut(p, broken)
      BY <1>2 DEF Kill
    <2>2. MigrationInv' /\ OpenInv' /\ HandlersInv'
      BY <1>2, <2>1 DEF Kill, Cut
    <2>3. RepliesInv'
      BY <1>2, <2>1 DEF Kill, Cut
    <2>4. EventsInv'
      <3>1. CASE p = "update"
        BY <1>2, <3>1 DEF Kill
      <3>2. CASE p # "update"
        BY <1>2, <2>1, <3>2 DEF Kill, Cut
      <3> QED BY <3>1, <3>2
    <2> QED BY <2>2, <2>3, <2>4
  <1> QED BY <1>1, <1>2

LEMMA StoreRest ==
  ASSUME IInv, StoreStep \/ Flush
  PROVE  Rest'
  <1> USE DEF IInv, Rest, MigrationInv, OpenInv, HandlersInv, RepliesInv, EventsInv, Types,
          programVars, storeVars, callVars, eventVars, faultVars
  <1>1. ASSUME NEW s \in Stores, KillStore(s) PROVE Rest'
    BY <1>1 DEF KillStore
  <1>2. ASSUME NEW s \in Stores, RestartStore(s) PROVE Rest'
    BY <1>2 DEF RestartStore
  <1>3. ASSUME NEW c \in Programs \cup Stores, DockerStart(c) PROVE Rest'
    BY <1>3 DEF DockerStart
  <1>4. CASE Flush
    BY <1>4 DEF Flush
  <1> QED BY <1>1, <1>2, <1>3, <1>4 DEF StoreStep

LEMMA CallRest ==
  ASSUME IInv, NEW r \in Requests, Arrive(r) \/ Leave(r) \/ Call(r) \/ End(r) \/ Reply(r)
  PROVE  Rest'
  <1> USE DEF IInv, Rest, MigrationInv, OpenInv, HandlersInv, RepliesInv, EventsInv, Types,
          programVars, storeVars, callVars, eventVars, faultVars
  <1>1. CASE Arrive(r)
    BY <1>1 DEF Arrive
  <1>2. CASE Call(r)
    BY <1>2 DEF Call
  <1>3. CASE End(r)
    BY <1>3 DEF End
  <1>4. CASE Reply(r)
    BY <1>4 DEF Reply
  <1>5. CASE Leave(r)
    BY <1>5 DEF Leave
  <1> QED BY <1>1, <1>2, <1>3, <1>4, <1>5

LEMMA StepKeeps == IInv /\ [Next]_vars => IInv'
  <1> SUFFICES ASSUME IInv, [Next]_vars PROVE IInv'
    OBVIOUS
  <1> USE DEF IInv, Rest
  <1>1. ASSUME NEW p \in Programs, Starting(p) PROVE IInv'
    BY <1>1, StartingTypes, StartingRest
  <1>2. ASSUME NEW p \in Programs, Stopping(p) PROVE IInv'
    BY <1>2, StoppingTypes, StoppingRest
  <1>3. ASSUME NEW p \in Programs, Interrupt(p) \/ Kill(p) PROVE IInv'
    BY <1>3, StoppingTypes, FaultRest
  <1>4. CASE StoreStep \/ Flush
    BY <1>4, StoreTypes, StoreRest
  <1>5. ASSUME NEW r \in Requests, Arrive(r) \/ Leave(r) \/ Call(r) \/ End(r) \/ Reply(r) PROVE IInv'
    BY <1>5, CallTypes, CallRest
  <1>6. CASE UNCHANGED vars
    BY <1>6 DEF vars, programVars, storeVars, callVars, eventVars, faultVars, Types, MigrationInv, OpenInv,
       HandlersInv, RepliesInv, EventsInv
  <1> QED BY <1>1, <1>2, <1>3, <1>4, <1>5, <1>6 DEF Next, Settled, StoreStep

LEMMA Inductive == Spec => []IInv
  BY Start, StepKeeps, PTL DEF Spec

--------------------------------------------------------------------------------
(* The state of programs, stores, calls and events is what it is meant to be.   *)
THEOREM TypeCorrect == Spec => []TypeOK
  <1>1. IInv => TypeOK
    <2> SUFFICES ASSUME Types PROVE TypeOK
      BY DEF IInv
    <2>1. at \in [Programs -> Steps \cup {"down", "serving", "draining", "closing"}]
      BY DEF Types, Idle
    <2>2. ASSUME NEW p \in Programs
          PROVE  ToSet(open[p]) \subseteq {"db", "words", "update", "search", "broker"}
      BY DEF Types, Closers, ToSet
    <2> QED BY <2>1, <2>2 DEF Types, TypeOK
  <1> QED BY <1>1, Inductive, PTL

(* update.run serves only over a migrated table, whenever the process, Postgres *)
(* or NATS was killed before.                                                   *)
THEOREM ServedTableIsMigrated == Spec => []ServesMigratedTable
  <1>1. IInv => ServesMigratedTable
    BY DEF IInv, MigrationInv, ServesMigratedTable
  <1> QED BY <1>1, Inductive, PTL

(* The deferred closers of update.run wait for the last handler. *)
THEOREM ResourcesStay == Spec => []ResourcesOutliveHandlers
  <1>1. IInv => ResourcesOutliveHandlers
    BY DEF IInv, OpenInv, HandlersInv, ResourcesOutliveHandlers
  <1> QED BY <1>1, Inductive, PTL

(* The gateway answers 200 only when the call returned nil. *)
THEOREM AnswersAreTrue == Spec => []AnswersTrue
  <1>1. IInv => AnswersTrue
    BY DEF IInv, RepliesInv, AnswersTrue
  <1> QED BY <1>1, Inductive, PTL

(* An interrupt loses no event: the publisher is closed after the last handler. *)
THEOREM EventsSurvive == Spec => []EventsSurviveInterrupts
  <1>1. IInv => EventsSurviveInterrupts
    BY DEF IInv, EventsInv, EventsSurviveInterrupts
  <1> QED BY <1>1, Inductive, PTL

(* An accepted call goes away by returning or with a killed process, and it is *)
(* cancelled by a client that leaves or with the gateway; an interrupt of the   *)
(* update service does neither.                                                 *)
THEOREM AcceptedCallsAreKept == Spec => AcceptedCallsEnd
  <1>1. IInv /\ [Next]_vars => [AcceptedCallStep]_vars
    <2> SUFFICES ASSUME IInv, Next PROVE AcceptedCallStep
      OBVIOUS
    <2> USE DEF IInv, AcceptedCallStep, Cancelled
    <2>1. ASSUME handlers' = handlers, req' = req PROVE AcceptedCallStep
      BY <2>1
    <2>2. ASSUME NEW p \in Programs, Starting(p) PROVE AcceptedCallStep
      BY <2>1, <2>2 DEF Starting, Restart, Step, StepFails, Migrate, Create, Clear, callVars
    <2>3. ASSUME NEW p \in Programs, Close(p) PROVE AcceptedCallStep
      <3>1. CASE p = "api"
        BY <2>3, <3>1 DEF Close
      <3>2. CASE p # "api"
        <4>1. handlers' = handlers /\ \A r \in Requests : req'[r] = req[r]
          BY <2>3, <3>2 DEF Close, Types
        <4> QED BY <4>1 DEF Types
      <3> QED BY <3>1, <3>2
    <2>4. ASSUME NEW p \in Programs, Exit(p) PROVE AcceptedCallStep
      <3>1. CASE p = "api"
        BY <2>4, <3>1 DEF Exit, Cut
      <3>2. CASE p = "update"
        <4>1. handlers = {}
          BY <2>4, <3>2 DEF Exit, HandlersInv
        <4> QED BY <4>1
      <3>3. CASE p \notin {"api", "update"}
        <4>1. handlers' = handlers /\ \A r \in Requests : req'[r] = req[r]
          BY <2>4, <3>3 DEF Exit, Cut, Types
        <4> QED BY <4>1 DEF Types
      <3> QED BY <3>1, <3>2, <3>3
    <2>5. CASE Drained
      BY <2>1, <2>5 DEF Drained, callVars
    <2>6. ASSUME NEW p \in Programs, Interrupt(p) PROVE AcceptedCallStep
      BY <2>1, <2>6 DEF Interrupt, callVars
    <2>7. ASSUME NEW p \in Programs, Kill(p) PROVE AcceptedCallStep
      <3>1. PICK broken : Cut(p, broken)
        BY <2>7 DEF Kill
      <3>2. CASE p = "api"
        BY <2>7, <3>1, <3>2 DEF Cut
      <3>3. CASE p = "update"
        BY <2>7, <3>1, <3>3 DEF Cut
      <3>4. CASE p \notin {"api", "update"}
        <4>1. handlers' = handlers /\ \A r \in Requests : req'[r] = req[r]
          BY <3>1, <3>4 DEF Cut, Types
        <4> QED BY <4>1 DEF Types
      <3> QED BY <3>2, <3>3, <3>4
    <2>8. CASE StoreStep \/ Flush \/ Settled
      BY <2>1, <2>8 DEF StoreStep, KillStore, RestartStore, DockerStart, Flush, Settled, vars, callVars
    <2>9. ASSUME NEW r \in Requests, Arrive(r) \/ Call(r) \/ Reply(r) PROVE AcceptedCallStep
      <3>1. handlers \subseteq handlers'
        BY <2>9 DEF Arrive, Call, Reply
      <3>2. \A q \in Requests : req[q] = "held" => req'[q] = "held"
        BY <2>9 DEF Arrive, Call, Reply, Types
      <3> QED BY <3>1, <3>2 DEF Types
    <2>10. ASSUME NEW r \in Requests, Leave(r) PROVE AcceptedCallStep
      <3>1. handlers' = handlers /\ \A q \in Requests \ {r} : req'[q] = req[q]
        BY <2>10 DEF Leave, Types
      <3> QED BY <2>10, <3>1 DEF Types
    <2>11. ASSUME NEW r \in Requests, End(r) PROVE AcceptedCallStep
      <3>1. handlers' = handlers \ {r} /\ \A q \in Requests \ {r} : req'[q] = req[q]
        BY <2>11 DEF End, Types
      <3> QED BY <2>11, <3>1 DEF Types
    <2> QED BY <2>2, <2>3, <2>4, <2>5, <2>6, <2>7, <2>8, <2>9, <2>10, <2>11 DEF Next, Stopping, StoreStep
  <1> QED BY <1>1, Inductive, PTL DEF Spec, AcceptedCallsEnd
================================================================================
