------------------------------- MODULE AdminSession -------------------------------
(*******************************************************************************)
(* The administrator's requests on their way through the four hops: the browser *)
(* with its cookie, the web server's handlers, the API gateway with its Auth    *)
(* middleware and tokens, and the update service.                               *)
(*                                                                              *)
(* A request has two sides.  The web handler waits for the API at most for the  *)
(* time withTimeout allows; the work it asked for goes on behind its back, and  *)
(* the update service may still be winding a call down of which the gateway has *)
(* already reported the error.  Of the update service only this is kept: which  *)
(* call holds its status, and whether that succeeds, fails or never ends        *)
(* (UpdateService).                                                             *)
(*******************************************************************************)
EXTENDS Naturals, FiniteSets

CONSTANTS
  Requests,  \* the forms that the browser's tabs submit
  Faults     \* whether a service or a connection may fail, TRUE or FALSE

ASSUME FaultsAssumption == Faults \in BOOLEAN

VARIABLES
  form,     \* what was submitted
  web,      \* where the web handler is
  back,     \* how far the request came behind the web server
  carried,  \* the token it carries: a set of at most one
  shown,    \* the message of the answer
  jar,      \* the cookie in the browser: a set of at most one token
  issued,   \* the tokens the API has signed, named after the login request
  expired,  \* those that are no longer valid
  held,     \* the request whose call holds the update service's status, if any
  effect,   \* what a request has done to the table
  met       \* history: the commands of others that held it while r was waiting

vars == <<form, web, back, carried, shown, jar, issued, expired, held, effect, met>>

Forms     == {"login", "badLogin", "emptyLogin", "logout", "update", "drop"}
Commands  == {"update", "drop"}
Replies   == {"200", "202", "401", "500"}
WebPlaces == {"new", "waiting", "done", "gone"}
BackPlaces == {"none", "api", "grpc", "held"} \cup Replies
Messages  == {"none", "loggedIn", "loggedOut", "enterCredentials", "loginFirst",
              "started", "alreadyRunning", "cleared", "sessionExpired", "error"}

Init ==
  /\ form = [r \in Requests |-> "none"]
  /\ web = [r \in Requests |-> "new"]
  /\ back = [r \in Requests |-> "none"]
  /\ carried = [r \in Requests |-> {}]
  /\ shown = [r \in Requests |-> "none"]
  /\ jar = {}
  /\ issued = {}
  /\ expired = {}
  /\ held = {}
  /\ effect = [r \in Requests |-> "none"]
  /\ met = [r \in Requests |-> {}]

--------------------------------------------------------------------------------
(* The browser and the web handlers. *)

(* The answer reaches the browser: the message and what it does to the cookie. *)
Show(r, message, cookie) ==
  /\ web' = [web EXCEPT ![r] = "done"]
  /\ shown' = [shown EXCEPT ![r] = message]
  /\ jar' = cookie

TokenFromCookie == jar
SaveToken(r) == {r}
DropToken == {}

(* A form is submitted with the cookie of the moment.  Some are answered       *)
(* without asking the API, as a login that is empty or cannot be parsed; the    *)
(* others are sent on.                                                          *)
Submit(r, f) ==
  /\ web[r] = "new"
  /\ form' = [form EXCEPT ![r] = f]
  /\ carried' = [carried EXCEPT ![r] = TokenFromCookie]
  /\ \/ f = "logout" /\ Show(r, "loggedOut", DropToken) /\ UNCHANGED back
     \/ /\ f = "emptyLogin"
        /\ \E message \in {"enterCredentials", "error"} : Show(r, message, jar)
        /\ UNCHANGED back
     \/ f \in Commands /\ TokenFromCookie = {} /\ Show(r, "loginFirst", jar) /\ UNCHANGED back
     \/ /\ f \in {"login", "badLogin"} \/ (f \in Commands /\ TokenFromCookie # {})
        /\ web' = [web EXCEPT ![r] = "waiting"]
        /\ back' = [back EXCEPT ![r] = "api"]
        /\ UNCHANGED <<shown, jar>>
  /\ met' = [met EXCEPT ![r] = {form[q] : q \in held}]
  /\ UNCHANGED <<issued, expired, held, effect>>

(* Mutant: the body of the reply is saved whatever its status. *)
AnswerLoginSaving(r) ==
  /\ web[r] = "waiting"
  /\ form[r] \notin Commands
  /\ back[r] \in Replies
  /\ Show(r, IF back[r] = "200" THEN "loggedIn" ELSE "error", SaveToken(r))
  /\ UNCHANGED <<form, back, carried, issued, expired, held, effect, met>>

(* handleLogin, on the API's reply. *)
AnswerLogin(r) ==
  /\ web[r] = "waiting"
  /\ form[r] \notin Commands
  /\ \/ back[r] = "200" /\ Show(r, "loggedIn", SaveToken(r))
     \/ back[r] \in Replies \ {"200"} /\ Show(r, "error", jar)
  /\ UNCHANGED <<form, back, carried, issued, expired, held, effect, met>>

(* Mutant: every unexpected reply ends the session. *)
AnswerCommandDropping(r) ==
  /\ web[r] = "waiting"
  /\ form[r] \in Commands
  /\ \/ back[r] = "200" /\ Show(r, IF form[r] = "update" THEN "started" ELSE "cleared", jar)
     \/ back[r] = "202" /\ Show(r, "alreadyRunning", jar)
     \/ back[r] \in {"401", "500"} /\ Show(r, "error", DropToken)
  /\ UNCHANGED <<form, back, carried, issued, expired, held, effect, met>>

(* handleUpdate and handleDrop, on the API's reply. *)
AnswerCommand(r) ==
  /\ web[r] = "waiting"
  /\ form[r] \in Commands
  /\ \/ back[r] = "200" /\ Show(r, IF form[r] = "update" THEN "started" ELSE "cleared", jar)
     \/ back[r] = "202" /\ Show(r, "alreadyRunning", jar)
     \/ back[r] = "401" /\ Show(r, "sessionExpired", DropToken)
     \/ back[r] = "500" /\ Show(r, "error", jar)
  /\ UNCHANGED <<form, back, carried, issued, expired, held, effect, met>>

(* Mutant: only the login is under withTimeout. *)
TimeoutLogin(r) ==
  /\ web[r] = "waiting"
  /\ form[r] \notin Commands
  /\ Show(r, "error", jar)
  /\ UNCHANGED <<form, back, carried, issued, expired, held, effect, met>>

(* The deadline of withTimeout passes; the handler shows the error. *)
Timeout(r) ==
  /\ web[r] = "waiting"
  /\ Show(r, "error", jar)
  /\ UNCHANGED <<form, back, carried, issued, expired, held, effect, met>>

(* The connection to the API breaks: httpClient.Do returns an error. *)
Disconnect(r) ==
  /\ Faults
  /\ web[r] = "waiting"
  /\ Show(r, "error", jar)
  /\ UNCHANGED <<form, back, carried, issued, expired, held, effect, met>>

(* The user closes the tab: nobody is there for the answer or its cookie.      *)
Leave(r) ==
  /\ web[r] = "waiting"
  /\ web' = [web EXCEPT ![r] = "gone"]
  /\ UNCHANGED <<form, back, carried, shown, jar, issued, expired, held, effect, met>>

(* The cookie's Expires passes; it is not before the token's own expiry.       *)
CookieExpires ==
  /\ jar \cap expired # {}
  /\ jar' = {}
  /\ UNCHANGED <<form, web, back, carried, shown, issued, expired, held, effect, met>>

--------------------------------------------------------------------------------
(* The API gateway. *)

Reply(r, code) == back' = [back EXCEPT ![r] = code]

(* AAA.Login: the user is known and the password is right. *)
Accepts(f) == f = "login"

(* AAA.Verify: signed by the API and not expired. *)
Valid(token) == token \subseteq issued \ expired

(* Mutant: the password is not compared. *)
LoginUnchecked(r) ==
  /\ back[r] = "api"
  /\ form[r] \notin Commands
  /\ Reply(r, "200")
  /\ issued' = issued \cup {r}
  /\ UNCHANGED <<form, web, carried, shown, jar, expired, held, effect, met>>

(* NewLoginHandler *)
Login(r) ==
  /\ back[r] = "api"
  /\ form[r] \notin Commands
  /\ \/ Accepts(form[r]) /\ Reply(r, "200") /\ issued' = issued \cup {r}
     \/ ~Accepts(form[r]) /\ Reply(r, "401") /\ UNCHANGED issued
  /\ UNCHANGED <<form, web, carried, shown, jar, expired, held, effect, met>>

(* Mutant: the routes are not wrapped in Auth. *)
AuthMissing(r) ==
  /\ back[r] = "api"
  /\ form[r] \in Commands
  /\ Reply(r, "grpc")
  /\ UNCHANGED <<form, web, carried, shown, jar, issued, expired, held, effect, met>>

(* The middleware Auth *)
Auth(r) ==
  /\ back[r] = "api"
  /\ form[r] \in Commands
  /\ Reply(r, IF Valid(carried[r]) THEN "grpc" ELSE "401")
  /\ UNCHANGED <<form, web, carried, shown, jar, issued, expired, held, effect, met>>

(* The token's exp passes. *)
TokenExpires(t) ==
  /\ t \in issued \ expired
  /\ expired' = expired \cup {t}
  /\ UNCHANGED <<form, web, back, carried, shown, jar, issued, held, effect, met>>

(* What the gateway makes of the outcome of an Update, and of a Drop, for      *)
(* which "already exists" is an error like the others.                         *)
UpdateCode(outcome) ==
  CASE outcome = "ok" -> "200" [] outcome = "exists" -> "202" [] outcome = "failed" -> "500"

DropCode(outcome) == IF outcome = "ok" THEN "200" ELSE "500"

CodeOf(r, outcome) == IF form[r] = "update" THEN UpdateCode(outcome) ELSE DropCode(outcome)

(* The gRPC call reaches the update service, which accepts it or not. *)
Begin(r) ==
  /\ back[r] = "grpc"
  /\ \/ /\ held = {}
        /\ held' = {r}
        /\ Reply(r, "held")
        /\ effect' = [effect EXCEPT ![r] = "accepted"]
        /\ met' = [q \in Requests |->
                    IF q # r /\ web[q] = "waiting" THEN met[q] \cup {form[r]} ELSE met[q]]
     \/ /\ held # {}
        /\ Reply(r, CodeOf(r, "exists"))
        /\ UNCHANGED <<held, effect, met>>
  /\ UNCHANGED <<form, web, carried, shown, jar, issued, expired>>

(* The caller's context is over, or there may be faults. *)
CanFail(r) == Faults \/ web[r] # "waiting"

(* The call does not reach the update service. *)
Unavailable(r) ==
  /\ back[r] = "grpc"
  /\ CanFail(r)
  /\ Reply(r, CodeOf(r, "failed"))
  /\ UNCHANGED <<form, web, carried, shown, jar, issued, expired, held, effect, met>>

(* The gateway's side of an accepted call ends, because the context is over or *)
(* the connection has broken; the handler of the update service does not know  *)
(* of it yet.                                                                   *)
Abandon(r) ==
  /\ back[r] = "held"
  /\ CanFail(r)
  /\ Reply(r, CodeOf(r, "failed"))
  /\ UNCHANGED <<form, web, carried, shown, jar, issued, expired, held, effect, met>>

(* The gateway is told the outcome, if it still waits for it. *)
Report(r, outcome) == IF back[r] = "held" THEN Reply(r, CodeOf(r, outcome)) ELSE UNCHANGED back

(* Mutant: the gateway does not look at the error of the call. *)
EndUnchecked(r) ==
  /\ r \in held
  /\ held' = {}
  /\ Report(r, "ok")
  /\ \/ effect' = [effect EXCEPT ![r] = IF form[r] = "update" THEN "completed" ELSE "emptied"]
     \/ CanFail(r) /\ UNCHANGED effect
  /\ UNCHANGED <<form, web, carried, shown, jar, issued, expired, met>>

(* The accepted call ends: Update has stored every comic, Drop has emptied the *)
(* table, or the call failed half-way, crashed or was cancelled, with or       *)
(* without having emptied the table.                                           *)
End(r) ==
  /\ r \in held
  /\ held' = {}
  /\ \/ /\ Report(r, "ok")
        /\ effect' = [effect EXCEPT ![r] = IF form[r] = "update" THEN "completed" ELSE "emptied"]
     \/ /\ CanFail(r) \/ back[r] # "held"
        /\ Report(r, "failed")
        /\ \/ UNCHANGED effect
           \/ form[r] = "drop" /\ effect' = [effect EXCEPT ![r] = "emptied"]
  /\ UNCHANGED <<form, web, carried, shown, jar, issued, expired, met>>

--------------------------------------------------------------------------------
Finished == (\A r \in Requests : web[r] \in {"done", "gone"}) /\ UNCHANGED vars

Answer(r) == AnswerLogin(r) \/ AnswerCommand(r)

Work(r) == Login(r) \/ Auth(r) \/ Begin(r) \/ Unavailable(r) \/ Abandon(r) \/ End(r)

Next ==
  \/ \E r \in Requests, f \in Forms : Submit(r, f)
  \/ \E r \in Requests : Answer(r) \/ Timeout(r) \/ Disconnect(r) \/ Leave(r) \/ Work(r) \/ TokenExpires(r)
  \/ CookieExpires \/ Finished

Spec == Init /\ [][Next]_vars

(* The web handler takes the answer or gives up; nothing else is promised: an  *)
(* accepted Update may hang.                                                   *)
WebFairness == \A r \in Requests : WF_vars(Answer(r) \/ Timeout(r))

WebSpec == Spec /\ WebFairness

(* Everything behind the web server goes on, too. *)
FairSpec == WebSpec /\ \A r \in Requests : WF_vars(Work(r))

--------------------------------------------------------------------------------
(* Properties. *)

TypeOK ==
  /\ form \in [Requests -> Forms \cup {"none"}]
  /\ web \in [Requests -> WebPlaces]
  /\ back \in [Requests -> BackPlaces]
  /\ carried \in [Requests -> SUBSET Requests]
  /\ shown \in [Requests -> Messages]
  /\ jar \subseteq issued /\ Cardinality(jar) <= 1
  /\ issued \subseteq Requests
  /\ expired \subseteq issued
  /\ held \subseteq Requests /\ Cardinality(held) <= 1
  /\ effect \in [Requests -> {"none", "accepted", "completed", "emptied"}]
  /\ met \in [Requests -> SUBSET Commands]

(* The admin page never says more than what happened, across four hops, lost   *)
(* replies and late ones: "started" is an Update that has finished, "cleared" a *)
(* table that this request has emptied, "session expired" a token that has, and *)
(* "already running" a call of somebody else that held the update service at a *)
(* moment between this request and its answer, be it a cancelled one that is    *)
(* still being wound down.  It may be a Drop: AlreadyRunningIsAnUpdate.         *)
MessagesTrue ==
  \A r \in Requests :
    /\ shown[r] = "started" => effect[r] = "completed"
    /\ shown[r] = "cleared" => effect[r] = "emptied"
    /\ shown[r] = "alreadyRunning" => met[r] # {}
    /\ shown[r] = "sessionExpired" => carried[r] # {} /\ carried[r] \subseteq expired

(* "An update is already running" (web/server.go:194) is said only to a user    *)
(* whose request met an Update, not to one who met a Drop.                      *)
AlreadyRunningIsAnUpdate ==
  \A r \in Requests : shown[r] = "alreadyRunning" => "update" \in met[r]

(* Whoever makes the update service do something has logged in with the right  *)
(* password, in this or in an earlier request, and is not told otherwise.      *)
OnlySessionsCommand ==
  \A r \in Requests :
    effect[r] # "none" =>
      /\ carried[r] # {}
      /\ \A t \in carried[r] : form[t] = "login"
      /\ shown[r] # "sessionExpired"

(* A request that reaches the gateway with an expired token, its cookie having *)
(* lived longer than the token, never has an effect.                           *)
ExpiredIsPowerless ==
  \A r \in Requests :
    [](back[r] = "api" /\ form[r] \in Commands /\ carried[r] \cap expired # {} =>
         [](effect[r] = "none"))

(* A cookie whose token is valid goes away by a logout, or by the answer to a  *)
(* request that still carried another, expired token: no failure, no refusal   *)
(* and no timeout of its own requests ends a session.                          *)
KeepsSession ==
  jar # {} /\ jar' = {} /\ jar \cap expired = {} =>
    \E r \in Requests :
      /\ web[r] # "done" /\ web'[r] = "done"
      /\ form'[r] = "logout" \/ (carried[r] # jar /\ carried[r] \subseteq expired)

SessionKept == [][KeepsSession]_vars

(* Every form that was submitted is answered in the end, even if an accepted   *)
(* Update hangs for ever and keeps the status: the handlers run withTimeout.   *)
EveryFormAnswered ==
  \A r \in Requests : web[r] = "waiting" ~> web[r] \in {"done", "gone"}

(* "Press Start update, so that the update service fetches XKCD and builds the *)
(* index" (README.md:60): where nothing fails, the Update that was accepted    *)
(* for the user who waits on the admin page is completed.                      *)
UpdateCompletes ==
  \A r \in Requests :
    (form[r] = "update" /\ back[r] = "held") ~> (effect[r] = "completed" \/ web[r] = "gone")
================================================================================
