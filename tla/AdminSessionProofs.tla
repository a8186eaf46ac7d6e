---------------------------- MODULE AdminSessionProofs ----------------------------
(* Theorems about AdminSession, for every number of requests, with and without  *)
(* faults.                                                                      *)
EXTENDS AdminSession, FiniteSetTheorems, TLAPS

Types ==
  /\ form \in [Requests -> Forms \cup {"none"}]
  /\ web \in [Requests -> WebPlaces]
  /\ back \in [Requests -> BackPlaces]
  /\ carried \in [Requests -> SUBSET Requests]
  /\ shown \in [Requests -> Messages]
  /\ effect \in [Requests -> {"none", "accepted", "completed", "emptied"}]
  /\ held \subseteq Requests
  /\ met \in [Requests -> SUBSET Commands]

(* Every token is a login's, and nobody holds two of them. *)
TokenInv ==
  /\ issued \subseteq Requests
  /\ expired \subseteq issued
  /\ jar \subseteq issued
  /\ \A s, t \in jar : s = t
  /\ \A t \in issued : form[t] = "login" /\ back[t] = "200"
  /\ \A r \in Requests : carried[r] \subseteq issued /\ \A s, t \in carried[r] : s = t

(* What is known of a request from how far it has come behind the web server.  *)
BackInv ==
  \A r \in Requests :
    /\ web[r] = "new" => form[r] = "none" /\ back[r] = "none" /\ effect[r] = "none"
    /\ web[r] # "done" => shown[r] = "none"
    /\ web[r] = "waiting" => back[r] # "none"
    /\ back[r] # "none" => form[r] \in Commands \cup {"login", "badLogin"}
    /\ back[r] # "none" /\ form[r] \in Commands => carried[r] # {}
    /\ back[r] \in {"grpc", "held", "202", "500"} => form[r] \in Commands
    /\ effect[r] # "none" => form[r] \in Commands /\ back[r] \in {"held", "200", "500"}
    /\ back[r] = "200" /\ form[r] = "update" => effect[r] = "completed"
    /\ back[r] = "200" /\ form[r] = "drop" => effect[r] = "emptied"
    /\ back[r] = "200" /\ form[r] \notin Commands => r \in issued
    /\ back[r] = "401" /\ form[r] \in Commands => carried[r] \subseteq expired

(* At most one call holds the status; the gateway may have stopped waiting for  *)
(* it.  A waiting request has met the call that holds it now, and one that was  *)
(* refused has met a call.                                                      *)
HeldInv ==
  /\ \A q, r \in held : q = r
  /\ \A r \in Requests : back[r] = "held" => r \in held
  /\ \A r \in held :
       effect[r] = "accepted" /\ form[r] \in Commands /\ back[r] \in {"held", "500"}
  /\ \A r \in Requests :
       /\ web[r] = "waiting" => \A q \in held \ {r} : form[q] \in met[r]
       /\ web[r] = "waiting" /\ back[r] = "202" => met[r] # {}

(* What an answer that was shown came from. *)
ShownInv ==
  \A r \in Requests :
    /\ shown[r] = "started" => back[r] = "200" /\ form[r] = "update"
    /\ shown[r] = "cleared" => back[r] = "200" /\ form[r] = "drop"
    /\ shown[r] = "alreadyRunning" => met[r] # {}
    /\ shown[r] = "sessionExpired" => back[r] = "401" /\ form[r] \in Commands

IInv == Types /\ TokenInv /\ BackInv /\ HeldInv /\ ShownInv

--------------------------------------------------------------------------------
LEMMA Start == Init => IInv
  <1> QED BY DEF Init, IInv, Types, TokenInv, BackInv, HeldInv, ShownInv, Forms, Commands,
                 WebPlaces, BackPlaces, Replies, Messages

LEMMA SubmitKeeps ==
  ASSUME IInv, NEW r \in Requests, NEW f \in Forms, Submit(r, f)
  PROVE  IInv'
  <1> USE DEF Types, Forms, Commands, WebPlaces, BackPlaces, Replies, Messages, Submit, Show,
              TokenFromCookie, DropToken
  <1>0. {form[q] : q \in held} \in SUBSET Commands
    BY DEF IInv, HeldInv
  <1>1. Types'
    BY <1>0 DEF IInv, TokenInv
  <1>2. TokenInv'
    BY DEF IInv, TokenInv, BackInv
  <1>3. BackInv'
    BY DEF IInv, BackInv, TokenInv
  <1>4. HeldInv'
    BY DEF IInv, HeldInv, BackInv
  <1>5. ShownInv'
    BY DEF IInv, ShownInv, BackInv
  <1> QED BY <1>1, <1>2, <1>3, <1>4, <1>5 DEF IInv

(* The steps of the web handlers and the browser that end a request. *)
LEMMA WebKeeps ==
  ASSUME IInv, NEW r \in Requests,
         AnswerLogin(r) \/ AnswerCommand(r) \/ Timeout(r) \/ Disconnect(r) \/ Leave(r)
  PROVE  IInv'
  <1> USE DEF Types, Forms, Commands, WebPlaces, BackPlaces, Replies, Messages, Show, SaveToken,
              DropToken, AnswerLogin, AnswerCommand, Timeout, Disconnect, Leave
  <1>0. UNCHANGED <<form, back, carried, issued, expired, held, effect, met>> /\ web[r] = "waiting"
    OBVIOUS
  <1>1. Types'
    BY DEF IInv
  <1>2. TokenInv'
    BY <1>0 DEF IInv, TokenInv, BackInv
  <1>3. BackInv'
    BY <1>0 DEF IInv, BackInv
  <1>4. HeldInv'
    BY <1>0 DEF IInv, HeldInv
  <1>5. ShownInv'
    BY <1>0 DEF IInv, ShownInv, BackInv, HeldInv
  <1> QED BY <1>1, <1>2, <1>3, <1>4, <1>5 DEF IInv

(* Login and Auth of the gateway. *)
LEMMA GatewayKeeps ==
  ASSUME IInv, NEW r \in Requests, Login(r) \/ Auth(r)
  PROVE  IInv'
  <1> USE DEF Types, Forms, Commands, WebPlaces, BackPlaces, Replies, Messages, Reply, Accepts,
              Valid, Login, Auth
  <1>0. back[r] = "api" /\ UNCHANGED <<form, web, carried, shown, jar, expired, held, effect, met>>
    OBVIOUS
  <1>1. Types'
    BY DEF IInv
  <1>2. TokenInv'
    BY <1>0 DEF IInv, TokenInv, BackInv
  <1>3. BackInv'
    BY <1>0 DEF IInv, BackInv, TokenInv
  <1>4. HeldInv'
    BY <1>0 DEF IInv, HeldInv
  <1>5. ShownInv'
    BY <1>0 DEF IInv, ShownInv
  <1> QED BY <1>1, <1>2, <1>3, <1>4, <1>5 DEF IInv

(* The gRPC call and its end. *)
LEMMA CallKeeps ==
  ASSUME IInv, NEW r \in Requests, Begin(r) \/ Unavailable(r) \/ Abandon(r) \/ End(r)
  PROVE  IInv'
  <1> USE DEF Types, Forms, Commands, WebPlaces, BackPlaces, Replies, Messages, Reply, CodeOf,
              UpdateCode, DropCode, Begin, Unavailable, Abandon, Report, End
  <1>0. /\ back[r] \in {"grpc", "held", "500"} /\ form[r] \in Commands
        /\ UNCHANGED <<form, web, carried, shown, jar, issued, expired>>
    BY DEF IInv, BackInv, HeldInv
  <1>1. Types'
    BY <1>0 DEF IInv
  <1>2. TokenInv'
    BY <1>0 DEF IInv, TokenInv
  <1>3. BackInv'
    BY <1>0 DEF IInv, BackInv, HeldInv
  <1>4. HeldInv'
    BY <1>0 DEF IInv, HeldInv, BackInv
  <1>5. ShownInv'
    BY <1>0 DEF IInv, ShownInv
  <1> QED BY <1>1, <1>2, <1>3, <1>4, <1>5 DEF IInv

LEMMA StepKeeps == IInv /\ [Next]_vars => IInv'
  <1> SUFFICES ASSUME IInv, [Next]_vars PROVE IInv'
    OBVIOUS
  <1>1. CASE \E r \in Requests, f \in Forms : Submit(r, f)
    BY <1>1, SubmitKeeps
  <1>2. CASE \E r \in Requests : Answer(r) \/ Timeout(r) \/ Disconnect(r) \/ Leave(r)
    BY <1>2, WebKeeps DEF Answer
  <1>3. CASE \E r \in Requests : Work(r)
    BY <1>3, GatewayKeeps, CallKeeps DEF Work
  <1>4. CASE \E r \in Requests : TokenExpires(r)
    BY <1>4 DEF TokenExpires, IInv, Types, TokenInv, BackInv, HeldInv, ShownInv
  <1>5. CASE CookieExpires
    BY <1>5 DEF CookieExpires, IInv, Types, TokenInv, BackInv, HeldInv, ShownInv
  <1>6. CASE Finished \/ UNCHANGED vars
    BY <1>6 DEF Finished, vars, IInv, Types, TokenInv, BackInv, HeldInv, ShownInv
  <1> QED BY <1>1, <1>2, <1>3, <1>4, <1>5, <1>6 DEF Next

THEOREM Inductive == Spec => []IInv
  <1> QED BY Start, StepKeeps, PTL DEF Spec

--------------------------------------------------------------------------------
(* The variables stay in their types; the browser holds at most one cookie, of  *)
(* a token that the API has signed.                                             *)
THEOREM TypeCorrect == Spec => []TypeOK
  <1>1. ASSUME NEW S, \A s, t \in S : s = t PROVE Cardinality(S) <= 1
    <2>1. CASE S = {}
      BY <2>1, FS_EmptySet
    <2>2. CASE S # {}
      <3>1. PICK s \in S : S = {s}
        BY <1>1, <2>2
      <3>2. Cardinality({s}) = 1
        BY FS_Singleton
      <3>3. Cardinality(S) = 1
        BY <3>1, <3>2
      <3> QED BY <3>3
    <2> QED BY <2>1, <2>2
  <1>2. IInv => Cardinality(jar) <= 1 /\ Cardinality(held) <= 1
    BY <1>1 DEF IInv, TokenInv, HeldInv
  <1>3. IInv => TypeOK
    BY <1>2 DEF IInv, Types, TokenInv, TypeOK
  <1> QED BY <1>3, Inductive, PTL

(* Messages are true across the four hops, with lost and late replies: the      *)
(* table has become what the page says, or the token has expired, or somebody   *)
(* else's Update or Drop held the update service while the request was on its   *)
(* way.                                                                         *)
THEOREM MessagesAreTrue == Spec => []MessagesTrue
  <1>1. IInv => MessagesTrue
    BY DEF IInv, BackInv, HeldInv, ShownInv, MessagesTrue
  <1> QED BY <1>1, Inductive, PTL

(* Only a request that carries the token of a login with the right password     *)
(* makes the update service do something.                                       *)
THEOREM SessionsCommand == Spec => []OnlySessionsCommand
  <1>1. IInv => OnlySessionsCommand
    BY DEF IInv, Types, TokenInv, BackInv, ShownInv, OnlySessionsCommand
  <1> QED BY <1>1, Inductive, PTL

(* A cookie with a valid token is deleted by a logout, or by the late answer    *)
(* to a request that carried an older token, and by nothing else.               *)
THEOREM SessionIsKept == Spec => SessionKept
  <1>1. IInv /\ [Next]_vars => [KeepsSession]_vars
    <2> SUFFICES ASSUME IInv, [Next]_vars, jar # {}, jar' = {}, jar \cap expired = {}
                 PROVE  \E r \in Requests :
                          /\ web[r] # "done" /\ web'[r] = "done"
                          /\ form'[r] = "logout" \/ (carried[r] # jar /\ carried[r] \subseteq expired)
      BY DEF KeepsSession
    <2>1. CASE \E r \in Requests, f \in Forms : Submit(r, f)
      BY <2>1 DEF Submit, Show, IInv, Types, WebPlaces
    <2>2. CASE \E r \in Requests : AnswerCommand(r)
      <3>1. PICK r \in Requests : AnswerCommand(r)
        BY <2>2
      <3>2. back[r] = "401" /\ form[r] \in Commands /\ web[r] = "waiting" /\ web'[r] = "done"
        BY <3>1 DEF AnswerCommand, Show, IInv, Types
      <3>3. carried[r] # {} /\ carried[r] \subseteq expired
        BY <3>2 DEF IInv, BackInv
      <3> QED BY <3>2, <3>3
    <2>3. CASE \E r \in Requests : AnswerLogin(r) \/ Timeout(r) \/ Disconnect(r) \/ Leave(r)
      BY <2>3 DEF AnswerLogin, Timeout, Disconnect, Leave, Show, SaveToken
    <2>4. CASE \E r \in Requests : Work(r) \/ TokenExpires(r)
      BY <2>4 DEF Work, Login, Auth, Begin, Unavailable, Abandon, Report, End, TokenExpires
    <2>5. CASE CookieExpires \/ Finished \/ UNCHANGED vars
      BY <2>5 DEF CookieExpires, Finished, vars
    <2> QED BY <2>1, <2>2, <2>3, <2>4, <2>5 DEF Next, Answer
  <1> QED BY <1>1, Inductive, PTL DEF Spec, SessionKept

(* A request that reaches the gateway with an expired token has no effect, now  *)
(* or later: Auth answers 401, and a 401 is never taken back.                   *)
THEOREM ExpiredHasNoEffect == Spec => ExpiredIsPowerless
  <1> DEFINE Expired(r) == back[r] = "api" /\ form[r] \in Commands /\ carried[r] \cap expired # {}
             Refused(r) == /\ back[r] \in {"api", "401"}
                           /\ form[r] \in Commands
                           /\ carried[r] \cap expired # {}
                           /\ effect[r] = "none"
  <1>1. ASSUME NEW r \in Requests PROVE Spec => [](Expired(r) => [](effect[r] = "none"))
    <2>1. IInv /\ Expired(r) => Refused(r)
      BY DEF IInv, BackInv
    <2>2. IInv /\ Refused(r) /\ [Next]_vars => Refused(r)'
      <3> SUFFICES ASSUME IInv, Refused(r), [Next]_vars PROVE Refused(r)'
        OBVIOUS
      <3>1. web[r] # "new" /\ r \notin held
        BY DEF IInv, BackInv, HeldInv
      <3>2. ~Valid(carried[r])
        BY DEF Valid
      <3>3. UNCHANGED <<form[r], carried[r], effect[r]>>
        BY <3>1, <3>2 DEF Next, Answer, Work, Submit, AnswerLogin, AnswerCommand, Timeout,
             Disconnect, Leave, Login, Auth, Begin, Unavailable, Abandon, Report, End, TokenExpires,
             CookieExpires, Finished, vars, IInv, Types
      <3>4. back'[r] \in {"api", "401"}
        BY <3>1, <3>2 DEF Next, Answer, Work, Submit, AnswerLogin, AnswerCommand, Timeout,
             Disconnect, Leave, Login, Auth, Begin, Unavailable, Abandon, Report, End, TokenExpires, Reply,
             CookieExpires, Finished, vars, IInv, Types
      <3>5. expired \subseteq expired'
        BY DEF Next, Answer, Work, Submit, AnswerLogin, AnswerCommand, Timeout,
             Disconnect, Leave, Login, Auth, Begin, Unavailable, Abandon, Report, End, TokenExpires,
             CookieExpires, Finished, vars
      <3> QED BY <3>3, <3>4, <3>5
    <2>3. Refused(r) => effect[r] = "none"
      OBVIOUS
    <2> QED BY <2>1, <2>2, <2>3, Inductive, PTL DEF Spec
  <1> QED BY <1>1 DEF ExpiredIsPowerless

================================================================================
