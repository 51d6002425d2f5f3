------------------------ MODULE ClientSessionProofs --------------------------
(***************************************************************************)
(* Theorems about ClientSession for any tasks, domains and numbers of      *)
(* logins and calls.                                                       *)
(***************************************************************************)
EXTENDS ClientSession, TLAPS

-----------------------------------------------------------------------------
(* The inductive invariant.                                                *)

\* Every session in use was issued, and only a task of a client that is logged in
\* gets past the start of prepare_live().
Logged ==
    /\ client.session <= logins
    /\ \A t \in Tasks : request[t].session <= logins
    /\ \A t \in Tasks : pc[t] \in {"serverInfo", "cas", "endpoint"} =>
          client.session # 0 /\ call[t] # 0

\* Until a second login all requests carry the first session or none, and the CAS
\* address can only be its domain's.
OneCas ==
    logins <= 1 =>
        /\ cached # NoDomain => logins = 1 /\ cached = issued[1]
        /\ \A t \in Tasks : pc[t] \in {"serverInfo", "cas"} =>
              request[t].session = 1 /\ request[t].to = issued[1]

\* A task for which the camera moves has not had its STOP obeyed.
Moving ==
    /\ motion.state = "pulse" => motion.by # {}
    /\ \A t \in motion.by : \/ pc[t] = "START"
                            \/ pc[t] = "STOP" /\ ~ obeyed[t]

IInv == TypeOK /\ SessionStaysHome /\ PreparedTogether /\ Logged /\ OneCas /\ Moving

USE BoundAssumption, DomainAssumption

LEMMA InitInvariant == Init => IInv
  BY DEF Init, IInv, TypeOK, SessionStaysHome, PreparedTogether, Logged, OneCas, Moving,
         ApiAwaits, Awaits, Outcomes, Sessions, Request, NoRequest, Fields

-----------------------------------------------------------------------------
(* The steps.                                                              *)

\* What the ways to wait and to end have in common.
LEMMA WaitTypes ==
    ASSUME TypeOK, NEW t \in Tasks, NEW await \in Awaits, NEW how \in Outcomes,
           NEW req \in Request, Return(t, how) \/ Ask(t, await, req) \/ AskHttp(t, await)
    PROVE  /\ pc' \in [Tasks -> Awaits]
           /\ request' \in [Tasks -> Request]
           /\ outcome' \in [Tasks -> Outcomes]
<1>1. HttpRequest \in Request /\ NoRequest \in Request
  BY DEF TypeOK, HttpRequest, NoRequest, Request, Sessions
<1>1a. "idle" \in Awaits /\ "error" \in Outcomes
  BY DEF Awaits, Outcomes
<1>2. CASE Return(t, how)
  BY <1>1, <1>1a, <1>2 DEF TypeOK, Return
<1>3. CASE Ask(t, await, req)
  BY <1>3 DEF TypeOK, Ask
<1>4. CASE AskHttp(t, await)
  <2>1. Ask(t, await, HttpRequest) \/ Return(t, "error")
    BY <1>4 DEF AskHttp
  <2>2. CASE Ask(t, await, HttpRequest)
    BY <1>1, <2>2 DEF TypeOK, Ask
  <2>3. CASE Return(t, "error")
    BY <1>1, <1>1a, <2>3 DEF TypeOK, Return
  <2> QED
    BY <2>1, <2>2, <2>3
<1> QED
  BY <1>2, <1>3, <1>4

LEMMA BeginTypes ==
    ASSUME TypeOK, NEW t \in Tasks, Begin(t)
    PROVE  calls' \in 1..MaxCalls /\ call' \in [Tasks -> 0..MaxCalls] /\ call'[t] # 0
BY DEF TypeOK, Begin

LEMMA TypeStep ==
    ASSUME IInv, NEW t \in Tasks, Step(t)
    PROVE  TypeOK'
<1> USE DEF IInv, TypeOK, identity, fetched, device, counted
<1>0. Awaits = {"login", "serverInfo", "endpoint", "request", "capture", "START", "STOP",
                "idle", "cas", "image"}
      /\ Outcomes = {"none", "ok", "RegionRedirect", "MfaRequired", "error"}
      /\ NoRequest \in Request
  BY DEF Awaits, ApiAwaits, Outcomes, NoRequest, Request, Sessions
<1>1. CASE Login(t)
  BY <1>0, <1>1, WaitTypes, BeginTypes DEF Login
<1>2. CASE LoginAccepted(t)
  BY <1>0, <1>2, WaitTypes DEF LoginAccepted, Sessions
<1>3. CASE LoginRedirected(t)
  BY <1>0, <1>3, WaitTypes DEF LoginRedirected
<1>4. CASE LoginNeedsMfa(t)
  BY <1>0, <1>4, WaitTypes DEF LoginNeedsMfa
<1>5. CASE Prepare(t)
  <2>1. cached # NoDomain => [to |-> cached, session |-> client.session] \in Request
    BY DEF Request
  <2>2. Return(t, "error") \/ AskHttp(t, "serverInfo")
        \/ (cached # NoDomain /\ Ask(t, "cas", [to |-> cached, session |-> client.session]))
    BY <1>5 DEF Prepare, AskCas
  <2>3. pc' \in [Tasks -> Awaits] /\ request' \in [Tasks -> Request]
        /\ outcome' \in [Tasks -> Outcomes]
    BY <1>0, <2>1, <2>2, WaitTypes
  <2> QED
    BY <1>5, <2>3, BeginTypes DEF Prepare
<1>6. CASE ServerInfoArrives(t)
  <2>1. request[t].to \in Domains \cup {NoDomain}
        /\ [to |-> request[t].to, session |-> client.session] \in Request
    BY DEF Request
  <2>2. pc' \in [Tasks -> Awaits] /\ request' \in [Tasks -> Request]
        /\ outcome' \in [Tasks -> Outcomes]
    BY <1>0, <1>6, <2>1, WaitTypes DEF ServerInfoArrives, AskCas
  <2> QED
    BY <1>6, <2>1, <2>2 DEF ServerInfoArrives
<1>7. CASE CredentialsArrive(t)
  BY <1>0, <1>7, WaitTypes DEF CredentialsArrive
<1>8. CASE EndpointArrives(t)
  BY <1>0, <1>8, WaitTypes DEF EndpointArrives, Fields
<1>9. CASE Query(t)
  <2>1. Return(t, "error") \/ AskHttp(t, "request")
    BY <1>9 DEF Query
  <2>2. pc' \in [Tasks -> Awaits] /\ request' \in [Tasks -> Request]
        /\ outcome' \in [Tasks -> Outcomes]
    BY <1>0, <2>1, WaitTypes
  <2> QED
    BY <1>9, <2>2, BeginTypes DEF Query
<1>10. CASE Control(t)
  BY <1>0, <1>10, WaitTypes, BeginTypes DEF Control
<1>11. CASE Snapshot(t)
  BY <1>0, <1>11, WaitTypes, BeginTypes DEF Snapshot
<1>12. CASE CaptureArrives(t)
  <2>1. [to |-> NoDomain, session |-> http.session] \in Request
    BY DEF Request
  <2> QED
    BY <1>0, <1>12, <2>1, WaitTypes DEF CaptureArrives
<1>13. CASE Answered(t)
  BY <1>0, <1>13, WaitTypes DEF Answered
<1>14. CASE Ptz(t)
  BY <1>0, <1>14, WaitTypes, BeginTypes DEF Ptz
<1>15. CASE CameraObeys(t)
  BY <1>15 DEF CameraObeys
<1>16. CASE PtzStarted(t)
  <2>1. pc' \in [Tasks -> Awaits] /\ request' \in [Tasks -> Request]
        /\ outcome' \in [Tasks -> Outcomes]
    BY <1>0, <1>16, WaitTypes DEF PtzStarted
  <2>2. obeyed' = [obeyed EXCEPT ![t] = FALSE]
        /\ (motion' = motion \/ motion' = [state |-> "runaway", by |-> {}])
    BY <1>16 DEF PtzStarted, GivesUp
  <2>3. obeyed' \in [Tasks -> BOOLEAN]
        /\ motion' \in [state : {"still", "pulse", "runaway"}, by : SUBSET Tasks]
    BY <2>2
  <2> QED
    BY <1>16, <2>1, <2>3 DEF PtzStarted
<1>17. CASE PtzStopped(t)
  BY <1>0, <1>17, WaitTypes DEF PtzStopped
<1>18. CASE Fails(t)
  <2>1. pc' \in [Tasks -> Awaits] /\ request' \in [Tasks -> Request]
        /\ outcome' \in [Tasks -> Outcomes]
    BY <1>0, <1>18, WaitTypes DEF Fails
  <2> QED
    BY <1>18, <2>1 DEF Fails, GivesUp
<1> QED
  BY <1>1, <1>2, <1>3, <1>4, <1>5, <1>6, <1>7, <1>8, <1>9, <1>10, <1>11, <1>12, <1>13,
     <1>14, <1>15, <1>16, <1>17, <1>18 DEF Step

\* What a step must have asked for the sessions to stay where they belong.
Rightly(t, await, req) ==
    /\ req.session <= logins
    /\ await \in ApiAwaits /\ req.session # 0 => req.to = issued[req.session]
    /\ await \in {"serverInfo", "cas", "endpoint"} => client.session # 0 /\ call'[t] # 0
    /\ logins <= 1 /\ await \in {"serverInfo", "cas"} =>
          req.session = 1 /\ req.to = issued[1]

LEMMA AskedRightly ==
    ASSUME IInv, NEW t \in Tasks, NEW await \in Awaits, NEW req \in Request,
           Rightly(t, await, req),
           pc' = [pc EXCEPT ![t] = await], request' = [request EXCEPT ![t] = req],
           \A u \in Tasks \ {t} : call'[u] = call[u],
           UNCHANGED <<http, client, issued, logins>>,
           cached' = cached
              \/ (logins <= 1 => cached' = NoDomain \/ (logins = 1 /\ cached' = issued[1]))
    PROVE  SessionStaysHome' /\ Logged' /\ OneCas'
<1>1. SessionStaysHome'
  BY DEF IInv, TypeOK, SessionStaysHome, Rightly
<1>2. Logged'
  BY DEF IInv, TypeOK, Logged, Rightly
<1>3. OneCas'
  BY DEF IInv, TypeOK, OneCas, Rightly
<1> QED
  BY <1>1, <1>2, <1>3

\* A request of the EzvizHttp is always sent rightly, if it is not one of an unprepared
\* prepare_live().
LEMMA HttpRightly ==
    ASSUME IInv, NEW t \in Tasks, NEW await \in ApiAwaits,
           await \in {"serverInfo", "endpoint"} => client.session # 0 /\ call'[t] # 0
    PROVE  HttpRequest \in Request /\ Rightly(t, await, HttpRequest)
<1>1. HttpRequest \in Request
  BY DEF IInv, TypeOK, HttpRequest, Request, Sessions
<1>2. await # "cas"
  BY DEF ApiAwaits
<1>3. http.session = client.session /\ http.session <= logins /\ http.session \in Nat /\ logins \in Nat
      /\ HttpRequest.session = http.session /\ HttpRequest.to = http.domain
  BY DEF IInv, TypeOK, SessionStaysHome, Logged, HttpRequest, Sessions
<1>4. http.session # 0 => http.domain = issued[http.session]
  BY DEF IInv, SessionStaysHome
<1> QED
  BY <1>1, <1>2, <1>3, <1>4 DEF Rightly

LEMMA NothingRightly ==
    ASSUME IInv, NEW t \in Tasks
    PROVE  NoRequest \in Request /\ Rightly(t, "idle", NoRequest)
BY DEF IInv, TypeOK, NoRequest, Request, Sessions, Rightly, ApiAwaits

LEMMA HttpKeeps ==
    ASSUME IInv, NEW t \in Tasks, NEW await \in ApiAwaits, NEW how,
           Return(t, how) \/ AskHttp(t, await),
           await \in {"serverInfo", "endpoint"} => client.session # 0 /\ call'[t] # 0,
           \A u \in Tasks \ {t} : call'[u] = call[u],
           UNCHANGED <<http, client, issued, logins, cached>>
    PROVE  SessionStaysHome' /\ Logged' /\ OneCas'
<1>1. "idle" \in Awaits /\ await \in Awaits
  BY DEF Awaits
<1>2. CASE Return(t, how) \/ Return(t, "error")
  BY <1>1, <1>2, NothingRightly, AskedRightly DEF Return
<1>3. CASE Ask(t, await, HttpRequest)
  BY <1>1, <1>3, HttpRightly, AskedRightly DEF Ask
<1> QED
  BY <1>2, <1>3 DEF AskHttp

\* What the steps do to the session and the requests.
LEMMA SessionStep ==
    ASSUME IInv, NEW t \in Tasks, Step(t)
    PROVE  SessionStaysHome' /\ Logged' /\ OneCas'
<1> USE DEF identity, fetched, device, counted
<1>0. {"login", "serverInfo", "endpoint", "request", "capture", "START", "STOP"} = ApiAwaits
      /\ ApiAwaits \cup {"idle", "cas", "image"} = Awaits
  BY DEF ApiAwaits, Awaits
<1>a. Begin(t) => call'[t] # 0 /\ \A u \in Tasks \ {t} : call'[u] = call[u]
  BY BeginTypes DEF IInv, TypeOK, Begin
<1>1. CASE Login(t)
  BY <1>0, <1>a, <1>1, HttpKeeps DEF Login
<1>2. CASE LoginAccepted(t)
  BY <1>2 DEF LoginAccepted, Return, NoRequest, IInv, TypeOK, SessionStaysHome, Logged,
              OneCas, Sessions, Request, ApiAwaits, Awaits
<1>3. CASE LoginRedirected(t)
  BY <1>0, <1>3, HttpKeeps DEF LoginRedirected
<1>4. CASE LoginNeedsMfa(t)
  BY <1>0, <1>4, HttpKeeps DEF LoginNeedsMfa
<1>5. CASE Prepare(t)
  <2>1. CASE client.session = 0 \/ cached = NoDomain
    <3>1. Return(t, "error") \/ (client.session # 0 /\ AskHttp(t, "serverInfo"))
      BY <1>5, <2>1 DEF Prepare
    <3>2. "serverInfo" \in ApiAwaits /\ "login" \in ApiAwaits
      BY <1>0
    <3>3. CASE Return(t, "error")
      BY <1>a, <1>5, <3>2, <3>3, HttpKeeps DEF Prepare
    <3>4. CASE client.session # 0 /\ AskHttp(t, "serverInfo")
      BY <1>a, <1>5, <3>2, <3>4, HttpKeeps DEF Prepare
    <3> QED
      BY <3>1, <3>3, <3>4
  <2>2. CASE client.session # 0 /\ cached # NoDomain
    <3> DEFINE req == [to |-> cached, session |-> client.session]
    <3>1. req \in Request /\ Rightly(t, "cas", req)
      <4>1. req \in Request
        BY <2>2 DEF IInv, TypeOK, Request
      <4> QED
        BY <1>5, <1>a, <2>2, <4>1 DEF Prepare, Rightly, IInv, TypeOK, Logged, OneCas, ApiAwaits,
                Sessions
    <3>2. Ask(t, "cas", req)
      BY <1>5, <2>2 DEF Prepare, AskCas
    <3> QED
      BY <1>0, <1>5, <1>a, <3>1, <3>2, AskedRightly DEF Prepare, Ask
  <2> QED
    BY <2>1, <2>2
<1>6. CASE ServerInfoArrives(t)
  <2> DEFINE req == [to |-> request[t].to, session |-> client.session]
  <2>1. request[t] \in Request /\ client.session # 0 /\ call[t] # 0
    BY <1>6 DEF ServerInfoArrives, IInv, TypeOK, Logged
  <2>2. req \in Request
    BY <2>1 DEF IInv, TypeOK, Request
  <2>3. logins <= 1 => request[t].to = issued[1] /\ client.session = 1 /\ logins = 1
    BY <1>6, <2>1 DEF ServerInfoArrives, IInv, TypeOK, Logged, OneCas, Sessions
  <2>4. Rightly(t, "cas", req)
    BY <1>6, <2>1, <2>3 DEF ServerInfoArrives, Rightly, IInv, TypeOK, Logged, ApiAwaits
  <2> QED
    BY <1>0, <1>6, <2>2, <2>3, <2>4, AskedRightly DEF ServerInfoArrives, AskCas, Ask
<1>7. CASE CredentialsArrive(t)
  <2>1. client.session # 0 /\ call[t] # 0
    BY <1>7 DEF CredentialsArrive, IInv, Logged
  <2> QED
    BY <1>0, <1>7, <2>1, HttpKeeps DEF CredentialsArrive
<1>8. CASE EndpointArrives(t)
  BY <1>0, <1>8, HttpKeeps DEF EndpointArrives
<1>9. CASE Query(t)
  BY <1>0, <1>a, <1>9, HttpKeeps DEF Query
<1>10. CASE Control(t)
  BY <1>0, <1>a, <1>10, HttpKeeps DEF Control
<1>11. CASE Snapshot(t)
  BY <1>0, <1>a, <1>11, HttpKeeps DEF Snapshot
<1>12. CASE CaptureArrives(t)
  <2> DEFINE req == [to |-> NoDomain, session |-> http.session]
  <2>1. req \in Request /\ Rightly(t, "image", req)
    BY DEF IInv, TypeOK, Request, Rightly, Logged, SessionStaysHome, ApiAwaits
  <2>2. CASE open
    BY <1>0, <1>12, <2>1, <2>2, AskedRightly DEF CaptureArrives, Ask
  <2>3. CASE ~ open
    BY <1>0, <1>12, <2>3, HttpKeeps DEF CaptureArrives
  <2> QED
    BY <2>2, <2>3
<1>13. CASE Answered(t)
  BY <1>0, <1>13, HttpKeeps DEF Answered
<1>14. CASE Ptz(t)
  BY <1>0, <1>a, <1>14, HttpKeeps DEF Ptz
<1>15. CASE CameraObeys(t)
  BY <1>15 DEF CameraObeys, IInv, SessionStaysHome, Logged, OneCas
<1>16. CASE PtzStarted(t)
  BY <1>0, <1>16, HttpKeeps DEF PtzStarted
<1>17. CASE PtzStopped(t)
  BY <1>0, <1>17, HttpKeeps DEF PtzStopped
<1>18. CASE Fails(t)
  BY <1>0, <1>18, HttpKeeps DEF Fails
<1> QED
  BY <1>1, <1>2, <1>3, <1>4, <1>5, <1>6, <1>7, <1>8, <1>9, <1>10, <1>11, <1>12, <1>13,
     <1>14, <1>15, <1>16, <1>17, <1>18 DEF Step

\* Only the pulses move the camera, and a task that steps otherwise is in none.
LEMMA MovingStep ==
    ASSUME IInv, NEW t \in Tasks, Step(t)
    PROVE  Moving'
<1> USE DEF identity, fetched, device, counted
<1>0. obeyed \in [Tasks -> BOOLEAN] /\ pc \in [Tasks -> Awaits]
      /\ motion \in [state : {"still", "pulse", "runaway"}, by : SUBSET Tasks]
  BY DEF IInv, TypeOK
<1>1. CASE /\ UNCHANGED device
           /\ t \notin motion.by
           /\ \A u \in Tasks \ {t} : pc'[u] = pc[u]
  BY <1>0, <1>1 DEF IInv, Moving
<1>2. ASSUME Return(t, "error"), GivesUp(t)
      PROVE  Moving'
  <2>1. CASE t \in motion.by
    BY <1>2, <2>1 DEF Moving, GivesUp
  <2>2. CASE t \notin motion.by
    BY <1>0, <1>2, <2>2 DEF IInv, Moving, GivesUp, Return
  <2> QED
    BY <2>1, <2>2
<1>3. CASE CameraObeys(t)
  BY <1>0, <1>3 DEF CameraObeys, Moving
<1>4. CASE PtzStarted(t)
  <2>1. CASE open
    BY <1>0, <1>4, <2>1 DEF PtzStarted, AskHttp, Ask, IInv, Moving
  <2>2. CASE ~ open
    BY <1>2, <1>4, <2>2 DEF PtzStarted, AskHttp
  <2> QED
    BY <2>1, <2>2
<1>5. CASE PtzStopped(t)
  <2>1. t \notin motion.by
    BY <1>5 DEF PtzStopped, IInv, Moving
  <2> QED
    BY <1>0, <1>5, <2>1 DEF PtzStopped, Return, IInv, Moving
<1>6. CASE Fails(t)
  BY <1>2, <1>6 DEF Fails
<1>7. CASE \/ Login(t) \/ LoginAccepted(t) \/ LoginRedirected(t) \/ LoginNeedsMfa(t)
           \/ Prepare(t) \/ ServerInfoArrives(t) \/ CredentialsArrive(t)
           \/ EndpointArrives(t) \/ Query(t) \/ Control(t) \/ Snapshot(t)
           \/ CaptureArrives(t) \/ Answered(t) \/ Ptz(t)
  <2>1. UNCHANGED device
    BY <1>7 DEF Login, LoginAccepted, LoginRedirected, LoginNeedsMfa, Prepare,
               ServerInfoArrives, CredentialsArrive, EndpointArrives, Query, Control, Snapshot,
               CaptureArrives, Answered, Ptz
  <2>2. pc[t] \notin {"START", "STOP"}
    BY <1>7 DEF Login, LoginAccepted, LoginRedirected, LoginNeedsMfa, Prepare, Begin,
               ServerInfoArrives, CredentialsArrive, EndpointArrives, Query, Control, Snapshot,
               CaptureArrives, Answered, Ptz
  <2>3. \A u \in Tasks \ {t} : pc'[u] = pc[u]
    BY <1>0, <1>7 DEF Login, LoginAccepted, LoginRedirected, LoginNeedsMfa, Prepare,
               ServerInfoArrives, CredentialsArrive, EndpointArrives, Query, Control, Snapshot,
               CaptureArrives, Answered, Ptz, AskCas, AskHttp, Ask, Return
  <2> QED
    BY <1>1, <2>1, <2>2, <2>3 DEF IInv, Moving
<1> QED
  BY <1>3, <1>4, <1>5, <1>6, <1>7 DEF Step

\* Only the last answer of a prepare_live() changes the camera.
LEMMA CameraStep ==
    ASSUME IInv, NEW t \in Tasks, Step(t)
    PROVE  PreparedTogether'
<1>1. CASE EndpointArrives(t)
  <2>1. call[t] # 0 /\ call[t] \in Nat
    BY <1>1 DEF EndpointArrives, IInv, TypeOK, Logged
  <2>2. \A f \in Fields \ {"stream_port"} : camera'[f] = call[t]
    BY <1>1 DEF EndpointArrives
  <2> QED
    BY <2>1, <2>2 DEF PreparedTogether, Fields
<1>2. CASE ~ EndpointArrives(t)
  <2>1. UNCHANGED camera
    BY <1>2 DEF Step, Login, LoginAccepted, LoginRedirected, LoginNeedsMfa, Prepare,
                ServerInfoArrives, CredentialsArrive, Query, Control, Snapshot, CaptureArrives,
                Answered, Ptz, CameraObeys, PtzStarted, PtzStopped, Fails, fetched
  <2> QED
    BY <2>1 DEF IInv, PreparedTogether
<1> QED
  BY <1>1, <1>2

LEMMA StepInvariant == IInv /\ [Next]_vars => IInv'
<1> SUFFICES ASSUME IInv, [Next]_vars
             PROVE  IInv'
  OBVIOUS
<1>1. CASE UNCHANGED vars
  BY <1>1 DEF IInv, TypeOK, SessionStaysHome, PreparedTogether, Logged, OneCas, Moving, vars
<1>2. CASE Aclose
  BY <1>2 DEF Aclose, fetched, device, counted, IInv, TypeOK, SessionStaysHome,
              PreparedTogether, Logged, OneCas, Moving
<1>3. ASSUME NEW t \in Tasks, Step(t)
      PROVE  IInv'
  BY <1>3, TypeStep, SessionStep, CameraStep, MovingStep DEF IInv
<1> QED
  BY <1>1, <1>2, <1>3 DEF Next

-----------------------------------------------------------------------------
(* The theorems.                                                           *)

\* The invariant holds in every reachable state.
THEOREM Invariance == Spec => []IInv
<1> QED
  BY InitInvariant, StepInvariant, PTL DEF Spec

\* Every reachable state is well typed: in particular no request names an unknown session.
THEOREM TypeCorrect == Spec => []TypeOK
<1>1. IInv => TypeOK
  BY DEF IInv
<1> QED
  BY <1>1, Invariance, PTL

\* However many tasks log in at once, the session and the domain agree everywhere and no
\* API request carries a session to a foreign domain.
THEOREM SessionSound == Spec => []SessionStaysHome
<1>1. IInv => SessionStaysHome
  BY DEF IInv
<1> QED
  BY <1>1, Invariance, PTL

\* However many tasks prepare a camera at once, its fields come from one call.
THEOREM CameraSound == Spec => []PreparedTogether
<1>1. IInv => PreparedTogether
  BY DEF IInv
<1> QED
  BY <1>1, Invariance, PTL

\* A client that has logged in once asks only its own CAS.
THEOREM CasSound == Spec => []CasIsOwn
<1>1. IInv => CasIsOwn
  BY DEF IInv, OneCas, CasIsOwn
<1> QED
  BY <1>1, Invariance, PTL

\* The CAS is always asked with the session of the latest login.
THEOREM CasCurrent == Spec => CasSessionIsCurrent
<1>1. ASSUME IInv, [Next]_vars, NEW t \in Tasks, pc[t] # "cas", pc'[t] = "cas"
      PROVE  request'[t].session = client.session /\ client.session # 0
  <2> USE DEF identity, fetched, device, counted
  <2>1. PICK u \in Tasks : Step(u)
    BY <1>1 DEF Next, Aclose, vars
  <2>2. pc'[t] # pc[t] /\ pc \in [Tasks -> Awaits] /\ request \in [Tasks -> Request]
    BY <1>1 DEF IInv, TypeOK
  <2>3. Prepare(u) \/ ServerInfoArrives(u)
    BY <1>1, <2>1, <2>2 DEF Step, Login, LoginAccepted, LoginRedirected, LoginNeedsMfa,
           CredentialsArrive, EndpointArrives, Query, Control, Snapshot, CaptureArrives, Answered,
           Ptz, CameraObeys, PtzStarted, PtzStopped, Fails, AskHttp, Ask, Return
  <2>4. CASE Prepare(u)
    BY <1>1, <2>2, <2>4 DEF Prepare, AskHttp, Ask, AskCas, Return
  <2>5. CASE ServerInfoArrives(u)
    BY <1>1, <2>2, <2>5 DEF ServerInfoArrives, Ask, AskCas, IInv, Logged
  <2> QED
    BY <2>3, <2>4, <2>5
<1>2. IInv /\ [Next]_vars =>
          [\A t \in Tasks : pc[t] # "cas" /\ pc'[t] = "cas" =>
              request'[t].session = client.session /\ client.session # 0]_vars
  BY <1>1
<1> QED
  BY <1>2, Invariance, PTL DEF Spec, CasSessionIsCurrent

\* A ptz() that has returned leaves no camera moving on its behalf, however many pulses,
\* failures and cancellations overlap.
THEOREM PulseSound == Spec => []PulseEndsStill
<1>1. IInv => PulseEndsStill
  BY DEF IInv, TypeOK, Moving, PulseEndsStill
<1> QED
  BY <1>1, Invariance, PTL

=============================================================================
