---------------------------- MODULE ClientSession ----------------------------
(***************************************************************************)
(* client.py EzvizClient, auth.py login() and transport/http.py as several *)
(* tasks use them at once, and camera.py prepare_live() on one camera they *)
(* share: the session and the domain live in two objects (the client and   *)
(* its EzvizHttp), the CAS address in a cache, and between any two awaits  *)
(* of one task the others may log in again.  Every other cloud operation   *)
(* of client.py and camera.py goes through the same EzvizHttp: most are    *)
(* one request, a snapshot is two, and so is ptz(), which starts a motion  *)
(* of the camera and stops it.                                             *)
(*                                                                         *)
(* A session is the number of the login that obtained it, a prepared value *)
(* that of the prepare_live() call that fetched it; 0 is None.             *)
(***************************************************************************)
EXTENDS Naturals

CONSTANTS
    Tasks,      \* tasks that share the client and the camera
    Domains,    \* API domains
    NoDomain,   \* no address cached, no domain named
    MaxLogins,  \* bound: logins the cloud accepts
    MaxCalls    \* bound: calls of any operation

ASSUME BoundAssumption == MaxLogins \in Nat /\ MaxCalls \in Nat
ASSUME DomainAssumption == NoDomain \notin Domains

VARIABLES
    http,      \* EzvizHttp: _domain and _session
    client,    \* EzvizClient._session: session id and domain
    cached,    \* EzvizClient._cas_address: the domain whose CAS it is
    camera,    \* the Camera's local-control fields
    open,      \* EzvizHttp's connections have not been closed
    motion,    \* the camera: whether it moves, and for which task's ptz()
    obeyed,    \* [Tasks -> BOOLEAN]: the camera has done what the task awaits
    pc,        \* [Tasks -> Awaits]: the answer a task waits for
    request,   \* [Tasks -> Request]: what it asked, and where
    call,      \* [Tasks -> 0..MaxCalls]: the number of its call
    outcome,   \* [Tasks -> Outcomes]: how its last call ended
    issued,    \* history: [1..MaxLogins -> the domain the login named]
    logins,    \* history: logins accepted
    calls      \* history: calls made

vars == <<http, client, cached, camera, open, motion, obeyed, pc, request, call, outcome,
          issued, logins, calls>>

\* The requests that go to the domain's API, and those that go elsewhere.
ApiAwaits == {"login", "serverInfo", "endpoint", "request", "capture", "START", "STOP"}

Awaits == ApiAwaits \cup {"idle", "cas", "image"}

\* RegionRedirect and MfaRequired are AuthErrors of their own; error stands for every
\* other exception, CancelledError included.
Outcomes == {"none", "ok", "RegionRedirect", "MfaRequired", "error"}

Sessions == 0..MaxLogins

Request == [to : Domains \cup {NoDomain}, session : Sessions]

NoRequest == [to |-> NoDomain, session |-> 0]

Fields == {"device_key", "operation_code", "local_ip", "cmd_port", "stream_port"}

TypeOK ==
    /\ http \in [domain : Domains, session : Sessions]
    /\ client \in [session : Sessions, domain : Domains \cup {NoDomain}]
    /\ cached \in Domains \cup {NoDomain}
    /\ camera \in [Fields -> 0..MaxCalls]
    /\ open \in BOOLEAN
    /\ motion \in [state : {"still", "pulse", "runaway"}, by : SUBSET Tasks]
    /\ obeyed \in [Tasks -> BOOLEAN]
    /\ pc \in [Tasks -> Awaits]
    /\ request \in [Tasks -> Request]
    /\ call \in [Tasks -> 0..MaxCalls]
    /\ outcome \in [Tasks -> Outcomes]
    /\ issued \in [1..MaxLogins -> Domains \cup {NoDomain}]
    /\ logins \in 0..MaxLogins
    /\ calls \in 0..MaxCalls

\* The region is chosen by the user: no domain is special.
Init ==
    /\ \E d \in Domains : http = [domain |-> d, session |-> 0]
    /\ client = [session |-> 0, domain |-> NoDomain]
    /\ cached = NoDomain
    /\ camera = [f \in Fields |-> 0]
    /\ open = TRUE
    /\ motion = [state |-> "still", by |-> {}]
    /\ obeyed = [t \in Tasks |-> FALSE]
    /\ pc = [t \in Tasks |-> "idle"]
    /\ request = [t \in Tasks |-> NoRequest]
    /\ call = [t \in Tasks |-> 0]
    /\ outcome = [t \in Tasks |-> "none"]
    /\ issued = [n \in 1..MaxLogins |-> NoDomain]
    /\ logins = 0
    /\ calls = 0

-----------------------------------------------------------------------------
(* How a task waits and ends.                                              *)

\* A request of EzvizHttp goes to its base_url with its session header.
HttpRequest == [to |-> http.domain, session |-> http.session]

Ask(t, await, req) ==
    /\ pc' = [pc EXCEPT ![t] = await]
    /\ request' = [request EXCEPT ![t] = req]
    /\ UNCHANGED outcome

Return(t, how) ==
    /\ pc' = [pc EXCEPT ![t] = "idle"]
    /\ request' = [request EXCEPT ![t] = NoRequest]
    /\ outcome' = [outcome EXCEPT ![t] = how]

\* A request of a closed EzvizHttp raises at once.
AskHttp(t, await) ==
    IF open THEN Ask(t, await, HttpRequest) ELSE Return(t, "error")

\* A new call of an idle task.
Begin(t) ==
    /\ pc[t] = "idle"
    /\ calls < MaxCalls
    /\ calls' = calls + 1
    /\ call' = [call EXCEPT ![t] = calls']

\* What a step leaves alone, in groups.
identity == <<http, client, issued, logins, open>>
fetched == <<cached, camera>>
device == <<motion, obeyed>>
counted == <<call, calls>>

-----------------------------------------------------------------------------
(* login().                                                                *)

Login(t) ==
    /\ Begin(t)
    /\ AskHttp(t, "login")
    /\ UNCHANGED <<identity, fetched, device>>

\* Faulty LoginAccepted: an answer that names no domain is taken at its word.
LoginAcceptedVerbatim(t) ==
    /\ pc[t] = "login"
    /\ logins < MaxLogins
    /\ logins' = logins + 1
    /\ \E named \in Domains \cup {NoDomain} :
          /\ http' = [domain |-> named, session |-> logins']
          /\ client' = [session |-> logins', domain |-> named]
          /\ issued' = [issued EXCEPT ![logins'] = named]
    /\ Return(t, "ok")
    /\ UNCHANGED <<open, fetched, device, counted>>

\* The session is stored in the client and in its EzvizHttp without an await in
\* between.  An answer that names no domain is taken to mean the current one.
LoginAccepted(t) ==
    /\ pc[t] = "login"
    /\ logins < MaxLogins
    /\ logins' = logins + 1
    /\ \E named \in Domains \cup {NoDomain} :
          LET domain == IF named = NoDomain THEN http.domain ELSE named IN
          /\ http' = [domain |-> domain, session |-> logins']
          /\ client' = [session |-> logins', domain |-> domain]
          /\ issued' = [issued EXCEPT ![logins'] = domain]
    /\ Return(t, "ok")
    /\ UNCHANGED <<open, fetched, device, counted>>

\* Faulty LoginRedirected: the domain is taken over before the exception.
LoginRedirectedHalfway(t) ==
    /\ pc[t] = "login"
    /\ \E d \in Domains : http' = [http EXCEPT !.domain = d]
    /\ Return(t, "RegionRedirect")
    /\ UNCHANGED <<client, issued, logins, open, fetched, device, counted>>

\* Code 1100: the account belongs to another area.
LoginRedirected(t) ==
    /\ pc[t] = "login"
    /\ Return(t, "RegionRedirect")
    /\ UNCHANGED <<identity, fetched, device, counted>>

\* Code 1013.
LoginNeedsMfa(t) ==
    /\ pc[t] = "login"
    /\ Return(t, "MfaRequired")
    /\ UNCHANGED <<identity, fetched, device, counted>>

-----------------------------------------------------------------------------
(* prepare_live(): cas_credentials(), then device_endpoint().              *)

\* The CasClient is given the client's session as it is now.
AskCas(t, address) ==
    Ask(t, "cas", [to |-> address, session |-> client.session])

\* Faulty Prepare: it does not ask for a login.
PrepareLoggedOut(t) ==
    /\ Begin(t)
    /\ IF cached = NoDomain THEN AskHttp(t, "serverInfo") ELSE AskCas(t, cached)
    /\ UNCHANGED <<identity, fetched, device>>

Prepare(t) ==
    /\ Begin(t)
    /\ IF client.session = 0
       THEN Return(t, "error")
       ELSE IF cached = NoDomain
            THEN AskHttp(t, "serverInfo")
            ELSE AskCas(t, cached)
    /\ UNCHANGED <<identity, fetched, device>>

\* Faulty ServerInfoArrives: the session was read before the server info was asked.
ServerInfoArrivesLate(t) ==
    /\ pc[t] = "serverInfo"
    /\ cached' = request[t].to
    /\ Ask(t, "cas", request[t])
    /\ UNCHANGED <<identity, camera, device, counted>>

\* Every domain's server info names its own CAS; the answer is cached for good, and
\* overwrites what another task has cached meanwhile.
ServerInfoArrives(t) ==
    /\ pc[t] = "serverInfo"
    /\ cached' = request[t].to
    /\ AskCas(t, request[t].to)
    /\ UNCHANGED <<identity, camera, device, counted>>

\* Faulty CredentialsArrive: the camera gets them before its endpoint is known.
CredentialsStoredAtOnce(t) ==
    /\ pc[t] = "cas"
    /\ camera' = [camera EXCEPT !["device_key"] = call[t], !["operation_code"] = call[t]]
    /\ AskHttp(t, "endpoint")
    /\ UNCHANGED <<identity, cached, device, counted>>

CredentialsArrive(t) ==
    /\ pc[t] = "cas"
    /\ AskHttp(t, "endpoint")
    /\ UNCHANGED <<identity, fetched, device, counted>>

\* The camera's fields are set together; without a stream port the old one stays.
EndpointArrives(t) ==
    /\ pc[t] = "endpoint"
    /\ \E named \in BOOLEAN :
          camera' = [f \in Fields |-> IF f = "stream_port" /\ ~ named
                                      THEN camera[f] ELSE call[t]]
    /\ Return(t, "ok")
    /\ UNCHANGED <<identity, cached, device, counted>>

-----------------------------------------------------------------------------
(* The other operations of EzvizClient and Camera.                         *)

\* cameras() and switch_states() ask for a login first.
Query(t) ==
    /\ Begin(t)
    /\ IF client.session = 0 THEN Return(t, "error") ELSE AskHttp(t, "request")
    /\ UNCHANGED <<identity, fetched, device>>

\* The defence mode and the camera's other controls, alarms, records and messages are
\* asked for with the session there is, or none.  (A call whose arguments are refused
\* asks nothing and changes nothing.)
Control(t) ==
    /\ Begin(t)
    /\ AskHttp(t, "request")
    /\ UNCHANGED <<identity, fetched, device>>

\* snapshot().
Snapshot(t) ==
    /\ Begin(t)
    /\ AskHttp(t, "capture")
    /\ UNCHANGED <<identity, fetched, device>>

\* The picture is fetched from the address the capture names, with the session's header
\* (alarm_image() is this request alone).
CaptureArrives(t) ==
    /\ pc[t] = "capture"
    /\ IF open THEN Ask(t, "image", [to |-> NoDomain, session |-> http.session])
               ELSE Return(t, "error")
    /\ UNCHANGED <<identity, fetched, device, counted>>

Ptz(t) ==
    /\ Begin(t)
    /\ AskHttp(t, "START")
    /\ UNCHANGED <<identity, fetched, device>>

\* The camera (external) does what it is told, before that is answered.
CameraObeys(t) ==
    /\ pc[t] \in {"START", "STOP"}
    /\ ~ obeyed[t]
    /\ obeyed' = [obeyed EXCEPT ![t] = TRUE]
    /\ motion' = IF pc[t] = "START" THEN [state |-> "pulse", by |-> {t}]
                                    ELSE [state |-> "still", by |-> {}]
    /\ UNCHANGED <<identity, fetched, pc, request, outcome, counted>>

\* A START that was sent is not taken back when its task gives up.
GivesUp(t) ==
    /\ obeyed' = [obeyed EXCEPT ![t] = FALSE]
    /\ motion' = IF t \in motion.by THEN [state |-> "runaway", by |-> {}] ELSE motion

\* START is answered; STOP needs an EzvizHttp that is still open.
PtzStarted(t) ==
    /\ pc[t] = "START"
    /\ obeyed[t]
    /\ AskHttp(t, "STOP")
    /\ IF open THEN obeyed' = [obeyed EXCEPT ![t] = FALSE] /\ UNCHANGED motion
               ELSE GivesUp(t)
    /\ UNCHANGED <<identity, fetched, counted>>

\* Faulty PtzStopped: the answer to STOP is not awaited.
PtzStoppedUnheard(t) ==
    /\ pc[t] = "STOP"
    /\ obeyed' = [obeyed EXCEPT ![t] = FALSE]
    /\ Return(t, "ok")
    /\ UNCHANGED <<identity, fetched, motion, counted>>

PtzStopped(t) ==
    /\ pc[t] = "STOP"
    /\ obeyed[t]
    /\ obeyed' = [obeyed EXCEPT ![t] = FALSE]
    /\ Return(t, "ok")
    /\ UNCHANGED <<identity, fetched, motion, counted>>

\* A lone request, or a picture, is answered.
Answered(t) ==
    /\ pc[t] \in {"request", "image"}
    /\ Return(t, "ok")
    /\ UNCHANGED <<identity, fetched, device, counted>>

\* Any answer may be an error, malformed or late, and any await may be cancelled.
Fails(t) ==
    /\ pc[t] # "idle"
    /\ Return(t, "error")
    /\ GivesUp(t)
    /\ UNCHANGED <<identity, fetched, counted>>

\* EzvizClient.aclose(): what is under way may still be answered, or fail.
Aclose ==
    /\ open
    /\ open' = FALSE
    /\ UNCHANGED <<http, client, issued, logins, fetched, device, pc, request, outcome,
                   counted>>

Step(t) ==
    \/ Login(t) \/ LoginAccepted(t) \/ LoginRedirected(t) \/ LoginNeedsMfa(t)
    \/ Prepare(t) \/ ServerInfoArrives(t) \/ CredentialsArrive(t) \/ EndpointArrives(t)
    \/ Query(t) \/ Control(t) \/ Snapshot(t) \/ CaptureArrives(t) \/ Answered(t)
    \/ Ptz(t) \/ CameraObeys(t) \/ PtzStarted(t) \/ PtzStopped(t)
    \/ Fails(t)

Next == Aclose \/ \E t \in Tasks : Step(t)

Spec == Init /\ [][Next]_vars

-----------------------------------------------------------------------------
(* Properties.                                                             *)

\* The client and its EzvizHttp always hold the same session with the domain that
\* login named for it, and no request to the API ever carries a session to another
\* domain, whichever logins overtake each other, fail or are redirected.
SessionStaysHome ==
    /\ http.session = client.session
    /\ client.session # 0 => /\ http.domain = client.domain
                             /\ client.domain = issued[client.session]
    /\ \A t \in Tasks :
          pc[t] \in ApiAwaits /\ request[t].session # 0 =>
              request[t].to = issued[request[t].session]

\* A camera is never left with the credentials of one prepare_live() and the endpoint
\* of another, nor prepared in part by one that failed.
PreparedTogether ==
    /\ camera["operation_code"] = camera["device_key"]
    /\ camera["local_ip"] = camera["device_key"]
    /\ camera["cmd_port"] = camera["device_key"]
    /\ camera["stream_port"] # 0 => camera["device_key"] # 0

\* The CAS is asked with the session that is current when it is asked, even if the
\* login came while the server info was awaited.
CasSessionIsCurrent ==
    [][\A t \in Tasks : pc[t] # "cas" /\ pc'[t] = "cas" =>
          request'[t].session = client.session /\ client.session # 0]_vars

\* With a single login the CAS asked is always the one of that login's domain, and
\* it is asked with that login's session.  (After
\* a second login the cached address may be another domain's.)
CasIsOwn ==
    logins <= 1 =>
        \A t \in Tasks : pc[t] = "cas" =>
            request[t].session # 0 /\ request[t].to = issued[request[t].session]

\* camera.py, ptz: a pulse moves the camera and then stops it.  However the pulses of several
\* tasks overlap, a camera that moves does so for a pulse that is still under way, or for
\* one that failed or was cancelled: never for one that has returned.
PulseEndsStill ==
    motion.state = "pulse" => \E t \in motion.by : pc[t] \in {"START", "STOP"}
=============================================================================
