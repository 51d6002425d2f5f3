------------------------------ MODULE Playback -------------------------------
(***************************************************************************)
(* Camera.playback() and protocol/local_sdk.py open_local_sdk_playback():  *)
(* three exchanges with the camera, each over a socket of its own that is  *)
(* closed before its answer is looked at and the next one is opened, then  *)
(* the recorded media on the third, to its end.  As in LiveStream, pc is   *)
(* the await the innermost generator is suspended at.                      *)
(***************************************************************************)
EXTENDS Naturals

CONSTANTS
    Tokens,   \* values of <Session> a camera may issue
    NoToken   \* the field is absent or empty

ASSUME TokenAssumption == NoToken \notin Tokens

VARIABLES
    prepared, \* Camera.local_ip is set
    outer,    \* the playback() generator the consumer holds
    pc,       \* where the innermost generator waits
    leg,      \* the exchange it is at
    link,     \* [Legs -> LinkStates]
    pieces,   \* parts left of the control frame being read
    camera,   \* what the camera has answered, and was told
    pending,  \* the decoder holds an unfinished NAL
    why       \* what ended the generator, or makes it leave its link

vars == <<prepared, outer, pc, leg, link, pieces, camera, pending, why>>

\* INIT 0x2013, INVITE 0x2011 with the record window, PLAY 0x3105.
Legs == {"init", "invite", "play"}

LinkStates == {"none", "connecting", "open", "closing"}

Awaits == {"off", "prepare", "connect", "send", "read", "recv", "yield", "tail", "close"}

Parts == {"none", "header", "body", "trailer"}

CameraView ==
    [result : {"silent", "accepted", "refused"},
     issued : Tokens \cup {NoToken}, told : Tokens \cup {NoToken}]

Nothing == [result |-> "silent", issued |-> NoToken, told |-> NoToken]

Endings ==
    {"none", "Finished", "DeviceOffline", "EzvizError", "ParseError", "Closed", "Cancelled"}

TypeOK ==
    /\ prepared \in BOOLEAN
    /\ outer \in {"fresh", "running", "suspended", "dropped", "done"}
    /\ pc \in Awaits
    /\ leg \in Legs
    /\ link \in [Legs -> LinkStates]
    /\ pieces \in Parts /\ (pieces # "none" <=> pc = "read")
    /\ camera \in CameraView
    /\ pending \in BOOLEAN
    /\ why \in Endings

Init ==
    /\ prepared \in BOOLEAN
    /\ outer = "fresh"
    /\ pc = "off"
    /\ leg = "init"
    /\ link = [l \in Legs |-> "none"]
    /\ pieces = "none"
    /\ camera = Nothing
    /\ pending = FALSE
    /\ why = "none"

-----------------------------------------------------------------------------
(* Links.                                                                  *)

Connect(l) ==
    /\ leg' = l
    /\ link' = [link EXCEPT ![l] = "connecting"]
    /\ pc' = "connect"
    /\ outer' = "running"
    /\ why' = "none"

End(e) ==
    /\ pc' = "off"
    /\ outer' = "done"
    /\ why' = e
    /\ UNCHANGED leg

\* __aexit__ of the link: close(), then wait_closed().
Leave(e) ==
    /\ link' = [link EXCEPT ![leg] = "closing"]
    /\ pc' = "close"
    /\ outer' = "running"
    /\ pieces' = "none"
    /\ why' = e
    /\ UNCHANGED <<prepared, leg, camera, pending>>

-----------------------------------------------------------------------------
(* Opening.                                                                *)

\* The camera is not prepared or the quality unknown; or the first link is opened.
Enter ==
    \/ /\ End("EzvizError")
       /\ UNCHANGED link
    \/ Connect("init")

\* The consumer asks a new generator for its first chunk.
Start ==
    /\ outer \in {"fresh", "done"}
    /\ \A l \in Legs : link[l] = "none"
    /\ camera' = Nothing
    /\ pending' = FALSE
    /\ pieces' = "none"
    /\ \/ /\ prepared
          /\ Enter
       \/ /\ ~ prepared
          /\ pc' = "prepare"
          /\ outer' = "running"
          /\ leg' = "init"
          /\ why' = "none"
          /\ UNCHANGED link
    /\ UNCHANGED prepared

Prepared ==
    /\ pc = "prepare"
    /\ \/ /\ prepared' = TRUE
          /\ Enter
       \/ /\ End("EzvizError")
          /\ UNCHANGED <<prepared, link>>
    /\ UNCHANGED <<pieces, camera, pending>>

\* The request is written; PLAY quotes the session of the INVITE.
Connected ==
    /\ pc = "connect"
    /\ link' = [link EXCEPT ![leg] = "open"]
    /\ pc' = "send"
    /\ camera' = IF leg = "play" THEN [camera EXCEPT !.told = camera.issued] ELSE camera
    /\ UNCHANGED <<prepared, outer, leg, pieces, pending, why>>

\* A connect that fails closes its own socket.
ConnectFails(e) ==
    /\ pc = "connect"
    /\ link' = [link EXCEPT ![leg] = "none"]
    /\ End(e)
    /\ UNCHANGED <<prepared, pieces, camera, pending>>

-----------------------------------------------------------------------------
(* One exchange.                                                           *)

Sent ==
    /\ pc = "send"
    /\ pc' = "read"
    /\ pieces' = "header"
    /\ UNCHANGED <<prepared, outer, leg, link, camera, pending, why>>

\* What the camera answers is settled here, and looked at after the link is closed.
\* Neither the command of any answer nor anything of PLAY's is looked at.
HeaderArrives ==
    /\ pieces = "header"
    /\ pieces' = "body"
    /\ \/ /\ leg = "init"
          /\ \E r \in {"accepted", "refused"} : camera' = [camera EXCEPT !.result = r]
       \/ /\ leg = "invite"
          /\ \E t \in Tokens \cup {NoToken} : camera' = [camera EXCEPT !.issued = t]
       \/ /\ leg = "play"
          /\ UNCHANGED camera
    /\ UNCHANGED <<prepared, outer, pc, leg, link, pending, why>>

HeaderBroken ==
    /\ pieces = "header"
    /\ Leave("EzvizError")

\* Faulty BodyArrives: the trailer of PLAY's answer is left to the media.
BodyArrivesAlone ==
    /\ pieces = "body"
    /\ pieces' = "trailer"
    /\ pc' = IF leg = "play" THEN "recv" ELSE pc
    /\ UNCHANGED <<prepared, outer, leg, link, camera, pending, why>>

BodyArrives ==
    /\ pieces = "body"
    /\ pieces' = "trailer"
    /\ UNCHANGED <<prepared, outer, pc, leg, link, camera, pending, why>>

\* After INIT and INVITE the link is left; PLAY's is kept for the media.
TrailerArrives ==
    /\ pieces = "trailer"
    /\ \/ /\ leg # "play"
          /\ Leave("none")
       \/ /\ leg = "play"
          /\ pieces' = "none"
          /\ pc' = "recv"
          /\ UNCHANGED <<prepared, outer, leg, link, camera, pending, why>>

\* Faulty LinkClosed: INIT's Result is not looked at.
LinkClosedUnchecked ==
    /\ pc = "close"
    /\ link[leg] = "none"
    /\ \/ /\ why = "none" /\ leg = "init"
          /\ Connect("invite")
       \/ /\ why = "none" /\ leg = "invite" /\ camera.issued # NoToken
          /\ Connect("play")
    /\ UNCHANGED <<prepared, pieces, camera, pending>>

\* Faulty LinkClosed: the socket is not waited for.
LinkClosedEarly ==
    /\ pc = "close"
    /\ \/ /\ why # "none"
          /\ End(why)
          /\ UNCHANGED link
       \/ /\ why = "none" /\ leg = "init" /\ camera.result = "accepted"
          /\ Connect("invite")
       \/ /\ why = "none" /\ leg = "invite" /\ camera.issued # NoToken
          /\ Connect("play")
    /\ UNCHANGED <<prepared, pieces, camera, pending>>

\* The socket is closed: an exception goes on, or the answer is looked at.  INIT needs
\* a Result of 0 or none, INVITE a Session, both an XML body.
LinkClosed ==
    /\ pc = "close"
    /\ link[leg] = "none"
    /\ \/ /\ why # "none"
          /\ End(why)
          /\ UNCHANGED link
       \/ /\ why = "none" /\ leg = "init" /\ camera.result = "accepted"
          /\ Connect("invite")
       \/ /\ why = "none" /\ leg = "invite" /\ camera.issued # NoToken
          /\ Connect("play")
       \/ /\ why = "none" /\ leg # "play"
          /\ \E e \in {"EzvizError", "ParseError"} : End(e)
          /\ UNCHANGED link
       \/ /\ why = "none" /\ leg = "play"
          /\ End("Finished")
          /\ UNCHANGED link
    /\ UNCHANGED <<prepared, pieces, camera, pending>>

-----------------------------------------------------------------------------
(* The media.                                                              *)

\* A chunk is assembled: it completes some video or none, and may leave a NAL open.
ChunkArrives ==
    /\ pc = "recv"
    /\ pending' \in BOOLEAN
    /\ \/ /\ pc' = "yield"
          /\ outer' = "suspended"
       \/ UNCHANGED <<pc, outer>>
    /\ UNCHANGED <<prepared, leg, link, pieces, camera, why>>

\* Faulty EndOfStream: the decoder is not flushed.
EndUnflushed ==
    /\ pc = "recv"
    /\ Leave("none")

\* b"": flush() gives out the open NAL, if there is one and it is plausible.
EndOfStream ==
    /\ pc = "recv"
    /\ \/ /\ pending
          /\ pending' = FALSE
          /\ pc' = "tail"
          /\ outer' = "suspended"
          /\ UNCHANGED <<prepared, leg, link, pieces, camera, why>>
       \/ /\ pending' = FALSE
          /\ link' = [link EXCEPT ![leg] = "closing"]
          /\ pc' = "close"
          /\ UNCHANGED <<prepared, outer, leg, pieces, camera, why>>

\* Faulty TransportFails: nothing bounds the wait for the end of a control frame.
TransportFailsAtHeader ==
    \/ /\ pc \in {"send", "read", "recv"}
       /\ pieces \in {"none", "header"}
       /\ Leave("DeviceOffline")
    \/ ConnectFails("DeviceOffline")

\* A timeout or an OSError, or the end of the stream in the middle of an answer.
TransportFails ==
    \/ /\ pc \in {"send", "read", "recv"}
       /\ Leave("DeviceOffline")
    \/ ConnectFails("DeviceOffline")

-----------------------------------------------------------------------------
(* The loop and the consumer.                                              *)

Reap ==
    /\ \E l \in Legs :
          /\ link[l] = "closing"
          /\ link' = [link EXCEPT ![l] = "none"]
    /\ UNCHANGED <<prepared, outer, pc, leg, pieces, camera, pending, why>>

Resume ==
    /\ outer = "suspended"
    /\ \/ /\ pc = "yield"
          /\ pc' = "recv"
          /\ outer' = "running"
          /\ UNCHANGED <<prepared, leg, link, pieces, camera, pending, why>>
       \/ /\ pc = "tail"
          /\ Leave("none")

Close ==
    /\ outer = "suspended"
    /\ Leave("Closed")

Drop ==
    /\ outer = "suspended"
    /\ outer' = "dropped"
    /\ UNCHANGED <<prepared, pc, leg, link, pieces, camera, pending, why>>

Finalize ==
    /\ outer = "dropped"
    /\ Leave("Closed")

Cancel ==
    /\ outer = "running"
    /\ \/ ConnectFails("Cancelled")
       \/ /\ pc \in {"send", "read", "recv"}
          /\ Leave("Cancelled")
       \/ /\ pc \in {"prepare", "close"}
          /\ End("Cancelled")
          /\ UNCHANGED <<prepared, link, pieces, camera, pending>>

-----------------------------------------------------------------------------
Awaited ==
    \/ Prepared \/ Connected
    \/ Sent \/ HeaderArrives \/ HeaderBroken \/ BodyArrives \/ TrailerArrives
    \/ LinkClosed
    \/ ChunkArrives \/ EndOfStream
    \/ TransportFails

Consumer == Start \/ Resume \/ Close \/ Drop \/ Cancel

Next == Awaited \/ Consumer \/ Finalize \/ Reap

Spec == Init /\ [][Next]_vars

\* As in LiveStream: every await of the camera has a timeout of its own, the loop closes
\* sockets, resumes wait_closed() and runs the finalizer hook.
FairSpec ==
    /\ Spec
    /\ \A place \in Awaits, l \in Legs, part \in Parts :
          WF_vars(pc = place /\ leg = l /\ pieces = part /\ TransportFails)
    /\ WF_vars(Prepared)
    /\ \A l \in Legs : WF_vars(leg = l /\ LinkClosed)
    /\ WF_vars(Finalize)
    /\ WF_vars(Reap)

-----------------------------------------------------------------------------
(* Properties.                                                             *)

\* Each control command has a fresh socket, and the camera never sees two of this
\* generator's at a time (the camera drops one that is reused): the next is opened
\* only after the one before is really closed, and none outlives the generator.
OneLinkAtATime ==
    /\ \A l \in Legs : link[l] # "none" => \A other \in Legs \ {l} : link[other] = "none"
    /\ outer = "done" => \A l \in Legs : link[l] \in {"none", "closing"}

\* Recorded media is only read after INIT was accepted, and only of the session that
\* the INVITE with this record window issued and PLAY quoted.
MediaIsOfThisWindow ==
    pc \in {"recv", "yield", "tail"} =>
        /\ camera.result = "accepted"
        /\ camera.issued \in Tokens
        /\ camera.told = camera.issued

\* A playback that comes to its normal end has given out everything it assembled.
FinishedIsComplete == why = "Finished" => ~ pending

\* The playback as its consumer knows it.  A socket is waited for between two exchanges,
\* at the end of the media and on the way out.
Number(l) == CASE l = "init" -> 1 [] l = "invite" -> 2 [] OTHER -> 3

PhaseNow ==
    CASE pc = "off" -> IF why = "Finished" THEN "complete" ELSE "off"
      [] pc \in {"recv", "yield"} -> "media"
      [] pc = "tail" -> "ending"
      [] pc = "close" /\ why # "none" -> "leaving"
      [] pc = "close" /\ why = "none" /\ leg = "play" -> "ending"
      [] OTHER -> "asking"

ExchangeNow == IF pc \in {"off", "prepare"} THEN 0 ELSE Number(leg)

HeldNow == {Number(l) : l \in {k \in Legs : link[k] # "none"}}

Session == INSTANCE PlaybackSession WITH
    phase <- PhaseNow, exchange <- ExchangeNow, held <- HeldNow, owed <- pending

\* playback() is a PlaybackSession: its three exchanges follow each other on fresh
\* sockets, and one that failed, was closed or was cancelled, at whatever await, never
\* passes for one that has given out all its media.
ImplementsSession == Session!Spec

\* Whatever the camera does, the opening of a playback leads to its media or to its end,
\* and a playback that is on its way out ends with all sockets closed.
PlaybackSettles ==
    (pc \in {"prepare", "connect", "send", "read", "close"} \/ outer = "dropped")
        ~> (pc = "recv" \/ (outer = "done" /\ \A l \in Legs : link[l] = "none"))
=============================================================================
