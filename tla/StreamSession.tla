---------------------------- MODULE StreamSession ----------------------------
(***************************************************************************)
(* What one live stream promises to the code that consumes it, without the *)
(* protocol: a stream takes its two links in a fixed order (command, then  *)
(* stream), delivers only while it holds both, and on its way out gives    *)
(* them back without taking or delivering anything more.  A stream that is *)
(* off holds nothing.                                                      *)
(***************************************************************************)
CONSTANT Streams

VARIABLES
    phase,  \* [Streams -> Phases]
    held    \* [Streams -> Scopes], the links the stream has not yet given up

vars == <<phase, held>>

Phases == {"off", "opening", "live", "closing"}

\* The scopes nest: the stream link is only ever held inside the command link.
Scopes == {{}, {"command"}, {"command", "stream"}}

Init ==
    /\ phase = [s \in Streams |-> "off"]
    /\ held = [s \in Streams |-> {}]

\* A stream that is off is opened; it may have its command link at once.
Begin(s) ==
    /\ phase[s] = "off"
    /\ phase' = [phase EXCEPT ![s] = "opening"]
    /\ \E scope \in {{}, {"command"}} : held' = [held EXCEPT ![s] = scope]

\* An opening stream takes the next link of the two.
Acquire(s) ==
    /\ phase[s] = "opening"
    /\ \E scope \in Scopes :
          /\ held[s] \subseteq scope
          /\ held' = [held EXCEPT ![s] = scope]
    /\ UNCHANGED phase

\* Media flows only with both links in hand.
GoLive(s) ==
    /\ phase[s] = "opening"
    /\ held[s] = {"command", "stream"}
    /\ phase' = [phase EXCEPT ![s] = "live"]
    /\ UNCHANGED held

\* Whatever ends a stream, it only gives links back, the stream link first.
Release(s) ==
    /\ phase[s] # "off"
    /\ \E scope \in Scopes :
          /\ scope \subseteq held[s]
          /\ held' = [held EXCEPT ![s] = scope]
    /\ phase' = [phase EXCEPT ![s] = "closing"]

\* The stream is off when it holds nothing (and may have held its command link
\* until this very step: a connect that fails closes its own socket).
Finish(s) ==
    /\ phase[s] # "off"
    /\ "stream" \notin held[s]
    /\ held' = [held EXCEPT ![s] = {}]
    /\ phase' = [phase EXCEPT ![s] = "off"]

Next ==
    \E s \in Streams :
        Begin(s) \/ Acquire(s) \/ GoLive(s) \/ Release(s) \/ Finish(s)

Spec == Init /\ [][Next]_vars
=============================================================================
