----------------------------- MODULE LiveStream ------------------------------
(***************************************************************************)
(* Camera.live() down to its two TCP links: the three nested asynchronous  *)
(* generators (camera.py live, streaming/live.py and protocol/local_sdk.py *)
(* open_local_sdk_stream), the DeviceLinks they hold, the camera at the    *)
(* other end, the consumer that reads, closes, drops or cancels, and the   *)
(* operating system's receiver ports that all generators share.            *)
(*                                                                         *)
(* The event loop is single threaded: a generator runs from one await to   *)
(* the next without interruption, so an action is the code between two     *)
(* awaits and pc names the await a generator is suspended at.              *)
(***************************************************************************)
EXTENDS Naturals

CONSTANTS
    Streams,    \* generator objects alive at the same time
    Ports,      \* receiver ports a consumer may pass (receiver_port)
    Tokens,     \* values of <Session> a camera may issue
    NoToken,    \* the field is absent or empty
    MaxPrefix   \* max_prefix_bytes, 4096 in the code

ASSUME PrefixAssumption == MaxPrefix \in Nat
ASSUME TokenAssumption == NoToken \notin Tokens

VARIABLES
    prepared,   \* Camera.local_ip is set (shared by all generators)
    outer,      \* [Streams -> Outer]: the live() generator the consumer holds
    pc,         \* [Streams -> Awaits]: where the innermost generator waits
    port,       \* [Streams -> Ports]: receiver_port, local_addr of the command link
    cmd,        \* [Streams -> LinkStates]: the command link
    str,        \* [Streams -> LinkStates]: the stream link
    pieces,     \* [Streams -> 0..3]: reads left of the control frame being read
    junk,       \* [Streams -> 0..MaxPrefix]: len(prefix)
    camera,     \* [Streams -> CameraView]: what the camera said on these links
    why,        \* [Streams -> Endings]: what ended the generator
    timeWait    \* ports whose last socket lingers in TIME_WAIT

vars == <<prepared, outer, pc, port, cmd, str, pieces, junk, camera, why, timeWait>>

Outer == {"fresh", "running", "suspended", "dropped", "done"}

\* "closing" is a link whose writer.close() was called and whose socket the loop
\* has not closed yet; "lost" one the peer reset while the code still holds it.
LinkStates == {"none", "connecting", "open", "lost", "closing"}

\* The awaits, in the order the code reaches them.
Handshake == {"sendPreview", "readPreview", "sendSetup", "readSetup"}
Media == {"scan", "rtpHeader", "rtpBody"}
Unwinding == {"closeStream", "closeCommand"}
Awaits ==
    {"off", "prepare", "connectCommand", "connectStream", "yield"}
        \cup Handshake \cup Media \cup Unwinding

CameraView ==
    [preview : {"silent", "expected", "other"}, issued : Tokens \cup {NoToken},
     told : Tokens \cup {NoToken}, setup : {"silent", "expected", "other"}]

Nothing == [preview |-> "silent", issued |-> NoToken, told |-> NoToken, setup |-> "silent"]

Endings == {"none", "DeviceOffline", "EzvizError", "ParseError", "AuthError", "Closed", "Cancelled"}

TypeOK ==
    /\ prepared \in BOOLEAN
    /\ outer \in [Streams -> Outer]
    /\ pc \in [Streams -> Awaits]
    /\ port \in [Streams -> Ports]
    /\ cmd \in [Streams -> LinkStates]
    /\ str \in [Streams -> LinkStates]
    /\ pieces \in [Streams -> 0..3]
    /\ junk \in [Streams -> 0..MaxPrefix]
    /\ camera \in [Streams -> CameraView]
    /\ why \in [Streams -> Endings]
    /\ timeWait \subseteq Ports

Init ==
    /\ prepared \in BOOLEAN
    /\ outer = [s \in Streams |-> "fresh"]
    /\ pc = [s \in Streams |-> "off"]
    /\ port \in [Streams -> Ports]
    /\ cmd = [s \in Streams |-> "none"]
    /\ str = [s \in Streams |-> "none"]
    /\ pieces = [s \in Streams |-> 0]
    /\ junk = [s \in Streams |-> 0]
    /\ camera = [s \in Streams |-> Nothing]
    /\ why = [s \in Streams |-> "none"]
    /\ timeWait = {}

-----------------------------------------------------------------------------
(* Sockets and ports.                                                      *)

\* A socket occupies its local port from bind() until it is really closed.
Occupies(s, p) == port[s] = p /\ cmd[s] \in {"connecting", "open", "closing"}

\* asyncio binds without SO_REUSEADDR, so a lingering port cannot be bound either.
Bindable(p) == p \notin timeWait /\ \A t \in Streams : ~ Occupies(t, p)

\* The value of a link after DeviceLink.close(): a dead transport is gone at once.
Shut(link) == IF link = "open" THEN "closing" ELSE "none"

\* The generator's frame is left with the given exception, holding nothing more.
End(s, e) ==
    /\ pc' = [pc EXCEPT ![s] = "off"]
    /\ outer' = [outer EXCEPT ![s] = "done"]
    /\ why' = [why EXCEPT ![s] = e]

\* Faulty Unwind: the command link is closed first, the stream link never.
UnwindCommandFirst(s, e) ==
    /\ cmd' = [cmd EXCEPT ![s] = Shut(@)]
    /\ pc' = [pc EXCEPT ![s] = "closeStream"]
    /\ outer' = [outer EXCEPT ![s] = "running"]
    /\ why' = [why EXCEPT ![s] = e]
    /\ UNCHANGED <<prepared, port, str, pieces, junk, camera, timeWait>>

\* __aexit__ of the stream link: close() is called and wait_closed() awaited.
Unwind(s, e) ==
    /\ str' = [str EXCEPT ![s] = Shut(@)]
    /\ pc' = [pc EXCEPT ![s] = "closeStream"]
    /\ outer' = [outer EXCEPT ![s] = "running"]
    /\ why' = [why EXCEPT ![s] = e]
    /\ pieces' = [pieces EXCEPT ![s] = 0]
    /\ junk' = [junk EXCEPT ![s] = 0]
    /\ UNCHANGED <<prepared, port, cmd, camera, timeWait>>

\* __aexit__ of the command link, the stream link being out of the way.
UnwindCommand(s, e) ==
    /\ cmd' = [cmd EXCEPT ![s] = Shut(@)]
    /\ pc' = [pc EXCEPT ![s] = "closeCommand"]
    /\ why' = [why EXCEPT ![s] = e]
    /\ UNCHANGED <<prepared, outer, port, pieces, junk, camera, timeWait>>

-----------------------------------------------------------------------------
(* Opening: Camera.live, streaming.live and the async with of the links.   *)

\* The body is entered with an address: it refuses (missing credentials, unknown
\* quality), or binds the command socket to the receiver port and connects.
Dial(s, p) ==
    \/ /\ \E e \in {"AuthError", "EzvizError"} : End(s, e)
       /\ UNCHANGED cmd
    \/ /\ ~ Bindable(p)
       /\ End(s, "DeviceOffline")
       /\ UNCHANGED cmd
    \/ /\ Bindable(p)
       /\ cmd' = [cmd EXCEPT ![s] = "connecting"]
       /\ pc' = [pc EXCEPT ![s] = "connectCommand"]
       /\ outer' = [outer EXCEPT ![s] = "running"]
       /\ why' = [why EXCEPT ![s] = "none"]

\* The consumer asks a new generator for its first chunk.
Start(s) ==
    /\ outer[s] \in {"fresh", "done"}
    /\ cmd[s] = "none"
    /\ str[s] = "none"
    /\ camera' = [camera EXCEPT ![s] = Nothing]
    /\ pieces' = [pieces EXCEPT ![s] = 0]
    /\ junk' = [junk EXCEPT ![s] = 0]
    /\ \E p \in Ports :
          /\ port' = [port EXCEPT ![s] = p]
          /\ \/ /\ prepared
                /\ Dial(s, p)
             \/ /\ ~ prepared
                /\ pc' = [pc EXCEPT ![s] = "prepare"]
                /\ outer' = [outer EXCEPT ![s] = "running"]
                /\ why' = [why EXCEPT ![s] = "none"]
                /\ UNCHANGED cmd
    /\ UNCHANGED <<prepared, str, timeWait>>

\* prepare_live() has answered: with an address, or with an error of the cloud.
Prepared(s) ==
    /\ pc[s] = "prepare"
    /\ \/ /\ prepared' = TRUE
          /\ Dial(s, port[s])
       \/ /\ End(s, "EzvizError")
          /\ UNCHANGED <<prepared, cmd>>
    /\ UNCHANGED <<port, str, pieces, junk, camera, timeWait>>

CommandConnected(s) ==
    /\ pc[s] = "connectCommand"
    /\ cmd' = [cmd EXCEPT ![s] = "open"]
    /\ str' = [str EXCEPT ![s] = "connecting"]
    /\ pc' = [pc EXCEPT ![s] = "connectStream"]
    /\ UNCHANGED <<prepared, outer, port, pieces, junk, camera, why, timeWait>>

\* Both links are up: the preview request is written and drained.
StreamConnected(s) ==
    /\ pc[s] = "connectStream"
    /\ str' = [str EXCEPT ![s] = "open"]
    /\ pc' = [pc EXCEPT ![s] = "sendPreview"]
    /\ UNCHANGED <<prepared, outer, port, cmd, pieces, junk, camera, why, timeWait>>

\* A connect that fails, times out or is cancelled closes its own socket; of the
\* two links the other one, if it is open, is closed by its __aexit__.
ConnectFails(s, e) ==
    \/ /\ pc[s] = "connectCommand"
       /\ cmd' = [cmd EXCEPT ![s] = "none"]
       /\ End(s, e)
       /\ UNCHANGED <<prepared, port, str, pieces, junk, camera, timeWait>>
    \/ /\ pc[s] = "connectStream"
       /\ str' = [str EXCEPT ![s] = "none"]
       /\ UnwindCommand(s, e)

-----------------------------------------------------------------------------
(* The handshake: preview on the command link, setup on the stream link.   *)

Sent(s) ==
    \/ /\ pc[s] = "sendPreview"
       /\ pc' = [pc EXCEPT ![s] = "readPreview"]
       /\ pieces' = [pieces EXCEPT ![s] = 3]
       /\ UNCHANGED <<prepared, outer, port, cmd, str, junk, camera, why, timeWait>>
    \/ /\ pc[s] = "sendSetup"
       /\ pc' = [pc EXCEPT ![s] = "readSetup"]
       /\ pieces' = [pieces EXCEPT ![s] = 3]
       /\ UNCHANGED <<prepared, outer, port, cmd, str, junk, camera, why, timeWait>>

\* The 32-byte header arrives; the command in it is checked only after the rest.
\* The camera settles here what its answer says.
HeaderArrives(s) ==
    /\ pieces[s] = 3
    /\ pieces' = [pieces EXCEPT ![s] = 2]
    /\ \E command \in {"expected", "other"} :
          \/ /\ pc[s] = "readPreview"
             /\ \E t \in Tokens \cup {NoToken} :
                   camera' = [camera EXCEPT ![s].preview = command, ![s].issued = t]
          \/ /\ pc[s] = "readSetup"
             /\ camera' = [camera EXCEPT ![s].setup = command]
    /\ UNCHANGED <<prepared, outer, port, cmd, str, pc, junk, why, timeWait>>

\* The body arrives, the trailer is still to come.
BodyArrives(s) ==
    /\ pc[s] \in {"readPreview", "readSetup"}
    /\ pieces[s] = 2
    /\ pieces' = [pieces EXCEPT ![s] = 1]
    /\ UNCHANGED <<prepared, outer, port, cmd, str, pc, junk, camera, why, timeWait>>

\* Faulty PreviewAccepted: the answer's command is not looked at.
PreviewAcceptedUnchecked(s) ==
    /\ pc[s] = "readPreview"
    /\ pieces[s] = 1
    /\ camera[s].issued # NoToken
    /\ camera' = [camera EXCEPT ![s].told = camera[s].issued]
    /\ pieces' = [pieces EXCEPT ![s] = 0]
    /\ pc' = [pc EXCEPT ![s] = "sendSetup"]
    /\ UNCHANGED <<prepared, outer, port, cmd, str, junk, why, timeWait>>

\* The preview answer is complete and fit: its session is quoted in the setup
\* request, written on the stream link.
PreviewAccepted(s) ==
    /\ pc[s] = "readPreview"
    /\ pieces[s] = 1
    /\ camera[s].preview = "expected"
    /\ camera[s].issued # NoToken
    /\ camera' = [camera EXCEPT ![s].told = camera[s].issued]
    /\ pieces' = [pieces EXCEPT ![s] = 0]
    /\ pc' = [pc EXCEPT ![s] = "sendSetup"]
    /\ UNCHANGED <<prepared, outer, port, cmd, str, junk, why, timeWait>>

SetupAccepted(s) ==
    /\ pc[s] = "readSetup"
    /\ pieces[s] = 1
    /\ camera[s].setup = "expected"
    /\ pieces' = [pieces EXCEPT ![s] = 0]
    /\ pc' = [pc EXCEPT ![s] = "scan"]
    /\ UNCHANGED <<prepared, outer, port, cmd, str, junk, camera, why, timeWait>>

\* A header without the magic, a complete answer with another command or without
\* a session, a preview body that is not XML.
AnswerRefused(s) ==
    \/ /\ pieces[s] = 3
       /\ pc[s] \in {"readPreview", "readSetup"}
       /\ Unwind(s, "EzvizError")
    \/ /\ pieces[s] = 1
       /\ pc[s] = "readPreview"
       /\ camera[s].preview = "other" \/ camera[s].issued = NoToken
       /\ Unwind(s, "EzvizError")
    \/ /\ pieces[s] = 1
       /\ pc[s] = "readPreview"
       /\ camera[s].preview = "expected"
       /\ Unwind(s, "ParseError")
    \/ /\ pieces[s] = 1
       /\ pc[s] = "readSetup"
       /\ camera[s].setup = "other"
       /\ Unwind(s, "EzvizError")

-----------------------------------------------------------------------------
(* The media loop: _read_frame_after_prefix, then the assembler.           *)

\* Faulty JunkByte: the limit is one byte too generous.
JunkByteOneMore(s) ==
    /\ pc[s] = "scan"
    /\ junk[s] <= MaxPrefix
    /\ junk' = [junk EXCEPT ![s] = @ + 1]
    /\ UNCHANGED <<prepared, outer, pc, port, cmd, str, pieces, camera, why, timeWait>>

\* Faulty JunkByte: a full prefix is thrown away and the scan starts over.
JunkByteForgetting(s) ==
    /\ pc[s] = "scan"
    /\ junk' = [junk EXCEPT ![s] = (@ + 1) % (MaxPrefix + 1)]
    /\ UNCHANGED <<prepared, outer, pc, port, cmd, str, pieces, camera, why, timeWait>>

\* One byte that is not '$' joins the prefix; one too many ends the stream.
JunkByte(s) ==
    /\ pc[s] = "scan"
    /\ junk[s] < MaxPrefix
    /\ junk' = [junk EXCEPT ![s] = @ + 1]
    /\ UNCHANGED <<prepared, outer, pc, port, cmd, str, pieces, camera, why, timeWait>>

PrefixTooLong(s) ==
    /\ pc[s] = "scan"
    /\ junk[s] >= MaxPrefix
    /\ Unwind(s, "EzvizError")

\* '$', then the rest of the 4-byte header, then the payload it announces.
MagicByte(s) ==
    /\ pc[s] = "scan"
    /\ pc' = [pc EXCEPT ![s] = "rtpHeader"]
    /\ UNCHANGED <<prepared, outer, port, cmd, str, pieces, junk, camera, why, timeWait>>

RtpHeaderArrives(s) ==
    /\ pc[s] = "rtpHeader"
    /\ pc' = [pc EXCEPT ![s] = "rtpBody"]
    /\ UNCHANGED <<prepared, outer, port, cmd, str, pieces, junk, camera, why, timeWait>>

\* A packet is unwrapped and assembled: it completes some video, which is
\* yielded, or none, and the next packet is read; or its RTP header is broken.
PacketArrives(s) ==
    /\ pc[s] = "rtpBody"
    /\ \/ /\ pc' = [pc EXCEPT ![s] = "yield"]
          /\ outer' = [outer EXCEPT ![s] = "suspended"]
          /\ junk' = [junk EXCEPT ![s] = 0]
          /\ UNCHANGED <<prepared, port, cmd, str, pieces, camera, why, timeWait>>
       \/ /\ pc' = [pc EXCEPT ![s] = "scan"]
          /\ junk' = [junk EXCEPT ![s] = 0]
          /\ UNCHANGED <<prepared, outer, port, cmd, str, pieces, camera, why, timeWait>>
       \/ Unwind(s, "EzvizError")

-----------------------------------------------------------------------------
(* Unwinding.                                                              *)

\* Faulty StreamClosed: the end of the stream link is the end of the generator.
StreamClosedOnly(s) ==
    /\ pc[s] = "closeStream"
    /\ str[s] = "none"
    /\ End(s, why[s])
    /\ UNCHANGED <<prepared, port, cmd, str, pieces, junk, camera, timeWait>>

\* wait_closed() of the stream link returns, or is cancelled: either way the
\* command link is closed next.
StreamClosed(s) ==
    /\ pc[s] = "closeStream"
    /\ str[s] = "none"
    /\ UnwindCommand(s, why[s])
    /\ UNCHANGED str

CommandClosed(s) ==
    /\ pc[s] = "closeCommand"
    /\ cmd[s] = "none"
    /\ End(s, why[s])
    /\ UNCHANGED <<prepared, port, cmd, str, pieces, junk, camera, timeWait>>

\* The event loop's own iteration closes a closing socket.  The side that closes
\* first leaves the port in TIME_WAIT.
Reap(s) ==
    \/ /\ str[s] = "closing"
       /\ str' = [str EXCEPT ![s] = "none"]
       /\ UNCHANGED <<prepared, outer, pc, port, cmd, pieces, junk, camera, why, timeWait>>
    \/ /\ cmd[s] = "closing"
       /\ cmd' = [cmd EXCEPT ![s] = "none"]
       /\ \E lingering \in {{}, {port[s]}} : timeWait' = timeWait \cup lingering
       /\ UNCHANGED <<prepared, outer, pc, port, str, pieces, junk, camera, why>>

LingerExpires(p) ==
    /\ p \in timeWait
    /\ timeWait' = timeWait \ {p}
    /\ UNCHANGED <<prepared, outer, pc, port, cmd, str, pieces, junk, camera, why>>

\* The camera resets a command connection nobody reads any more.
CommandLost(s) ==
    /\ cmd[s] = "open"
    /\ cmd' = [cmd EXCEPT ![s] = "lost"]
    /\ UNCHANGED <<prepared, outer, pc, port, str, pieces, junk, camera, why, timeWait>>

\* Faulty TransportFails: the reads of the handshake wait without a timeout.
TransportFailsInMedia(s) ==
    \/ /\ pc[s] \in Media
       /\ Unwind(s, "DeviceOffline")
    \/ ConnectFails(s, "DeviceOffline")

\* A timeout, an end of stream or an OSError at a read or a write.
TransportFails(s) ==
    \/ /\ pc[s] \in Handshake \cup Media
       /\ Unwind(s, "DeviceOffline")
    \/ ConnectFails(s, "DeviceOffline")

-----------------------------------------------------------------------------
(* The consumer.                                                           *)

\* It asks for the next chunk.
Resume(s) ==
    /\ outer[s] = "suspended"
    /\ outer' = [outer EXCEPT ![s] = "running"]
    /\ pc' = [pc EXCEPT ![s] = "scan"]
    /\ UNCHANGED <<prepared, port, cmd, str, pieces, junk, camera, why, timeWait>>

\* Faulty Close: without aclosing() only the outermost generator is left.
CloseOuterOnly(s) ==
    /\ outer[s] = "suspended"
    /\ outer' = [outer EXCEPT ![s] = "done"]
    /\ UNCHANGED <<prepared, pc, port, cmd, str, pieces, junk, camera, why, timeWait>>

\* It closes the generator between two chunks: aclosing() hands GeneratorExit
\* down to the innermost generator, whose links are closed.
Close(s) ==
    /\ outer[s] = "suspended"
    /\ Unwind(s, "Closed")

\* It forgets the generator without closing it; the loop's finalizer hook closes
\* it later, in a task of its own.
Drop(s) ==
    /\ outer[s] = "suspended"
    /\ outer' = [outer EXCEPT ![s] = "dropped"]
    /\ UNCHANGED <<prepared, pc, port, cmd, str, pieces, junk, camera, why, timeWait>>

\* Faulty Finalize: as CloseOuterOnly, in the hook.
FinalizeOuterOnly(s) ==
    /\ outer[s] = "dropped"
    /\ outer' = [outer EXCEPT ![s] = "done"]
    /\ UNCHANGED <<prepared, pc, port, cmd, str, pieces, junk, camera, why, timeWait>>

Finalize(s) ==
    /\ outer[s] = "dropped"
    /\ Unwind(s, "Closed")

\* Its task is cancelled while it waits for the generator, wherever that waits.
Cancel(s) ==
    /\ outer[s] = "running"
    /\ \/ /\ pc[s] = "prepare"
          /\ End(s, "Cancelled")
          /\ UNCHANGED <<prepared, port, cmd, str, pieces, junk, camera, timeWait>>
       \/ ConnectFails(s, "Cancelled")
       \/ /\ pc[s] \in Handshake \cup Media
          /\ Unwind(s, "Cancelled")
       \/ /\ pc[s] = "closeStream"
          /\ UnwindCommand(s, "Cancelled")
          /\ UNCHANGED str
       \/ /\ pc[s] = "closeCommand"
          /\ End(s, "Cancelled")
          /\ UNCHANGED <<prepared, port, cmd, str, pieces, junk, camera, timeWait>>

-----------------------------------------------------------------------------
\* What a pending await of the generator may bring.
Awaited(s) ==
    \/ Prepared(s)
    \/ CommandConnected(s)
    \/ StreamConnected(s)
    \/ Sent(s)
    \/ HeaderArrives(s)
    \/ BodyArrives(s)
    \/ PreviewAccepted(s)
    \/ SetupAccepted(s)
    \/ AnswerRefused(s)
    \/ JunkByte(s)
    \/ PrefixTooLong(s)
    \/ MagicByte(s)
    \/ RtpHeaderArrives(s)
    \/ PacketArrives(s)
    \/ StreamClosed(s)
    \/ CommandClosed(s)
    \/ TransportFails(s)

Consumer(s) == Start(s) \/ Resume(s) \/ Close(s) \/ Drop(s) \/ Cancel(s)

Next ==
    \/ \E s \in Streams :
          Awaited(s) \/ Consumer(s) \/ Finalize(s) \/ Reap(s) \/ CommandLost(s)
    \/ \E p \in Ports : LingerExpires(p)

Spec == Init /\ [][Next]_vars

\* One particular await: the same line of the same loop turn.
AtAwait(s, place, turn) == pc[s] = place /\ pieces[s] + junk[s] = turn

\* Each await of the camera has a timeout of its own (wait_for in DeviceLink), so
\* it fails unless it is answered first; the cloud calls of prepare_live have the
\* HTTP client's.  The loop closes sockets, resumes wait_closed and runs the
\* finalizer hook.  Nothing is asked of the camera or of the consumer.
Fairness ==
    /\ \A s \in Streams :
          /\ \A place \in Awaits, turn \in 0..(MaxPrefix + 3) :
                WF_vars(AtAwait(s, place, turn) /\ TransportFails(s))
          /\ WF_vars(Prepared(s))
          /\ WF_vars(StreamClosed(s))
          /\ WF_vars(CommandClosed(s))
          /\ WF_vars(Finalize(s))
          /\ WF_vars(Reap(s))
    /\ \A p \in Ports : WF_vars(LingerExpires(p))

FairSpec == Spec /\ Fairness

-----------------------------------------------------------------------------
(* Properties.                                                             *)

\* A link the generator has not given up.
Live(link) == link \in {"connecting", "open", "lost"}

\* When the consumer is told that its generator is over, whatever ended it (an
\* error of any layer, aclose(), a cancellation even in the middle of closing),
\* no link is left open behind it (the aclosing() comment of Camera.live).
NoLeakedLink ==
    \A s \in Streams : outer[s] = "done" => ~ Live(cmd[s]) /\ ~ Live(str[s])

\* The stream link lives strictly inside the command link that announced its
\* receiver port: the camera never sees media requested over a stream link whose
\* command link the library has already given up.
StreamInsideCommand ==
    \A s \in Streams : Live(str[s]) => cmd[s] \in {"open", "lost"}

\* Packets are read, and chunks handed to the consumer, only after the camera
\* answered both requests with the right command, issued a session, and was told
\* that very session in the setup.
MediaAfterHandshake ==
    \A s \in Streams : pc[s] \in Media \cup {"yield"} =>
        /\ camera[s].preview = "expected"
        /\ camera[s].setup = "expected"
        /\ camera[s].issued \in Tokens
        /\ camera[s].told = camera[s].issued

Opening == {"prepare", "connectCommand", "connectStream"} \cup Handshake

\* What a consumer may rely on, whatever the camera does: links are taken in
\* order, held while media flows, and only given up once the end has begun.
PhaseOf(s) ==
    CASE pc[s] = "off" -> "off"
      [] pc[s] \in Opening -> "opening"
      [] pc[s] \in Media \cup {"yield"} -> "live"
      [] OTHER -> "closing"

HeldBy(s) ==
    {link \in {"command", "stream"} :
        Live(IF link = "command" THEN cmd[s] ELSE str[s])}

Session == INSTANCE StreamSession WITH
    phase <- [s \in Streams |-> PhaseOf(s)],
    held <- [s \in Streams |-> HeldBy(s)]

\* The three nested generators and their links implement a scoped stream session.
ImplementsSession == Session!Spec

\* A camera that goes silent anywhere in the handshake cannot keep a consumer
\* waiting: the stream opens or the generator ends.
OpeningSettles ==
    \A s \in Streams :
        (pc[s] \in Opening) ~> (pc[s] = "scan" \/ outer[s] = "done")

\* Bytes that never form a packet cannot keep the reader in its scan for ever.
ScanSettles == \A s \in Streams : (pc[s] = "scan") ~> (pc[s] # "scan")

\* Once a generator is on its way out, or dropped by its consumer, both sockets
\* are closed and the generator ends, even if the consumer cancels meanwhile.
ReleaseSettles ==
    \A s \in Streams :
        (pc[s] \in Unwinding \/ outer[s] = "dropped")
            ~> (outer[s] = "done" /\ cmd[s] = "none" /\ str[s] = "none")
=============================================================================
