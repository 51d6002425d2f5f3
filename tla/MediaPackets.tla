---------------------------- MODULE MediaPackets -----------------------------
(***************************************************************************)
(* The media of a live stream on the wire, as protocol/local_sdk.py reads  *)
(* it: _read_frame_after_prefix() finds the next '$' and takes as many     *)
(* bytes as its header says, rtp_payload() removes the RTP framing and     *)
(* strip_local_fragment_header() the camera's own marker.  There is no     *)
(* other means to find the next packet than the length of the last one.    *)
(*                                                                         *)
(* The wire is a sequence of bytes, the media any bytes, '$' and the       *)
(* fragment marker among them.                                             *)
(***************************************************************************)
EXTENDS Naturals, Sequences, SequencesExt, FiniteSetsExt

CONSTANTS
    MaxPackets,    \* bound: packets the camera sends
    MediaBytes,    \* the bytes the media are made of
    MaxMedia,      \* bound: media bytes of a packet
    MaxPreface,    \* bound: bytes before a packet
    Contributors,  \* how many contributing sources a packet may name
    Words,         \* how many words an extension may have
    Paddings       \* how many bytes of padding a packet may have

MAX_LENGTH == 65535

\* A packet's length fits its header's two bytes (build_rtp_header() refuses any
\* other), and no preface exceeds max_prefix_bytes.
ASSUME PacketAssumption ==
    /\ {MaxPackets, MaxMedia, MaxPreface} \subseteq Nat /\ MaxPreface <= 4096
    /\ UNION {MediaBytes, Contributors, Words, Paddings} \subseteq Nat
    /\ \A b \in MediaBytes : b < 256
    /\ \A c \in Contributors, w \in Words \cup {0}, n \in Paddings :
           c < 16 /\ n < 256 /\ 18 + 4 * c + 4 * w + MaxMedia + n <= MAX_LENGTH

VARIABLES
    wire,     \* bytes sent and not yet read
    sent,     \* history: the media of each packet sent
    got,      \* the media of each packet read
    reader    \* "reading", or "failed" after an error

packetVars == <<wire, sent, got, reader>>

RTP_INTERLEAVED_MAGIC == 36
LOCAL_FRAGMENT_MARKER == 28

PacketInit ==
    /\ wire = <<>>
    /\ sent = <<>>
    /\ got = <<>>
    /\ reader = "reading"

Zeros(n) == [i \in 1..n |-> 0]

-----------------------------------------------------------------------------
(* The camera (external).                                                  *)

\* The first of the two bytes of a number.
High(n) == (n \div 256) % 256

\* How it may pack media: RFC 3550's contributing sources, header extension and padding.
Extension(words) == <<190, 222, High(words), words % 256>> \o Zeros(4 * words)

Packings ==
    [csrc : Contributors, extension : {<<>>} \cup {Extension(w) : w \in Words}, padding : Paddings]

RtpPacket(p, media) ==
    <<128 + (IF p.padding > 0 THEN 32 ELSE 0)
          + (IF p.extension # <<>> THEN 16 ELSE 0) + p.csrc>>
        \o Zeros(11 + 4 * p.csrc)
        \o p.extension
        \o <<LOCAL_FRAGMENT_MARKER, 128>> \o media
        \o (IF p.padding = 0 THEN <<>> ELSE Zeros(p.padding - 1) \o <<p.padding>>)

Interleaved(packet) ==
    <<RTP_INTERLEAVED_MAGIC, 0, High(Len(packet)), Len(packet) % 256>> \o packet

Media == BoundedSeq(MediaBytes, MaxMedia)

\* The preface before a packet holds no '$'.
Prefaces == BoundedSeq(MediaBytes \ {RTP_INTERLEAVED_MAGIC}, MaxPreface)

Chunks(media) ==
    {preface \o Interleaved(RtpPacket(p, media)) : preface \in Prefaces, p \in Packings}

CameraSends ==
    /\ Len(sent) < MaxPackets
    /\ \E media \in Media : \E chunk \in Chunks(media) :
          /\ wire' = wire \o chunk
          /\ sent' = Append(sent, media)
    /\ UNCHANGED <<got, reader>>

-----------------------------------------------------------------------------
(* The reader.                                                             *)

Uint16(high, low) == 256 * high + low

\* What an EzvizError is raised for: no sequence of bytes.
Broken == <<256>>

\* The fixed header and the contributing sources; the extension, with its own header of
\* four bytes; the two flags.
FixedEnd(data) == 12 + 4 * (data[1] % 16)
ExtensionWords(data) == Uint16(data[FixedEnd(data) + 3], data[FixedEnd(data) + 4])
HasExtension(data) == (data[1] \div 16) % 2 = 1
HasPadding(data) == (data[1] \div 32) % 2 = 1

RtpStart(data) ==
    FixedEnd(data) + (IF HasExtension(data) THEN 4 + 4 * ExtensionWords(data) ELSE 0)

HeaderFits(data) ==
    /\ Len(data) >= 12
    /\ data[1] \div 64 = 2
    /\ Len(data) >= FixedEnd(data)
    /\ HasExtension(data) => Len(data) >= FixedEnd(data) + 4
    /\ Len(data) >= RtpStart(data)

Unpad(payload) ==
    IF payload = <<>> \/ Last(payload) \notin 1..Len(payload)
    THEN Broken
    ELSE SubSeq(payload, 1, Len(payload) - Last(payload))

rtp_payload(data) ==
    IF ~ HeaderFits(data) THEN Broken
    ELSE LET payload == SubSeq(data, RtpStart(data) + 1, Len(data)) IN
         IF HasPadding(data) THEN Unpad(payload) ELSE payload

strip_local_fragment_header(payload) ==
    IF Len(payload) >= 2 /\ payload[1] = LOCAL_FRAGMENT_MARKER
    THEN SubSeq(payload, 3, Len(payload))
    ELSE payload

\* Faulty Frame: the length is taken to include the header.
FrameShort(bytes) ==
    LET magic == Min({i \in 1..Len(bytes) : bytes[i] = RTP_INTERLEAVED_MAGIC})
    IN [first |-> magic + 4, last |-> magic - 1 + Uint16(bytes[magic + 2], bytes[magic + 3])]

\* Where the next packet lies in the bytes to come.
Frame(bytes) ==
    LET magic == Min({i \in 1..Len(bytes) : bytes[i] = RTP_INTERLEAVED_MAGIC})
    IN [first |-> magic + 4, last |-> magic + 3 + Uint16(bytes[magic + 2], bytes[magic + 3])]

\* Bytes that have not come yet are waited for.
ReadFrame ==
    /\ reader = "reading"
    /\ RTP_INTERLEAVED_MAGIC \in Range(wire)
    /\ LET frame == Frame(wire)
           payload == rtp_payload(SubSeq(wire, frame.first, frame.last))
       IN /\ Len(wire) >= frame.last
          /\ wire' = SubSeq(wire, frame.last + 1, Len(wire))
          /\ IF payload = Broken
             THEN reader' = "failed" /\ UNCHANGED got
             ELSE got' = Append(got, strip_local_fragment_header(payload)) /\ UNCHANGED reader
    /\ UNCHANGED sent

PacketNext == CameraSends \/ ReadFrame

PacketSpec == PacketInit /\ [][PacketNext]_packetVars

-----------------------------------------------------------------------------
(* Properties.                                                             *)

\* local_sdk.py: the decoder is fed exactly the media of the camera's packets, in their
\* order, however they are packed and whatever bytes they are made of: the reader never
\* gets out of step and never takes a '$' of the media for a header.
MediaInStep ==
    /\ reader = "reading"
    /\ got = SubSeq(sent, 1, Len(got))
=============================================================================
