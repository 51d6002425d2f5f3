---------------------------- MODULE IdmxFraming -----------------------------
(***************************************************************************)
(* protocol/idmx.py iter_frames(): the camera's byte stream cut into the   *)
(* pieces that StreamDecryptor.update() is given, and the IDMX frames that *)
(* are found in each piece on its own.  A live stream is given out packet  *)
(* by packet, a packet being some whole frames; playback takes whatever    *)
(* recv() returns.                                                         *)
(*                                                                         *)
(* The stream is a sequence of units: a frame is a lead byte (if its       *)
(* sentinel is at offset 9, none at offset 8), the eight bytes of its      *)
(* RTP-like block, its sentinel, and Body units of data.  A piece that is  *)
(* cut inside the block or the sentinel behaves as if it were cut between  *)
(* the two: what is left of neither is found.  No data looks like a        *)
(* sentinel.                                                               *)
(***************************************************************************)
EXTENDS Naturals, FiniteSets

CONSTANTS
    MaxFrames,  \* bound: frames the camera sends
    Body,       \* units of data of a frame
    Leads,      \* how many lead bytes cameras send before the RTP-like block
    Sources     \* how the decoder is fed: "packets" (live), "reads" (playback)

ASSUME SizeAssumption == MaxFrames \in Nat /\ Body \in Nat \ {0} /\ Leads \subseteq {0, 1}
ASSUME SourceAssumption == Sources \subseteq {"packets", "reads"}

VARIABLES
    source,  \* who feeds the decoder
    lead,    \* the camera's lead bytes, 0 or 1
    fed,     \* units fed so far
    cuts,    \* history: where the pieces ended
    found    \* the frames found: where each begins, its sentinel and its end

vars == <<source, lead, fed, cuts, found>>

FrameSize == lead + 2 + Body

Length == MaxFrames * FrameSize

Units == 1..Length

\* The camera's frame a unit belongs to, and its first and last units.
FrameOf(u) == (u - 1) \div FrameSize + 1
FirstUnit(i) == (i - 1) * FrameSize + 1
LastUnit(i) == i * FrameSize

IsMark(u) == (u - 1) % FrameSize = lead + 1

IsData(u) == (u - 1) % FrameSize > lead + 1

FrameRecord == [from : Units, mark : Units, to : Units]

TypeOK ==
    /\ source \in Sources
    /\ lead \in Leads
    /\ fed \in 0..Length
    /\ cuts \subseteq 1..fed
    /\ found \subseteq FrameRecord

Init ==
    /\ source \in Sources
    /\ lead \in Leads
    /\ fed = 0
    /\ cuts = {}
    /\ found = {}

-----------------------------------------------------------------------------
(* iter_frames().                                                          *)

\* Faulty Begins: only offset 9 is tried.
BeginsAtNine(mark, first) == {p \in {mark - 2} : p >= first}

\* Where the frame of a sentinel begins in a piece that begins at first: offset 9,
\* if the piece reaches back that far, else offset 8, else the sentinel is passed over.
Begins(mark, first) ==
    IF mark - 2 >= first THEN {mark - 2}
    ELSE IF mark - 1 >= first THEN {mark - 1}
    ELSE {}

\* The frames that have a beginning in the piece, as pairs with their sentinels.
Starts(first, last) ==
    {s \in (first..last) \X (first..last) :
        IsMark(s[2]) /\ s[1] \in Begins(s[2], first)}

\* Faulty IterFrames: each frame goes on to the end of the piece.
IterFramesToTheEnd(first, last) ==
    {[from |-> s[1], mark |-> s[2], to |-> last] : s \in Starts(first, last)}

\* The last unit of a frame: the next one begins after it, or the piece is at its end.
Ends(start, starts, last) ==
    {e \in start..last :
        /\ e = last \/ \E t \in starts : t[1] = e + 1
        /\ \A t \in starts : t[1] > start => t[1] > e}

IterFrames(first, last) ==
    LET starts == Starts(first, last) IN
    UNION {{[from |-> s[1], mark |-> s[2], to |-> e] : e \in Ends(s[1], starts, last)} :
              s \in starts}

-----------------------------------------------------------------------------
(* The pieces.                                                             *)

Update(last) ==
    /\ fed' = last
    /\ cuts' = cuts \cup {last}
    /\ found' = found \cup IterFrames(fed + 1, last)
    /\ UNCHANGED <<source, lead>>

\* A packet body: some whole frames.
PacketArrives ==
    /\ source = "packets"
    /\ \E i \in 1..MaxFrames : LastUnit(i) > fed /\ Update(LastUnit(i))

\* Faulty ReadReturns: the b"" of a closed connection is fed as well.
ReadReturnsNothing ==
    /\ source = "reads"
    /\ \E last \in fed..Length : Update(last)

\* recv(): whatever has arrived, up to its limit.
ReadReturns ==
    /\ source = "reads"
    /\ \E last \in Units : last > fed /\ Update(last)

Next == PacketArrives \/ ReadReturns

Spec == Init /\ [][Next]_vars

-----------------------------------------------------------------------------
(* Properties.                                                             *)

\* A frame's body: what follows its sentinel.
Holds(f, u) == f.mark < u /\ u <= f.to

\* The RTP-like block, the sentinel and the data of frame i lie in one piece.
Uncut(i) ==
    /\ LastUnit(i) <= fed
    /\ \A c \in cuts : ~ (FirstUnit(i) + lead <= c /\ c < LastUnit(i))

\* Packets give out exactly the camera's frames, however many a packet holds, if their
\* sentinels are at offset 9 as in the real capture.
PacketsAreExact ==
    source = "packets" /\ lead = 1 =>
        found = {[from |-> FirstUnit(i), mark |-> FirstUnit(i) + lead + 1, to |-> LastUnit(i)] :
                    i \in {j \in 1..MaxFrames : LastUnit(j) <= fed}}

\* However the stream is cut, no frame is given data of another: at most its tail is
\* lost and the head of a following frame that was cut itself is taken for its end.
NoForeignData ==
    \A f \in found, u \in Units :
        Holds(f, u) /\ IsData(u) => FrameOf(u) = FrameOf(f.mark)

\* A cut costs the frame it goes through, and no other: every frame that lies in one
\* piece is found, with all of its data, and once.  If the sentinels are at offset 8 a frame
\* that is followed by another in its piece loses its last byte to it, but nothing else.
CutsAreLocal ==
    \A i \in 1..MaxFrames :
        LET of == {f \in found : FrameOf(f.mark) = i} IN
        /\ Cardinality(of) <= 1
        /\ Uncut(i) =>
              \E f \in of : \A u \in FirstUnit(i)..LastUnit(i) :
                  IsData(u) /\ (lead = 0 => u # LastUnit(i)) => Holds(f, u)

\* idmx.py, iter_frames: an update() call receives one complete packet body, so that a
\* NAL is never to be put together from raw bytes: what is found are whole frames.
FramesAreWhole ==
    \A f \in found : f.from = FirstUnit(FrameOf(f.mark)) /\ f.to = LastUnit(FrameOf(f.mark))
=============================================================================
