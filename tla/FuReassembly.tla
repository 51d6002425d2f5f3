---------------------------- MODULE FuReassembly -----------------------------
(***************************************************************************)
(* crypto/media.py StreamDecryptor: HEVC NAL units put together again from *)
(* the IDMX frames of a local stream.  The camera cuts a NAL into fragment *)
(* units (NAL type 49), marks them in one of three ways and numbers every  *)
(* frame modulo 2^16; some frames never arrive (the camera drops them, or  *)
(* the scan for '$' resynchronises past them), the others arrive in order. *)
(*                                                                         *)
(* A NAL is its number; what the decoder has collected of one is the       *)
(* number of fragments and whether they are, byte for byte, the first      *)
(* fragments of that NAL (intact).  The byte tests on the fragment header  *)
(* are the code's own, on its real 8-bit values.                           *)
(***************************************************************************)
EXTENDS Naturals, Sequences

CONSTANTS
    SeqMod,       \* sequence numbers are modulo this, 2^16 in the code
    MaxFrames,    \* bound: frames the camera sends
    MaxFragments, \* bound: fragments of one NAL
    Types,        \* HEVC types of the NALs the camera fragments
    PseudoTypes,  \* those whose continuations may carry the EZVIZ pseudo header
    BareBytes     \* first data bytes of continuations without any header

ASSUME SizeAssumption ==
    /\ SeqMod \in Nat \ {0, 1}
    /\ MaxFrames \in Nat
    /\ MaxFragments \in Nat \ {0}

\* is_plausible_hevc_nal accepts types up to 40.
ASSUME TypesAssumption == Types \subseteq 0..40 /\ PseudoTypes \subseteq Types

\* A first data byte that none of the three tests on the header byte mistakes for
\* a header: without this the heuristics of the code are ambiguous.
ASSUME BareAssumption ==
    /\ BareBytes \subseteq 0..127
    /\ \A b \in BareBytes, t \in Types : b % 64 # t /\ b # 2 * t /\ b # 2 * t + 64

VARIABLES
    camera,    \* the NAL being sent and the position in the numbering
    active,    \* _active_fu: what has been collected, or None
    evidence,  \* _evidence_seen
    out,       \* the NALs given to the caller, in order
    owed,      \* history: the NALs that arrived whole, in order
    announced, \* history: an unmistakably HEVC frame has arrived
    flushed    \* flush() was called: no more data is coming

vars == <<camera, active, evidence, out, owed, announced, flushed>>

None == [nal |-> 0]

Collected == [nal : Nat, parts : 1..MaxFragments, intact : BOOLEAN]

Active == [nal : Nat, parts : 1..MaxFragments, intact : BOOLEAN,
           type : 0..63, seq : 0..(SeqMod - 1), ts : Nat]

\* The first k fragments of NAL n and nothing else.
Clean(n, k) == [nal |-> n, parts |-> k, intact |-> TRUE]

WholeKinds == {"sidecar", "wrapped", "parameters", "slice"}

\* sent of the total frames of the current NAL are sent and all of them arrived
\* if whole; frames counts all frames, inUnit those of the access unit ts.
Camera ==
    [nal : Nat, kind : WholeKinds \cup {"fragments"}, type : 0..40,
     sent : 0..MaxFragments, total : 0..MaxFragments, whole : BOOLEAN,
     frames : 0..MaxFrames, seq : 0..(SeqMod - 1), ts : Nat, inUnit : Nat]

TypeOK ==
    /\ camera \in Camera
    /\ active \in Active \cup {None}
    /\ evidence \in BOOLEAN
    /\ out \in Seq(Collected)
    /\ owed \in Seq(Collected)
    /\ announced \in BOOLEAN
    /\ flushed \in BOOLEAN

\* The numbering may be anywhere when the stream is joined.
Init ==
    /\ \E q \in 0..(SeqMod - 1) :
          camera = [nal |-> 0, kind |-> "slice", type |-> 0, sent |-> 0, total |-> 0,
                    whole |-> TRUE, frames |-> 0, seq |-> q, ts |-> 0, inUnit |-> 0]
    /\ active = None
    /\ evidence = FALSE
    /\ out = <<>>
    /\ owed = <<>>
    /\ announced = FALSE
    /\ flushed = FALSE

-----------------------------------------------------------------------------
(* The bytes of a fragment header.                                         *)

StartBit(b) == b >= 128
EndBit(b) == (b \div 64) % 2 = 1
OriginalType(b) == b % 64

\* First byte of the reconstructed NAL header, base layer.
Header0(type) == 2 * type

WithEndBit(b) == IF EndBit(b) THEN b ELSE b + 64

NextSeq(q) == IF q + 1 = SeqMod THEN 0 ELSE q + 1

-----------------------------------------------------------------------------
(* The decoder.                                                            *)

\* Faulty Continues: the timestamps are not compared.
ContinuesAcrossUnits(f) ==
    /\ active # None
    /\ f.seq = NextSeq(active.seq)

\* Faulty Continues: the sequence numbers are not compared.
ContinuesPastGaps(f) ==
    /\ active # None
    /\ active.ts = f.ts

\* _fu_continues
Continues(f) ==
    /\ active # None
    /\ active.ts = f.ts
    /\ f.seq = NextSeq(active.seq)

\* Whether the code takes the byte for a fragment header of the active NAL.
HasHeader(f, type) ==
    \/ StartBit(f.byte)
    \/ OriginalType(f.byte) = type
    \/ f.byte \in {Header0(type), WithEndBit(Header0(type))}

\* The active NAL with the frame's bytes behind it.  They stay intact if this is
\* the next fragment of the same NAL and its header byte, if it has one, is cut.
Extended(f, base) ==
    [nal |-> base.nal,
     parts |-> base.parts + 1,
     intact |-> /\ base.intact
                /\ f.nal = base.nal
                /\ f.part = base.parts + 1
                /\ HasHeader(f, base.type) = (f.style # "bare"),
     type |-> base.type,
     seq |-> f.seq,
     ts |-> f.ts]

\* Faulty Base: a start that follows without a gap is added to the active NAL.
BaseAppending(f) ==
    IF StartBit(f.byte) /\ ~ Continues(f)
    THEN [nal |-> f.nal, parts |-> 0, intact |-> TRUE, type |-> OriginalType(f.byte)]
    ELSE active

\* A start replaces whatever was active, silently.
Base(f) ==
    IF StartBit(f.byte)
    THEN [nal |-> f.nal, parts |-> 0, intact |-> TRUE, type |-> OriginalType(f.byte)]
    ELSE active

Ends(f, type) ==
    IF HasHeader(f, type) THEN EndBit(f.byte) ELSE f.marker

Emission(fu) == [nal |-> fu.nal, parts |-> fu.parts, intact |-> fu.intact]

\* A fragment that neither starts nor continues: the NAL it belonged to is lost.
FuBroken(f) ==
    /\ ~ StartBit(f.byte)
    /\ ~ Continues(f)
    /\ active' = None
    /\ UNCHANGED out

FuAccepted(f) ==
    /\ StartBit(f.byte) \/ Continues(f)
    /\ LET fu == Extended(f, Base(f)) IN
          IF Ends(f, fu.type)
          THEN /\ active' = None
               /\ out' = IF fu.type <= 40 THEN Append(out, Emission(fu)) ELSE out
          ELSE /\ active' = fu
               /\ UNCHANGED out

\* _process_frame on a fragment: payload type 96, evidence by itself.
ProcessFragment(f) ==
    /\ evidence' = TRUE
    /\ FuBroken(f) \/ FuAccepted(f)

\* _process_frame on a frame that is not a fragment: a parameter sidecar is
\* skipped, a media-wrapped NAL or a parameter set is evidence, a slice is taken
\* once there is some.  None of them touches the active NAL.
ProcessWhole(f) ==
    /\ evidence' = (evidence \/ f.kind \in {"wrapped", "parameters"})
    /\ out' = IF f.kind # "sidecar" /\ evidence'
              THEN Append(out, Clean(f.nal, 1))
              ELSE out
    /\ UNCHANGED active

-----------------------------------------------------------------------------
(* The camera and the way to the decoder.                                  *)

\* The camera turns to its next NAL, in the same access unit (timestamp) or a new
\* one.  An access unit has no more frames than there are sequence numbers.
NextNal ==
    /\ ~ flushed
    /\ camera.sent = camera.total
    /\ \E kind \in WholeKinds \cup {"fragments"}, type \in Types,
          total \in 1..MaxFragments, ts \in {camera.ts, camera.ts + 1} :
          LET inUnit == IF ts = camera.ts THEN camera.inUnit ELSE 0 IN
          /\ kind \in WholeKinds => total = 1
          /\ camera.frames + total <= MaxFrames
          /\ inUnit + total <= SeqMod
          /\ camera' = [camera EXCEPT
                !.nal = @ + 1, !.kind = kind, !.type = type, !.sent = 0, !.total = total,
                !.whole = TRUE, !.ts = ts, !.inUnit = inUnit]
    /\ UNCHANGED <<active, evidence, out, owed, announced, flushed>>

\* The current NAL with one more frame sent, which arrived or not.
Advanced(arrived) ==
    [camera EXCEPT !.sent = @ + 1, !.whole = @ /\ arrived, !.frames = @ + 1,
                   !.seq = NextSeq(@), !.inUnit = @ + 1]

Sending == ~ flushed /\ camera.sent < camera.total

Final == camera.sent + 1 = camera.total

\* How a fragment may be marked: the first always starts a NAL in the standard way.
Styles ==
    {style \in {"standard", "pseudo", "bare"} :
        /\ camera.sent = 0 => style = "standard"
        /\ style = "pseudo" => camera.type \in PseudoTypes}

StartFlag == IF camera.sent = 0 THEN 128 ELSE 0
EndFlag == IF Final THEN 64 ELSE 0

PseudoByte == IF Final THEN WithEndBit(Header0(camera.type)) ELSE Header0(camera.type)

\* The header byte of the next fragment, or its first data byte if it is bare.
Bytes(style) ==
    IF style = "bare" THEN BareBytes
    ELSE IF style = "pseudo" THEN {PseudoByte}
    ELSE {StartFlag + EndFlag + camera.type}

Fragment(style, marker, byte) ==
    [nal |-> camera.nal, part |-> camera.sent + 1, style |-> style, byte |-> byte,
     marker |-> marker, seq |-> camera.seq, ts |-> camera.ts]

\* The next fragment arrives.  RTP marks the last frame of an access unit, so only
\* a final fragment may be marked; of a bare one nothing else tells that it is.
FragmentArrives ==
    /\ Sending
    /\ camera.kind = "fragments"
    /\ \E style \in Styles, marker \in BOOLEAN : \E byte \in Bytes(style) :
          /\ marker => Final
          /\ ProcessFragment(Fragment(style, marker, byte))
          /\ owed' = IF Final /\ camera.whole /\ (style = "bare" => marker)
                     THEN Append(owed, Clean(camera.nal, camera.total))
                     ELSE owed
    /\ announced' = TRUE
    /\ camera' = Advanced(TRUE)
    /\ UNCHANGED flushed

\* A NAL in one frame, or a sidecar, arrives.
WholeArrives ==
    /\ Sending
    /\ camera.kind \in WholeKinds
    /\ ProcessWhole([nal |-> camera.nal, kind |-> camera.kind])
    /\ announced' = (announced \/ camera.kind \in {"wrapped", "parameters"})
    /\ owed' = IF camera.kind # "sidecar" /\ announced'
               THEN Append(owed, Clean(camera.nal, 1))
               ELSE owed
    /\ camera' = Advanced(TRUE)
    /\ UNCHANGED flushed

FrameLost ==
    /\ Sending
    /\ camera' = Advanced(FALSE)
    /\ UNCHANGED <<active, evidence, out, owed, announced, flushed>>

\* flush() at the end of the stream gives out what is still active.
Flush ==
    /\ ~ flushed
    /\ flushed' = TRUE
    /\ active' = None
    /\ out' = IF active # None /\ active.type <= 40 THEN Append(out, Emission(active)) ELSE out
    /\ UNCHANGED <<camera, evidence, owed, announced>>

Next == NextNal \/ FragmentArrives \/ WholeArrives \/ FrameLost \/ Flush

Spec == Init /\ [][Next]_vars

-----------------------------------------------------------------------------
(* Properties.                                                             *)

\* Until the end of the stream the caller is given exactly the NALs that arrived
\* whole, each once, intact and in the camera's order: a lost frame costs the NAL
\* it belongs to and no other, no two NALs are ever spliced together, and the
\* wrap of the sequence numbers is not a gap.
OutputIsExact == ~ flushed => out = owed

\* flush() adds at most one NAL, and what it adds are the first fragments of one
\* NAL, in order and nothing else.
FlushAddsOnePrefix ==
    flushed =>
        \/ out = owed
        \/ \E n \in 1..camera.nal, k \in 1..MaxFragments :
              out = Append(owed, Clean(n, k))
=============================================================================
