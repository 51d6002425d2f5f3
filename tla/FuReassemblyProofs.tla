------------------------- MODULE FuReassemblyProofs --------------------------
(***************************************************************************)
(* Theorems about FuReassembly for every modulus, every number of frames   *)
(* and fragments and every set of types, provided that pseudo headers are  *)
(* only used for types whose header byte leaves bit 6 free.                *)
(***************************************************************************)
EXTENDS FuReassembly, TLAPS

\* The condition under which the heuristic on pseudo headers is unambiguous: the
\* end bit 0x40 of the byte is not a bit of the type.
PlainPseudoTypes == PseudoTypes \subseteq 0..31

-----------------------------------------------------------------------------
(* The inductive invariant.                                                *)

\* What is still to come of the access unit fits into the numbering.
CameraSound ==
    /\ camera.sent <= camera.total
    /\ camera.frames + (camera.total - camera.sent) <= MaxFrames
    /\ camera.inUnit + (camera.total - camera.sent) <= SeqMod
    /\ camera.nal = 0 => camera.total = 0
    /\ camera.sent = 0 => camera.whole
    /\ camera.kind = "fragments" => camera.type \in Types

\* b is g numbers after a.
Ahead(a, b, g) == b = a + g \/ b = (a + g) - SeqMod

\* The active NAL is the one being sent and lacks no fragment sent so far.
Current ==
    /\ camera.kind = "fragments"
    /\ camera.whole
    /\ active.nal = camera.nal
    /\ active.parts = camera.sent
    /\ active.type = camera.type

\* Whatever is active is a clean prefix of some NAL, and the distance of the
\* camera's number tells whether it is the NAL being sent.
ActiveSound ==
    active # None =>
        /\ active.intact
        /\ active.nal \in 1..camera.nal
        /\ active.type <= 40
        /\ active.ts <= camera.ts
        /\ active.ts = camera.ts =>
              \E g \in 1..camera.inUnit :
                  /\ Ahead(active.seq, camera.seq, g)
                  /\ g = 1 => camera.sent = 0 \/ Current

\* A NAL none of whose fragments was lost is active until its last one.
NothingForgotten ==
    (/\ camera.kind = "fragments"
     /\ camera.whole
     /\ 0 < camera.sent
     /\ camera.sent < camera.total) =>
        /\ active # None
        /\ Current
        /\ active.ts = camera.ts
        /\ camera.seq = NextSeq(active.seq)

Evident == evidence = announced

IInv ==
    /\ TypeOK
    /\ FlushAddsOnePrefix
    /\ ~ flushed => /\ OutputIsExact
                    /\ CameraSound
                    /\ ActiveSound
                    /\ NothingForgotten
                    /\ Evident

-----------------------------------------------------------------------------
(* The bytes of a fragment header.                                         *)

\* The three fields of a header byte are read back as they were written.
LEMMA HeaderByte ==
    ASSUME NEW t \in 0..63, NEW s \in {0, 128}, NEW e \in {0, 64}
    PROVE  /\ StartBit(s + e + t) <=> s = 128
           /\ OriginalType(s + e + t) = t
           /\ EndBit(s + e + t) <=> e = 64
  BY DEF StartBit, OriginalType, EndBit


\* What a byte of the next fragment says, whichever way the fragment is marked.
LEMMA ByteMeaning ==
    ASSUME PlainPseudoTypes, TypeOK, CameraSound, camera.kind = "fragments",
           NEW style \in Styles, NEW byte \in Bytes(style)
    PROVE  /\ StartBit(byte) <=> camera.sent = 0
           /\ StartBit(byte) => OriginalType(byte) = camera.type
           /\ \A f : f.byte = byte =>
                 (HasHeader(f, camera.type) <=> style # "bare")
           /\ style # "bare" => (EndBit(byte) <=> Final)
<1> DEFINE t == camera.type
<1>1. t \in Types /\ t \in 0..63 /\ t \in 0..40
  BY TypesAssumption DEF CameraSound, TypeOK, Camera
<1>2. /\ camera.sent \in Nat
      /\ StartFlag \in {0, 128} /\ (StartFlag = 128 <=> camera.sent = 0)
      /\ EndFlag \in {0, 64} /\ (EndFlag = 64 <=> Final)
  BY DEF TypeOK, Camera, StartFlag, EndFlag
<1>3. CASE style = "standard"
  <2>1. byte = StartFlag + EndFlag + t
    BY <1>3 DEF Bytes
  <2>2. /\ StartBit(byte) <=> camera.sent = 0
        /\ OriginalType(byte) = t
        /\ EndBit(byte) <=> Final
    BY <1>1, <1>2, <2>1, HeaderByte
  <2> QED
    BY <1>3, <2>2 DEF HasHeader
<1>4. CASE style = "pseudo"
  <2>1. t \in 0..31 /\ 2 * t \in 0..63 /\ camera.sent # 0
    BY <1>1, <1>4 DEF Styles, PlainPseudoTypes
  <2>2. ~ EndBit(2 * t)
    <3>1. 0 + 0 + 2 * t = 2 * t
      BY <2>1
    <3> QED
      BY <2>1, <3>1, HeaderByte
  <2>3. byte = 0 + EndFlag + 2 * t
    BY <1>2, <1>4, <2>1, <2>2 DEF Bytes, PseudoByte, Header0, WithEndBit, EndFlag
  <2>4. byte \in {Header0(t), WithEndBit(Header0(t))}
    BY <1>4 DEF Bytes, PseudoByte
  <2>5. ~ StartBit(byte) /\ (EndBit(byte) <=> Final)
    BY <1>2, <2>1, <2>3, HeaderByte
  <2> QED
    BY <1>4, <2>1, <2>4, <2>5 DEF HasHeader
<1>5. CASE style = "bare"
  <2>1. byte \in BareBytes /\ byte \in 0..127 /\ camera.sent # 0
    BY <1>5, BareAssumption DEF Bytes, Styles
  <2>2. ~ StartBit(byte)
    BY <2>1 DEF StartBit
  <2>3. OriginalType(byte) # t /\ byte # 2 * t /\ byte # 2 * t + 64
    BY <1>1, <2>1, BareAssumption DEF OriginalType
  <2>4. byte \notin {Header0(t), WithEndBit(Header0(t))}
    BY <2>3 DEF Header0, WithEndBit
  <2> QED
    BY <1>5, <2>1, <2>2, <2>3, <2>4 DEF HasHeader
<1> QED
  BY <1>3, <1>4, <1>5 DEF Styles

-----------------------------------------------------------------------------
(* One fragment.                                                           *)

\* The accumulator after the next fragment of a NAL that lacks none.
Complete ==
    [nal |-> camera.nal, parts |-> camera.sent + 1, intact |-> TRUE,
     type |-> camera.type, seq |-> camera.seq, ts |-> camera.ts]

\* While a NAL lacks none of its fragments the decoder is one step behind the
\* camera, and as soon as it lacks one no later fragment of it continues anything.
LEMMA Following ==
    ASSUME TypeOK, CameraSound, ActiveSound, NothingForgotten, Sending,
           camera.kind = "fragments", camera.sent # 0,
           NEW f, f.seq = camera.seq, f.ts = camera.ts
    PROVE  Continues(f) <=> camera.whole
<1>1. ASSUME camera.whole PROVE Continues(f)
  BY <1>1 DEF NothingForgotten, Continues, Sending, TypeOK, Camera
<1>2. ASSUME Continues(f) PROVE camera.whole
  <2>1. active # None /\ active \in Active /\ active.ts = camera.ts
        /\ camera.seq = NextSeq(active.seq)
    BY <1>2 DEF Continues, TypeOK
  <2>2. PICK g \in 1..camera.inUnit :
            /\ Ahead(active.seq, camera.seq, g)
            /\ g = 1 => camera.sent = 0 \/ Current
    BY <2>1 DEF ActiveSound
  <2>3. g \in Nat /\ g < SeqMod
    BY <2>2, SizeAssumption DEF CameraSound, Sending, TypeOK, Camera
  <2>4. active.seq \in 0..(SeqMod - 1) /\ camera.seq \in 0..(SeqMod - 1)
    BY <2>1 DEF TypeOK, Camera, Active
  <2>5. g = 1
    BY <2>1, <2>2, <2>3, <2>4, SizeAssumption DEF Ahead, NextSeq
  <2> QED
    BY <2>2, <2>5 DEF Current
<1> QED
  BY <1>1, <1>2

\* What the decoder does with the next fragment, whichever way it is marked: it
\* goes on, or gives out the NAL, exactly if none of its fragments was lost.
LEMMA FragmentEffect ==
    ASSUME PlainPseudoTypes, TypeOK, CameraSound, ActiveSound, NothingForgotten, Sending,
           camera.kind = "fragments",
           NEW style \in Styles, NEW marker \in BOOLEAN, NEW byte \in Bytes(style),
           marker => Final,
           ProcessFragment(Fragment(style, marker, byte))
    PROVE  LET ends == Final /\ (style = "bare" => marker) IN
           /\ active' = IF camera.whole /\ ~ ends THEN Complete ELSE None
           /\ out' = IF camera.whole /\ ends
                     THEN Append(out, Clean(camera.nal, camera.total)) ELSE out
<1> DEFINE f == Fragment(style, marker, byte)
           ends == Final /\ (style = "bare" => marker)
<1>1. /\ f.nal = camera.nal /\ f.part = camera.sent + 1 /\ f.style = style
      /\ f.byte = byte /\ f.marker = marker /\ f.seq = camera.seq /\ f.ts = camera.ts
  BY DEF Fragment
<1>2. /\ StartBit(f.byte) <=> camera.sent = 0
      /\ StartBit(f.byte) => OriginalType(f.byte) = camera.type
      /\ HasHeader(f, camera.type) <=> style # "bare"
      /\ style # "bare" => (EndBit(f.byte) <=> Final)
  BY <1>1, ByteMeaning
<1>3. Ends(f, camera.type) <=> ends
  BY <1>1, <1>2 DEF Ends
<1>4. CASE ~ camera.whole
  <2>1. ~ StartBit(f.byte) /\ ~ Continues(f)
    BY <1>1, <1>2, <1>4, Following DEF CameraSound
  <2> QED
    BY <1>4, <2>1 DEF ProcessFragment, FuBroken, FuAccepted
<1>5. CASE camera.whole
  <2>1. StartBit(f.byte) \/ Continues(f)
    BY <1>1, <1>2, <1>5, Following
  <2>2. /\ Base(f).nal = camera.nal
        /\ Base(f).parts = camera.sent
        /\ Base(f).intact = TRUE
        /\ Base(f).type = camera.type
    <3>1. CASE camera.sent = 0
      BY <1>1, <1>2, <3>1 DEF Base
    <3>2. CASE camera.sent # 0
      <4>1. Current /\ active # None
        BY <1>5, <3>2 DEF NothingForgotten, Sending, TypeOK, Camera
      <4>2. active.intact = TRUE
        BY <4>1 DEF ActiveSound, TypeOK, Active
      <4> QED
        BY <1>2, <3>2, <4>1, <4>2 DEF Base, Current
    <3> QED
      BY <3>1, <3>2
  <2>3. HasHeader(f, camera.type) = (f.style # "bare")
    BY <1>1, <1>2 DEF HasHeader
  <2>4. Extended(f, Base(f)) = Complete
    BY <1>1, <2>2, <2>3 DEF Extended, Complete
  <2>5. Complete.type = camera.type /\ camera.type <= 40
    <3>1. camera.type \in 0..40
      BY DEF TypeOK, Camera
    <3> QED
      BY <3>1 DEF Complete
  <2>6. ends => Emission(Complete) = Clean(camera.nal, camera.total)
    BY DEF Emission, Complete, Clean, Final
  <2> HIDE DEF f, ends
  <2>7. IF ends THEN active' = None /\ out' = Append(out, Emission(Complete))
                ELSE active' = Complete /\ UNCHANGED out
    BY <1>3, <2>1, <2>4, <2>5 DEF ProcessFragment, FuBroken, FuAccepted, f
  <2> QED
    BY <1>5, <2>6, <2>7 DEF ends
<1> QED
  BY <1>4, <1>5

-----------------------------------------------------------------------------
(* The steps.                                                              *)

LEMMA InitInvariant == Init => IInv
<1> SUFFICES ASSUME Init PROVE IInv
  OBVIOUS
<1>1. TypeOK
  <2>1. PICK q \in 0..(SeqMod - 1) :
            camera = [nal |-> 0, kind |-> "slice", type |-> 0, sent |-> 0, total |-> 0,
                      whole |-> TRUE, frames |-> 0, seq |-> q, ts |-> 0, inUnit |-> 0]
    BY DEF Init
  <2>2. "slice" \in WholeKinds /\ 0 \in 0..MaxFragments /\ 0 \in 0..MaxFrames /\ 0 \in 0..40
    BY SizeAssumption DEF WholeKinds
  <2>3. camera \in Camera
    BY <2>1, <2>2 DEF Camera
  <2>4. out \in Seq(Collected) /\ owed \in Seq(Collected)
    BY DEF Init
  <2> QED
    BY <2>3, <2>4 DEF Init, TypeOK
<1>2. FlushAddsOnePrefix /\ OutputIsExact /\ Evident
  BY DEF Init, FlushAddsOnePrefix, OutputIsExact, Evident
<1>3. CameraSound /\ ActiveSound /\ NothingForgotten
  BY SizeAssumption DEF Init, CameraSound, ActiveSound, NothingForgotten
<1> QED
  BY <1>1, <1>2, <1>3 DEF IInv

\* A number is one further behind after the camera has sent a frame.
LEMMA OneFurther ==
    ASSUME NEW a \in 0..(SeqMod - 1), NEW b \in 0..(SeqMod - 1), NEW g \in 1..(SeqMod - 1),
           Ahead(a, b, g)
    PROVE  Ahead(a, NextSeq(b), g + 1)
  BY SizeAssumption DEF Ahead, NextSeq

\* The camera's fields after a frame was sent.
LEMMA AdvancedFields ==
    ASSUME NEW b \in BOOLEAN, TypeOK, CameraSound, Sending, camera' = Advanced(b)
    PROVE  /\ camera' \in Camera
           /\ CameraSound'
           /\ camera'.nal = camera.nal /\ camera'.kind = camera.kind
           /\ camera'.type = camera.type /\ camera'.total = camera.total
           /\ camera'.sent = camera.sent + 1 /\ camera'.sent # 0
           /\ camera'.whole = (camera.whole /\ b)
           /\ camera'.seq = NextSeq(camera.seq)
           /\ camera'.ts = camera.ts
           /\ camera'.inUnit = camera.inUnit + 1
           /\ camera.inUnit < SeqMod
<1>1. /\ camera'.nal = camera.nal /\ camera'.kind = camera.kind
      /\ camera'.type = camera.type /\ camera'.total = camera.total
      /\ camera'.sent = camera.sent + 1
      /\ camera'.whole = (camera.whole /\ b)
      /\ camera'.frames = camera.frames + 1
      /\ camera'.seq = NextSeq(camera.seq)
      /\ camera'.ts = camera.ts
      /\ camera'.inUnit = camera.inUnit + 1
  BY DEF Advanced, TypeOK, Camera
<1>2. NextSeq(camera.seq) \in 0..(SeqMod - 1)
  BY SizeAssumption DEF NextSeq, TypeOK, Camera
<1>3. /\ camera.sent \in Nat /\ camera.total \in 0..MaxFragments
      /\ camera.sent + 1 <= camera.total /\ camera.frames + 1 <= MaxFrames
      /\ camera.inUnit < SeqMod /\ camera.sent + 1 # 0
  BY SizeAssumption DEF TypeOK, Camera, CameraSound, Sending
<1>4. camera' \in Camera
  <2>1. /\ camera.sent + 1 \in 0..MaxFragments /\ camera.frames + 1 \in 0..MaxFrames
        /\ camera.inUnit + 1 \in Nat /\ (camera.whole /\ b) \in BOOLEAN
    BY <1>3, SizeAssumption DEF TypeOK, Camera
  <2> QED
    BY <1>2, <2>1 DEF Advanced, TypeOK, Camera
<1>5. CameraSound'
  <2>1. /\ camera.sent \in Nat /\ camera.total \in Nat /\ camera.frames \in Nat
        /\ camera.inUnit \in Nat /\ SeqMod \in Nat /\ MaxFrames \in Nat
    BY SizeAssumption DEF TypeOK, Camera
  <2>2. /\ camera'.sent <= camera'.total
        /\ camera'.frames + (camera'.total - camera'.sent) <= MaxFrames
        /\ camera'.inUnit + (camera'.total - camera'.sent) <= SeqMod
        /\ camera'.sent # 0
    BY <1>1, <1>3, <2>1 DEF CameraSound
  <2> QED
    BY <1>1, <2>2 DEF CameraSound
<1> QED
  BY <1>1, <1>3, <1>4, <1>5

\* A frame that leaves the active NAL alone: another one's, or a lost one.
LEMMA Untouched ==
    ASSUME NEW b \in BOOLEAN, TypeOK, CameraSound, ActiveSound, Sending, camera' = Advanced(b),
           UNCHANGED active, b => camera.kind # "fragments"
    PROVE  ActiveSound' /\ NothingForgotten'
<1>1. ActiveSound'
  <2> SUFFICES ASSUME active # None
               PROVE  /\ active.intact
                      /\ active.nal \in 1..camera'.nal
                      /\ active.type <= 40
                      /\ active.ts <= camera'.ts
                      /\ active.ts = camera'.ts =>
                            \E g \in 1..camera'.inUnit :
                                /\ Ahead(active.seq, camera'.seq, g)
                                /\ g = 1 => camera'.sent = 0 \/ Current'
    BY DEF ActiveSound, Ahead
  <2>1. ASSUME active.ts = camera'.ts
        PROVE  \E g \in 1..camera'.inUnit :
                   /\ Ahead(active.seq, camera'.seq, g)
                   /\ g = 1 => camera'.sent = 0 \/ Current'
    <3>1. PICK g \in 1..camera.inUnit : Ahead(active.seq, camera.seq, g)
      BY <2>1, AdvancedFields DEF ActiveSound
    <3>2. g \in 1..(SeqMod - 1) /\ g + 1 \in 1..camera'.inUnit /\ g + 1 # 1
      <4>1. camera.inUnit \in Nat /\ camera.inUnit < SeqMod /\ SeqMod \in Nat
            /\ camera'.inUnit = camera.inUnit + 1
        BY AdvancedFields, SizeAssumption DEF TypeOK, Camera
      <4> QED
        BY <3>1, <4>1
    <3>3. active.seq \in 0..(SeqMod - 1) /\ camera.seq \in 0..(SeqMod - 1)
      BY DEF TypeOK, Active, Camera
    <3>4. Ahead(active.seq, camera'.seq, g + 1)
      BY <3>1, <3>2, <3>3, OneFurther, AdvancedFields
    <3> QED
      BY <3>2, <3>4
  <2> QED
    BY <2>1, AdvancedFields DEF ActiveSound
<1>2. NothingForgotten'
  BY AdvancedFields DEF NothingForgotten
<1> QED
  BY <1>1, <1>2

LEMMA NextNalStep ==
    ASSUME IInv, NextNal
    PROVE  IInv'
<1>0. /\ ~ flushed /\ TypeOK /\ OutputIsExact /\ CameraSound /\ ActiveSound /\ Evident
      /\ UNCHANGED <<active, evidence, out, owed, announced, flushed>>
  BY DEF IInv, NextNal
<1>1. PICK kind \in WholeKinds \cup {"fragments"}, type \in Types,
           total \in 1..MaxFragments, ts \in {camera.ts, camera.ts + 1} :
          LET inUnit == IF ts = camera.ts THEN camera.inUnit ELSE 0 IN
          /\ kind \in WholeKinds => total = 1
          /\ camera.frames + total <= MaxFrames
          /\ inUnit + total <= SeqMod
          /\ camera' = [camera EXCEPT
                !.nal = @ + 1, !.kind = kind, !.type = type, !.sent = 0, !.total = total,
                !.whole = TRUE, !.ts = ts, !.inUnit = inUnit]
  BY DEF NextNal
<1> DEFINE inUnit == IF ts = camera.ts THEN camera.inUnit ELSE 0
<1>2. /\ camera'.nal = camera.nal + 1 /\ camera'.kind = kind /\ camera'.type = type
      /\ camera'.sent = 0 /\ camera'.total = total /\ camera'.whole = TRUE
      /\ camera'.frames = camera.frames /\ camera'.seq = camera.seq
      /\ camera'.ts = ts /\ camera'.inUnit = inUnit
  BY <1>0, <1>1 DEF TypeOK, Camera
<1>3. type \in 0..40 /\ inUnit \in Nat /\ ts \in Nat /\ camera.nal + 1 \in Nat
  BY <1>0, TypesAssumption DEF TypeOK, Camera
<1>4. TypeOK'
  <2>1. camera' \in Camera
    <3>1. 0 \in 0..MaxFragments /\ total \in 0..MaxFragments
      BY SizeAssumption
    <3> QED
      BY <1>0, <1>1, <1>3, <3>1 DEF TypeOK, Camera
  <2> QED
    BY <1>0, <2>1 DEF TypeOK
<1>5. CameraSound'
  <2>1. /\ total \in Nat /\ total # 0 /\ camera.nal + 1 # 0 /\ camera.frames \in Nat
        /\ SeqMod \in Nat /\ MaxFrames \in Nat /\ MaxFragments \in Nat
    BY <1>0, SizeAssumption DEF TypeOK, Camera
  <2>2. camera.frames + total <= MaxFrames /\ inUnit + total <= SeqMod
    BY <1>1
  <2> HIDE DEF inUnit
  <2>3. /\ 0 <= total
        /\ camera.frames + (total - 0) <= MaxFrames
        /\ inUnit + (total - 0) <= SeqMod
    BY <1>3, <2>1, <2>2
  <2> QED
    BY <1>2, <2>1, <2>3 DEF CameraSound
<1>6. ActiveSound'
  <2>0. /\ camera.ts \in Nat /\ camera.nal \in Nat
        /\ active # None => active.ts \in Nat /\ active.nal \in Nat
    BY <1>0 DEF TypeOK, Camera, Active
  <2>1. ASSUME active # None PROVE active.ts <= ts /\ active.nal \in 1..(camera.nal + 1)
    BY <1>0, <2>0, <2>1 DEF ActiveSound
  <2>2. ASSUME active # None, active.ts = ts PROVE ts = camera.ts
    BY <1>0, <2>0, <2>2 DEF ActiveSound
  <2> QED
    BY <1>0, <1>2, <2>1, <2>2 DEF ActiveSound, Ahead
<1>7. NothingForgotten'
  BY <1>2 DEF NothingForgotten
<1> QED
  BY <1>0, <1>4, <1>5, <1>6, <1>7 DEF IInv, OutputIsExact, FlushAddsOnePrefix, Evident

LEMMA FrameLostStep ==
    ASSUME IInv, FrameLost
    PROVE  IInv'
<1>1. /\ ~ flushed /\ TypeOK /\ OutputIsExact /\ CameraSound /\ ActiveSound /\ Evident
      /\ Sending /\ camera' = Advanced(FALSE)
      /\ UNCHANGED <<active, evidence, out, owed, announced, flushed>>
  BY DEF IInv, FrameLost, Sending
<1>2. camera' \in Camera /\ CameraSound'
  BY <1>1, AdvancedFields
<1>3. ActiveSound' /\ NothingForgotten'
  BY <1>1, Untouched
<1>4. TypeOK'
  BY <1>1, <1>2 DEF TypeOK
<1> QED
  BY <1>1, <1>2, <1>3, <1>4 DEF IInv, OutputIsExact, FlushAddsOnePrefix, Evident

LEMMA WholeArrivesStep ==
    ASSUME IInv, WholeArrives
    PROVE  IInv'
<1>1. /\ ~ flushed /\ TypeOK /\ OutputIsExact /\ CameraSound /\ ActiveSound /\ Evident
      /\ Sending /\ camera.kind \in WholeKinds /\ camera' = Advanced(TRUE)
      /\ UNCHANGED <<active, flushed>>
  BY DEF IInv, WholeArrives, Sending, ProcessWhole
<1>2. camera' \in Camera /\ CameraSound'
  BY <1>1, AdvancedFields
<1>3. ActiveSound' /\ NothingForgotten'
  BY <1>1, Untouched DEF WholeKinds
<1>4. /\ evidence' = announced' /\ announced' \in BOOLEAN
      /\ out' = owed'
  BY <1>1 DEF WholeArrives, ProcessWhole, OutputIsExact, Evident, TypeOK
<1>5. owed' \in Seq(Collected)
  <2>1. Clean(camera.nal, 1) \in Collected
    BY <1>1, SizeAssumption DEF Clean, Collected, TypeOK, Camera
  <2> QED
    BY <1>1, <2>1 DEF WholeArrives, TypeOK
<1>6. TypeOK'
  BY <1>1, <1>2, <1>4, <1>5 DEF TypeOK
<1> QED
  BY <1>1, <1>2, <1>3, <1>4, <1>6 DEF IInv, OutputIsExact, FlushAddsOnePrefix, Evident

LEMMA FragmentArrivesStep ==
    ASSUME PlainPseudoTypes, IInv, FragmentArrives
    PROVE  IInv'
<1>1. /\ ~ flushed /\ TypeOK /\ OutputIsExact /\ CameraSound /\ ActiveSound
      /\ NothingForgotten /\ Sending /\ camera.kind = "fragments"
      /\ camera' = Advanced(TRUE) /\ announced' = TRUE /\ UNCHANGED flushed
  BY DEF IInv, FragmentArrives, Sending
<1>2. PICK style \in Styles, marker \in BOOLEAN : \E byte \in Bytes(style) :
          /\ marker => Final
          /\ ProcessFragment(Fragment(style, marker, byte))
          /\ owed' = IF Final /\ camera.whole /\ (style = "bare" => marker)
                     THEN Append(owed, Clean(camera.nal, camera.total))
                     ELSE owed
  BY DEF FragmentArrives
<1> DEFINE ends == Final /\ (style = "bare" => marker)
<1>3. /\ evidence' = TRUE
      /\ active' = IF camera.whole /\ ~ ends THEN Complete ELSE None
      /\ out' = owed'
  BY <1>1, <1>2, FragmentEffect DEF ProcessFragment, OutputIsExact
<1>4. camera' \in Camera /\ CameraSound'
  BY <1>1, AdvancedFields
<1>5. owed' \in Seq(Collected)
  <2>1. Clean(camera.nal, camera.total) \in Collected
    BY <1>1, SizeAssumption DEF Clean, Collected, TypeOK, Camera, Sending
  <2> QED
    BY <1>1, <1>2, <2>1 DEF TypeOK
<1>6. /\ Complete \in Active /\ Complete # None
      /\ Complete.nal \in 1..camera.nal /\ Complete.type <= 40 /\ Complete.intact
  <2>1. /\ camera.sent + 1 \in 1..MaxFragments /\ camera.nal \in Nat \ {0}
        /\ camera.type \in 0..63 /\ camera.type <= 40
        /\ camera.seq \in 0..(SeqMod - 1) /\ camera.ts \in Nat
    <3>1. /\ camera.sent \in Nat /\ camera.total \in 0..MaxFragments /\ MaxFragments \in Nat
          /\ camera.sent < camera.total /\ camera.nal \in Nat /\ camera.type \in 0..40
          /\ camera.seq \in 0..(SeqMod - 1) /\ camera.ts \in Nat
      BY <1>1, SizeAssumption DEF TypeOK, Camera, Sending
    <3>2. camera.nal # 0
      BY <1>1, <3>1 DEF CameraSound
    <3> QED
      BY <3>1, <3>2
  <2> QED
    BY <2>1 DEF Complete, Active, None
<1>7. TypeOK'
  BY <1>1, <1>3, <1>4, <1>5, <1>6 DEF TypeOK
<1>8. CASE active' = None
  <2>1. ActiveSound'
    BY <1>8 DEF ActiveSound
  <2>2. NothingForgotten'
    <3>1. ~ camera.whole \/ Final
      BY <1>3, <1>6, <1>8
    <3>2. ~ camera'.whole \/ camera'.sent = camera'.total
      BY <1>1, <3>1, AdvancedFields DEF Final
    <3> QED
      BY <1>4, <3>2 DEF NothingForgotten, Camera
  <2> QED
    BY <1>1, <1>3, <1>4, <1>7, <2>1, <2>2
       DEF IInv, OutputIsExact, FlushAddsOnePrefix, Evident
<1>9. CASE camera.whole /\ active' = Complete
  <2>1. /\ active'.nal = camera'.nal /\ active'.parts = camera'.sent
        /\ active'.type = camera'.type /\ active'.ts = camera'.ts
        /\ camera'.seq = NextSeq(active'.seq) /\ camera'.whole
        /\ camera'.kind = "fragments" /\ camera'.nal = camera.nal
    BY <1>1, <1>9, AdvancedFields DEF Complete
  <2>2. Current'
    BY <2>1 DEF Current
  <2>3. Ahead(active'.seq, camera'.seq, 1) /\ 1 \in 1..camera'.inUnit
    <3>1. active'.seq \in 0..(SeqMod - 1) /\ camera'.inUnit = camera.inUnit + 1
      BY <1>1, <1>6, <1>9, AdvancedFields DEF Active
    <3> QED
      <4>1. camera.inUnit \in Nat /\ 1 \in 1..(camera.inUnit + 1)
        BY <1>1 DEF TypeOK, Camera
      <4>2. Ahead(active'.seq, NextSeq(active'.seq), 1)
        BY <3>1, SizeAssumption DEF Ahead, NextSeq
      <4> QED
        BY <2>1, <3>1, <4>1, <4>2
  <2>4. camera'.ts \in Nat
    BY <1>4 DEF Camera
  <2>5. ActiveSound'
    BY <1>6, <1>9, <2>1, <2>2, <2>3, <2>4 DEF ActiveSound, Ahead
  <2>6. NothingForgotten'
    BY <1>6, <1>9, <2>1, <2>2 DEF NothingForgotten, NextSeq
  <2> QED
    BY <1>1, <1>3, <1>4, <1>7, <2>5, <2>6
       DEF IInv, OutputIsExact, FlushAddsOnePrefix, Evident
<1> QED
  BY <1>3, <1>8, <1>9

LEMMA FlushStep ==
    ASSUME IInv, Flush
    PROVE  IInv'
<1>1. /\ ~ flushed /\ flushed' /\ TypeOK /\ OutputIsExact /\ ActiveSound
      /\ active' = None /\ UNCHANGED <<camera, evidence, owed, announced>>
  BY DEF IInv, Flush
<1>2. CASE active = None
  BY <1>1, <1>2 DEF Flush, IInv, TypeOK, FlushAddsOnePrefix, OutputIsExact
<1>3. CASE active # None
  <2>1. /\ active \in Active /\ active.intact = TRUE /\ active.type <= 40
        /\ active.nal \in 1..camera.nal /\ active.parts \in 1..MaxFragments
    BY <1>1, <1>3 DEF ActiveSound, TypeOK, Active
  <2>2. out' = Append(owed, Clean(active.nal, active.parts))
    BY <1>1, <1>3, <2>1 DEF Flush, Emission, Clean, OutputIsExact
  <2>3. Clean(active.nal, active.parts) \in Collected
    BY <1>1, <2>1 DEF Clean, Collected, TypeOK, Active
  <2>4. TypeOK'
    BY <1>1, <2>2, <2>3 DEF TypeOK, Flush
  <2>5. FlushAddsOnePrefix'
    BY <1>1, <2>1, <2>2 DEF FlushAddsOnePrefix, Clean
  <2> QED
    BY <1>1, <2>4, <2>5 DEF IInv
<1> QED
  BY <1>2, <1>3

LEMMA StepInvariant ==
    PlainPseudoTypes /\ IInv /\ [Next]_vars => IInv'
<1> SUFFICES ASSUME PlainPseudoTypes, IInv, [Next]_vars PROVE IInv'
  OBVIOUS
<1>1. CASE NextNal
  BY <1>1, NextNalStep
<1>2. CASE FragmentArrives
  BY <1>2, FragmentArrivesStep
<1>3. CASE WholeArrives
  BY <1>3, WholeArrivesStep
<1>4. CASE FrameLost
  BY <1>4, FrameLostStep
<1>5. CASE Flush
  BY <1>5, FlushStep
<1>6. CASE UNCHANGED vars
  BY <1>6 DEF vars, IInv, TypeOK, FlushAddsOnePrefix, OutputIsExact, CameraSound, ActiveSound,
          Ahead, Current, NothingForgotten, NextSeq, Evident
<1> QED
  BY <1>1, <1>2, <1>3, <1>4, <1>5, <1>6 DEF Next

-----------------------------------------------------------------------------
(* The theorems.                                                           *)

\* The invariant holds in every reachable state.
THEOREM Invariance == PlainPseudoTypes /\ Spec => []IInv
<1>1. SUFFICES ASSUME PlainPseudoTypes PROVE Spec => []IInv
  OBVIOUS
<1>2. IInv /\ [Next]_vars => IInv'
  BY <1>1, StepInvariant
<1> QED
  BY <1>2, InitInvariant, PTL DEF Spec

\* StreamDecryptor never collects more fragments than a NAL has and keeps its state
\* well formed.
THEOREM TypeCorrect == PlainPseudoTypes /\ Spec => []TypeOK
<1>1. IInv => TypeOK
  BY DEF IInv
<1> QED
  BY <1>1, Invariance, PTL

\* Until flush() the caller of StreamDecryptor.update() has got exactly the NALs that
\* arrived whole, whatever frames were lost and wherever the numbering wrapped.
THEOREM Exactness == PlainPseudoTypes /\ Spec => []OutputIsExact
<1>1. IInv => OutputIsExact
  BY DEF IInv, OutputIsExact
<1> QED
  BY <1>1, Invariance, PTL

\* flush() adds nothing or the clean beginning of one NAL.
THEOREM FlushSound == PlainPseudoTypes /\ Spec => []FlushAddsOnePrefix
<1>1. IInv => FlushAddsOnePrefix
  BY DEF IInv
<1> QED
  BY <1>1, Invariance, PTL

=============================================================================
