-------------------------- MODULE LiveStreamProofs ---------------------------
(***************************************************************************)
(* The safety of LiveStream for any number of generators, ports, tokens    *)
(* and any prefix limit, from one inductive invariant: the await a         *)
(* generator is suspended at determines which links it still holds (Links) *)
(* and what the camera has answered on them (Answers).                     *)
(***************************************************************************)
EXTENDS LiveStream, TLAPS

Shutting(link) == link \in {"closing", "none"}

\* The links held at each await, and the consumer's view of the generator.
Links(s) ==
    /\ pc[s] = "off" => Shutting(cmd[s]) /\ Shutting(str[s])
    /\ pc[s] = "prepare" => cmd[s] = "none" /\ str[s] = "none"
    /\ pc[s] = "connectCommand" => cmd[s] = "connecting" /\ str[s] = "none"
    /\ pc[s] = "connectStream" => cmd[s] \in {"open", "lost"} /\ str[s] = "connecting"
    /\ pc[s] \in Handshake \cup Media \cup {"yield"} =>
          cmd[s] \in {"open", "lost"} /\ str[s] = "open"
    /\ pc[s] = "closeStream" => cmd[s] \in {"open", "lost"} /\ Shutting(str[s])
    /\ pc[s] = "closeCommand" => Shutting(cmd[s]) /\ Shutting(str[s])
    /\ (outer[s] \in {"fresh", "done"}) <=> (pc[s] = "off")
    /\ (outer[s] \in {"suspended", "dropped"}) <=> (pc[s] = "yield")

\* What the camera must have answered for the generator to be where it is.
Answers(s) ==
    /\ pc[s] \in {"sendSetup", "readSetup", "yield"} \cup Media =>
          /\ camera[s].preview = "expected"
          /\ camera[s].issued \in Tokens
          /\ camera[s].told = camera[s].issued
    /\ pc[s] \in Media \cup {"yield"} => camera[s].setup = "expected"

IInv ==
    /\ TypeOK
    /\ \A s \in Streams : Links(s)
    /\ \A s \in Streams : Answers(s)

USE PrefixAssumption, TokenAssumption

\* The initial states satisfy the invariant.
LEMMA InitInvariant == Init => IInv
<1> SUFFICES ASSUME Init PROVE IInv
  OBVIOUS
<1>1. TypeOK
  BY DEF Init, TypeOK, Outer, Awaits, LinkStates, CameraView, Nothing, Endings
<1>2. \A s \in Streams : Links(s)
  BY DEF Init, Links, Shutting, Handshake, Media
<1>3. \A s \in Streams : Answers(s)
  BY DEF Init, Answers, Media
<1> QED
  BY <1>1, <1>2, <1>3 DEF IInv

\* The three ways a generator moves towards its end keep the types.
LEMMA EndType ==
    ASSUME TypeOK, NEW s \in Streams, NEW e \in Endings, End(s, e)
    PROVE  /\ outer' \in [Streams -> Outer]
           /\ pc' \in [Streams -> Awaits]
           /\ why' \in [Streams -> Endings]
BY DEF TypeOK, End, Outer, Awaits

LEMMA UnwindType ==
    ASSUME TypeOK, NEW s \in Streams, NEW e \in Endings, Unwind(s, e)
    PROVE  TypeOK'
BY DEF TypeOK, Unwind, Outer, Awaits, Unwinding, LinkStates, Shut

LEMMA UnwindCommandType ==
    ASSUME TypeOK, NEW s \in Streams, NEW e \in Endings, UnwindCommand(s, e),
           str' \in [Streams -> LinkStates]
    PROVE  TypeOK'
BY DEF TypeOK, UnwindCommand, Awaits, Unwinding, LinkStates, Shut

LEMMA DialType ==
    ASSUME TypeOK, NEW s \in Streams, NEW p \in Ports, Dial(s, p)
    PROVE  /\ outer' \in [Streams -> Outer]
           /\ pc' \in [Streams -> Awaits]
           /\ why' \in [Streams -> Endings]
           /\ cmd' \in [Streams -> LinkStates]
<1>1. CASE UNCHANGED cmd /\ \E e \in Endings : End(s, e)
  BY <1>1, EndType DEF TypeOK
<1>2. CASE /\ cmd' = [cmd EXCEPT ![s] = "connecting"]
           /\ pc' = [pc EXCEPT ![s] = "connectCommand"]
           /\ outer' = [outer EXCEPT ![s] = "running"]
           /\ why' = [why EXCEPT ![s] = "none"]
  BY <1>2 DEF TypeOK, Awaits, Outer, Endings, LinkStates
<1> QED
  BY <1>1, <1>2 DEF Dial, Endings

LEMMA ConnectFailsType ==
    ASSUME TypeOK, NEW s \in Streams, NEW e \in Endings, ConnectFails(s, e)
    PROVE  TypeOK'
<1>1. CASE pc[s] = "connectCommand" /\ cmd' = [cmd EXCEPT ![s] = "none"] /\ End(s, e)
           /\ UNCHANGED <<prepared, port, str, pieces, junk, camera, timeWait>>
  BY <1>1, EndType DEF TypeOK, LinkStates
<1>2. CASE str' = [str EXCEPT ![s] = "none"] /\ UnwindCommand(s, e)
  BY <1>2, UnwindCommandType DEF TypeOK, LinkStates
<1> QED
  BY <1>1, <1>2 DEF ConnectFails

\* Every action keeps the variables within their types.
LEMMA TypeStep == TypeOK /\ [Next]_vars => TypeOK'
<1> SUFFICES ASSUME TypeOK, [Next]_vars PROVE TypeOK'
  OBVIOUS
<1>0. {"DeviceOffline", "EzvizError", "ParseError", "Closed", "Cancelled", "none"} \subseteq Endings
  BY DEF Endings
<1>1. CASE UNCHANGED vars
  BY <1>1 DEF vars, TypeOK
<1>2. ASSUME NEW s \in Streams, Prepared(s) PROVE TypeOK'
  <2>1. CASE prepared' = TRUE /\ Dial(s, port[s])
    BY <1>2, <2>1, DialType DEF Prepared, TypeOK
  <2>2. CASE UNCHANGED <<prepared, cmd>> /\ End(s, "EzvizError")
    BY <1>0, <1>2, <2>2, EndType DEF Prepared, TypeOK
  <2> QED
    BY <1>2, <2>1, <2>2 DEF Prepared
<1>3. ASSUME NEW s \in Streams, CommandConnected(s) \/ StreamConnected(s) PROVE TypeOK'
  BY <1>3 DEF CommandConnected, StreamConnected, TypeOK, Awaits, Handshake, LinkStates
<1>4. ASSUME NEW s \in Streams, Sent(s) \/ BodyArrives(s) \/ SetupAccepted(s) PROVE TypeOK'
  BY <1>4 DEF Sent, BodyArrives, SetupAccepted, TypeOK, Awaits, Handshake, Media
<1>5. ASSUME NEW s \in Streams, HeaderArrives(s) PROVE TypeOK'
  <2>1. camera[s] \in CameraView
    BY DEF TypeOK
  <2>2. \A c \in {"expected", "other"}, t \in Tokens \cup {NoToken} :
          /\ [camera[s] EXCEPT !.preview = c, !.issued = t] \in CameraView
          /\ [camera[s] EXCEPT !.setup = c] \in CameraView
    BY <2>1 DEF CameraView
  <2>3. \E view \in CameraView : camera' = [camera EXCEPT ![s] = view]
    <3>1. CASE pc[s] = "readPreview"
      <4>1. PICK c \in {"expected", "other"}, t \in Tokens \cup {NoToken} :
              camera' = [camera EXCEPT ![s].preview = c, ![s].issued = t]
        BY <1>5, <3>1 DEF HeaderArrives
      <4>2. camera' = [camera EXCEPT ![s] = [camera[s] EXCEPT !.preview = c, !.issued = t]]
        BY <4>1 DEF TypeOK
      <4> QED
        BY <2>2, <4>2
    <3>2. CASE pc[s] = "readSetup"
      BY <1>5, <2>2, <3>2 DEF HeaderArrives
    <3> QED
      BY <1>5, <3>1, <3>2 DEF HeaderArrives
  <2>4. /\ pieces' = [pieces EXCEPT ![s] = 2]
        /\ UNCHANGED <<prepared, outer, port, cmd, str, pc, junk, why, timeWait>>
    BY <1>5 DEF HeaderArrives
  <2> QED
    BY <2>3, <2>4 DEF TypeOK
<1>6. ASSUME NEW s \in Streams, PreviewAccepted(s) PROVE TypeOK'
  <2>1. /\ camera[s] \in CameraView
        /\ [camera[s] EXCEPT !.told = camera[s].issued] \in CameraView
    BY DEF TypeOK, CameraView
  <2> QED
    BY <1>6, <2>1 DEF PreviewAccepted, TypeOK, Awaits, Handshake
<1>7. ASSUME NEW s \in Streams, AnswerRefused(s) PROVE TypeOK'
  <2>1. \E e \in Endings : Unwind(s, e)
    BY <1>0, <1>7 DEF AnswerRefused
  <2> QED
    BY <2>1, UnwindType
<1>8. ASSUME NEW s \in Streams, JunkByte(s) \/ MagicByte(s) \/ RtpHeaderArrives(s)
      PROVE TypeOK'
  BY <1>8 DEF JunkByte, MagicByte, RtpHeaderArrives, TypeOK, Awaits, Media
<1>9. ASSUME NEW s \in Streams, PrefixTooLong(s) \/ PacketArrives(s) PROVE TypeOK'
  <2>1. CASE Unwind(s, "EzvizError")
    BY <1>0, <2>1, UnwindType
  <2>2. CASE PacketArrives(s) /\ ~ Unwind(s, "EzvizError")
    BY <2>2 DEF PacketArrives, TypeOK, Awaits, Media, Outer
  <2> QED
    BY <1>9, <2>1, <2>2 DEF PrefixTooLong
<1>10. ASSUME NEW s \in Streams, StreamClosed(s) \/ CommandClosed(s) PROVE TypeOK'
  <2>1. why[s] \in Endings
    BY DEF TypeOK
  <2>2. CASE StreamClosed(s)
    BY <2>1, <2>2, UnwindCommandType DEF StreamClosed, TypeOK
  <2>3. CASE CommandClosed(s)
    BY <2>1, <2>3, EndType DEF CommandClosed, TypeOK
  <2> QED
    BY <1>10, <2>2, <2>3
<1>11. ASSUME NEW s \in Streams, TransportFails(s) PROVE TypeOK'
  BY <1>0, <1>11, UnwindType, ConnectFailsType DEF TransportFails
<1>12. ASSUME NEW s \in Streams, Start(s) PROVE TypeOK'
  <2>1. PICK p \in Ports :
          /\ port' = [port EXCEPT ![s] = p]
          /\ \/ /\ prepared
                /\ Dial(s, p)
             \/ /\ ~ prepared
                /\ pc' = [pc EXCEPT ![s] = "prepare"]
                /\ outer' = [outer EXCEPT ![s] = "running"]
                /\ why' = [why EXCEPT ![s] = "none"]
                /\ UNCHANGED cmd
    BY <1>12 DEF Start
  <2>2. /\ outer' \in [Streams -> Outer]
        /\ pc' \in [Streams -> Awaits]
        /\ why' \in [Streams -> Endings]
        /\ cmd' \in [Streams -> LinkStates]
    BY <2>1, DialType DEF TypeOK, Outer, Awaits, Endings
  <2>3. port' \in [Streams -> Ports]
    BY <2>1 DEF TypeOK
  <2>4. Nothing \in CameraView
    BY DEF Nothing, CameraView
  <2> QED
    BY <1>12, <2>2, <2>3, <2>4 DEF Start, TypeOK
<1>13. ASSUME NEW s \in Streams, Resume(s) \/ Drop(s) PROVE TypeOK'
  BY <1>13 DEF Resume, Drop, TypeOK, Outer, Awaits, Media
<1>14. ASSUME NEW s \in Streams, Close(s) \/ Finalize(s) PROVE TypeOK'
  BY <1>0, <1>14, UnwindType DEF Close, Finalize
<1>15. ASSUME NEW s \in Streams, Cancel(s) PROVE TypeOK'
  <2>1. CASE Unwind(s, "Cancelled") \/ ConnectFails(s, "Cancelled")
    BY <1>0, <2>1, UnwindType, ConnectFailsType
  <2>2. CASE UnwindCommand(s, "Cancelled") /\ UNCHANGED str
    BY <1>0, <2>2, UnwindCommandType DEF TypeOK
  <2>3. CASE End(s, "Cancelled") /\ UNCHANGED <<prepared, port, cmd, str, pieces, junk, camera, timeWait>>
    BY <1>0, <2>3, EndType DEF TypeOK
  <2> QED
    BY <1>15, <2>1, <2>2, <2>3 DEF Cancel
<1>16. ASSUME NEW s \in Streams, Reap(s) \/ CommandLost(s) PROVE TypeOK'
  BY <1>16 DEF Reap, CommandLost, TypeOK, LinkStates
<1>17. ASSUME NEW p \in Ports, LingerExpires(p) PROVE TypeOK'
  BY <1>17 DEF LingerExpires, TypeOK
<1> QED
  BY <1>1, <1>2, <1>3, <1>4, <1>5, <1>6, <1>7, <1>8, <1>9, <1>10, <1>11, <1>12, <1>13,
     <1>14, <1>15, <1>16, <1>17 DEF Next, Awaited, Consumer

\* Every action keeps the links in step with the await.  The stream that moves is
\* s; all the others keep every variable Links speaks of.
LEMMA LinksStep ==
    ASSUME TypeOK, \A s \in Streams : Links(s), [Next]_vars
    PROVE  \A s \in Streams : Links(s)'
<1> DEFINE Same(t) == /\ pc'[t] = pc[t]
                      /\ cmd'[t] = cmd[t]
                      /\ str'[t] = str[t]
                      /\ outer'[t] = outer[t]
           Others(s) == \A t \in Streams \ {s} : Same(t)
<1>1. ASSUME NEW t \in Streams, Same(t) PROVE Links(t)'
  BY <1>1 DEF Links, Shutting
<1>2. ASSUME NEW s \in Streams, Others(s), Links(s)'
      PROVE  \A t \in Streams : Links(t)'
  BY <1>1, <1>2
<1>3. CASE UNCHANGED vars
  BY <1>1, <1>3 DEF vars
<1>4. ASSUME NEW p \in Ports, LingerExpires(p) PROVE \A t \in Streams : Links(t)'
  BY <1>1, <1>4 DEF LingerExpires
<1> USE DEF TypeOK, Links, Shutting, Handshake, Media, Unwinding
<1>5. ASSUME NEW s \in Streams, Prepared(s) PROVE \A t \in Streams : Links(t)'
  <2>1. Others(s)
    BY <1>5 DEF Prepared, Dial, End
  <2>2. Links(s)'
    BY <1>5 DEF Prepared, Dial, End
  <2> QED
    BY <1>2, <2>1, <2>2
<1>6. ASSUME NEW s \in Streams, CommandConnected(s) PROVE \A t \in Streams : Links(t)'
  <2>1. Others(s)
    BY <1>6 DEF CommandConnected
  <2>2. Links(s)'
    BY <1>6 DEF CommandConnected
  <2> QED
    BY <1>2, <2>1, <2>2
<1>7. ASSUME NEW s \in Streams, StreamConnected(s) PROVE \A t \in Streams : Links(t)'
  <2>1. Others(s)
    BY <1>7 DEF StreamConnected
  <2>2. Links(s)'
    BY <1>7 DEF StreamConnected
  <2> QED
    BY <1>2, <2>1, <2>2
<1>8. ASSUME NEW s \in Streams, Sent(s) PROVE \A t \in Streams : Links(t)'
  <2>1. Others(s)
    BY <1>8 DEF Sent
  <2>2. Links(s)'
    BY <1>8 DEF Sent
  <2> QED
    BY <1>2, <2>1, <2>2
<1>9. ASSUME NEW s \in Streams, HeaderArrives(s) PROVE \A t \in Streams : Links(t)'
  <2>1. Others(s)
    BY <1>9 DEF HeaderArrives
  <2>2. Links(s)'
    BY <1>9 DEF HeaderArrives
  <2> QED
    BY <1>2, <2>1, <2>2
<1>10. ASSUME NEW s \in Streams, BodyArrives(s) PROVE \A t \in Streams : Links(t)'
  <2>1. Others(s)
    BY <1>10 DEF BodyArrives
  <2>2. Links(s)'
    BY <1>10 DEF BodyArrives
  <2> QED
    BY <1>2, <2>1, <2>2
<1>11. ASSUME NEW s \in Streams, PreviewAccepted(s) PROVE \A t \in Streams : Links(t)'
  <2>1. Others(s)
    BY <1>11 DEF PreviewAccepted
  <2>2. Links(s)'
    BY <1>11 DEF PreviewAccepted
  <2> QED
    BY <1>2, <2>1, <2>2
<1>12. ASSUME NEW s \in Streams, SetupAccepted(s) PROVE \A t \in Streams : Links(t)'
  <2>1. Others(s)
    BY <1>12 DEF SetupAccepted
  <2>2. Links(s)'
    BY <1>12 DEF SetupAccepted
  <2> QED
    BY <1>2, <2>1, <2>2
<1>13. ASSUME NEW s \in Streams, AnswerRefused(s) PROVE \A t \in Streams : Links(t)'
  <2>1. Others(s)
    BY <1>13 DEF AnswerRefused, Unwind, Shut
  <2>2. Links(s)'
    BY <1>13 DEF AnswerRefused, Unwind, Shut
  <2> QED
    BY <1>2, <2>1, <2>2
<1>14. ASSUME NEW s \in Streams, JunkByte(s) PROVE \A t \in Streams : Links(t)'
  <2>1. Others(s)
    BY <1>14 DEF JunkByte
  <2>2. Links(s)'
    BY <1>14 DEF JunkByte
  <2> QED
    BY <1>2, <2>1, <2>2
<1>15. ASSUME NEW s \in Streams, PrefixTooLong(s) PROVE \A t \in Streams : Links(t)'
  <2>1. Others(s)
    BY <1>15 DEF PrefixTooLong, Unwind, Shut
  <2>2. Links(s)'
    BY <1>15 DEF PrefixTooLong, Unwind, Shut
  <2> QED
    BY <1>2, <2>1, <2>2
<1>16. ASSUME NEW s \in Streams, MagicByte(s) PROVE \A t \in Streams : Links(t)'
  <2>1. Others(s)
    BY <1>16 DEF MagicByte
  <2>2. Links(s)'
    BY <1>16 DEF MagicByte
  <2> QED
    BY <1>2, <2>1, <2>2
<1>17. ASSUME NEW s \in Streams, RtpHeaderArrives(s) PROVE \A t \in Streams : Links(t)'
  <2>1. Others(s)
    BY <1>17 DEF RtpHeaderArrives
  <2>2. Links(s)'
    BY <1>17 DEF RtpHeaderArrives
  <2> QED
    BY <1>2, <2>1, <2>2
<1>18. ASSUME NEW s \in Streams, PacketArrives(s) PROVE \A t \in Streams : Links(t)'
  <2>1. Others(s)
    BY <1>18 DEF PacketArrives, Unwind, Shut
  <2>2. Links(s)'
    BY <1>18 DEF PacketArrives, Unwind, Shut
  <2> QED
    BY <1>2, <2>1, <2>2
<1>19. ASSUME NEW s \in Streams, StreamClosed(s) PROVE \A t \in Streams : Links(t)'
  <2>1. Others(s)
    BY <1>19 DEF StreamClosed, UnwindCommand, Shut
  <2>2. Links(s)'
    BY <1>19 DEF StreamClosed, UnwindCommand, Shut
  <2> QED
    BY <1>2, <2>1, <2>2
<1>20. ASSUME NEW s \in Streams, CommandClosed(s) PROVE \A t \in Streams : Links(t)'
  <2>1. Others(s)
    BY <1>20 DEF CommandClosed, End
  <2>2. Links(s)'
    BY <1>20 DEF CommandClosed, End
  <2> QED
    BY <1>2, <2>1, <2>2
<1>21. ASSUME NEW s \in Streams, TransportFails(s) PROVE \A t \in Streams : Links(t)'
  <2>1. Others(s)
    BY <1>21 DEF TransportFails, ConnectFails, Unwind, UnwindCommand, End, Shut
  <2>2. Links(s)'
    BY <1>21 DEF TransportFails, ConnectFails, Unwind, UnwindCommand, End, Shut
  <2> QED
    BY <1>2, <2>1, <2>2
<1>22. ASSUME NEW s \in Streams, Start(s) PROVE \A t \in Streams : Links(t)'
  <2>1. Others(s)
    BY <1>22 DEF Start, Dial, End
  <2>2. Links(s)'
    BY <1>22 DEF Start, Dial, End
  <2> QED
    BY <1>2, <2>1, <2>2
<1>23. ASSUME NEW s \in Streams, Resume(s) PROVE \A t \in Streams : Links(t)'
  <2>1. Others(s)
    BY <1>23 DEF Resume
  <2>2. Links(s)'
    BY <1>23 DEF Resume
  <2> QED
    BY <1>2, <2>1, <2>2
<1>24. ASSUME NEW s \in Streams, Close(s) PROVE \A t \in Streams : Links(t)'
  <2>1. Others(s)
    BY <1>24 DEF Close, Unwind, Shut
  <2>2. Links(s)'
    BY <1>24 DEF Close, Unwind, Shut
  <2> QED
    BY <1>2, <2>1, <2>2
<1>25. ASSUME NEW s \in Streams, Drop(s) PROVE \A t \in Streams : Links(t)'
  <2>1. Others(s)
    BY <1>25 DEF Drop
  <2>2. Links(s)'
    BY <1>25 DEF Drop
  <2> QED
    BY <1>2, <2>1, <2>2
<1>26. ASSUME NEW s \in Streams, Finalize(s) PROVE \A t \in Streams : Links(t)'
  <2>1. Others(s)
    BY <1>26 DEF Finalize, Unwind, Shut
  <2>2. Links(s)'
    BY <1>26 DEF Finalize, Unwind, Shut
  <2> QED
    BY <1>2, <2>1, <2>2
<1>27. ASSUME NEW s \in Streams, Cancel(s) PROVE \A t \in Streams : Links(t)'
  <2>1. Others(s)
    BY <1>27 DEF Cancel, ConnectFails, Unwind, UnwindCommand, End, Shut
  <2>2. Links(s)'
    BY <1>27 DEF Cancel, ConnectFails, Unwind, UnwindCommand, End, Shut
  <2> QED
    BY <1>2, <2>1, <2>2
<1>28. ASSUME NEW s \in Streams, Reap(s) PROVE \A t \in Streams : Links(t)'
  <2>1. Others(s)
    BY <1>28 DEF Reap
  <2>2. Links(s)'
    BY <1>28 DEF Reap
  <2> QED
    BY <1>2, <2>1, <2>2
<1>29. ASSUME NEW s \in Streams, CommandLost(s) PROVE \A t \in Streams : Links(t)'
  <2>1. Others(s)
    BY <1>29 DEF CommandLost
  <2>2. Links(s)'
    BY <1>29 DEF CommandLost
  <2> QED
    BY <1>2, <2>1, <2>2
<1> QED
  BY <1>3, <1>4, <1>5, <1>6, <1>7, <1>8, <1>9, <1>10, <1>11, <1>12, <1>13, <1>14, <1>15, <1>16, <1>17, <1>18, <1>19, <1>20, <1>21, <1>22, <1>23, <1>24, <1>25, <1>26, <1>27, <1>28, <1>29 DEF Next, Awaited, Consumer

\* Every action keeps the camera's answers in step with the await: a generator
\* whose answers change is still in the handshake, one that advances has checked.
LEMMA AnswersStep ==
    ASSUME TypeOK, \A s \in Streams : Links(s), \A s \in Streams : Answers(s), [Next]_vars
    PROVE  \A s \in Streams : Answers(s)'
<1> DEFINE Same(t) == pc'[t] = pc[t] /\ camera'[t] = camera[t]
           Others(s) == \A t \in Streams \ {s} : Same(t)
           Out == {"off", "prepare", "connectCommand", "connectStream", "sendPreview",
                   "readPreview"} \cup Unwinding
<1>1. ASSUME NEW t \in Streams, Same(t) PROVE Answers(t)'
  BY <1>1 DEF Answers
<1>2. ASSUME NEW s \in Streams, Others(s), Answers(s)' PROVE \A t \in Streams : Answers(t)'
  BY <1>1, <1>2
\* Before the setup and during the unwinding nothing is asked of the answers.
<1>3. ASSUME NEW s \in Streams, Others(s), pc'[s] \in Out
      PROVE  \A t \in Streams : Answers(t)'
  BY <1>2, <1>3 DEF Answers, Media, Unwinding
<1>4. CASE UNCHANGED vars
  BY <1>1, <1>4 DEF vars
<1>5. ASSUME NEW p \in Ports, LingerExpires(p) PROVE \A t \in Streams : Answers(t)'
  BY <1>1, <1>5 DEF LingerExpires
<1> USE DEF TypeOK
<1>6. ASSUME NEW s \in Streams, Prepared(s) \/ Start(s)
      PROVE  \A t \in Streams : Answers(t)'
  <2>1. Others(s) /\ pc'[s] \in Out
    BY <1>6 DEF Prepared, Start, Dial, End
  <2> QED
    BY <1>3, <2>1
<1>7. ASSUME NEW s \in Streams, CommandConnected(s) \/ StreamConnected(s)
      PROVE  \A t \in Streams : Answers(t)'
  <2>1. Others(s) /\ pc'[s] \in Out
    BY <1>7 DEF CommandConnected, StreamConnected
  <2> QED
    BY <1>3, <2>1
<1>8. ASSUME NEW s \in Streams, AnswerRefused(s) \/ PrefixTooLong(s) \/ Close(s) \/ Finalize(s)
      PROVE  \A t \in Streams : Answers(t)'
  <2>1. Others(s) /\ pc'[s] \in Out
    BY <1>8 DEF AnswerRefused, PrefixTooLong, Close, Finalize, Unwind, Unwinding
  <2> QED
    BY <1>3, <2>1
<1>9. ASSUME NEW s \in Streams, StreamClosed(s) \/ CommandClosed(s)
      PROVE  \A t \in Streams : Answers(t)'
  <2>1. Others(s) /\ pc'[s] \in Out
    BY <1>9 DEF StreamClosed, CommandClosed, UnwindCommand, End, Unwinding
  <2> QED
    BY <1>3, <2>1
<1>10. ASSUME NEW s \in Streams, TransportFails(s) \/ Cancel(s)
      PROVE  \A t \in Streams : Answers(t)'
  <2>1. Others(s) /\ pc'[s] \in Out
    BY <1>10 DEF TransportFails, Cancel, ConnectFails, Unwind, UnwindCommand, End, Unwinding
  <2> QED
    BY <1>3, <2>1
<1>11. ASSUME NEW s \in Streams, Sent(s)
      PROVE  \A t \in Streams : Answers(t)'
  <2>1. Others(s)
    BY <1>11 DEF Sent
  <2>2. Answers(s)'
    BY <1>11 DEF Sent, Answers, Media
  <2> QED
    BY <1>2, <2>1, <2>2
<1>12. ASSUME NEW s \in Streams, HeaderArrives(s)
      PROVE  \A t \in Streams : Answers(t)'
  <2>1. Others(s)
    BY <1>12 DEF HeaderArrives
  <2>2. Answers(s)'
    BY <1>12 DEF HeaderArrives, Answers, Media, CameraView
  <2> QED
    BY <1>2, <2>1, <2>2
<1>13. ASSUME NEW s \in Streams, BodyArrives(s)
      PROVE  \A t \in Streams : Answers(t)'
  <2>1. Others(s)
    BY <1>13 DEF BodyArrives
  <2>2. Answers(s)'
    BY <1>13 DEF BodyArrives, Answers, Media
  <2> QED
    BY <1>2, <2>1, <2>2
<1>14. ASSUME NEW s \in Streams, PreviewAccepted(s)
      PROVE  \A t \in Streams : Answers(t)'
  <2>1. Others(s)
    BY <1>14 DEF PreviewAccepted
  <2>2. Answers(s)'
    BY <1>14 DEF PreviewAccepted, Answers, Media, CameraView
  <2> QED
    BY <1>2, <2>1, <2>2
<1>15. ASSUME NEW s \in Streams, SetupAccepted(s)
      PROVE  \A t \in Streams : Answers(t)'
  <2>1. Others(s)
    BY <1>15 DEF SetupAccepted
  <2>2. Answers(s)'
    BY <1>15 DEF SetupAccepted, Answers, Media
  <2> QED
    BY <1>2, <2>1, <2>2
<1>16. ASSUME NEW s \in Streams, JunkByte(s) \/ MagicByte(s) \/ RtpHeaderArrives(s)
      PROVE  \A t \in Streams : Answers(t)'
  <2>1. Others(s)
    BY <1>16 DEF JunkByte, MagicByte, RtpHeaderArrives
  <2>2. Answers(s)'
    BY <1>16 DEF JunkByte, MagicByte, RtpHeaderArrives, Answers, Media
  <2> QED
    BY <1>2, <2>1, <2>2
<1>17. ASSUME NEW s \in Streams, PacketArrives(s)
      PROVE  \A t \in Streams : Answers(t)'
  <2>1. Others(s)
    BY <1>17 DEF PacketArrives, Unwind
  <2>2. Answers(s)'
    BY <1>17 DEF PacketArrives, Unwind, Answers, Media
  <2> QED
    BY <1>2, <2>1, <2>2
<1>18. ASSUME NEW s \in Streams, Resume(s) \/ Drop(s)
      PROVE  \A t \in Streams : Answers(t)'
  <2>1. Others(s)
    BY <1>18 DEF Resume, Drop
  <2>2. Answers(s)'
    BY <1>18 DEF Resume, Drop, Answers, Media, Links
  <2> QED
    BY <1>2, <2>1, <2>2
<1>19. ASSUME NEW s \in Streams, Reap(s) \/ CommandLost(s)
      PROVE  \A t \in Streams : Answers(t)'
  <2>1. Others(s)
    BY <1>19 DEF Reap, CommandLost
  <2>2. Answers(s)'
    BY <1>19 DEF Reap, CommandLost, Answers, Media
  <2> QED
    BY <1>2, <2>1, <2>2
<1> QED
  BY <1>4, <1>5, <1>6, <1>7, <1>8, <1>9, <1>10, <1>11, <1>12, <1>13, <1>14, <1>15, <1>16, <1>17, <1>18, <1>19 DEF Next, Awaited, Consumer

\* The invariant is inductive.
LEMMA StepInvariant == IInv /\ [Next]_vars => IInv'
<1> SUFFICES ASSUME IInv, [Next]_vars PROVE IInv'
  OBVIOUS
<1>1. TypeOK'
  BY TypeStep DEF IInv
<1>2. (\A s \in Streams : Links(s))'
  BY LinksStep DEF IInv
<1>3. (\A s \in Streams : Answers(s))'
  BY AnswersStep DEF IInv
<1> QED
  BY <1>1, <1>2, <1>3 DEF IInv

THEOREM Invariance == Spec => []IInv
<1>1. Init => IInv
  BY InitInvariant
<1>2. IInv /\ [Next]_vars => IInv'
  BY StepInvariant
<1> QED
  BY <1>1, <1>2, PTL DEF Spec

-----------------------------------------------------------------------------
(* What follows from it.                                                   *)

\* The variables of the generators, links and ports keep their types.
THEOREM TypeCorrect == Spec => []TypeOK
<1>1. IInv => TypeOK
  BY DEF IInv
<1> QED
  BY <1>1, Invariance, PTL

\* However many generators run and however they end, none that is over holds a
\* link that is still open (Camera.live and its aclosing()).
THEOREM NoLinkLeaks == Spec => []NoLeakedLink
<1>1. IInv => NoLeakedLink
  BY DEF IInv, NoLeakedLink, Links, Shutting, Live
<1> QED
  BY <1>1, Invariance, PTL

\* No generator ever has a stream link without its command link (the async with
\* of open_local_sdk_stream).
THEOREM StreamNeedsCommand == Spec => []StreamInsideCommand
<1>1. IInv => StreamInsideCommand
  <2> SUFFICES ASSUME IInv, NEW s \in Streams, Live(str[s]) PROVE cmd[s] \in {"open", "lost"}
    BY DEF StreamInsideCommand
  <2>1. Links(s) /\ pc[s] \in Awaits
    BY DEF IInv, TypeOK
  <2> QED
    BY <2>1 DEF Links, Shutting, Live, Awaits, Unwinding
<1> QED
  BY <1>1, Invariance, PTL

\* No generator ever reads a packet or yields a chunk that the two checked answers
\* and the quoted session of the handshake do not stand behind.
THEOREM MediaNeedsHandshake == Spec => []MediaAfterHandshake
<1>1. IInv => MediaAfterHandshake
  BY DEF IInv, MediaAfterHandshake, Answers
<1> QED
  BY <1>1, Invariance, PTL

-----------------------------------------------------------------------------
(* LiveStream implements StreamSession.  Under the invariant the abstract  *)
(* phase and scope are functions of the await, so a step of the code maps  *)
(* to the abstract step between the two awaits.                            *)

PhaseAt(place) ==
    CASE place = "off" -> "off"
      [] place \in Opening -> "opening"
      [] place \in Media \cup {"yield"} -> "live"
      [] OTHER -> "closing"

HeldAt(place) ==
    CASE place \in {"off", "prepare", "closeCommand"} -> {}
      [] place \in {"connectCommand", "closeStream"} -> {"command"}
      [] OTHER -> {"command", "stream"}

\* The awaits that follow one another.
Moves(here, there) ==
    \/ here = "off" /\ there \in {"off", "prepare", "connectCommand"}
    \/ here = "prepare" /\ there \in {"off", "connectCommand"}
    \/ here = "connectCommand" /\ there \in {"off", "connectStream"}
    \/ here = "connectStream" /\ there \in {"sendPreview", "closeCommand"}
    \/ here \in Handshake /\ there \in Handshake \cup {"scan", "closeStream"}
    \/ here \in Media \cup {"yield"} /\ there \in Media \cup {"yield", "closeStream"}
    \/ here = "closeStream" /\ there = "closeCommand"
    \/ here = "closeCommand" /\ there = "off"

LEMMA Determined ==
    IInv => \A s \in Streams : PhaseOf(s) = PhaseAt(pc[s]) /\ HeldBy(s) = HeldAt(pc[s])
<1> SUFFICES ASSUME IInv, NEW s \in Streams
             PROVE  PhaseOf(s) = PhaseAt(pc[s]) /\ HeldBy(s) = HeldAt(pc[s])
  OBVIOUS
<1>1. Links(s) /\ pc[s] \in Awaits
  BY DEF IInv, TypeOK
<1>2. PhaseOf(s) = PhaseAt(pc[s])
  BY DEF PhaseOf, PhaseAt
<1>3. HeldBy(s) = HeldAt(pc[s])
  <2>1. CASE pc[s] \in {"off", "prepare", "closeCommand"}
    BY <1>1, <2>1 DEF HeldBy, HeldAt, Links, Shutting, Live
  <2>2. CASE pc[s] \in {"connectCommand", "closeStream"}
    BY <1>1, <2>2 DEF HeldBy, HeldAt, Links, Shutting, Live
  <2>3. CASE pc[s] \in {"connectStream"} \cup Handshake \cup Media \cup {"yield"}
    BY <1>1, <2>3 DEF HeldBy, HeldAt, Links, Live, Handshake, Media
  <2> QED
    BY <1>1, <2>1, <2>2, <2>3 DEF Awaits, Unwinding
<1> QED
  BY <1>2, <1>3

LEMMA NextMoves ==
    ASSUME IInv, [Next]_vars
    PROVE  \/ UNCHANGED pc
           \/ \E s \in Streams : \E there \in Awaits :
                 Moves(pc[s], there) /\ pc' = [pc EXCEPT ![s] = there]
<1> USE DEF Awaits, Moves, Handshake, Media, Unwinding
<1> DEFINE Goal(s) == \E there \in Awaits :
                          Moves(pc[s], there) /\ pc' = [pc EXCEPT ![s] = there]
<1>1. CASE UNCHANGED vars
  BY <1>1 DEF vars
<1>2. ASSUME NEW s \in Streams, Prepared(s) \/ CommandConnected(s) \/ StreamConnected(s)
      PROVE  Goal(s)
  BY <1>2 DEF Prepared, Dial, End, CommandConnected, StreamConnected
<1>3. ASSUME NEW s \in Streams, Sent(s) \/ PreviewAccepted(s) \/ SetupAccepted(s)
      PROVE  Goal(s)
  BY <1>3 DEF Sent, PreviewAccepted, SetupAccepted
<1>4. ASSUME NEW s \in Streams, HeaderArrives(s) \/ BodyArrives(s) \/ JunkByte(s)
      PROVE  UNCHANGED pc
  BY <1>4 DEF HeaderArrives, BodyArrives, JunkByte
<1>5. ASSUME NEW s \in Streams, AnswerRefused(s) \/ PrefixTooLong(s) PROVE Goal(s)
  BY <1>5 DEF AnswerRefused, PrefixTooLong, Unwind
<1>6. ASSUME NEW s \in Streams, MagicByte(s) \/ RtpHeaderArrives(s) \/ PacketArrives(s)
      PROVE  Goal(s)
  BY <1>6 DEF MagicByte, RtpHeaderArrives, PacketArrives, Unwind
<1>7. ASSUME NEW s \in Streams, StreamClosed(s) \/ CommandClosed(s) PROVE Goal(s)
  BY <1>7 DEF StreamClosed, CommandClosed, UnwindCommand, End
<1>8. ASSUME NEW s \in Streams, TransportFails(s) PROVE Goal(s)
  BY <1>8 DEF TransportFails, ConnectFails, Unwind, UnwindCommand, End
<1>9. ASSUME NEW s \in Streams, Start(s) PROVE Goal(s)
  <2>1. Links(s)
    BY DEF IInv
  <2> QED
    BY <1>9, <2>1 DEF Start, Dial, End, Links
<1>10. ASSUME NEW s \in Streams, Resume(s) \/ Close(s) \/ Finalize(s) PROVE Goal(s)
  <2>1. Links(s)
    BY DEF IInv
  <2> QED
    BY <1>10, <2>1 DEF Resume, Close, Finalize, Unwind, Links
<1>11. ASSUME NEW s \in Streams, Cancel(s) PROVE Goal(s)
  BY <1>11 DEF Cancel, ConnectFails, Unwind, UnwindCommand, End
<1>12. ASSUME NEW s \in Streams, Drop(s) \/ Reap(s) \/ CommandLost(s) PROVE UNCHANGED pc
  BY <1>12 DEF Drop, Reap, CommandLost
<1>13. ASSUME NEW p \in Ports, LingerExpires(p) PROVE UNCHANGED pc
  BY <1>13 DEF LingerExpires
<1> QED
  BY <1>1, <1>2, <1>3, <1>4, <1>5, <1>6, <1>7, <1>8, <1>9, <1>10, <1>11, <1>12, <1>13
     DEF Next, Awaited, Consumer

\* Every step of the code is a step of the abstract session, or changes neither a
\* phase nor a scope.
LEMMA SessionStep == IInv /\ IInv' /\ [Next]_vars => [Session!Next]_(Session!vars)
<1> SUFFICES ASSUME IInv, IInv', [Next]_vars PROVE [Session!Next]_(Session!vars)
  OBVIOUS
<1> DEFINE phase == [s \in Streams |-> PhaseOf(s)]
           held == [s \in Streams |-> HeldBy(s)]
<1>1. \A s \in Streams : PhaseOf(s) = PhaseAt(pc[s]) /\ HeldBy(s) = HeldAt(pc[s])
  BY Determined
<1>2. \A s \in Streams : PhaseOf(s)' = PhaseAt(pc'[s]) /\ HeldBy(s)' = HeldAt(pc'[s])
  <2>1. (\A s \in Streams : PhaseOf(s) = PhaseAt(pc[s]) /\ HeldBy(s) = HeldAt(pc[s]))'
    BY Determined, PTL
  <2> QED
    BY <2>1 DEF PhaseAt, HeldAt
<1>3. pc \in [Streams -> Awaits]
  BY DEF IInv, TypeOK
<1>4. CASE UNCHANGED pc
  <2>1. phase' = phase /\ held' = held
    BY <1>1, <1>2, <1>4
  <2> QED
    BY <2>1 DEF Session!vars
<1>5. ASSUME NEW s \in Streams, NEW there \in Awaits,
             Moves(pc[s], there), pc' = [pc EXCEPT ![s] = there]
      PROVE  [Session!Next]_(Session!vars)
  <2>1. /\ phase' = [phase EXCEPT ![s] = PhaseAt(there)]
        /\ held' = [held EXCEPT ![s] = HeldAt(there)]
    BY <1>1, <1>2, <1>3, <1>5
  <2>2. phase[s] = PhaseAt(pc[s]) /\ held[s] = HeldAt(pc[s])
    BY <1>1
  <2>3. Session!Next \/ (phase' = phase /\ held' = held)
    <3>1. CASE pc[s] = "off" /\ there = "off"
      <4>1. PhaseAt(there) = PhaseAt(pc[s]) /\ HeldAt(there) = HeldAt(pc[s])
        BY <3>1 DEF PhaseAt, HeldAt, Opening, Handshake, Media
      <4> QED
        BY <1>1, <1>2, <1>3, <1>5, <4>1
    <3>2. CASE pc[s] = "off" /\ there \in {"prepare", "connectCommand"}
      <4>1. Session!Begin(s)
        BY <2>1, <2>2, <3>2 DEF Session!Begin, Session!Scopes, PhaseAt, HeldAt, Opening, Handshake, Media
      <4> QED
        BY <4>1 DEF Session!Next
    <3>3. CASE pc[s] \in {"prepare", "connectCommand", "closeCommand"} /\ there = "off"
      <4>1. Session!Finish(s)
        BY <2>1, <2>2, <3>3 DEF Session!Finish, Session!Scopes, PhaseAt, HeldAt, Opening, Handshake, Media
      <4> QED
        BY <4>1 DEF Session!Next
    <3>4. CASE \/ pc[s] = "prepare" /\ there = "connectCommand"
               \/ pc[s] = "connectCommand" /\ there = "connectStream"
               \/ pc[s] \in {"connectStream"} \cup Handshake /\ there \in Handshake
      <4>1. Session!Acquire(s)
        BY <2>1, <2>2, <3>4 DEF Session!Acquire, Session!Scopes, PhaseAt, HeldAt, Opening, Handshake, Media
      <4> QED
        BY <4>1 DEF Session!Next
    <3>5. CASE pc[s] \in Handshake /\ there = "scan"
      <4>1. Session!GoLive(s)
        BY <2>1, <2>2, <3>5 DEF Session!GoLive, Session!Scopes, PhaseAt, HeldAt, Opening, Handshake, Media
      <4> QED
        BY <4>1 DEF Session!Next
    <3>6. CASE pc[s] \in Media \cup {"yield"} /\ there \in Media \cup {"yield"}
      <4>1. PhaseAt(there) = PhaseAt(pc[s]) /\ HeldAt(there) = HeldAt(pc[s])
        BY <3>6 DEF PhaseAt, HeldAt, Opening, Handshake, Media
      <4> QED
        BY <1>1, <1>2, <1>3, <1>5, <4>1
    <3>7. CASE \/ pc[s] = "connectStream" /\ there = "closeCommand"
               \/ pc[s] \in Handshake \cup Media \cup {"yield"} /\ there = "closeStream"
               \/ pc[s] = "closeStream" /\ there = "closeCommand"
      <4>1. Session!Release(s)
        BY <2>1, <2>2, <3>7 DEF Session!Release, Session!Scopes, PhaseAt, HeldAt, Opening, Handshake, Media
      <4> QED
        BY <4>1 DEF Session!Next
    <3>8. \/ pc[s] = "off" /\ there = "off"
          \/ pc[s] = "off" /\ there \in {"prepare", "connectCommand"}
          \/ pc[s] \in {"prepare", "connectCommand", "closeCommand"} /\ there = "off"
          \/ pc[s] = "prepare" /\ there = "connectCommand"
          \/ pc[s] = "connectCommand" /\ there = "connectStream"
          \/ pc[s] \in {"connectStream"} \cup Handshake /\ there \in Handshake
          \/ pc[s] \in Handshake /\ there = "scan"
          \/ pc[s] \in Media \cup {"yield"} /\ there \in Media \cup {"yield"}
          \/ pc[s] = "connectStream" /\ there = "closeCommand"
          \/ pc[s] \in Handshake \cup Media \cup {"yield"} /\ there = "closeStream"
          \/ pc[s] = "closeStream" /\ there = "closeCommand"
      BY <1>5 DEF Moves, Handshake
    <3> QED
      BY <3>1, <3>2, <3>3, <3>4, <3>5, <3>6, <3>7, <3>8
  <2> QED
    BY <2>3 DEF Session!vars
<1> QED
  BY <1>4, <1>5, NextMoves

\* The generators and links of the library, for any number of them, implement the
\* scoped stream session: order of acquisition, media only with both links, and
\* nothing but release once the end has begun.
THEOREM Refinement == Spec => ImplementsSession
<1>1. Init => Session!Init
  <2> SUFFICES ASSUME Init PROVE Session!Init
    OBVIOUS
  <2>1. \A s \in Streams : PhaseOf(s) = "off" /\ HeldBy(s) = {}
    BY DEF Init, PhaseOf, HeldBy, Live, Opening, Handshake, Media
  <2>2. [s \in Streams |-> PhaseOf(s)] = [s \in Streams |-> "off"]
    BY <2>1
  <2>3. [s \in Streams |-> HeldBy(s)] = [s \in Streams |-> {}]
    BY <2>1
  <2> QED
    BY <2>2, <2>3 DEF Session!Init
<1>2. IInv /\ IInv' /\ [Next]_vars => [Session!Next]_(Session!vars)
  BY SessionStep
<1> QED
  BY <1>1, <1>2, Invariance, PTL DEF Spec, ImplementsSession, Session!Spec
=============================================================================
