--------------------------- MODULE PlaybackProofs ----------------------------
(***************************************************************************)
(* The safety of Playback for any sessions a camera may issue.             *)
(***************************************************************************)
EXTENDS Playback, TLAPS

-----------------------------------------------------------------------------
(* The inductive invariant.                                                *)

\* Only the socket of the exchange under way can exist; how far it has come follows
\* from the await.
Links ==
    /\ \A l \in Legs \ {leg} : link[l] = "none"
    /\ pc = "prepare" => link[leg] = "none"
    /\ pc = "connect" => link[leg] = "connecting"
    /\ pc \in {"send", "read", "recv", "yield", "tail"} => link[leg] = "open"
    /\ pc \in {"off", "close"} => link[leg] \in {"closing", "none"}
    /\ outer \in {"fresh", "done"} => pc = "off"
    /\ outer \in {"suspended", "dropped"} => pc \in {"yield", "tail"}

\* An exchange is only begun after what the one before must have brought.
Answers ==
    /\ pc \in {"recv", "yield", "tail"} => leg = "play"
    /\ pc = "prepare" => leg = "init"
    /\ pc # "off" /\ leg # "init" => camera.result = "accepted"
    /\ pc # "off" /\ leg = "play" => camera.issued \in Tokens
    /\ pc \in {"send", "read", "recv", "yield", "tail"} /\ leg = "play" =>
          camera.told = camera.issued

\* Nothing assembled is left once the media has come to its end, and it has only if
\* nothing else ends the generator.
Flushed ==
    /\ pc \notin {"off", "close"} => why = "none"
    /\ pc = "tail" => ~ pending
    /\ pc = "close" /\ leg = "play" /\ why = "none" => ~ pending
    /\ why = "Finished" => pc = "off" /\ ~ pending

IInv == TypeOK /\ Links /\ Answers /\ Flushed

USE TokenAssumption

LEMMA InitInvariant == Init => IInv
<1> SUFFICES ASSUME Init PROVE IInv
  OBVIOUS
<1>1. TypeOK
  BY DEF Init, TypeOK, Legs, LinkStates, Awaits, Parts, CameraView, Nothing, Endings
<1>2. Links
  BY DEF Init, Links, Legs
<1>3. Answers /\ Flushed
  BY DEF Init, Answers, Flushed
<1> QED
  BY <1>1, <1>2, <1>3 DEF IInv

-----------------------------------------------------------------------------
(* The steps.                                                              *)

\* Leaving the link keeps the invariant from every await that holds it open, unless the
\* media ends without an exception and something assembled is left.
LEMMA LeaveKeeps ==
    ASSUME IInv, NEW e \in Endings \ {"Finished"}, Leave(e),
           pc \in {"send", "read", "recv", "yield", "tail"},
           leg = "play" /\ e = "none" => ~ pending
    PROVE  IInv'
BY DEF IInv, TypeOK, Links, Answers, Flushed, Leave, Legs, LinkStates, Awaits, Parts

\* So does a connect that fails.
LEMMA ConnectFailsKeeps ==
    ASSUME IInv, NEW e \in Endings \ {"Finished"}, ConnectFails(e)
    PROVE  IInv'
BY DEF IInv, TypeOK, Links, Answers, Flushed, ConnectFails, End, Legs, LinkStates, Awaits,
       Parts

LEMMA StepInvariant == IInv /\ [Next]_vars => IInv'
<1> SUFFICES ASSUME IInv, [Next]_vars PROVE IInv'
  OBVIOUS
<1> USE DEF IInv, TypeOK, Links, Answers, Flushed, Legs, LinkStates, Awaits, Parts
<1>1. CASE Start
  BY <1>1 DEF Start, Enter, Connect, End, CameraView, Nothing, Endings
<1>2. CASE Prepared
  BY <1>2 DEF Prepared, Enter, Connect, End, Endings
<1>3. CASE Connected
  BY <1>3 DEF Connected, CameraView
<1>4. CASE Sent
  BY <1>4 DEF Sent
<1>5. CASE HeaderArrives
  BY <1>5 DEF HeaderArrives, CameraView
<1>6. CASE HeaderBroken
  BY <1>6, LeaveKeeps DEF HeaderBroken, Endings
<1>7. CASE BodyArrives
  BY <1>7 DEF BodyArrives
<1>8. CASE TrailerArrives
  <2>1. CASE leg # "play"
    BY <1>8, <2>1, LeaveKeeps DEF TrailerArrives, Endings
  <2>2. CASE leg = "play"
    BY <1>8, <2>2 DEF TrailerArrives
  <2> QED
    BY <2>1, <2>2
<1>9. CASE LinkClosed
  <2>1. CASE pc' = "connect"
    BY <1>9, <2>1 DEF LinkClosed, Connect, End, CameraView, Endings
  <2>2. CASE pc' # "connect"
    BY <1>9, <2>2 DEF LinkClosed, Connect, End, Endings
  <2> QED
    BY <2>1, <2>2
<1>10. CASE ChunkArrives
  BY <1>10 DEF ChunkArrives
<1>11. CASE EndOfStream
  BY <1>11 DEF EndOfStream
<1>12. CASE TransportFails
  BY <1>12, LeaveKeeps, ConnectFailsKeeps DEF TransportFails, Endings
<1>13. CASE Resume
  <2>1. CASE pc = "yield"
    BY <1>13, <2>1 DEF Resume
  <2>2. CASE pc = "tail"
    BY <1>13, <2>2, LeaveKeeps DEF Resume, Endings
  <2> QED
    BY <1>13, <2>1, <2>2 DEF Resume
<1>14. CASE Drop
  BY <1>14 DEF Drop
<1>15. CASE Reap
  BY <1>15 DEF Reap
<1>16. CASE Close \/ Finalize
  BY <1>16, LeaveKeeps DEF Close, Finalize, Endings
<1>17. CASE Cancel
  <2>1. CASE pc \in {"prepare", "close"}
    BY <1>17, <2>1 DEF Cancel, ConnectFails, End, Endings
  <2>2. CASE pc \notin {"prepare", "close"}
    BY <1>17, <2>2, LeaveKeeps, ConnectFailsKeeps DEF Cancel, Endings
  <2> QED
    BY <2>1, <2>2
<1>18. CASE UNCHANGED vars
  BY <1>18 DEF vars
<1> QED
  BY <1>1, <1>2, <1>3, <1>4, <1>5, <1>6, <1>7, <1>8, <1>9, <1>10, <1>11, <1>12, <1>13,
     <1>14, <1>15, <1>16, <1>17, <1>18 DEF Next, Awaited, Consumer

-----------------------------------------------------------------------------
(* The theorems.                                                           *)

\* The invariant holds in every reachable state.
THEOREM Invariance == Spec => []IInv
<1> QED
  BY InitInvariant, StepInvariant, PTL DEF Spec

\* Every reachable state is well typed; parts of a control frame are awaited exactly
\* while the generator reads one.
THEOREM TypeCorrect == Spec => []TypeOK
<1>1. IInv => TypeOK
  BY DEF IInv
<1> QED
  BY <1>1, Invariance, PTL

\* A playback never holds two sockets, and none when it is over but one that the loop is
\* about to close.
THEOREM FreshLinks == Spec => []OneLinkAtATime
<1>1. IInv => OneLinkAtATime
  BY DEF IInv, TypeOK, Links, OneLinkAtATime, Legs
<1> QED
  BY <1>1, Invariance, PTL

\* Media is only read of a session that was initialised, issued and quoted in this very
\* playback, whatever sessions the camera issues.
THEOREM RightWindow == Spec => []MediaIsOfThisWindow
<1>1. IInv => MediaIsOfThisWindow
  BY DEF IInv, Answers, MediaIsOfThisWindow
<1> QED
  BY <1>1, Invariance, PTL

\* A playback that ends normally has given out the NAL that was still being assembled.
THEOREM NothingLeft == Spec => []FinishedIsComplete
<1>1. IInv => FinishedIsComplete
  BY DEF IInv, Flushed, FinishedIsComplete
<1> QED
  BY <1>1, Invariance, PTL

-----------------------------------------------------------------------------
(* Playback implements PlaybackSession.  Under the invariant the phase,    *)
(* the exchange and the socket are those of the await, so each action is   *)
(* one abstract step or none.                                              *)

\* The socket of the exchange under way is the only one there can be.
LEMMA HeldIs == IInv => HeldNow = IF link[leg] = "none" THEN {} ELSE {Number(leg)}
<1> SUFFICES ASSUME IInv
             PROVE  HeldNow = IF link[leg] = "none" THEN {} ELSE {Number(leg)}
  OBVIOUS
<1>1. leg \in Legs /\ \A l \in Legs \ {leg} : link[l] = "none"
  BY DEF IInv, TypeOK, Links
<1>2. {k \in Legs : link[k] # "none"} = IF link[leg] = "none" THEN {} ELSE {leg}
  BY <1>1
<1> QED
  BY <1>2 DEF HeldNow

\* While a link is open or being opened its socket is held, and no other.
LEMMA HeldWhileOpen ==
    IInv => /\ pc \in {"connect", "send", "read", "recv", "yield", "tail"} => HeldNow = {Number(leg)}
            /\ pc = "prepare" => HeldNow = {}
BY HeldIs DEF IInv, Links

\* Both hold after a step as well.
LEMMA HeldThen ==
    ASSUME IInv'
    PROVE  /\ HeldNow' = IF link'[leg'] = "none" THEN {} ELSE {Number(leg')}
           /\ pc' \in {"connect", "send", "read", "recv", "yield", "tail"} =>
                 HeldNow' = {Number(leg')}
<1>1. (HeldNow = IF link[leg] = "none" THEN {} ELSE {Number(leg)})'
  BY HeldIs, PTL
<1>2. (pc \in {"connect", "send", "read", "recv", "yield", "tail"} => HeldNow = {Number(leg)})'
  BY HeldWhileOpen, PTL
<1> QED
  BY <1>1, <1>2

\* An exception at an open link breaks the playback off.
LEMMA LeaveBreaksOff ==
    ASSUME IInv, IInv', NEW e, e # "none", Leave(e),
           pc \in {"send", "read", "recv", "yield", "tail"}
    PROVE  Session!BreakOff
<1>1. HeldNow = {Number(leg)}
  BY HeldWhileOpen
<1>2. link'[leg'] = "closing" /\ leg' = leg
  BY DEF IInv, TypeOK, Leave, Legs
<1>3. HeldNow' = {Number(leg)}
  BY <1>2, HeldThen
<1>4. PhaseNow \in {"asking", "media", "ending"} /\ PhaseNow' = "leaving"
  BY DEF PhaseNow, Leave
<1>5. ExchangeNow' = ExchangeNow /\ pending' = pending
  BY DEF ExchangeNow, Leave, Number
<1> QED
  BY <1>1, <1>3, <1>4, <1>5 DEF Session!BreakOff

\* A connect that fails gives it up.
LEMMA ConnectFailsGivesUp ==
    ASSUME IInv, IInv', NEW e, e # "Finished", ConnectFails(e)
    PROVE  Session!GiveUp
<1>1. link'[leg'] = "none"
  BY DEF IInv, TypeOK, ConnectFails, End, Legs
<1>2. HeldNow' = {}
  BY <1>1, HeldThen
<1>3. PhaseNow = "asking" /\ PhaseNow' = "off" /\ ExchangeNow' = 0 /\ pending' = pending
  BY DEF PhaseNow, ExchangeNow, ConnectFails, End
<1> QED
  BY <1>2, <1>3 DEF Session!GiveUp

\* Each action is a step of the abstract session, or leaves it as it is.
LEMMA SessionStep ==
    ASSUME IInv, IInv', [Next]_vars
    PROVE  [Session!Next]_(Session!vars)
<1> DEFINE Same == UNCHANGED <<PhaseNow, ExchangeNow, HeldNow, pending>>
           Goal == Session!Next \/ Same
<1> SUFFICES Goal
  BY DEF Session!vars
<1>1. /\ HeldNow = IF link[leg] = "none" THEN {} ELSE {Number(leg)}
      /\ HeldNow' = IF link'[leg'] = "none" THEN {} ELSE {Number(leg')}
  BY HeldIs, HeldThen
<1>2. TypeOK /\ Links /\ Answers /\ Flushed
  BY DEF IInv
<1>3. Number("init") = 1 /\ Number("invite") = 2 /\ Number("play") = 3
  BY DEF Number
<1>4. CASE UNCHANGED vars
  BY <1>4 DEF vars, PhaseNow, ExchangeNow, HeldNow, Number
<1>5. CASE Start
  <2>1. PhaseNow \in {"off", "complete"} /\ HeldNow = {} /\ pending' = FALSE
    BY <1>1, <1>2, <1>5 DEF Start, PhaseNow, Links, TypeOK
  <2>2. \/ PhaseNow' = "off" /\ ExchangeNow' = 0 /\ HeldNow' = {}
        \/ PhaseNow' = "asking" /\ ExchangeNow' = 0 /\ HeldNow' = {}
        \/ PhaseNow' = "asking" /\ ExchangeNow' = 1 /\ HeldNow' = {1}
    BY <1>1, <1>2, <1>3, <1>5
       DEF Start, Enter, Connect, End, PhaseNow, ExchangeNow, TypeOK, Legs
  <2>3. HeldNow' = 1..ExchangeNow'
    <3>1. 1..0 = {} /\ 1..1 = {1}
      OBVIOUS
    <3> QED
      BY <2>2, <3>1
  <2>4. Session!Begin
    BY <2>1, <2>2, <2>3 DEF Session!Begin, Session!Over
  <2> QED
    BY <2>4 DEF Session!Next
<1>6. CASE Prepared
  <2>1. PhaseNow = "asking" /\ ExchangeNow = 0 /\ HeldNow = {} /\ pending' = pending
    BY <1>1, <1>2, <1>6 DEF Prepared, PhaseNow, ExchangeNow, Links
  <2>2. \/ PhaseNow' = "off" /\ ExchangeNow' = 0 /\ HeldNow' = {}
        \/ PhaseNow' = "asking" /\ ExchangeNow' = 1 /\ HeldNow' = {1}
    BY <1>1, <1>2, <1>3, <1>6
       DEF Prepared, Enter, Connect, End, PhaseNow, ExchangeNow, Links, TypeOK, Legs
  <2>3. Session!GiveUp \/ Session!Ask
    BY <2>1, <2>2 DEF Session!GiveUp, Session!Ask, Session!Exchanges
  <2> QED
    BY <2>3 DEF Session!Next
<1>7. CASE Connected \/ Sent \/ HeaderArrives \/ BodyArrives
  <2>1. /\ pc \in {"connect", "send", "read"} /\ pc' \in {"send", "read"}
        /\ leg' = leg /\ pending' = pending
    BY <1>2, <1>7 DEF Connected, Sent, HeaderArrives, BodyArrives, TypeOK
  <2>2. HeldNow = {Number(leg)} /\ HeldNow' = {Number(leg)}
    BY <2>1, HeldWhileOpen, HeldThen DEF Number
  <2>3. Same
    BY <2>1, <2>2 DEF PhaseNow, ExchangeNow, Number
  <2> QED
    BY <2>3
<1>8. CASE HeaderBroken
  <2>1. Session!BreakOff
    BY <1>2, <1>8, LeaveBreaksOff DEF HeaderBroken, TypeOK
  <2> QED
    BY <2>1 DEF Session!Next
<1>9. CASE TrailerArrives
  <2>1. pc = "read" /\ why = "none"
    BY <1>2, <1>9 DEF TrailerArrives, TypeOK, Flushed
  <2>2. CASE leg # "play"
    <3>1. leg' = leg /\ pc' = "close" /\ why' = "none" /\ link'[leg'] = "closing" /\ pending' = pending
      BY <1>2, <1>9, <2>2 DEF TrailerArrives, Leave, TypeOK
    <3>2. HeldNow = {Number(leg)} /\ HeldNow' = {Number(leg)}
      BY <1>1, <2>1, <3>1, HeldWhileOpen
    <3>3. Same
      BY <2>1, <2>2, <3>1, <3>2 DEF PhaseNow, ExchangeNow, Number
    <3> QED
      BY <3>3
  <2>3. CASE leg = "play"
    <3>1. leg' = leg /\ pc' = "recv" /\ pending' = pending
      BY <1>9, <2>3 DEF TrailerArrives
    <3>2. HeldNow = {3} /\ HeldNow' = {3} /\ ExchangeNow = 3 /\ ExchangeNow' = 3
      BY <1>3, <2>1, <2>3, <3>1, HeldWhileOpen, HeldThen DEF ExchangeNow
    <3>3. Session!GoLive
      BY <2>1, <2>3, <3>1, <3>2 DEF PhaseNow, Session!GoLive, Session!Exchanges
    <3> QED
      BY <3>3 DEF Session!Next
  <2> QED
    BY <2>2, <2>3
<1>10. CASE LinkClosed
  <2>1. pc = "close" /\ link[leg] = "none" /\ HeldNow = {} /\ pending' = pending
    BY <1>1, <1>10 DEF LinkClosed
  <2>2. CASE \E e \in Endings \ {"Finished"} : why # "none" /\ End(e) /\ UNCHANGED link
    <3>1. PhaseNow = "leaving" /\ PhaseNow' = "off" /\ ExchangeNow' = 0
      BY <2>1, <2>2 DEF End, PhaseNow, ExchangeNow
    <3>2. HeldNow' = {}
      BY <1>1, <2>1, <2>2 DEF End
    <3>3. Session!GiveUp
      BY <2>1, <3>1, <3>2 DEF Session!GiveUp
    <3> QED
      BY <3>3 DEF Session!Next
  <2>3. CASE /\ why = "none"
             /\ \/ leg = "init" /\ Connect("invite")
                \/ leg = "invite" /\ Connect("play")
    <3>1. PhaseNow = "asking" /\ PhaseNow' = "asking" /\ ExchangeNow \in {1, 2}
      BY <1>3, <2>1, <2>3 DEF Connect, PhaseNow, ExchangeNow
    <3>2. ExchangeNow' = ExchangeNow + 1 /\ Number(leg') = ExchangeNow'
      BY <1>3, <2>1, <2>3 DEF Connect, ExchangeNow
    <3>3. link'[leg'] = "connecting"
      BY <1>2, <2>3 DEF Connect, TypeOK, Legs
    <3>4. HeldNow' = {ExchangeNow'}
      BY <1>1, <3>2, <3>3
    <3>5. Session!Ask
      BY <2>1, <3>1, <3>2, <3>4 DEF Session!Ask, Session!Exchanges
    <3> QED
      BY <3>5 DEF Session!Next
  <2>4. CASE why = "none" /\ leg # "play"
             /\ \E e \in {"EzvizError", "ParseError"} : End(e) /\ UNCHANGED link
    <3>1. PhaseNow = "asking" /\ PhaseNow' = "off" /\ ExchangeNow' = 0
      BY <2>1, <2>4 DEF End, PhaseNow, ExchangeNow
    <3>2. HeldNow' = {}
      BY <1>1, <2>1, <2>4 DEF End
    <3>3. Session!GiveUp
      BY <2>1, <3>1, <3>2 DEF Session!GiveUp
    <3> QED
      BY <3>3 DEF Session!Next
  <2>5. CASE why = "none" /\ leg = "play" /\ End("Finished") /\ UNCHANGED link
    <3>1. PhaseNow = "ending" /\ PhaseNow' = "complete" /\ ExchangeNow' = 0
      BY <2>1, <2>5 DEF End, PhaseNow, ExchangeNow
    <3>2. HeldNow' = {}
      BY <1>1, <2>1, <2>5 DEF End
    <3>3. Session!Complete
      BY <2>1, <3>1, <3>2 DEF Session!Complete
    <3> QED
      BY <3>3 DEF Session!Next
  <2> QED
    BY <1>2, <1>10, <2>1, <2>2, <2>3, <2>4, <2>5 DEF LinkClosed, TypeOK, Flushed
<1>11. CASE ChunkArrives
  <2>1. pc = "recv" /\ pc' \in {"recv", "yield"} /\ leg' = leg /\ pending' \in BOOLEAN
    BY <1>11 DEF ChunkArrives
  <2>2. HeldNow' = HeldNow /\ ExchangeNow' = ExchangeNow
    BY <2>1, HeldWhileOpen, HeldThen DEF Number, ExchangeNow
  <2>3. Session!Collect
    BY <2>1, <2>2 DEF Session!Collect, PhaseNow
  <2> QED
    BY <2>3 DEF Session!Next
<1>12. CASE EndOfStream
  <2>1. pc = "recv" /\ leg = "play" /\ why = "none"
    BY <1>2, <1>12 DEF EndOfStream, Answers, Flushed
  <2>2. /\ pc' = "tail" \/ (pc' = "close" /\ link'[leg'] = "closing")
        /\ leg' = leg /\ why' = why /\ pending' = FALSE
    <3>1. leg \in DOMAIN link
      BY <1>2 DEF TypeOK
    <3> QED
      BY <1>12, <3>1 DEF EndOfStream
  <2>3. HeldNow = {Number(leg)} /\ HeldNow' = {Number(leg)}
    BY <2>1, <2>2, <1>1, HeldWhileOpen, HeldThen
  <2>4. PhaseNow = "media" /\ PhaseNow' = "ending" /\ ExchangeNow' = ExchangeNow
    BY <2>1, <2>2 DEF PhaseNow, ExchangeNow, Number
  <2>5. Session!MediaEnd
    BY <2>2, <2>3, <2>4 DEF Session!MediaEnd
  <2> QED
    BY <2>5 DEF Session!Next
<1>13. CASE TransportFails
  <2>1. Session!BreakOff \/ Session!GiveUp
    BY <1>13, LeaveBreaksOff, ConnectFailsGivesUp DEF TransportFails
  <2> QED
    BY <2>1 DEF Session!Next
<1>14. CASE Resume
  <2>1. CASE pc = "yield"
    <3>1. pc' = "recv" /\ leg' = leg /\ pending' = pending
      BY <1>14, <2>1 DEF Resume
    <3>2. Same
      BY <2>1, <3>1, HeldWhileOpen, HeldThen DEF PhaseNow, ExchangeNow, Number
    <3> QED
      BY <3>2
  <2>2. CASE pc = "tail"
    <3>1. leg' = leg /\ pc' = "close" /\ why' = "none" /\ link'[leg'] = "closing" /\ pending' = pending
      BY <1>2, <1>14, <2>2 DEF Resume, Leave, TypeOK
    <3>2. HeldNow = {Number(leg)} /\ HeldNow' = {Number(leg)} /\ leg = "play"
      BY <1>1, <1>2, <2>2, <3>1, HeldWhileOpen DEF Answers
    <3>3. Same
      BY <2>2, <3>1, <3>2 DEF PhaseNow, ExchangeNow, Number
    <3> QED
      BY <3>3
  <2> QED
    BY <1>14, <2>1, <2>2 DEF Resume
<1>15. CASE Close \/ Finalize
  <2>1. Session!BreakOff
    BY <1>2, <1>15, LeaveBreaksOff DEF Close, Finalize, Links
  <2> QED
    BY <2>1 DEF Session!Next
<1>16. CASE Drop
  BY <1>16 DEF Drop, PhaseNow, ExchangeNow, HeldNow, Number
<1>17. CASE Cancel
  <2>1. CASE pc \in {"prepare", "close"}
    <3>1. PhaseNow \in {"asking", "ending", "leaving"} /\ PhaseNow' = "off" /\ ExchangeNow' = 0
      BY <1>17, <2>1 DEF Cancel, ConnectFails, End, PhaseNow, ExchangeNow
    <3>2. HeldNow' = HeldNow /\ pending' = pending
      BY <1>1, <1>17, <2>1 DEF Cancel, ConnectFails, End
    <3>3. Session!GiveUp
      BY <3>1, <3>2 DEF Session!GiveUp
    <3> QED
      BY <3>3 DEF Session!Next
  <2>2. CASE pc \notin {"prepare", "close"}
    <3>1. Session!BreakOff \/ Session!GiveUp
      BY <1>17, <2>2, LeaveBreaksOff, ConnectFailsGivesUp DEF Cancel
    <3> QED
      BY <3>1 DEF Session!Next
  <2> QED
    BY <2>1, <2>2
<1>18. CASE Reap
  <2>1. /\ link[leg] = "closing" /\ link'[leg'] = "none" /\ pc \in {"off", "close"}
        /\ UNCHANGED <<pc, leg, why, pending>>
    BY <1>2, <1>18 DEF Reap, Links, TypeOK, Awaits
  <2>2. HeldNow # {} /\ HeldNow' = {}
    BY <1>1, <2>1
  <2>3. PhaseNow' = PhaseNow /\ PhaseNow # "media" /\ ExchangeNow' = ExchangeNow
    BY <2>1 DEF PhaseNow, ExchangeNow, Number
  <2>4. Session!SocketGone
    BY <2>1, <2>2, <2>3 DEF Session!SocketGone
  <2> QED
    BY <2>4 DEF Session!Next
<1> QED
  BY <1>4, <1>5, <1>6, <1>7, <1>8, <1>9, <1>10, <1>11, <1>12, <1>13, <1>14, <1>15,
     <1>16, <1>17, <1>18 DEF Next, Awaited, Consumer

\* Playback implements the abstract session: three exchanges in order on fresh sockets,
\* and only what came to its end and was given out is complete.
THEOREM Refinement == Spec => ImplementsSession
<1>1. Init => Session!Init
  <2> SUFFICES ASSUME Init PROVE Session!Init
    OBVIOUS
  <2>1. HeldNow = {}
    BY DEF Init, HeldNow
  <2>2. PhaseNow = "off" /\ ExchangeNow = 0 /\ pending = FALSE
    BY DEF Init, PhaseNow, ExchangeNow
  <2> QED
    BY <2>1, <2>2 DEF Session!Init
<1>2. IInv /\ IInv' /\ [Next]_vars => [Session!Next]_(Session!vars)
  BY SessionStep
<1> QED
  BY <1>1, <1>2, Invariance, PTL DEF Spec, ImplementsSession, Session!Spec
=============================================================================
