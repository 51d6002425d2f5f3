--------------------------- MODULE DownloadProofs ----------------------------
(***************************************************************************)
(* Theorems about Download for any number of chunks and cancellations.     *)
(***************************************************************************)
EXTENDS Download, TLAPS

-----------------------------------------------------------------------------
(* The inductive invariant.                                                *)

\* What the generator and the jobs can be at each await.
Phases ==
    /\ pc = "open" => stream = "none" /\ job["write"] = "none" /\ job["close"] = "none"
    /\ pc = "pull" => stream = "running"
    /\ pc = "write" => stream = "suspended"
    /\ pc \in {"unwind", "aclose"} => stream = "closing"
    /\ pc = "close" => stream \in {"closing", "closed"}
    /\ pc = "done" => stream \in {"none", "closing", "closed"}
    /\ pc \in {"pull", "write", "unwind", "aclose"} => job["close"] = "none"

\* The file is open from the end of the first job to that of the last.
FileFollowsJobs ==
    /\ pc = "open" => file = IF job["open"] = "done" THEN "open" ELSE "none"
    /\ pc \notin {"open", "done"} => job["open"] = "done"
    /\ job["close"] \in {"done", "failed"} => file = "closed"

\* How far the count is behind the file: by the chunk whose write was done and whose
\* result the pump has not seen yet, or never will.
CountFollowsJob ==
    /\ recorded \in {written, written + 1}
    /\ job["write"] # "done" => recorded = written
    /\ pc = "pull" => recorded = written /\ ~ Pending("write")
    /\ pc = "write" /\ job["write"] = "done" => recorded = written + 1
    /\ recorded <= sent
    /\ Pending("write") => recorded < sent

IInv == TypeOK /\ Phases /\ FileFollowsJobs /\ CountFollowsJob

USE BoundAssumption

LEMMA InitInvariant == Init => IInv
  BY DEF Init, IInv, TypeOK, Phases, FileFollowsJobs, CountFollowsJob, Awaits, StreamStates,
         Jobs, JobStates, Causes, Pending

-----------------------------------------------------------------------------
(* The steps.                                                              *)

LEMMA StepInvariant == IInv /\ [Next]_vars => IInv'
<1> SUFFICES ASSUME IInv, [Next]_vars PROVE IInv'
  OBVIOUS
<1> USE DEF IInv, TypeOK, Phases, FileFollowsJobs, CountFollowsJob, Pending, Awaits,
            StreamStates, Jobs, JobStates, Causes
<1>1. CASE Opened
  BY <1>1 DEF Opened, Finally
<1>2. CASE OpenFails
  BY <1>2 DEF OpenFails
<1>3. CASE Written
  BY <1>3 DEF Written
<1>4. CASE WriteFails
  BY <1>4 DEF WriteFails, Leave
<1>5. CASE StreamClosed
  BY <1>5 DEF StreamClosed, Finally
<1>6. CASE Closed
  BY <1>6 DEF Closed
<1>7. CASE ChunkArrives
  BY <1>7 DEF ChunkArrives
<1>8. CASE StreamFails
  BY <1>8 DEF StreamFails, Finally
<1>9. CASE OpenRuns
  BY <1>9 DEF OpenRuns
<1>10. CASE WriteRuns
  BY <1>10 DEF WriteRuns
<1>11. CASE CloseRuns
  BY <1>11 DEF CloseRuns
<1>12. ASSUME NEW j \in Jobs, Take(j) PROVE IInv'
  BY <1>12 DEF Take
<1>13. CASE TimerExpires
  BY <1>13 DEF TimerExpires, Interrupt, Leave, Withdrawn
<1>14. CASE Cancel
  <2>1. CASE pc = "open"
    BY <1>14, <2>1 DEF Cancel, Interrupt, Withdrawn, Finally
  <2>2. CASE pc \in {"pull", "write"}
    BY <1>14, <2>2 DEF Cancel, Interrupt, Leave, Withdrawn, Finally
  <2>3. CASE pc \in {"unwind", "aclose"}
    BY <1>14, <2>3 DEF Cancel, Interrupt, Withdrawn, Finally
  <2>4. CASE pc = "close"
    BY <1>14, <2>4 DEF Cancel, Interrupt, Withdrawn, Finally
  <2> QED
    BY <1>14, <2>1, <2>2, <2>3, <2>4 DEF Cancel, Interrupt
<1>15. CASE UNCHANGED vars
  BY <1>15 DEF vars
<1> QED
  BY <1>1, <1>2, <1>3, <1>4, <1>5, <1>6, <1>7, <1>8, <1>9, <1>10, <1>11, <1>12, <1>13, <1>14, <1>15 DEF Next, Executor, Loop

-----------------------------------------------------------------------------
(* The theorems.                                                           *)

\* The invariant holds in every reachable state.
THEOREM Invariance == Spec => []IInv
<1> QED
  BY InitInvariant, StepInvariant, PTL DEF Spec

\* Every reachable state is well typed: in particular neither count ever exceeds the chunks
\* the generator yielded.
THEOREM TypeCorrect == Spec => []TypeOK
<1>1. IInv => TypeOK
  BY DEF IInv
<1> QED
  BY <1>1, Invariance, PTL

\* What download() returns is a lower bound of what is in the file, one chunk short
\* at most, for any number of chunks and cancellations.
THEOREM CountSound == Spec => []CountIsLowerBound
<1>1. IInv => CountIsLowerBound
  BY DEF IInv, TypeOK, CountFollowsJob, CountIsLowerBound
<1> QED
  BY <1>1, Invariance, PTL

\* However download() ends, it leaves the generator closed or closing and, unless it is
\* cancelled in its very last await, the file closed.
THEOREM EndsClean == Spec => EndReleases
<1>1. ASSUME IInv, [Next]_vars, pc # "done", pc' = "done"
      PROVE  /\ stream' \in {"none", "closing", "closed"}
             /\ file' = "open" => pc = "close" /\ cancels' = cancels + 1
  <2>1. OpenFails \/ Closed \/ Cancel
    BY <1>1 DEF Next, Executor, Loop, vars, Take, OpenRuns, WriteRuns, CloseRuns, Opened, Written,
           WriteFails, Leave, StreamClosed, Finally, ChunkArrives, StreamFails, TimerExpires,
           Interrupt
  <2>2. CASE OpenFails
    BY <1>1, <2>2 DEF OpenFails, IInv, Phases, FileFollowsJobs
  <2>3. CASE Closed
    BY <1>1, <2>3 DEF Closed, IInv, Phases, FileFollowsJobs
  <2>4. CASE Cancel
    BY <1>1, <2>4 DEF Cancel, Interrupt, Leave, Finally, IInv, Phases, FileFollowsJobs
  <2> QED
    BY <2>1, <2>2, <2>3, <2>4
<1>2. IInv /\ [Next]_vars =>
         [(pc # "done" /\ pc' = "done") =>
             /\ stream' \in {"none", "closing", "closed"}
             /\ file' = "open" => pc = "close" /\ cancels' = cancels + 1]_vars
  BY <1>1
<1> QED
  BY <1>2, Invariance, PTL DEF Spec, EndReleases

-----------------------------------------------------------------------------
(* The refinement.                                                         *)

LEMMA RefinesInit == Init => R!Init
  BY DEF Init, R!Init, PhaseOf

\* Every step is one of the recording, or none.
LEMMA RefinesStep == IInv /\ [Next]_vars => [R!Next]_R!vars
<1> SUFFICES ASSUME IInv, [Next]_vars PROVE [R!Next]_R!vars
  OBVIOUS
<1> USE DEF PhaseOf, R!vars
<1>1. CASE Opened
  <2>1. file = "open"
    BY <1>1 DEF Opened, IInv, FileFollowsJobs
  <2>2. R!Begin
    BY <1>1, <2>1 DEF Opened, Finally, R!Begin
  <2> QED
    BY <2>2 DEF R!Next
<1>2. CASE OpenFails
  <2>1. R!Abandon
    BY <1>2 DEF OpenFails, IInv, FileFollowsJobs, R!Abandon
  <2> QED
    BY <2>1 DEF R!Next
<1>3. CASE Written
  <2>1. recorded = written + 1
    BY <1>3 DEF Written, IInv, CountFollowsJob
  <2>2. R!Count
    BY <1>3, <2>1 DEF Written, R!Count
  <2> QED
    BY <2>2 DEF R!Next
<1>4. CASE WriteFails
  <2>1. R!Stop
    BY <1>4 DEF WriteFails, Leave, R!Stop
  <2> QED
    BY <2>1 DEF R!Next
<1>5. CASE StreamClosed
  BY <1>5 DEF StreamClosed, Finally
<1>6. CASE Closed
  <2>1. R!End
    BY <1>6 DEF Closed, R!End
  <2> QED
    BY <2>1 DEF R!Next
<1>7. CASE ChunkArrives
  BY <1>7 DEF ChunkArrives
<1>8. CASE StreamFails
  <2>1. R!Stop
    BY <1>8 DEF StreamFails, Finally, R!Stop
  <2> QED
    BY <2>1 DEF R!Next
<1>9. CASE OpenRuns
  \* Either for the call that waits, or for one that was cancelled.
  <2>1. CASE pc = "open"
    <3>1. R!OpenFile \/ UNCHANGED R!vars
      BY <1>9, <2>1 DEF OpenRuns, IInv, FileFollowsJobs, R!OpenFile
    <3> QED
      BY <3>1 DEF R!Next
  <2>2. CASE pc # "open"
    <3>1. pc = "done"
      BY <1>9, <2>2 DEF OpenRuns, IInv, FileFollowsJobs
    <3>2. R!Close \/ UNCHANGED R!vars
      BY <1>9, <3>1 DEF OpenRuns, R!Close
    <3> QED
      BY <3>2 DEF R!Next
  <2> QED
    BY <2>1, <2>2
<1>10. CASE WriteRuns
  <2>1. pc # "open" /\ recorded = written
    BY <1>10 DEF WriteRuns, IInv, Phases, CountFollowsJob
  <2>2. PhaseOf(pc) # "opening"
    BY <2>1
  <2>3. R!Store \/ UNCHANGED R!vars
    BY <1>10, <2>1, <2>2 DEF WriteRuns, R!Store
  <2> QED
    BY <2>3 DEF R!Next
<1>11. CASE CloseRuns
  <2>1. pc \in {"close", "done"}
    BY <1>11 DEF CloseRuns, IInv, TypeOK, Awaits, Phases
  <2>2. R!Close
    BY <1>11, <2>1 DEF CloseRuns, R!Close
  <2> QED
    BY <2>2 DEF R!Next
<1>12. ASSUME NEW j \in Jobs, Take(j) PROVE UNCHANGED R!vars
  BY <1>12 DEF Take
<1>13. CASE TimerExpires
  <2>1. R!Stop
    BY <1>13 DEF TimerExpires, Interrupt, Leave, R!Stop
  <2> QED
    BY <2>1 DEF R!Next
<1>14. CASE Cancel
  <2>1. CASE pc = "open"
    <3>1. R!Abandon
      BY <1>14, <2>1 DEF Cancel, Interrupt, IInv, FileFollowsJobs, R!Abandon
    <3> QED
      BY <3>1 DEF R!Next
  <2>2. CASE pc \in {"pull", "write"}
    <3>1. R!Stop
      BY <1>14, <2>2 DEF Cancel, Interrupt, Leave, R!Stop
    <3> QED
      BY <3>1 DEF R!Next
  <2>3. CASE pc \in {"unwind", "aclose"}
    BY <1>14, <2>3 DEF Cancel, Interrupt, Finally
  <2>4. CASE pc = "close"
    <3>1. R!End
      BY <1>14, <2>4 DEF Cancel, Interrupt, R!End
    <3> QED
      BY <3>1 DEF R!Next
  <2> QED
    BY <1>14, <2>1, <2>2, <2>3, <2>4 DEF Cancel, Interrupt
<1>15. CASE UNCHANGED vars
  BY <1>15 DEF vars
<1> QED
  BY <1>1, <1>2, <1>3, <1>4, <1>5, <1>6, <1>7, <1>8, <1>9, <1>10, <1>11, <1>12, <1>13, <1>14, <1>15
     DEF Next, Executor, Loop

\* download() implements the abstract recording, for any number of chunks and cancellations.
THEOREM Refinement == Spec => ImplementsRecording
<1> QED
  BY RefinesInit, RefinesStep, Invariance, PTL DEF Spec, ImplementsRecording, R!Spec

=============================================================================
