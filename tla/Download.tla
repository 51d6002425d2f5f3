------------------------------ MODULE Download -------------------------------
(***************************************************************************)
(* camera.py download(): the live stream is written chunk by chunk to a    *)
(* file by the executor's threads until the time is up.  Every file        *)
(* operation is a job (asyncio.to_thread) that the event loop waits for;   *)
(* cancelling the wait takes a queued job out of the queue, but a job that *)
(* a thread has taken goes on without anybody waiting for it.              *)
(*                                                                         *)
(* A chunk counts 1.  The file's contents are the chunks the BufferedWriter*)
(* accepted; its lock makes each write and the close one step of a thread. *)
(***************************************************************************)
EXTENDS Naturals

CONSTANTS
    MaxChunks,   \* bound: chunks the camera sends
    MaxCancels   \* bound: cancellations of the task that runs download()

ASSUME BoundAssumption == MaxChunks \in Nat /\ MaxCancels \in Nat

VARIABLES
    pc,        \* the await download() is suspended at
    stream,    \* the generator live()
    job,       \* [Jobs -> JobStates]: the latest job of each kind
    file,      \* the file behind fh
    recorded,  \* chunks in the file
    written,   \* the variable written
    cause,     \* why the pump stopped
    sent,      \* chunks the generator yielded
    cancels    \* cancellations of the task so far

vars == <<pc, stream, job, file, recorded, written, cause, sent, cancels>>

\* pull: in the pump, for the next chunk; write: in the pump, for fh.write;
\* unwind: for a generator cancelled inside; aclose: for aclosing; close: for fh.close.
Awaits == {"open", "pull", "write", "unwind", "aclose", "close", "done"}

StreamStates == {"none", "running", "suspended", "closing", "closed"}

Jobs == {"open", "write", "close"}
JobStates == {"none", "queued", "running", "done", "failed"}

Causes == {"none", "timeout", "error", "cancelled"}

TypeOK ==
    /\ pc \in Awaits
    /\ stream \in StreamStates
    /\ job \in [Jobs -> JobStates]
    /\ file \in {"none", "open", "closed"}
    /\ recorded \in 0..MaxChunks
    /\ written \in 0..MaxChunks
    /\ cause \in Causes
    /\ sent \in 0..MaxChunks
    /\ cancels \in 0..MaxCancels

Init ==
    /\ pc = "open"
    /\ stream = "none"
    /\ job = [j \in Jobs |-> IF j = "open" THEN "queued" ELSE "none"]
    /\ file = "none"
    /\ recorded = 0
    /\ written = 0
    /\ cause = "none"
    /\ sent = 0
    /\ cancels = 0

-----------------------------------------------------------------------------
(* The executor (external).                                                *)

Pending(j) == job[j] \in {"queued", "running"}

\* Future.cancel() of the executor: only a job no thread has taken is withdrawn.
Withdrawn(j) == IF job[j] = "queued" THEN [job EXCEPT ![j] = "none"] ELSE job

Take(j) ==
    /\ job[j] = "queued"
    /\ job' = [job EXCEPT ![j] = "running"]
    /\ UNCHANGED <<pc, stream, file, recorded, written, cause, sent, cancels>>

\* A file that is opened when nobody waits for it any more is closed with its handle.
OpenRuns ==
    /\ job["open"] = "running"
    /\ \/ /\ job' = [job EXCEPT !["open"] = "done"]
          /\ file' = IF pc = "open" THEN "open" ELSE "closed"
       \/ /\ job' = [job EXCEPT !["open"] = "failed"]
          /\ UNCHANGED file
    /\ UNCHANGED <<pc, stream, recorded, written, cause, sent, cancels>>

\* A write that comes after the close fails, and so may any other (a full disk).
WriteRuns ==
    /\ job["write"] = "running"
    /\ \/ /\ file = "open"
          /\ job' = [job EXCEPT !["write"] = "done"]
          /\ recorded' = recorded + 1
       \/ /\ job' = [job EXCEPT !["write"] = "failed"]
          /\ UNCHANGED recorded
    /\ UNCHANGED <<pc, stream, file, written, cause, sent, cancels>>

\* A close that fails to flush closes the file all the same.
CloseRuns ==
    /\ job["close"] = "running"
    /\ \E outcome \in {"done", "failed"} : job' = [job EXCEPT !["close"] = outcome]
    /\ file' = "closed"
    /\ UNCHANGED <<pc, stream, recorded, written, cause, sent, cancels>>

-----------------------------------------------------------------------------
(* download() and its pump.                                                *)

\* The finally block: the file is closed, whatever happened.
Finally(why) ==
    /\ pc' = "close"
    /\ cause' = why
    /\ job' = [job EXCEPT !["close"] = "queued"]

\* Faulty Leave: the suspended generator is left to the garbage collector.
LeaveSuspended(why, jobs) ==
    /\ pc' = "close"
    /\ cause' = why
    /\ job' = [jobs EXCEPT !["close"] = "queued"]
    /\ UNCHANGED stream

\* The pump is over while the generator waits at its yield: aclosing() closes it.
Leave(why, jobs) ==
    /\ stream' = "closing"
    /\ pc' = "aclose"
    /\ cause' = why
    /\ job' = jobs

\* fh is there: live() is created and the pump asks for the first chunk, unless the
\* time is up at once (seconds <= 0).
Opened ==
    /\ pc = "open"
    /\ job["open"] = "done"
    /\ \/ /\ pc' = "pull"
          /\ stream' = "running"
          /\ UNCHANGED <<job, cause>>
       \/ /\ stream' = "closed"
          /\ Finally("timeout")
    /\ UNCHANGED <<file, recorded, written, sent, cancels>>

\* There is nothing to clean up before the try.
OpenFails ==
    /\ pc = "open"
    /\ job["open"] = "failed"
    /\ pc' = "done"
    /\ cause' = "error"
    /\ UNCHANGED <<stream, job, file, recorded, written, sent, cancels>>

\* Faulty ChunkArrives: the chunk is counted before it is written.
ChunkCountedFirst ==
    /\ pc = "pull" /\ stream = "running"
    /\ sent < MaxChunks
    /\ sent' = sent + 1
    /\ stream' = "suspended"
    /\ pc' = "write"
    /\ written' = written + 1
    /\ job' = [job EXCEPT !["write"] = "queued"]
    /\ UNCHANGED <<file, recorded, cause, cancels>>

ChunkArrives ==
    /\ pc = "pull" /\ stream = "running"
    /\ sent < MaxChunks
    /\ sent' = sent + 1
    /\ stream' = "suspended"
    /\ pc' = "write"
    /\ job' = [job EXCEPT !["write"] = "queued"]
    /\ UNCHANGED <<file, recorded, written, cause, cancels>>

\* live() raises: it has released everything and the exception goes through.
StreamFails ==
    /\ pc = "pull" /\ stream = "running"
    /\ stream' = "closed"
    /\ Finally("error")
    /\ UNCHANGED <<file, recorded, written, sent, cancels>>

\* Faulty Written: the pump does not wait for the thread that writes.
WrittenUnawaited ==
    /\ pc = "write"
    /\ job["write"] \in {"running", "done"}
    /\ written' = written + 1
    /\ stream' = "running"
    /\ pc' = "pull"
    /\ UNCHANGED <<job, file, recorded, cause, sent, cancels>>

\* The pump counts the chunk and asks for the next one.
Written ==
    /\ pc = "write"
    /\ job["write"] = "done"
    /\ written' = written + 1
    /\ stream' = "running"
    /\ pc' = "pull"
    /\ UNCHANGED <<job, file, recorded, cause, sent, cancels>>

WriteFails ==
    /\ pc = "write"
    /\ job["write"] = "failed"
    /\ Leave("error", job)
    /\ UNCHANGED <<file, recorded, written, sent, cancels>>

\* CancelledError in the pump: inside the generator, which unwinds, or at the write,
\* whose result is dropped even if the thread has already delivered it.
Interrupt(why) ==
    \/ /\ pc = "pull"
       /\ stream' = "closing"
       /\ pc' = "unwind"
       /\ cause' = why
       /\ UNCHANGED job
    \/ /\ pc = "write"
       /\ Leave(why, Withdrawn("write"))

\* Faulty TimerExpires: the limit is for the first chunk only.
TimerExpiresAtFirst ==
    /\ sent = 0
    /\ Interrupt("timeout")
    /\ UNCHANGED <<file, recorded, written, sent, cancels>>

\* wait_for(timeout=seconds) cancels the pump and waits for it.
TimerExpires ==
    /\ Interrupt("timeout")
    /\ UNCHANGED <<file, recorded, written, sent, cancels>>

\* The generator, cancelled or closed, has released its links.
StreamClosed ==
    /\ stream = "closing"
    /\ stream' = "closed"
    /\ IF pc \in {"unwind", "aclose"}
       THEN Finally(cause)
       ELSE UNCHANGED <<pc, cause, job>>
    /\ UNCHANGED <<file, recorded, written, sent, cancels>>

\* The end: the count is returned if the time was up and the close succeeded.
Closed ==
    /\ pc = "close"
    /\ job["close"] \in {"done", "failed"}
    /\ pc' = "done"
    /\ cause' = IF job["close"] = "failed" THEN "error" ELSE cause
    /\ UNCHANGED <<stream, job, file, recorded, written, sent, cancels>>

\* The task that runs download() is cancelled at whatever await it is.  While
\* wait_for() already waits for the cancelled pump, or aclosing() for the generator,
\* the file's turn comes at once (Python 3.11) or after the generator.
Cancel ==
    /\ cancels < MaxCancels
    /\ cancels' = cancels + 1
    /\ \/ /\ pc = "open"
          /\ pc' = "done"
          /\ cause' = "cancelled"
          /\ job' = Withdrawn("open")
          /\ file' = IF job["open"] = "done" THEN "closed" ELSE file
          /\ UNCHANGED stream
       \/ /\ Interrupt("cancelled")
          /\ UNCHANGED file
       \/ /\ pc = "unwind"
          /\ Finally("cancelled")
          /\ UNCHANGED <<stream, file>>
       \/ /\ pc \in {"unwind", "aclose"}
          /\ cause' = "cancelled"
          /\ UNCHANGED <<pc, stream, job, file>>
       \/ /\ pc = "close"
          /\ pc' = "done"
          /\ cause' = "cancelled"
          /\ job' = Withdrawn("close")
          /\ UNCHANGED <<stream, file>>
    /\ UNCHANGED <<recorded, written, sent>>

Executor == (\E j \in Jobs : Take(j)) \/ OpenRuns \/ WriteRuns \/ CloseRuns

Loop ==
    \/ Opened \/ OpenFails \/ Written \/ WriteFails \/ StreamClosed \/ Closed

Next ==
    \/ Executor \/ Loop
    \/ ChunkArrives \/ StreamFails
    \/ TimerExpires
    \/ Cancel

Spec == Init /\ [][Next]_vars

\* The executor's threads take and finish their jobs, the event loop resumes what is
\* ready, a closing generator comes to its end (ReleaseSettles of LiveStream) and the
\* timer fires.  Nothing is assumed of the camera or of who cancels.
FairSpec ==
    /\ Spec
    /\ WF_vars(Executor)
    /\ WF_vars(Loop)
    /\ WF_vars(TimerExpires)

-----------------------------------------------------------------------------
(* Properties.                                                             *)

\* The number download() returns never exceeds what was recorded, and falls short of
\* it by at most the one chunk whose write was under way: a write the pump no longer
\* waits for, or one after the close, cannot add more.
CountIsLowerBound ==
    /\ written <= recorded
    /\ recorded <= written + 1
    /\ pc = "pull" => written = recorded

\* However download() ends, the generator is closed or closing on its own, and only
\* a cancellation that strikes while it waits for fh.close can leave the file open.
EndReleases ==
    [][(pc # "done" /\ pc' = "done") =>
          /\ stream' \in {"none", "closing", "closed"}
          /\ file' = "open" => pc = "close" /\ cancels' = cancels + 1]_vars

\* Once the file is open download() comes to its end, however silent the camera and
\* however slow a write, and the generator's links do not outlive it for ever.
TimeLimitHolds ==
    (file = "open") ~> (pc = "done" /\ stream \in {"none", "closed"})

\* How far the call is, seen from outside.
PhaseOf(await) ==
    CASE await = "open"              -> "opening"
      [] await \in {"pull", "write"} -> "recording"
      [] await = "done"              -> "over"
      [] OTHER                       -> "ending"

R == INSTANCE Recording WITH phase <- PhaseOf(pc), length <- recorded, counted <- written

\* camera.py, download: with its pump, its threads, the time limit and every cancellation it
\* is a Recording: a chunk is counted only after it was stored, nothing is counted after the
\* recording was told to end, and a closed file never grows.
ImplementsRecording == R!Spec

\* tests/test_download.py compares the number returned at the time limit with the
\* size of the file.
CountIsFileSize ==
    pc = "done" /\ cause = "timeout" => written = recorded
=============================================================================
