--------------------------- MODULE MCStreamingFs ---------------------------
(***************************************************************************)
(* The image streamer, and a restore request (RestorePipeline), checked in *)
(* one run.  They share no state: the variable turn says which of them a   *)
(* behaviour is about.                                                     *)
(***************************************************************************)
EXTENDS StreamingFs

VARIABLES
    turn,
    opt, at, dir, err, handler, image, tmp, stream, book, lock, gpu, pidKnown, io, criu, told,
    proc, job, hungUp

R == INSTANCE RestorePipeline WITH pc <- handler, ctxDone <- hungUp

restoreVars ==
    <<opt, at, dir, err, handler, image, tmp, stream, book, lock, gpu, pidKnown, io, criu, told,
      proc, job, hungUp>>
allVars == <<turn, vars, restoreVars>>

\* What is out of turn stays in one of its initial states.
MCInit ==
    /\ turn \in {"images", "restore"}
    /\ Init /\ R!Init
    /\ turn # "images" => mode = "read" /\ store = "local"
    /\ turn # "restore" => opt = CHOOSE o \in R!Options : ~o.managed /\ ~o.attachable /\ ~o.gpu
                                                          /\ ~o.gpuID

MCNext ==
    /\ UNCHANGED turn
    /\ \/ turn = "images" /\ Next /\ UNCHANGED restoreVars
       \/ turn = "restore" /\ R!Next /\ UNCHANGED vars

\* The fairness of each component, in its turn.
Images(A) == turn = "images" /\ A /\ UNCHANGED <<turn, restoreVars>>
Restore(A) == turn = "restore" /\ A /\ UNCHANGED <<turn, vars>>

MCFairness ==
    /\ WF_allVars(Images(Request)) /\ WF_allVars(Images(Streamer)) /\ WF_allVars(Images(Watchers))
    /\ \A i \in Shards : WF_allVars(Images(Goroutine(i))) /\ WF_allVars(Images(Upload(i)))
    /\ WF_allVars(Images(ctxDone /\ StreamerDies)) /\ WF_allVars(Images(pc = "failed" /\ Cancel))
    /\ WF_allVars(Restore(R!Daemon)) /\ WF_allVars(Restore(R!GPURestore))
    /\ WF_allVars(Restore(R!CriuTurn))
    /\ WF_allVars(Restore((told = "hangup" \/ hungUp \/ criu = "success") /\ R!CriuFails))

MCSpec == MCInit /\ [][MCNext]_allVars /\ MCFairness

\* A shard that fills its pipe and needs a second round, and an empty one.
MCSize == <<2, 0>>

-----------------------------------------------------------------------------
\* A restore request succeeds only if process, GPU, controller, I/O slave and job are
\* all in place, the process goes on only when its GPU is restored, and a failed
\* request leaves a process only if it failed after the restore itself (Restore,
\* ManageRestore, SetupIO, PreResume).
AnswerRight == R!AnswerRight

\* After a restore request no temporary directory, lock, booking, streamer or CRIU is
\* left, but for a directory whose chmod failed, and the checkpoint is removed only
\* when its directory cannot be opened (RestoreFilesystem).
CleanedUp == R!CleanedUp

\* A restore request returns, unless the handler waits for a process that lives
\* on (p.Wait after a failed restore).
RestoreReturns == turn = "restore" => R!RestoreReturns
=============================================================================
