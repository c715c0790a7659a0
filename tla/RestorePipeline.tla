-------------------------- MODULE RestorePipeline --------------------------
(***************************************************************************)
(* One restore request, from Server.Restore (internal/cedana/restore.go)   *)
(* through its chain of adapters to the CRIU handler and back.             *)
(*                                                                         *)
(* An adapter runs on the way in, may refuse, and has what it deferred run *)
(* on the way out: the job, the temporary directory or the streaming       *)
(* filesystem, the GPU controller and the IO slave are taken in this order *)
(* and must be given back in the opposite one.  At the bottom, CRIU        *)
(* reports its progress by notifications, and the GPU is restored by a     *)
(* goroutine beside it (pkg/criu/criu.go, gpu/controller.go); the process  *)
(* may not go on before the GPU is restored.                               *)
(***************************************************************************)
EXTENDS Integers, Sequences

VARIABLES
    opt,       \* what the request asks for and the checkpoint is
    at,        \* the adapter that runs, as an index into Stages
    dir,       \* "in", or "out" on the way back
    err,       \* the error that is being returned: "none" or its origin
    pc,        \* inside the handler
    image,     \* the checkpoint exists
    tmp,       \* a temporary directory exists
    stream,    \* the streaming filesystem: "off", "open" or "waited"
    book,      \* the GPU controller's booking: "none", "open", "pid" or "closed"
    lock,      \* the controller's Termination lock is held
    gpu,       \* the GPU restore: "off", "running", "ok" or "failed"
    pidKnown,  \* restoredPid is set
    io,        \* the IO slave: "off", "on" or "named"
    criu,      \* the CRIU process: "off", an event it has come to, or "dead"
    told,      \* the event it waits for a reply to, or "none"
    proc,      \* the process: "none", "made", "running", "left" or "dead"
    job,       \* "off", "got", "managed" or "cancelled"
    ctxDone

taken == <<image, tmp, stream, book, io, job>>
handler == <<pc, lock, gpu, pidKnown, criu, told, proc>>
vars == <<opt, at, dir, err, taken, handler, ctxDone>>

Stages == <<"criu", "job", "defaults", "storage", "fs", "state", "gpu", "inherit", "io",
            "check", "handler">>

Options ==
    [source : {"directory", "tarball", "streamed", "streamedRemote"}, managed : BOOLEAN,
     attachable : BOOLEAN, gpu : BOOLEAN, gpuID : BOOLEAN, namespaces : BOOLEAN, child : BOOLEAN]

\* An attachable restore is always managed.  child: the PID in the checkpoint is
\* that of a living child of the daemon, which a job's restore has ruled out.
Init ==
    /\ opt \in {o \in Options : /\ o.attachable => o.managed
                                /\ o.gpuID => o.gpu
                                /\ o.child => ~o.managed}
    /\ at = 1 /\ dir = "in" /\ err = "none" /\ pc = "off"
    /\ image = TRUE /\ tmp = FALSE /\ stream = "off" /\ book = "none" /\ lock = FALSE
    /\ gpu = "off" /\ pidKnown = FALSE /\ io = "off" /\ criu = "off" /\ told = "none"
    /\ proc = "none" /\ job = "off" /\ ctxDone = FALSE

-----------------------------------------------------------------------------
(* The way in *)

In(s) == dir = "in" /\ at \in 1..Len(Stages) /\ Stages[at] = s
Out(s) == dir = "out" /\ at \in 1..Len(Stages) /\ Stages[at] = s

Call == at' = at + 1 /\ UNCHANGED <<dir, err>>
Back(e) == at' = at - 1 /\ dir' = "out" /\ err' = e
Refuse == Back("refused")

\* Adapters that take nothing go on to the next or refuse.
Passes(s) ==
    /\ In(s)
    /\ Call \/ Refuse
    /\ UNCHANGED <<opt, taken, handler, ctxDone>>

NewCriu == Passes("criu")
ValidateRestoreRequest == Passes("defaults")
PluginRestoreStorage == Passes("storage")
ReloadProcessStateForRestore == Passes("state")
InheritFilesForRestore == Passes("inherit")
CheckOptsForRestore == Passes("check")

ManageRestoreIn ==
    /\ In("job")
    /\ \/ ~opt.managed /\ Call /\ UNCHANGED job
       \/ opt.managed /\ Call /\ job' = "got"
       \/ opt.managed /\ Refuse /\ UNCHANGED job
    /\ UNCHANGED <<opt, image, tmp, stream, book, io, handler, ctxDone>>

\* A local directory is used as it is; when it cannot be opened it is removed.
\* Anything else is unpacked into a temporary directory, which a failure of the
\* chmod leaves behind and any other failure does not.
RestoreFilesystem ==
    /\ In("fs") /\ opt.source \in {"directory", "tarball"}
    /\ \/ Call /\ tmp' = (opt.source = "tarball") /\ UNCHANGED image
       \/ Refuse /\ UNCHANGED <<tmp, image>>
       \/ opt.source = "directory" /\ Back("open") /\ image' = FALSE /\ UNCHANGED tmp
       \/ opt.source = "tarball" /\ Back("chmod") /\ tmp' = TRUE /\ UNCHANGED image
    /\ UNCHANGED <<opt, stream, book, io, job, handler, ctxDone>>

StreamRestoreFilesystem ==
    /\ In("fs") /\ opt.source \in {"streamed", "streamedRemote"}
    /\ \/ /\ Call /\ tmp' = (opt.source = "streamedRemote") /\ stream' = "open"
          /\ UNCHANGED image
       \/ Refuse /\ UNCHANGED <<tmp, stream, image>>
       \/ /\ opt.source = "streamed" /\ Back("open") /\ image' = FALSE
          /\ UNCHANGED <<tmp, stream>>
    /\ UNCHANGED <<opt, book, io, job, handler, ctxDone>>

\* gpu.Restore: sync, and attach a controller unless the request names one.
GPURestoreIn ==
    /\ In("gpu")
    /\ \/ ~opt.gpu /\ Call /\ UNCHANGED book
       \/ opt.gpu /\ Call /\ book' = IF opt.gpuID THEN "none" ELSE "open"
       \/ opt.gpu /\ Refuse /\ UNCHANGED book
    /\ UNCHANGED <<opt, image, tmp, stream, io, job, handler, ctxDone>>

SetupIOIn ==
    /\ In("io")
    /\ Call /\ io' = IF opt.attachable THEN "on" ELSE "off"
    /\ UNCHANGED <<opt, image, tmp, stream, book, job, handler, ctxDone>>

-----------------------------------------------------------------------------
(* The way out *)

PassOut ==
    /\ \E s \in {"criu", "defaults", "storage", "state", "inherit", "check"} : Out(s)
    /\ Back(err)
    /\ UNCHANGED <<opt, taken, handler, ctxDone>>

\* The deferred part of SetupIO gives the slave its exit code and PID.
SetupIOOut ==
    /\ Out("io") /\ Back(err)
    /\ io' = IF io = "on" /\ err = "none" THEN "named" ELSE io
    /\ UNCHANGED <<opt, image, tmp, stream, book, job, handler, ctxDone>>

\* The PID is sent to the goroutine that Attach started; or the channel is
\* closed without it, and the goroutine frees the controller.
GPURestoreOut ==
    /\ Out("gpu") /\ Back(err)
    /\ book' = IF book # "open" THEN book ELSE IF err = "none" THEN "pid" ELSE "closed"
    /\ UNCHANGED <<opt, image, tmp, stream, io, job, handler, ctxDone>>

\* The deferred waitForIO, whose error fails the request; then RemoveAll.
FilesystemOut ==
    /\ Out("fs")
    /\ stream' = IF stream = "open" THEN "waited" ELSE stream
    /\ tmp' = FALSE
    /\ \/ Back(err)
       \/ stream = "open" /\ Back(IF err = "none" THEN "io" ELSE err)
    /\ UNCHANGED <<opt, image, book, io, job, handler, ctxDone>>

\* The job manages the process; if it refuses, or on an error, its lifetime is
\* cancelled.
ManageRestoreOut ==
    /\ Out("job")
    /\ \/ job # "got" /\ Back(err) /\ UNCHANGED job
       \/ job = "got" /\ err # "none" /\ Back(err) /\ job' = "cancelled"
       \/ job = "got" /\ err = "none" /\ Back("none") /\ job' = "managed"
       \/ job = "got" /\ err = "none" /\ Back("manage") /\ job' = "cancelled"
    /\ UNCHANGED <<opt, image, tmp, stream, book, io, handler, ctxDone>>

-----------------------------------------------------------------------------
(* The handler: Restore of criu/restore_handlers.go *)

Step(p) == pc' = p /\ UNCHANGED <<at, dir>>

\* The version of CRIU and the ownership of the images; then Prepare starts
\* CRIU.  A failure of Prepare is one of Criu.Restore already.
Start ==
    /\ In("handler") /\ pc = "off"
    /\ \/ Back("refused") /\ UNCHANGED <<pc, criu>>
       \/ Step("init") /\ criu' = "started" /\ UNCHANGED err
       \/ Step("reap") /\ err' = "criu" /\ UNCHANGED criu
    /\ UNCHANGED <<opt, taken, lock, gpu, pidKnown, told, proc, ctxDone>>

\* InitializeRestore: without a controller nothing is deferred but Cleanup.
InitializeRestore ==
    /\ pc = "init"
    /\ \/ Step("serve") /\ lock' = opt.gpu /\ UNCHANGED err
       \/ opt.gpu /\ Step("cleanup") /\ err' = "criu" /\ UNCHANGED lock
    /\ UNCHANGED <<opt, taken, gpu, pidKnown, criu, told, proc, ctxDone>>

Reply == told' = "none"

\* PreRestore starts the GPU restore beside CRIU's.
PreRestore ==
    /\ pc = "serve" /\ told = "preRestore"
    /\ gpu' = IF opt.gpu THEN "running" ELSE gpu
    /\ Reply
    /\ UNCHANGED <<opt, at, dir, err, taken, pc, lock, pidKnown, criu, proc, ctxDone>>

\* SkipNamespaces or PostRestore: tell the controller the PID.
PostRestore ==
    /\ pc = "serve" /\ told \in {"skipNamespaces", "postRestore"}
    /\ pidKnown' = opt.gpu
    /\ \/ Reply /\ UNCHANGED <<pc, at, dir, err>>
       \/ opt.gpu /\ Step("final") /\ err' = "criu" /\ UNCHANGED told
    /\ UNCHANGED <<opt, taken, lock, gpu, criu, proc, ctxDone>>

\* kill(restoredPid, SIGKILL)
Killed(p) == IF pidKnown /\ p # "none" THEN "dead" ELSE p

\* Mutant: PreResume does not wait for the GPU.
PreResume_NoWait ==
    /\ pc = "serve" /\ told = "preResume"
    /\ Reply /\ UNCHANGED <<pc, at, dir, err, proc>>
    /\ UNCHANGED <<opt, taken, lock, gpu, pidKnown, criu, ctxDone>>

\* PreResume waits for the GPU restore; when that failed, it kills the process
\* and leaves CRIU without a reply.
PreResume ==
    /\ pc = "serve" /\ told = "preResume" /\ gpu # "running"
    /\ IF gpu = "failed"
       THEN Step("final") /\ err' = "criu" /\ proc' = Killed(proc) /\ UNCHANGED told
       ELSE Reply /\ UNCHANGED <<pc, at, dir, err, proc>>
    /\ UNCHANGED <<opt, taken, lock, gpu, pidKnown, criu, ctxDone>>

\* CRIU's last message, or no message from CRIU any more.
Response ==
    /\ pc = "serve" /\ (told \in {"success", "failure"} \/ (told = "none" /\ criu = "dead"))
    /\ Step("final") /\ err' = (IF told = "success" THEN "none" ELSE "criu")
    /\ UNCHANGED <<opt, taken, lock, gpu, pidKnown, criu, told, proc, ctxDone>>

\* Mutant: the controller's lock is kept when CRIU failed.
FinalizeRestore_KeepsLock ==
    /\ pc = "final" /\ ((opt.gpu /\ err = "none") => gpu # "running")
    /\ LET bad == err # "none" \/ gpu = "failed" IN
       /\ proc' = IF opt.gpu /\ gpu # "off" /\ bad THEN Killed(proc) ELSE proc
       /\ lock' = (lock /\ bad)
       /\ Step("cleanup") /\ err' = IF opt.gpu /\ bad THEN "criu" ELSE err
    /\ UNCHANGED <<opt, taken, gpu, pidKnown, criu, told, ctxDone>>

\* FinalizeRestore waits for the GPU restore unless CRIU has failed, kills the
\* process if either failed, and unlocks the controller.
FinalizeRestore ==
    /\ pc = "final" /\ ((opt.gpu /\ err = "none") => gpu # "running")
    /\ LET bad == err # "none" \/ gpu = "failed" IN
       /\ proc' = IF opt.gpu /\ gpu # "off" /\ bad THEN Killed(proc) ELSE proc
       /\ lock' = FALSE
       /\ Step("cleanup") /\ err' = IF opt.gpu /\ bad THEN "criu" ELSE err
    /\ UNCHANGED <<opt, taken, gpu, pidKnown, criu, told, ctxDone>>

\* Mutant: the socket stays open.
Cleanup_NoHangup ==
    /\ pc = "cleanup"
    /\ criu = "dead" /\ Step(IF err = "none" THEN "ok" ELSE "reap") /\ UNCHANGED told
    /\ UNCHANGED <<opt, err, taken, lock, gpu, pidKnown, criu, proc, ctxDone>>

\* Cleanup hangs up on CRIU and waits for it to exit.
Cleanup ==
    /\ pc = "cleanup"
    /\ \/ criu # "dead" /\ told' = "hangup" /\ UNCHANGED <<pc, at, dir>>
       \/ criu = "dead" /\ Step(IF err = "none" THEN "ok" ELSE "reap") /\ UNCHANGED told
    /\ UNCHANGED <<opt, err, taken, lock, gpu, pidKnown, criu, proc, ctxDone>>

\* After a failure, wait for the process with the checkpoint's PID: at once if
\* it is dead or not a child, otherwise until it exits.
Reap ==
    /\ pc = "reap" /\ ~opt.child /\ proc \in {"none", "dead"}
    /\ pc' = "done" /\ Back(err)
    /\ UNCHANGED <<opt, taken, lock, gpu, pidKnown, criu, told, proc, ctxDone>>

\* On success a goroutine waits for the process to exit.
Succeed ==
    /\ pc = "ok"
    /\ pc' = "done" /\ Back("none")
    /\ UNCHANGED <<opt, taken, lock, gpu, pidKnown, criu, told, proc, ctxDone>>

Daemon ==
    \/ NewCriu \/ ValidateRestoreRequest \/ PluginRestoreStorage \/ ReloadProcessStateForRestore
    \/ InheritFilesForRestore \/ CheckOptsForRestore
    \/ ManageRestoreIn \/ RestoreFilesystem \/ StreamRestoreFilesystem \/ GPURestoreIn
    \/ SetupIOIn \/ PassOut \/ SetupIOOut \/ GPURestoreOut \/ FilesystemOut \/ ManageRestoreOut
    \/ Start \/ InitializeRestore \/ PreRestore \/ PostRestore \/ PreResume \/ Response
    \/ FinalizeRestore \/ Cleanup \/ Reap \/ Succeed

-----------------------------------------------------------------------------
(* The GPU controller, CRIU, the process and the client *)

\* The controller finishes, or fails: by itself, on a timeout, when it is
\* terminated, or because the request was cancelled.
GPURestore ==
    /\ gpu = "running" /\ gpu' \in {"ok", "failed"}
    /\ UNCHANGED <<opt, at, dir, err, taken, pc, lock, pidKnown, criu, told, proc, ctxDone>>

\* CRIU goes from event to event, each of which waits for the daemon's reply.
CriuTurn ==
    /\ pc = "serve" /\ told = "none"
    /\ \/ criu = "started" /\ criu' = "preRestore" /\ UNCHANGED proc
       \/ /\ criu = "preRestore" /\ proc' = "made"
          /\ criu' = IF opt.namespaces THEN "postRestore" ELSE "skipNamespaces"
       \/ criu \in {"postRestore", "skipNamespaces"} /\ criu' = "preResume" /\ UNCHANGED proc
       \/ criu = "preResume" /\ criu' = "success" /\ proc' = (IF proc = "made" THEN "running" ELSE proc)
    /\ told' = criu'
    /\ UNCHANGED <<opt, at, dir, err, taken, pc, lock, gpu, pidKnown, ctxDone>>

\* CRIU fails: it says so, or it dies, or it is hung up on.  The process it made
\* may be left behind; one that is running goes on.
CriuFails ==
    /\ criu \notin {"off", "dead"}
    /\ \/ told = "none" /\ criu \notin {"success", "failure"}
          /\ told' = "failure" /\ criu' = "failure"
       \/ criu' = "dead" /\ told' = IF told = "hangup" THEN "none" ELSE told
    /\ proc' \in IF proc = "made" THEN {"left", "dead"} ELSE {proc}
    /\ UNCHANGED <<opt, at, dir, err, taken, pc, lock, gpu, pidKnown, ctxDone>>

Exit ==
    /\ proc \in {"running", "left"} /\ proc' = "dead"
    /\ UNCHANGED <<opt, at, dir, err, taken, pc, lock, gpu, pidKnown, criu, told, ctxDone>>

\* The client hangs up: CRIU is killed with the context.
Cancel ==
    /\ ~ctxDone /\ at > 0 /\ ctxDone' = TRUE
    /\ UNCHANGED <<opt, at, dir, err, taken, handler>>

-----------------------------------------------------------------------------
Over == at = 0

Next ==
    \/ Daemon \/ GPURestore \/ CriuTurn \/ CriuFails \/ Exit \/ Cancel
    \/ (Over \/ pc = "reap") /\ UNCHANGED vars

Spec == Init /\ [][Next]_vars

\* The daemon, the GPU restore (which has a timeout) and CRIU go on; CRIU exits
\* when it is hung up on or its context is cancelled.
Fairness ==
    /\ WF_vars(Daemon) /\ WF_vars(GPURestore) /\ WF_vars(CriuTurn)
    /\ WF_vars((told = "hangup" \/ ctxDone \/ criu = "success") /\ CriuFails)

FairSpec == Spec /\ Fairness

-----------------------------------------------------------------------------
(* Properties *)

\* Every variable has its type.
TypeOK ==
    /\ opt \in Options /\ at \in 0..Len(Stages) /\ dir \in {"in", "out"}
    /\ err \in {"none", "refused", "open", "chmod", "criu", "io", "manage"}
    /\ pc \in {"off", "init", "serve", "final", "cleanup", "reap", "ok", "done"}
    /\ image \in BOOLEAN /\ tmp \in BOOLEAN /\ stream \in {"off", "open", "waited"}
    /\ book \in {"none", "open", "pid", "closed"} /\ lock \in BOOLEAN
    /\ gpu \in {"off", "running", "ok", "failed"} /\ pidKnown \in BOOLEAN
    /\ io \in {"off", "on", "named"} /\ job \in {"off", "got", "managed", "cancelled"}
    /\ criu \in {"off", "started", "preRestore", "postRestore", "skipNamespaces", "preResume",
                 "success", "failure", "dead"}
    /\ told \in {"none", "preRestore", "postRestore", "skipNamespaces", "preResume", "success",
                 "failure", "hangup"}
    /\ proc \in {"none", "made", "running", "left", "dead"} /\ ctxDone \in BOOLEAN

\* A restored process goes on only when its GPU is restored: PreResume holds
\* CRIU until the goroutine that PreRestore started is done.
GPUBeforeResume == (proc = "running" /\ opt.gpu) => gpu = "ok"

\* The request succeeds only if the process was restored, its GPU with it, the
\* controller was told the PID, the slave renamed and the job managed.
SuccessIsRestored ==
    (Over /\ err = "none") =>
        /\ proc \in {"running", "dead"} /\ criu = "dead"
        /\ opt.gpu => gpu = "ok" /\ (~opt.gpuID => book = "pid")
        /\ opt.managed => job = "managed"
        /\ opt.attachable => io = "named"

\* After the request nothing is held: no temporary directory but one whose
\* chmod failed, no lock of the controller, no open booking, no streamer, no
\* CRIU; and a booking that did not lead to a process was given up.
NothingHeld ==
    Over =>
        /\ tmp => err = "chmod"
        /\ ~lock /\ book # "open" /\ stream # "open" /\ criu \in {"off", "dead"}
        /\ job # "got"
        /\ book = "pid" => pc = "done"

\* A failed request leaves a running process behind only if the process was
\* restored and then the streaming of the images or the job manager failed.
FailureLeavesNothing ==
    (Over /\ proc \in {"made", "running", "left"}) => err \in {"none", "io", "manage"}

\* The types, and what a restore request's answer says of the process: success that
\* all of it was restored, GPU first, failure that it is not there (Restore,
\* restore_handlers.go, CRIUCallback).
AnswerRight == TypeOK /\ GPUBeforeResume /\ SuccessIsRestored /\ FailureLeavesNothing

\* The checkpoint is lost only when its own directory could not be opened.
CheckpointKept == ~image => opt.source \in {"directory", "streamed"} /\ err = "open"

\* A restore request cleans up after itself and spares the checkpoint
\* (RestoreFilesystem, Restore of gpu, ManageRestore).
CleanedUp == NothingHeld /\ CheckpointKept

\* The request returns, unless the process is left alive by CRIU or the
\* checkpoint's PID belongs to another living child of the daemon, for which
\* the handler waits.
RestoreReturns == <>(Over \/ (pc = "reap" /\ (opt.child \/ proc \in {"left", "made", "running"})))
=============================================================================
