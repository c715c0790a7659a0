---------------------------- MODULE DumpPipeline ----------------------------
(***************************************************************************)
(* A dump request from the gRPC handler to the stored checkpoint:          *)
(* Server.Dump and its chain of adapters (internal/cedana/dump.go), the    *)
(* storage adapters (filesystem/, streamer/), the CRIU handler, the CRIU   *)
(* RPC client with its notification callbacks (pkg/criu), and the CRIU     *)
(* process at the other end of the socket.                                 *)
(*                                                                         *)
(* An adapter runs code before and, in its deferred functions, after the   *)
(* rest of the chain, and on the way in it may include a callback in       *)
(* opts.CRIUCallback.  The client calls every callback, last included      *)
(* first, when CRIU notifies it, and CRIU continues when it is answered.   *)
(* What matters is the order in which the process is stopped, its image    *)
(* written, packed, stored and reported, and the process killed, when any  *)
(* of the steps can fail and the caller may hang up.                       *)
(*                                                                         *)
(* The requests of an instance dump one process, each under a name of its  *)
(* own (the default name holds a timestamp).                               *)
(***************************************************************************)
EXTENDS Integers, Sequences, FiniteSetsExt

CONSTANTS
    Requests,  \* dump requests for one process
    Options,   \* what a request may ask for: a subset of AllOptions
    None

AllOptions ==
    [remote : BOOLEAN,    \* storage.IsRemote(): a storage plugin
     async : BOOLEAN,     \* req.Async or the configured default
     compress : BOOLEAN,  \* a compression other than "none"
     stream : BOOLEAN,    \* two streams or more: the image streamer
     leave : BOOLEAN,     \* leave-running
     managed : BOOLEAN]   \* the request names a job

ASSUME DumpAssumption == Options \subseteq AllOptions /\ None \notin Requests

\* What an image is made of: process_state.json, CRIU's files, the GPU's files.
Parts == {"state", "pages", "gpu"}

\* A copy is absent, torn (written in part), or holds a set of parts.
Copies == {{"absent"}, {"torn"}} \cup SUBSET Parts

Absent == {"absent"}
Torn == {"torn"}

\* The callbacks of a dump, by the adapter that includes them.
Callbacks == {"compress", "external-files", "gpu", "gpu external mounts"}

Events == {"initialize-dump", "pre-dump", "query-ext-files", "post-dump", "finalize-dump"}

VARIABLES
    proc,        \* the process: "running", "seized" by CRIU, or "gone"
    attached,    \* whether a GPU controller serves it
    tracer,      \* the request whose CRIU has seized it, or None
    killer,      \* the request whose CRIU killed it, or None
    gpu,         \* its GPU: "active" or "frozen"
    gpuLock,     \* the request that holds the controller's Termination mutex
    images,      \* per request: what its images directory holds
    objects,     \* per request: what the storage holds at its path
    checkpoints, \* the requests whose path AddCheckpoint has recorded
    criu,        \* per request: the next step of its CRIU process
    sent,        \* per request: the message on the socket for the client
    cz,          \* per request: the function compress (or upload) and its caller
    faults,      \* per request: failures the code did not report, or met too late
    rq           \* per request: where its handler is, and its locals

store == <<images, objects>>
world == <<proc, tracer, killer>>
gpus == <<attached, gpu, gpuLock>>
wire == <<criu, sent>>
vars == <<world, gpus, store, checkpoints, wire, cz, faults, rq>>

Pcs ==
    {"start", "fs", "fill", "save", "prepare", "hook", "recv",
     "cleanup", "defer", "compress", "rmdir", "managed", "await", "done", "blocked"}

CriuPhases ==
    {"off", "idle", "pre-dump", "seize", "dump", "finish", "reply"}

\* The state of the process, its GPU, CRIU and the storage, and of each dump request
\* (Dump), has its type.
TypeOK ==
    /\ proc \in {"running", "seized", "gone"}
    /\ attached \in BOOLEAN
    /\ tracer \in Requests \cup {None} /\ killer \in Requests \cup {None}
    /\ gpu \in {"active", "frozen"} /\ gpuLock \in Requests \cup {None}
    /\ images \in [Requests -> Copies] /\ objects \in [Requests -> Copies]
    /\ checkpoints \subseteq Requests
    /\ criu \in [Requests -> CriuPhases]
    /\ sent \in [Requests -> Events \cup {"none", "success", "failure"}]
    /\ cz \in [Requests -> [at : {"no", "create", "tar", "close", "ok", "error"},
                            who : {"none", "hook", "defer", "goroutine"},
                            data : Copies, failed : BOOLEAN]]
    /\ faults \in [Requests -> SUBSET {"state", "flush", "pack", "reap", "cut", "streamer"}]
    /\ rq \in [Requests -> [opt : Options, pc : Pcs, err : BOOLEAN,
                            cbs : Seq(Callbacks), ev : Events, idx : 0..Cardinality(Callbacks),
                            criuErr : BOOLEAN, dumped : BOOLEAN]]

\* Init: the process runs, no request has been handled.
Init ==
    /\ proc = "running" /\ tracer = None /\ killer = None
    /\ attached \in BOOLEAN /\ gpu = "active" /\ gpuLock = None
    /\ images = [r \in Requests |-> Absent] /\ objects = [r \in Requests |-> Absent]
    /\ checkpoints = {}
    /\ criu = [r \in Requests |-> "off"] /\ sent = [r \in Requests |-> "none"]
    /\ cz = [r \in Requests |-> [at |-> "no", who |-> "none", data |-> Absent, failed |-> FALSE]]
    /\ faults = [r \in Requests |-> {}]
    /\ rq \in [Requests -> {[opt |-> o, pc |-> "start", err |-> FALSE, cbs |-> <<>>,
                             ev |-> "initialize-dump", idx |-> 0, criuErr |-> FALSE,
                             dumped |-> FALSE] : o \in Options}]

-----------------------------------------------------------------------------
(* Helpers *)

At(r, l) == rq[r].pc = l

Opt(r) == rq[r].opt

\* async := (req.Async || config) && storage.IsRemote()
Async(o) == o.async /\ o.remote

\* DumpFilesystem makes a tarball, and the images directory is not the result.
Packs(o) == ~o.stream /\ (o.remote \/ o.compress)

\* The directory of a remote storage's dump is a temporary one.
TempDir(o) == o.remote \/ Packs(o)

Go(r, l) == rq' = [rq EXCEPT ![r].pc = l]

\* An adapter returns an error: the deferred functions of those before it run.
Fail(r, l) == rq' = [rq EXCEPT ![r].pc = l, ![r].err = TRUE]

Include(r, cbs, l) == rq' = [rq EXCEPT ![r].cbs = @ \o cbs, ![r].pc = l]

-----------------------------------------------------------------------------
(* The adapters, on the way in *)

\* criu.New, job.ManageDump up to next (the job must be running), defaults,
\* validation and pluginDumpStorage.
Enter(r) ==
    /\ At(r, "start")
    /\ \/ (Opt(r).managed => proc # "gone") /\ Go(r, "fs")
       \/ Fail(r, "done")
    /\ UNCHANGED <<world, gpus, store, checkpoints, wire, cz, faults>>

\* filesystem.DumpFilesystem up to next: the images directory is made (and
\* removed again if a later step of the adapter fails).  A tarball that is
\* neither async nor leave-running is made in post-dump.
DumpFilesystem(r) ==
    /\ At(r, "fs") /\ ~Opt(r).stream
    /\ \/ /\ images' = [images EXCEPT ![r] = {}]
          /\ Include(r, IF Packs(Opt(r)) /\ ~Async(Opt(r)) /\ ~Opt(r).leave
                        THEN <<"compress">> ELSE <<>>, "fill")
       \/ Fail(r, "managed") /\ UNCHANGED images
    /\ UNCHANGED <<world, gpus, objects, checkpoints, wire, cz, faults>>

\* streamer.DumpFilesystem up to next: the directory is made, and the image
\* streamer started and connected.
StreamDumpFilesystem(r) ==
    /\ At(r, "fs") /\ Opt(r).stream
    /\ \/ images' = [images EXCEPT ![r] = {}] /\ Go(r, "fill")
       \/ Fail(r, "managed") /\ UNCHANGED images
    /\ UNCHANGED <<world, gpus, objects, checkpoints, wire, cz, faults>>

\* gpu.Dump and gpu.AddExternalMountsForDump: the callbacks of a process that a
\* GPU controller is attached to.
GPUCallbacks == IF attached THEN <<"gpu", "gpu external mounts">> ELSE <<>>

\* pluginDumpMiddleware, FillProcessStateForDump, DetectIOUringForDump,
\* AddExternalFilesForDump, AddExternalMountsForDump, DetectNetworkOptionsForDump,
\* and gpu.Dump.
FillProcessStateForDump(r) ==
    /\ At(r, "fill")
    /\ \/ /\ proc # "gone"
          /\ Include(r, <<"external-files">> \o GPUCallbacks, "save")
       \/ Fail(r, "defer")
    /\ UNCHANGED <<world, gpus, store, checkpoints, wire, cz, faults>>

\* A failure to write process_state.json is logged and the dump goes on.
SaveProcessStateForDump(r) ==
    /\ At(r, "save")
    /\ \/ /\ images' = [images EXCEPT ![r] = @ \cup {"state"}]
          /\ UNCHANGED faults
       \/ /\ faults' = [faults EXCEPT ![r] = @ \cup {"state"}]
          /\ UNCHANGED images
    /\ Go(r, "prepare")
    /\ UNCHANGED <<world, gpus, objects, checkpoints, wire, cz>>

-----------------------------------------------------------------------------
(* The CRIU client *)

\* The hooks a callback has set; the others are nil and return at once, and so
\* does post-dump of the GPU, whose pre-dump has waited for dumpErr.
Hooks ==
    {<<"compress", "post-dump">>,
     <<"external-files", "query-ext-files">>, <<"gpu external mounts", "query-ext-files">>,
     <<"gpu", "initialize-dump">>, <<"gpu", "pre-dump">>, <<"gpu", "finalize-dump">>}

\* The last of the first n callbacks that has the hook, or 0.
LastHook(cbs, event, n) == Max({0} \cup {i \in 1..n : <<cbs[i], event>> \in Hooks})

\* NotifyCallbackMulti: the callbacks are called in the reverse order of their
\* inclusion, until one fails.
Notify(q, event) ==
    [q EXCEPT !.pc = "hook", !.ev = event, !.idx = LastHook(q.cbs, event, Len(q.cbs))]

\* The deferred FinalizeDump is given the error the request loop ended with.
Finalize(q, failed) == [Notify(q, "finalize-dump") EXCEPT !.criuErr = failed,
                                                          !.err = q.err \/ failed]

\* CheckOptsForDump, the handler criu.Dump up to opts.CRIU.Dump, and Prepare,
\* which starts CRIU in swrk mode.
Prepare(r) ==
    /\ At(r, "prepare")
    /\ \/ /\ criu' = [criu EXCEPT ![r] = "idle"]
          /\ rq' = [rq EXCEPT ![r] = Notify(@, "initialize-dump")]
       \/ Fail(r, "defer") /\ UNCHANGED criu
    /\ UNCHANGED <<world, gpus, store, checkpoints, sent, cz, faults>>

\* Every callback of the event returned nil: the (next) message goes to CRIU.
\* Finalized, the client cleans up.
Notified(r) ==
    /\ At(r, "hook") /\ rq[r].idx = 0
    /\ Go(r, IF rq[r].ev = "finalize-dump" THEN "cleanup" ELSE "recv")
    /\ criu' = [criu EXCEPT ![r] = IF rq[r].ev = "initialize-dump" /\ @ = "idle"
                                   THEN "pre-dump" ELSE @]
    /\ UNCHANGED <<world, gpus, store, checkpoints, sent, cz, faults>>

\* A message of CRIU, or the end of its connection.
Receive(r) ==
    /\ At(r, "recv")
    /\ sent[r] # "none" \/ criu[r] = "off"
    /\ rq' = [rq EXCEPT ![r] =
                  IF sent[r] \in Events THEN Notify(@, sent[r])
                  ELSE Finalize(@, sent[r] # "success")]
    /\ sent' = [sent EXCEPT ![r] = "none"]
    /\ UNCHANGED <<world, gpus, store, checkpoints, criu, cz, faults>>

\* The socket is closed and CRIU waited for; without its client a CRIU that
\* still holds the process lets it go.  Reaping may fail.
Cleanup(r) ==
    /\ At(r, "cleanup")
    /\ criu' = [criu EXCEPT ![r] = "off"] /\ sent' = [sent EXCEPT ![r] = "none"]
    /\ IF tracer = r THEN proc' = "running" /\ tracer' = None
                     ELSE UNCHANGED <<proc, tracer>>
    /\ \/ Go(r, "defer") /\ UNCHANGED faults
       \/ /\ Fail(r, "defer")
          /\ faults' = [faults EXCEPT ![r] = @ \cup {"reap"}]
    /\ UNCHANGED <<killer, gpus, store, checkpoints, cz>>

-----------------------------------------------------------------------------
(* The callbacks *)

Called(r, cb, event) ==
    /\ At(r, "hook") /\ rq[r].idx > 0
    /\ rq[r].cbs[rq[r].idx] = cb /\ rq[r].ev = event

\* The callback returned nil, and one included before it is next.
Returns(q) == [q EXCEPT !.idx = LastHook(q.cbs, q.ev, @ - 1)]

\* It returned an error: NotifyCallbackMulti stops.  FinalizeDump is deferred
\* only once InitializeDump has succeeded.
Raises(q) ==
    IF q.ev \in {"initialize-dump", "finalize-dump"}
    THEN [q EXCEPT !.pc = "cleanup", !.err = TRUE]
    ELSE Finalize(q, TRUE)

\* Mutant: a query that fails is begun again.
QueryExtFiles_Again(r) ==
    /\ \E cb \in {"external-files", "gpu external mounts"} : Called(r, cb, "query-ext-files")
    /\ rq' \in {[rq EXCEPT ![r] = Returns(@)], [rq EXCEPT ![r] = Notify(@, "query-ext-files")]}
    /\ UNCHANGED <<world, gpus, store, checkpoints, wire, cz, faults>>

\* The frozen process tree is read again for external files and GPU mounts.
QueryExtFiles(r) ==
    /\ \E cb \in {"external-files", "gpu external mounts"} : Called(r, cb, "query-ext-files")
    /\ rq' \in {[rq EXCEPT ![r] = Returns(@)], [rq EXCEPT ![r] = Raises(@)]}
    /\ UNCHANGED <<world, gpus, store, checkpoints, wire, cz, faults>>

\* The controller is gone; or it is locked and told to freeze the GPU.  If
\* that fails the lock stays, and so does what the controller had frozen.
GPUInitializeDump(r) ==
    /\ Called(r, "gpu", "initialize-dump")
    /\ \/ /\ rq' = [rq EXCEPT ![r] = Raises(@)]
          /\ UNCHANGED <<gpu, gpuLock>>
       \/ /\ gpuLock = None /\ gpuLock' = r
          /\ \/ gpu' = "frozen" /\ rq' = [rq EXCEPT ![r] = Returns(@)]
             \/ gpu' \in {gpu, "frozen"} /\ rq' = [rq EXCEPT ![r] = Raises(@)]
    /\ UNCHANGED <<world, attached, store, checkpoints, wire, cz, faults>>

\* The GPU dump runs in a goroutine that the hook waits for; dumpErr is set.
GPUPreDump(r) ==
    /\ Called(r, "gpu", "pre-dump")
    /\ \/ /\ images' = [images EXCEPT ![r] = @ \cup {"gpu"}]
          /\ rq' = [rq EXCEPT ![r] = Returns([@ EXCEPT !.dumped = TRUE])]
       \/ /\ rq' = [rq EXCEPT ![r] = Raises([@ EXCEPT !.dumped = TRUE])]
          /\ UNCHANGED images
    /\ UNCHANGED <<world, gpus, objects, checkpoints, wire, cz, faults>>

\* Mutant: an error of Unfreeze returns before Termination is unlocked.
GPUFinalizeDump_KeepsLock(r) ==
    LET quiet == ~rq[r].dumped \/ (~Opt(r).leave /\ ~rq[r].criuErr)
    IN  /\ Called(r, "gpu", "finalize-dump")
        /\ \/ gpuLock' = None /\ rq' = [rq EXCEPT ![r] = Returns(@)]
           \/ ~quiet /\ rq' = [rq EXCEPT ![r] = Raises(@)] /\ UNCHANGED gpuLock
        /\ UNCHANGED <<world, attached, gpu, store, checkpoints, wire, cz, faults>>

\* Termination is unlocked at the end.  The GPU is told to unfreeze if its dump
\* was started, unless the process is dead; a failure is an error.
GPUFinalizeDump(r) ==
    LET quiet == ~rq[r].dumped \/ (~Opt(r).leave /\ ~rq[r].criuErr)
    IN  /\ Called(r, "gpu", "finalize-dump")
        /\ gpuLock' = None
        /\ \/ gpu' = (IF quiet THEN gpu ELSE "active") /\ rq' = [rq EXCEPT ![r] = Returns(@)]
           \/ ~quiet /\ rq' = [rq EXCEPT ![r] = Raises(@)] /\ UNCHANGED gpu
        /\ UNCHANGED <<world, attached, store, checkpoints, wire, cz, faults>>

\* Mutant: the hook drops the error of compress.
CompressPostDump_NoError(r) ==
    /\ Called(r, "compress", "post-dump")
    /\ \/ /\ cz[r].at = "no"
          /\ cz' = [cz EXCEPT ![r] = [@ EXCEPT !.at = "create", !.who = "hook"]]
          /\ UNCHANGED rq
       \/ cz[r].at \in {"ok", "error"} /\ rq' = [rq EXCEPT ![r] = Returns(@)] /\ UNCHANGED cz
    /\ UNCHANGED <<world, gpus, store, checkpoints, wire, faults>>

\* PostDumpFunc of DumpFilesystem: compress, while CRIU holds the process.
CompressPostDump(r) ==
    /\ Called(r, "compress", "post-dump")
    /\ \/ /\ cz[r].at = "no"
          /\ cz' = [cz EXCEPT ![r] = [@ EXCEPT !.at = "create", !.who = "hook"]]
          /\ UNCHANGED rq
       \/ /\ cz[r].at = "ok" /\ rq' = [rq EXCEPT ![r] = Returns(@)] /\ UNCHANGED cz
       \/ /\ cz[r].at = "error" /\ rq' = [rq EXCEPT ![r] = Raises(@)] /\ UNCHANGED cz
    /\ UNCHANGED <<world, gpus, store, checkpoints, wire, faults>>

-----------------------------------------------------------------------------
(* compress: the tarball of DumpFilesystem, from its hook, its deferred      *)
(* function or a goroutine of its own                                        *)

\* storage.Create truncates a local file; a remote one is made by its Close.
CompressCreate(r) ==
    /\ cz[r].at = "create" /\ ~Opt(r).stream
    /\ \/ /\ cz' = [cz EXCEPT ![r].at = "tar"]
          /\ objects' = IF Opt(r).remote THEN objects ELSE [objects EXCEPT ![r] = Torn]
       \/ cz' = [cz EXCEPT ![r].at = "error"] /\ UNCHANGED objects
    /\ UNCHANGED <<world, gpus, images, checkpoints, wire, faults, rq>>

\* io.Tar.  Its own writers are closed in deferred calls whose errors are
\* dropped: a local tarball may be cut short unnoticed.  A remote one may not,
\* for the pipe breaks only when the upload has failed, and Close says so.
\* Tar fails if the handler has removed the directory meanwhile.  Its failure
\* deletes the object; both ways the images directory goes.
CompressTar(r) ==
    /\ cz[r].at = "tar"
    /\ images' = [images EXCEPT ![r] = Absent]
    /\ \/ /\ images[r] # Absent
          /\ cz' = [cz EXCEPT ![r].at = "close", ![r].data = images[r]]
          /\ objects' = IF Opt(r).remote THEN objects
                        ELSE [objects EXCEPT ![r] = images[r]]
          /\ UNCHANGED faults
       \/ /\ ~Opt(r).remote /\ images[r] # Absent
          /\ cz' = [cz EXCEPT ![r].at = "close", ![r].data = Torn]
          /\ faults' = [faults EXCEPT ![r] = @ \cup {"flush"}]
          /\ UNCHANGED objects
       \/ /\ cz' = [cz EXCEPT ![r].at = "close", ![r].data = Torn, ![r].failed = TRUE]
          /\ objects' \in {objects, [objects EXCEPT ![r] = Absent]}
          /\ UNCHANGED faults
    /\ UNCHANGED <<world, gpus, checkpoints, wire, rq>>

\* The deferred tarball.Close(): a remote object appears, or the upload fails.
CompressClose(r) ==
    /\ cz[r].at = "close"
    /\ \/ /\ objects' = IF Opt(r).remote THEN [objects EXCEPT ![r] = cz[r].data] ELSE objects
          /\ cz' = [cz EXCEPT ![r].at = IF cz[r].failed THEN "error" ELSE "ok"]
       \/ cz' = [cz EXCEPT ![r].at = "error"] /\ UNCHANGED objects
    /\ UNCHANGED <<world, gpus, images, checkpoints, wire, faults, rq>>

\* upload of the streamer: the local shards go to the remote storage, and are
\* removed whatever happens.
StreamUpload(r) ==
    /\ cz[r].at = "create" /\ Opt(r).stream
    /\ objects' \in {[objects EXCEPT ![r] = copy] : copy \in {images[r], Torn, Absent}}
    /\ images' = [images EXCEPT ![r] = Absent]
    /\ cz' = [cz EXCEPT ![r].at = "ok"]
    /\ UNCHANGED <<world, gpus, checkpoints, wire, faults, rq>>

-----------------------------------------------------------------------------
(* The deferred functions, on the way out *)

Start(r, who) == cz' = [cz EXCEPT ![r].at = "create", ![r].who = who]

\* The last deferred function of DumpFilesystem is the first to run: with async
\* the tarball is left to a goroutine, with leave-running it is made now, and
\* without a tarball there is nothing to do.  The err these functions test and
\* set is the one that "ext, err :=" declares in their block, not the result of
\* the handler: they run as if there were no error.
DeferFilesystem(r) ==
    /\ At(r, "defer") /\ ~Opt(r).stream
    /\ LET o == Opt(r) IN
       \/ Packs(o) /\ Async(o) /\ Start(r, "goroutine") /\ Go(r, "rmdir")
       \/ Packs(o) /\ ~Async(o) /\ o.leave /\ Start(r, "defer") /\ Go(r, "compress")
       \/ (Packs(o) => ~Async(o) /\ ~o.leave) /\ Go(r, "rmdir") /\ UNCHANGED cz
    /\ UNCHANGED <<world, gpus, store, checkpoints, wire, faults>>

\* Mutant: the error of waitForIO is not joined.
DeferWaitForIO_NoError(r) ==
    /\ At(r, "defer") /\ Opt(r).stream
    /\ objects' = IF Opt(r).remote THEN [objects EXCEPT ![r] = Torn] ELSE objects
    /\ images' = IF Opt(r).remote THEN images ELSE [images EXCEPT ![r] = Torn]
    /\ Go(r, "rmdir")
    /\ UNCHANGED <<world, gpus, checkpoints, wire, cz, faults>>

\* The shards go to the storage as they are written.
Direct(o) == o.remote /\ ~Async(o)

\* The shards are cut short.
TearShards(r) ==
    /\ objects' = IF Direct(Opt(r)) THEN [objects EXCEPT ![r] = Torn] ELSE objects
    /\ images' = IF Direct(Opt(r)) THEN images ELSE [images EXCEPT ![r] = Torn]

\* waitForIO has returned nil.
Streamed(r) ==
    /\ Go(r, "rmdir")
    /\ IF Async(Opt(r)) /\ ~rq[r].err THEN Start(r, "goroutine") ELSE UNCHANGED cz

\* waitForIO of the streamer: all went well and the shards are where they
\* belong; or a shard could not be closed; or one could not be written, and the
\* call never returns; or the streamer died with data in its hands, which
\* waitForIO does not tell (module StreamingFs).
DeferWaitForIO(r) ==
    /\ At(r, "defer") /\ Opt(r).stream
    /\ \/ /\ objects' = IF Direct(Opt(r)) THEN [objects EXCEPT ![r] = images[r]] ELSE objects
          /\ Streamed(r) /\ UNCHANGED <<images, faults>>
       \/ TearShards(r) /\ (Fail(r, "rmdir") \/ Fail(r, "blocked")) /\ UNCHANGED <<cz, faults>>
       \/ /\ TearShards(r) /\ Streamed(r)
          /\ faults' = [faults EXCEPT ![r] = @ \cup {"streamer"}]
    /\ UNCHANGED <<world, gpus, checkpoints, wire>>

\* The deferred compress of a leave-running dump is over.  Its error goes to the
\* inner err and nobody reads it.
Compressed(r) ==
    /\ At(r, "compress") /\ cz[r].at \in {"ok", "error"}
    /\ Go(r, "rmdir")
    /\ faults' = [faults EXCEPT ![r] = IF cz[r].at = "error" THEN @ \cup {"pack"} ELSE @]
    /\ UNCHANGED <<world, gpus, store, checkpoints, wire, cz>>

\* Mutant: err is not looked at.
RemoveImages_OnlyRemote(r) ==
    /\ At(r, "rmdir") /\ Go(r, "managed")
    /\ images' = IF Opt(r).remote /\ ~Async(Opt(r)) THEN [images EXCEPT ![r] = Absent] ELSE images
    /\ UNCHANGED <<world, gpus, objects, checkpoints, wire, cz, faults>>

\* if err != nil || (storage.IsRemote() && !async) { os.RemoveAll(imagesDirectory) }
RemoveImages(r) ==
    /\ At(r, "rmdir")
    /\ images' = IF rq[r].err \/ (Opt(r).remote /\ ~Async(Opt(r)))
                 THEN [images EXCEPT ![r] = Absent] ELSE images
    /\ Go(r, "managed")
    /\ UNCHANGED <<world, gpus, objects, checkpoints, wire, cz, faults>>

\* job.ManageDump after next: the checkpoint is recorded; unless the job was
\* left running its exit is awaited.
ManageDump(r) ==
    /\ At(r, "managed")
    /\ checkpoints' = IF Opt(r).managed /\ ~rq[r].err THEN checkpoints \cup {r} ELSE checkpoints
    /\ Go(r, IF Opt(r).managed /\ ~rq[r].err /\ ~Opt(r).leave THEN "await" ELSE "done")
    /\ UNCHANGED <<world, gpus, store, wire, cz, faults>>

\* <-jobs.Done(jid), closed when the job manager has seen the job exit.
JobDone(r) ==
    /\ At(r, "await") /\ proc = "gone"
    /\ Go(r, "done")
    /\ UNCHANGED <<world, gpus, store, checkpoints, wire, cz, faults>>

-----------------------------------------------------------------------------
(* CRIU, as its client sees it: it moves when the client waits for a message *)

CriuTurn(r, phase) == At(r, "recv") /\ sent[r] = "none" /\ criu[r] = phase

Say(r, m, phase) ==
    /\ sent' = [sent EXCEPT ![r] = m] /\ criu' = [criu EXCEPT ![r] = phase]
    /\ UNCHANGED <<gpus, objects, checkpoints, cz, faults, rq>>

CriuPreDump(r) ==
    /\ CriuTurn(r, "pre-dump") /\ Say(r, "pre-dump", "seize")
    /\ UNCHANGED <<world, images>>

\* The tree is seized, unless another CRIU has it.
CriuSeize(r) ==
    /\ CriuTurn(r, "seize") /\ proc = "running"
    /\ proc' = "seized" /\ tracer' = r
    /\ Say(r, "query-ext-files", "dump")
    /\ UNCHANGED <<killer, images>>

CriuDump(r) ==
    /\ CriuTurn(r, "dump")
    /\ images' = [images EXCEPT ![r] = @ \cup {"pages"}]
    /\ Say(r, "post-dump", "finish")
    /\ UNCHANGED world

\* The answer to post-dump decides: the tree is killed, or with leave-running
\* let go.
CriuFinish(r) ==
    /\ CriuTurn(r, "finish")
    /\ tracer' = None
    /\ IF Opt(r).leave THEN proc' = "running" /\ UNCHANGED killer
                       ELSE proc' = "gone" /\ killer' = r
    /\ Say(r, "none", "reply")
    /\ UNCHANGED images

CriuReply(r) ==
    /\ CriuTurn(r, "reply") /\ Say(r, "success", "off")
    /\ UNCHANGED <<world, images>>

Release(r) ==
    /\ IF tracer = r THEN proc' = "running" /\ tracer' = None
                     ELSE UNCHANGED <<proc, tracer>>
    /\ UNCHANGED killer

\* CRIU fails before it finishes: the tree is let go.
CriuFail(r) ==
    /\ \E phase \in {"pre-dump", "seize", "dump", "finish"} : CriuTurn(r, phase)
    /\ Release(r)
    /\ Say(r, "failure", "off")
    /\ UNCHANGED images

\* The caller hangs up, or the daemon is told to stop: the request's context is
\* cancelled, and exec.CommandContext kills CRIU.
Cancel(r) ==
    /\ criu[r] # "off"
    /\ Release(r)
    /\ criu' = [criu EXCEPT ![r] = "off"]
    /\ faults' = IF criu[r] = "reply" THEN [faults EXCEPT ![r] = @ \cup {"cut"}] ELSE faults
    /\ UNCHANGED <<gpus, store, checkpoints, sent, cz, rq>>

\* The process exits by itself.
Exit ==
    /\ proc = "running" /\ proc' = "gone"
    /\ UNCHANGED <<tracer, killer, gpus, store, checkpoints, wire, cz, faults, rq>>

-----------------------------------------------------------------------------

Handler(r) ==
    \/ Enter(r) \/ DumpFilesystem(r) \/ StreamDumpFilesystem(r)
    \/ FillProcessStateForDump(r) \/ SaveProcessStateForDump(r)
    \/ Prepare(r) \/ Notified(r) \/ Receive(r) \/ Cleanup(r)
    \/ QueryExtFiles(r) \/ GPUInitializeDump(r) \/ GPUPreDump(r)
    \/ GPUFinalizeDump(r) \/ CompressPostDump(r)
    \/ DeferFilesystem(r) \/ DeferWaitForIO(r) \/ Compressed(r) \/ RemoveImages(r)
    \/ ManageDump(r) \/ JobDone(r)

Compress(r) == CompressCreate(r) \/ CompressTar(r) \/ CompressClose(r) \/ StreamUpload(r)

CRIU(r) ==
    \/ CriuPreDump(r) \/ CriuSeize(r) \/ CriuDump(r) \/ CriuFinish(r) \/ CriuReply(r)
    \/ CriuFail(r)

\* Every request was answered, or hangs in waitForIO.
Finished ==
    /\ \A r \in Requests : rq[r].pc \in {"done", "blocked"} /\ cz[r].at \in {"no", "ok", "error"}
    /\ UNCHANGED vars

Next ==
    \/ \E r \in Requests : Handler(r) \/ Compress(r) \/ CRIU(r) \/ Cancel(r)
    \/ Exit
    \/ Finished

Spec == Init /\ [][Next]_vars

\* Goroutines and CRIU are not suspended for ever.
Fairness ==
    \A r \in Requests : WF_vars(Handler(r)) /\ WF_vars(Compress(r)) /\ WF_vars(CRIU(r))

FairSpec == Spec /\ Fairness

-----------------------------------------------------------------------------
(* Properties *)

\* What a checkpoint of this process needs.
Needed == {"pages"} \cup (IF attached THEN {"gpu"} ELSE {})

Whole(copy) == copy \in SUBSET Parts /\ Needed \subseteq copy

Saved(r) == Whole(images[r]) \/ Whole(objects[r])

\* Tarballs that are made before the request is answered; in the post-dump hook
\* unless the process is left running.
PacksNow(o) == Packs(o) /\ ~Async(o)

\* A process is killed only for an image that exists.  When CRIU has killed the
\* process for a dump whose tarball is made in the post-dump hook, the storage holds
\* the whole image, then and ever after, whatever fails later and whenever the caller
\* hangs up; except for a last write of io.Tar that failed unnoticed.  A dump that
\* leaves its images in the directory has them there, but for the two cases in which
\* RemoveAll runs because CRIU's answer, or its exit status, was lost after it had
\* killed the process.
KilledIsSaved ==
    \A r \in Requests :
        killer = r =>
            /\ PacksNow(Opt(r)) /\ "flush" \notin faults[r] => Whole(objects[r])
            /\ ~Packs(Opt(r)) /\ ~Opt(r).stream /\ faults[r] \cap {"cut", "reap"} = {}
               => Whole(images[r])

\* A request that is not async and that was answered without an error has left
\* a whole image behind, and so has every checkpoint the job manager records;
\* but for a local tarball whose last write was lost, for the tarball of a
\* leave-running dump, whose failure nobody reads, and for shards that a dying
\* streamer cut short.
SuccessIsSaved ==
    \A r \in Requests :
        /\ ~Async(Opt(r)) /\ faults[r] \cap {"flush", "pack", "streamer"} = {}
        /\ (At(r, "done") /\ ~rq[r].err) \/ r \in checkpoints
        => Saved(r)

\* Whatever fails, a handler that has returned has taken its hands off the process,
\* the GPU controller and the directory.  CRIU is gone, nothing is seized for it, and
\* Termination is unlocked unless the GPU could not be frozen.  If the request is not
\* async, an images directory remains only as the result of a success, or because the
\* tarball of a leave-running dump could not be created.
HandsOff ==
    \A r \in Requests :
        At(r, "done") =>
            /\ criu[r] = "off" /\ tracer # r
            /\ gpuLock = r => rq[r].ev = "initialize-dump" /\ rq[r].err
            /\ ~Async(Opt(r)) /\ images[r] # Absent =>
                   ~rq[r].err /\ (TempDir(Opt(r)) => "pack" \in faults[r])

\* Every dump request is answered, unless the streamer's wait function blocks
\* after an IO error, or it waits for the Termination mutex of a controller that
\* could not be frozen.
DumpReturns ==
    \A r \in Requests :
        <>(At(r, "done") \/ At(r, "blocked") \/ gpuLock \in Requests \ {r})

\* CRIU's hold on the process ends: it is let go or killed.
ProcessReleased == proc = "seized" ~> proc # "seized"

\* A dump comes to its end, for its caller and for the process (Dump, doSwrkWithResp).
DumpCompletes == DumpReturns /\ ProcessReleased
=============================================================================
