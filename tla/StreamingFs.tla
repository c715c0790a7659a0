---------------------------- MODULE StreamingFs ----------------------------
(***************************************************************************)
(* The streaming filesystem of a dump or a restore                         *)
(* (internal/cedana/streamer/fs.go), with the storage files at its end     *)
(* (filesystem/storage.go, storage-s3/s3/file.go,                          *)
(* storage-cedana/propagator/file.go).                                     *)
(*                                                                         *)
(* CRIU's images pass through the image streamer, a process, which spreads *)
(* them over `streams' pipes; a goroutine of the daemon per pipe copies    *)
(* between the pipe and a file of the storage (WRITE_ONLY: pipe to file;   *)
(* READ_ONLY: file to pipe).  NewStreamingFs opens the files, starts the   *)
(* goroutines and the streamer, waits for the streamer's first message on  *)
(* stderr and connects.  The function it returns, wait, is called when     *)
(* CRIU is done: it stops the streamer's listener, waits for the           *)
(* goroutines, and joins the errors they sent on the channel ioErr.        *)
(*                                                                         *)
(* A shard is Size[i] chunks.  Counters say how far each stage has come,   *)
(* so a pipe holds the difference of the counters of its two ends.         *)
(***************************************************************************)
EXTENDS Integers, FiniteSets

CONSTANTS
    Streams,   \* number of shards
    Size,      \* per shard: its length in chunks
    PipeCap,   \* chunks a pipe holds
    None

Shards == 1..Streams

ASSUME StreamsAssumption ==
    /\ Streams \in Nat \ {0}
    /\ Size \in [Shards -> Nat]
    /\ PipeCap \in Nat \ {0}
    /\ None \notin Nat

VARIABLES
    mode,      \* "read" or "write"
    store,     \* the storage: "local" files, "s3" or "cedana"
    pc,        \* the request's goroutine: NewStreamingFs, then wait
    opened,    \* shards whose file is open and whose goroutine was started
    result,    \* what wait returned: "none", "ok" or "error"
    ctxDone,   \* the request's context is cancelled
    ended,     \* NewStreamingFs has returned: its deferred calls have run
    sh,        \* per shard: where its goroutine is
    n,         \* per shard: chunks its goroutine has copied
    failed,    \* shards whose goroutine has an error
    ioErr,     \* the channel: how many values it holds, and if one is an error
    strm,      \* the streamer process
    moved,     \* per shard: chunks the streamer wrote to (read from) the pipe
    stderr,    \* the streamer's first message: "none", "printed" or "read"
    scanner,   \* the goroutine that reads stderr: "off", "on", "init" or "done"
    ready,     \* the channel ready holds a value
    up,        \* per shard: the upload goroutine of a remote file
    got,       \* per shard: chunks it has taken
    obj,       \* per shard: the length of the stored file, or None
    faults,    \* what went wrong outside the daemon
    panicked

request == <<mode, store, pc, opened, result, ctxDone, ended>>
goroutines == <<sh, n, failed, ioErr>>
streamer == <<strm, moved, stderr>>
startup == <<scanner, ready>>
storage == <<up, got, obj>>

vars == <<request, goroutines, streamer, startup, storage, faults, panicked>>

\* Storage.IsRemote.
remote == store # "local"

Faults == {"crash", "cancel", "flush"}

Init ==
    /\ mode \in {"read", "write"} /\ store \in {"local", "s3", "cedana"}
    /\ pc = "list" /\ opened = 0 /\ result = "none"
    /\ ctxDone = FALSE /\ ended = FALSE
    /\ sh = [i \in Shards |-> "none"] /\ n = [i \in Shards |-> 0]
    /\ failed = {} /\ ioErr = [len |-> 0, err |-> FALSE]
    /\ strm = "off" /\ moved = [i \in Shards |-> 0] /\ stderr = "none"
    /\ scanner = "off" /\ ready = FALSE
    /\ up = [i \in Shards |-> "off"] /\ got = [i \in Shards |-> 0]
    /\ obj = IF mode = "read" THEN Size ELSE [i \in Shards |-> None]
    /\ faults = {} /\ panicked = FALSE

-----------------------------------------------------------------------------
(* NewStreamingFs *)

\* An early return: the deferred calls close the daemon's copies of the
\* streamer's pipe ends and the channel ready.
Fail == pc' = "failed" /\ ended' = TRUE /\ result' = "error"

\* imgPaths: a dump names its shards itself, a restore lists those there are
\* and refuses a number other than expected.
ListImages ==
    /\ pc = "list"
    /\ \/ pc' = "open" /\ UNCHANGED <<ended, result>>
       \/ mode = "read" /\ Fail
    /\ UNCHANGED <<mode, store, opened, ctxDone, goroutines, streamer, startup, storage, faults,
                   panicked>>

\* Shard by shard: open or create its file and start its goroutine.  A local
\* file exists as soon as it is created, a remote one once it is uploaded.
OpenShard ==
    /\ pc = "open" /\ opened < Streams
    /\ LET i == opened + 1 IN
       \/ /\ opened' = i
          /\ sh' = [sh EXCEPT ![i] = "copy"]
          /\ obj' = IF mode = "write" /\ ~remote THEN [obj EXCEPT ![i] = 0] ELSE obj
          /\ UNCHANGED <<pc, ended, result>>
       \/ Fail /\ UNCHANGED <<opened, sh, obj>>
    /\ UNCHANGED <<mode, store, ctxDone, n, failed, ioErr, streamer, startup, up, got,
                   faults, panicked>>

\* The goroutine that reads stderr is started before the streamer itself.
StartStreamer ==
    /\ pc = "open" /\ opened = Streams
    /\ scanner' = "on"
    /\ \/ strm' = "starting" /\ pc' = "select" /\ UNCHANGED <<ended, result>>
       \/ Fail /\ UNCHANGED strm
    /\ UNCHANGED <<mode, store, opened, ctxDone, goroutines, moved, stderr, ready, storage,
                   faults, panicked>>

\* select: the context, a timeout of five minutes, ready, or exited.
Select ==
    /\ pc = "select"
    /\ \/ ctxDone /\ Fail
       \/ Fail
       \/ ready /\ pc' = "dial" /\ UNCHANGED <<ended, result>>
       \/ strm = "dead" /\ pc' = "dial" /\ UNCHANGED <<ended, result>>
    /\ UNCHANGED <<mode, store, opened, ctxDone, goroutines, streamer, startup, storage,
                   faults, panicked>>

Dial ==
    /\ pc = "dial"
    /\ \/ strm = "listening" /\ pc' = "body" /\ ended' = TRUE /\ UNCHANGED result
       \/ strm # "listening" /\ Fail
    /\ UNCHANGED <<mode, store, opened, ctxDone, goroutines, streamer, startup, storage,
                   faults, panicked>>

-----------------------------------------------------------------------------
(* wait *)

\* stopListener and Close of the connection, whenever the caller is done with
\* it.  Their errors are dropped.
Stop ==
    /\ pc = "body"
    /\ pc' = "io"
    /\ strm' = IF strm = "listening" THEN "draining" ELSE strm
    /\ UNCHANGED <<mode, store, opened, result, ctxDone, ended, goroutines, moved, stderr,
                   startup, storage, faults, panicked>>

\* io.Wait, close(ioErr) and the SIGTERM to the streamer.
IOWait ==
    /\ pc = "io"
    /\ \A i \in Shards : sh[i] = "done"
    /\ pc' = "exit"
    /\ strm' = "dead"
    /\ UNCHANGED <<mode, store, opened, result, ctxDone, ended, goroutines, moved, stderr,
                   startup, storage, faults, panicked>>

\* wg.Wait, and the join of what is in ioErr.
Join ==
    /\ pc = "exit" /\ scanner = "done" /\ strm = "dead"
    /\ pc' = "returned"
    /\ result' = IF ioErr.err THEN "error" ELSE "ok"
    /\ UNCHANGED <<mode, store, opened, ctxDone, ended, goroutines, streamer, startup,
                   storage, faults, panicked>>

-----------------------------------------------------------------------------
(* The goroutine of a shard *)

\* Mutant: the daemon keeps its own copies of the streamer's pipe ends.
OtherEndClosed_Kept(i) == FALSE /\ i \in Shards

\* No process holds the other end of the pipe any more.
OtherEndClosed(i) == ended /\ strm \in {"off", "finished", "dead"}

\* A local file grows as it is written to.
WriteLocal(i) ==
    /\ store = "local"
    /\ \/ obj' = [obj EXCEPT ![i] = @ + 1] /\ n' = [n EXCEPT ![i] = @ + 1] /\ UNCHANGED failed
       \/ failed' = failed \cup {i} /\ UNCHANGED <<obj, n>>
    /\ UNCHANGED up

\* The first Write starts the goroutine of the upload and all write into its
\* pipe, which is broken once the upload has failed.
WriteS3(i) ==
    /\ store = "s3"
    /\ \/ /\ up[i] \in {"off", "on"} /\ n[i] - got[i] < PipeCap
          /\ up' = [up EXCEPT ![i] = "on"] /\ n' = [n EXCEPT ![i] = @ + 1] /\ UNCHANGED failed
       \/ up[i] = "failed" /\ failed' = failed \cup {i} /\ UNCHANGED <<up, n>>
    /\ UNCHANGED obj

\* The same; but with a bad URL there is no upload, and Close will wait for it.
WriteCedana(i) ==
    /\ store = "cedana"
    /\ \/ /\ up[i] \in {"off", "on"} /\ n[i] - got[i] < PipeCap
          /\ up' = [up EXCEPT ![i] = "on"] /\ n' = [n EXCEPT ![i] = @ + 1] /\ UNCHANGED failed
       \/ up[i] = "failed" /\ failed' = failed \cup {i} /\ UNCHANGED <<up, n>>
       \/ /\ up[i] = "off" /\ up' = [up EXCEPT ![i] = "never"]
          /\ failed' = failed \cup {i} /\ UNCHANGED n
    /\ UNCHANGED obj

\* WriteTo, one chunk: from the pipe to the file.
CopyToFile(i) ==
    /\ mode = "write" /\ sh[i] = "copy" /\ n[i] < moved[i]
    /\ WriteLocal(i) \/ WriteS3(i) \/ WriteCedana(i)
    /\ sh' = IF i \in failed' THEN [sh EXCEPT ![i] = "fail"] ELSE sh
    /\ UNCHANGED <<request, ioErr, streamer, startup, got, faults, panicked>>

\* Mutant: the compressing writer is not closed.
EndOfPipe_NoFlush(i) ==
    /\ mode = "write" /\ sh[i] = "copy" /\ n[i] = moved[i] /\ OtherEndClosed(i)
    /\ sh' = [sh EXCEPT ![i] = "close"]
    /\ obj' = IF ~remote /\ obj[i] > 0 THEN [obj EXCEPT ![i] = @ - 1] ELSE obj
    /\ UNCHANGED <<request, n, failed, ioErr, streamer, startup, up, got, faults, panicked>>

\* WriteTo meets the end of the pipe.  Closing the compressing writer writes
\* its last block; an error of that is dropped, and only a remote file reports
\* it again, on Close.
EndOfPipe(i) ==
    /\ mode = "write" /\ sh[i] = "copy" /\ n[i] = moved[i] /\ OtherEndClosed(i)
    /\ sh' = [sh EXCEPT ![i] = "close"]
    /\ \/ UNCHANGED <<obj, faults>>
       \/ /\ ~remote /\ obj[i] > 0
          /\ obj' = [obj EXCEPT ![i] = @ - 1] /\ faults' = faults \cup {"flush"}
    /\ UNCHANGED <<request, n, failed, ioErr, streamer, startup, up, got, panicked>>

\* ReadFrom, one chunk: from the file to the pipe.  A read may fail, and a
\* write does when nobody can read the pipe.
CopyFromFile(i) ==
    /\ mode = "read" /\ sh[i] = "copy" /\ n[i] < Size[i]
    /\ \/ /\ ~OtherEndClosed(i) /\ n[i] - moved[i] < PipeCap
          /\ n' = [n EXCEPT ![i] = @ + 1] /\ UNCHANGED <<sh, failed>>
       \/ failed' = failed \cup {i} /\ sh' = [sh EXCEPT ![i] = "fail"] /\ UNCHANGED n
    /\ UNCHANGED <<request, ioErr, streamer, startup, storage, faults, panicked>>

EndOfFile(i) ==
    /\ mode = "read" /\ sh[i] = "copy" /\ n[i] = Size[i]
    /\ sh' = [sh EXCEPT ![i] = "close"]
    /\ UNCHANGED <<request, n, failed, ioErr, streamer, startup, storage, faults, panicked>>

\* ioErr <- err blocks when the channel is full; nobody receives before IOWait.
Send(err) ==
    /\ ioErr.len < Streams
    /\ ioErr' = [len |-> ioErr.len + 1, err |-> ioErr.err \/ err]

SendError(i) ==
    /\ sh[i] = "fail"
    /\ Send(TRUE)
    /\ sh' = [sh EXCEPT ![i] = "close"]
    /\ UNCHANGED <<request, n, failed, streamer, startup, storage, faults, panicked>>

\* Mutant: Close does not wait for the upload.
Close_NoWait(i) ==
    /\ sh[i] = "close"
    /\ up' = [up EXCEPT ![i] = IF @ = "on" THEN "closing" ELSE @]
    /\ Send(FALSE) /\ sh' = [sh EXCEPT ![i] = "done"]
    /\ UNCHANGED <<request, n, failed, streamer, startup, got, obj, faults, panicked>>

\* The deferred ioErr <- file.Close().  A remote file that was never written to
\* has no upload; otherwise Close ends the upload's input and waits for it.
Close(i) ==
    /\ sh[i] = "close"
    /\ \/ /\ up[i] = "on"
          /\ up' = [up EXCEPT ![i] = "closing"]
          /\ UNCHANGED <<sh, ioErr>>
       \/ /\ up[i] \in {"off", "ok", "failed"}
          /\ Send(up[i] = "failed") /\ sh' = [sh EXCEPT ![i] = "done"]
          /\ UNCHANGED up
    /\ UNCHANGED <<request, n, failed, streamer, startup, got, obj, faults, panicked>>

Goroutine(i) ==
    \/ CopyToFile(i) \/ EndOfPipe(i) \/ CopyFromFile(i) \/ EndOfFile(i)
    \/ SendError(i) \/ Close(i)

-----------------------------------------------------------------------------
(* The upload goroutine of a remote file *)

\* It takes what was written, and at the end of its input the object exists;
\* or it fails, at any time, and later writes fail.
Upload(i) ==
    /\ up[i] \in {"on", "closing"}
    /\ \/ got[i] < n[i] /\ got' = [got EXCEPT ![i] = @ + 1] /\ UNCHANGED <<up, obj>>
       \/ /\ up[i] = "closing" /\ got[i] = n[i]
          /\ up' = [up EXCEPT ![i] = "ok"] /\ obj' = [obj EXCEPT ![i] = got[i]]
          /\ UNCHANGED got
       \/ up' = [up EXCEPT ![i] = "failed"] /\ UNCHANGED <<got, obj>>
    /\ UNCHANGED <<request, goroutines, streamer, startup, faults, panicked>>

-----------------------------------------------------------------------------
(* The streamer process, and the goroutines that watch it *)

Alive == strm \in {"starting", "listening", "draining", "finished"}

StreamerInit ==
    /\ strm = "starting"
    /\ strm' = "listening" /\ stderr' = "printed"
    /\ UNCHANGED <<request, goroutines, moved, startup, storage, faults, panicked>>

\* It moves a chunk through a pipe ...
StreamerMove(i) ==
    /\ strm \in {"listening", "draining"}
    /\ IF mode = "write" THEN moved[i] < Size[i] /\ moved[i] - n[i] < PipeCap
                         ELSE moved[i] < n[i]
    /\ moved' = [moved EXCEPT ![i] = @ + 1]
    /\ UNCHANGED <<request, goroutines, strm, stderr, startup, storage, faults, panicked>>

\* ... and once its listener is stopped and everything is moved it closes them.
StreamerFinish ==
    /\ strm = "draining" /\ \A i \in Shards : moved[i] = Size[i]
    /\ strm' = "finished"
    /\ UNCHANGED <<request, goroutines, moved, stderr, startup, storage, faults, panicked>>

\* It may crash; when the context is cancelled it gets a SIGTERM.
StreamerDies ==
    /\ Alive
    /\ strm' = "dead"
    /\ faults' = faults \cup IF ctxDone \/ strm = "finished" THEN {} ELSE {"crash"}
    /\ UNCHANGED <<request, goroutines, moved, stderr, startup, storage, panicked>>

\* The request is cancelled, or it has ended and gRPC cancels its context.
Cancel ==
    /\ ~ctxDone /\ pc # "returned"
    /\ ctxDone' = TRUE /\ faults' = faults \cup {"cancel"}
    /\ UNCHANGED <<mode, store, pc, opened, result, ended, goroutines, streamer, startup,
                   storage, panicked>>

\* The scanner reads the message; unless the context is cancelled ...
Scan ==
    /\ scanner = "on"
    /\ \/ /\ stderr = "printed" /\ stderr' = "read"
          /\ scanner' = IF ctxDone THEN "done" ELSE "init"
       \/ /\ strm = "dead" \/ (strm = "off" /\ ended)
          /\ scanner' = "done" /\ UNCHANGED stderr
    /\ UNCHANGED <<request, goroutines, strm, moved, ready, storage, faults, panicked>>

\* ... it sends on ready, which panics when NewStreamingFs has closed it.
MarkReady ==
    /\ scanner = "init"
    /\ IF ended THEN panicked' = TRUE /\ UNCHANGED ready
                ELSE ready' = TRUE /\ UNCHANGED panicked
    /\ scanner' = "on"
    /\ UNCHANGED <<request, goroutines, streamer, storage, faults>>

-----------------------------------------------------------------------------
Request == ListImages \/ OpenShard \/ StartStreamer \/ Select \/ Dial \/ Stop \/ IOWait \/ Join

Streamer == StreamerInit \/ (\E i \in Shards : StreamerMove(i)) \/ StreamerFinish

Watchers == Scan \/ MarkReady

\* wait has returned, or waits for a goroutine that waits for the channel.
Finished ==
    /\ pc \in {"returned", "failed", "io"}
    /\ UNCHANGED vars

Next ==
    \/ ~panicked /\ (\/ Request \/ Streamer \/ StreamerDies \/ Watchers \/ Cancel
                     \/ \E i \in Shards : Goroutine(i) \/ Upload(i))
    \/ Finished
    \/ panicked /\ UNCHANGED vars

Spec == Init /\ [][Next]_vars

\* The daemon's goroutines, the streamer and uploads are not suspended for ever,
\* and a caller that was given a filesystem calls wait some time.
Fairness ==
    /\ WF_vars(Request) /\ WF_vars(Streamer) /\ WF_vars(Watchers)
    /\ \A i \in Shards : WF_vars(Goroutine(i)) /\ WF_vars(Upload(i))
    /\ WF_vars(ctxDone /\ StreamerDies) /\ WF_vars(pc = "failed" /\ Cancel)

FairSpec == Spec /\ Fairness

-----------------------------------------------------------------------------
(* Properties *)

\* The types of the state.
TypeOK ==
    /\ mode \in {"read", "write"} /\ store \in {"local", "s3", "cedana"}
    /\ pc \in {"list", "open", "select", "dial", "body", "io", "exit", "returned", "failed"}
    /\ opened \in 0..Streams /\ result \in {"none", "ok", "error"}
    /\ ctxDone \in BOOLEAN /\ ended \in BOOLEAN
    /\ sh \in [Shards -> {"none", "copy", "fail", "close", "done"}]
    /\ n \in [Shards -> Nat] /\ failed \in SUBSET Shards
    /\ ioErr \in [len : 0..Streams, err : BOOLEAN]
    /\ strm \in {"off", "starting", "listening", "draining", "finished", "dead"}
    /\ moved \in [Shards -> Nat] /\ stderr \in {"none", "printed", "read"}
    /\ scanner \in {"off", "on", "init", "done"} /\ ready \in BOOLEAN
    /\ up \in [Shards -> {"off", "never", "on", "closing", "ok", "failed"}]
    /\ got \in [Shards -> Nat] /\ obj \in [Shards -> Nat \cup {None}]
    /\ faults \in SUBSET Faults /\ panicked \in BOOLEAN

\* A shard has arrived as a whole: in the storage, or in the streamer's pipe.
\* The file of an empty shard does not exist in a remote storage.
Whole(i) ==
    IF mode = "read" THEN n[i] = Size[i]
    ELSE obj[i] = Size[i] \/ (remote /\ Size[i] = 0)

\* When wait returns no error, every shard has arrived as a whole, unless the
\* streamer died, the request was cancelled, or the last block of a compressed
\* local file was lost, which NewStreamingFs does not notice.
StoredWhole == result = "ok" /\ faults = {} => \A i \in Shards : Whole(i)

\* When wait has returned nothing works for the request any more: no goroutine
\* copies, no upload runs, the streamer has exited.
QuietAfterWait ==
    pc = "returned" =>
        /\ strm = "dead" /\ scanner = "done"
        /\ \A i \in Shards : sh[i] = "done" /\ up[i] \notin {"on", "closing"}

\* The send on the closed channel ready, which ends the daemon, happens only to
\* a request that has given up on the streamer.
PanicOnlyAfterGivingUp == panicked => pc = "failed"

\* The types; what wait's nil means; what is over when it returns; and who may be hit
\* by the late message of a streamer (NewStreamingFs).
StreamingSafe == TypeOK /\ StoredWhole /\ QuietAfterWait /\ PanicOnlyAfterGivingUp

\* wait returns, and the goroutines of a request that failed end; but not when a
\* copy failed, as there is no room in ioErr for its second error.
GoroutinesEnd ==
    pc \in {"io", "failed"} ~>
        \/ failed # {} \/ panicked
        \/ pc # "io" /\ \A i \in Shards : sh[i] \in {"none", "done"}

\* As the comment of NewStreamingFs has it: the wait function returns, and with
\* it any error that occurred during the streaming.
WaitReturns == pc = "io" ~> pc = "returned"

\* What the streaming filesystem promises: the shards are transferred, or an
\* error is reported.
Abstract == INSTANCE Transfer WITH
    arrived <- {i \in Shards : Whole(i)},
    outcome <- result,
    lossy <- faults # {}

\* NewStreamingFs and its wait function implement Transfer: wait reports success only
\* once every shard has arrived, and its outcome never changes.
ImplementsTransfer == Abstract!Spec
=============================================================================
