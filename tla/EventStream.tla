---------------------------- MODULE EventStream ----------------------------
(***************************************************************************)
(* The Kubernetes helper's event stream (plugins/k8s/internal/eventstream/ *)
(* rmq.go): the life of its connection, consumer and publisher, and the    *)
(* handling of one request to checkpoint a pod.                            *)
(*                                                                         *)
(* The handler freezes the pod's containers in parallel, dumps them in     *)
(* parallel once all are frozen, publishes each result and thaws them all. *)
(* The freezing goroutines share one variable err and one map errMap, with *)
(* no lock: what they read of them may be another goroutine's.             *)
(***************************************************************************)
EXTENDS Integers, FiniteSets

CONSTANT Containers   \* the containers of the pod, by container_order

VARIABLES
    conn,      \* es.Conn is set
    connOpen,  \* the connection is open
    open,      \* the consumer and publisher made and not closed
    kept,      \* the ones es.checkpointRequests and es.checkpoints hold
    start,     \* for each of both: where its Start method is
    close,     \* where Close is: "no", "closing" or "done"
    pc,        \* where the handler is
    ids,       \* the containers with a checkpoint in the propagator
    fpc,       \* the freezing goroutine of each container
    err,       \* the shared err: is it an error?
    errMap,    \* errMap: container -> is its entry an error?  (partial)
    mixed,     \* a goroutine has read the err of another
    frozen,    \* the frozen containers
    gpuFrozen, \* the containers whose GPU is frozen
    dpc,       \* the dumping goroutine of each container
    dumped,    \* the containers that were dumped
    pubs,      \* what was published: <<container, status>>
    thawFails, \* an Unfreeze has failed
    stopped,   \* the context is done
    crashed

ends == <<conn, connOpen, open, kept, start, close>>
freezing == <<fpc, err, errMap, mixed>>
vars == <<ends, pc, ids, freezing, frozen, gpuFrozen, dpc, dumped, pubs, thawFails, stopped, crashed>>

Ends == {"publisher", "consumer"}
Alive == ~crashed

Init ==
    /\ conn = TRUE /\ connOpen = TRUE /\ open = {} /\ kept = {}
    /\ start = [e \in Ends |-> "idle"] /\ close = "no" /\ pc = "idle" /\ ids = {}
    /\ fpc = [c \in Containers |-> "off"] /\ err = FALSE
    /\ errMap = [c \in {} |-> FALSE] /\ mixed = FALSE
    /\ frozen = {} /\ gpuFrozen = {} /\ dpc = [c \in Containers |-> "off"] /\ dumped = {}
    /\ pubs = {} /\ thawFails = FALSE /\ stopped = FALSE /\ crashed = FALSE

-----------------------------------------------------------------------------
(* The life of the stream: StartCheckpointsPublisher, StartCheckpointsConsumer
   and Close, which lifecycleMu lets be called from any goroutine *)

\* The consumer is only started once the publisher is.
StartRead(e) ==
    /\ Alive /\ start[e] = "idle" /\ (e = "consumer" => start["publisher"] = "running")
    /\ start' = [start EXCEPT ![e] = IF conn THEN "read" ELSE "refused"]
    /\ UNCHANGED <<conn, connOpen, open, kept, close>>

StartMake(e) ==
    /\ Alive /\ start[e] = "read"
    /\ \/ start' = [start EXCEPT ![e] = "made"] /\ open' = open \cup {e}
       \/ start' = [start EXCEPT ![e] = "refused"] /\ UNCHANGED open
    /\ UNCHANGED <<conn, connOpen, kept, close>>

\* Mutant: the stream is not looked at again.
StartKeep_NoCheck(e) ==
    /\ Alive /\ start[e] = "made"
    /\ start' = [start EXCEPT ![e] = "running"] /\ kept' = kept \cup {e}
    /\ UNCHANGED <<conn, connOpen, open, close>>

\* Under the lock, look again: the stream may have been closed meanwhile.
StartKeep(e) ==
    /\ Alive /\ start[e] = "made"
    /\ IF conn
       THEN start' = [start EXCEPT ![e] = "running"] /\ kept' = kept \cup {e} /\ UNCHANGED open
       ELSE start' = [start EXCEPT ![e] = "refused"] /\ open' = open \ {e} /\ UNCHANGED kept
    /\ UNCHANGED <<conn, connOpen, close>>

\* consumer.Run returns when the consumer is closed, or with an error.
RunReturns ==
    /\ Alive /\ start["consumer"] = "running"
    /\ start' = [start EXCEPT !["consumer"] = "returned"]
    /\ open' = open \ {"consumer"} /\ kept' = kept \ {"consumer"}
    /\ UNCHANGED <<conn, connOpen, close>>

\* What Close takes under the lock it closes after it.
CloseTake ==
    /\ Alive /\ close = "no" /\ close' = "closing"
    /\ conn' = FALSE /\ kept' = {} /\ open' = open \ kept
    /\ UNCHANGED <<connOpen, start>>

CloseConn ==
    /\ Alive /\ close = "closing" /\ close' = "done" /\ connOpen' = FALSE
    /\ UNCHANGED <<conn, open, kept, start>>

Lifecycle ==
    /\ \/ \E e \in Ends : StartRead(e) \/ StartMake(e) \/ StartKeep(e)
       \/ RunReturns \/ CloseTake \/ CloseConn
    /\ UNCHANGED <<pc, ids, freezing, frozen, gpuFrozen, dpc, dumped, pubs, thawFails, stopped, crashed>>

-----------------------------------------------------------------------------
(* checkpointHandler *)

\* The request is decoded and its pod found, or acknowledged and dropped.
Receive ==
    /\ Alive /\ pc = "idle" /\ start["consumer"] = "running"
    /\ pc' \in {"prepare", "done"}
    /\ UNCHANGED <<ends, ids, freezing, frozen, gpuFrozen, dpc, dumped, pubs, thawFails, stopped, crashed>>

\* A checkpoint is made in the propagator for each container, in order; a
\* failure drops the request, with the checkpoints made so far.
CreateCheckpoint ==
    /\ Alive /\ pc = "prepare"
    /\ \/ /\ ~stopped /\ \E c \in Containers \ ids : ids' = ids \cup {c} /\ UNCHANGED pc
       \/ ids = Containers /\ pc' = "secret" /\ UNCHANGED ids
       \/ ids # Containers /\ pc' = "done" /\ UNCHANGED ids
    /\ UNCHANGED <<ends, freezing, frozen, gpuFrozen, dpc, dumped, pubs, thawFails, stopped, crashed>>

\* The secret of the image registry, without which a rootfs request is dropped.
GetImageSecret ==
    /\ Alive /\ pc = "secret" /\ pc' \in {"build", "done"}
    /\ UNCHANGED <<ends, ids, freezing, frozen, gpuFrozen, dpc, dumped, pubs, thawFails, stopped, crashed>>

\* A dump request is built for each container.
BuildRequests ==
    /\ Alive /\ pc = "build" /\ pc' = "freeze"
    /\ UNCHANGED <<ends, ids, freezing, frozen, gpuFrozen, dpc, dumped, pubs, thawFails, stopped, crashed>>

\* All freezing goroutines are started, and all Unfreeze calls deferred.
StartFreezing ==
    /\ Alive /\ pc = "freeze"
    /\ pc' = "freezing" /\ fpc' = [c \in Containers |-> "call"]
    /\ UNCHANGED <<ends, ids, err, errMap, mixed, frozen, gpuFrozen, dpc, dumped, pubs, thawFails, stopped, crashed>>

\* The daemon's Freeze: adapters that may refuse, the GPU, then the container's
\* runtime.
FreezeGPU(c) == gpuFrozen' = gpuFrozen \cup {c}
FreezeContainer(c) == frozen' = frozen \cup {c}

Freeze(c, ok) ==
    \/ ok /\ ~stopped /\ FreezeGPU(c) /\ FreezeContainer(c)
    \/ ~ok /\ ~stopped /\ FreezeGPU(c) /\ UNCHANGED frozen
    \/ ~ok /\ UNCHANGED <<frozen, gpuFrozen>>

\* The result of a goroutine's call goes to the shared err.
FreezeCall(c) ==
    /\ Alive /\ fpc[c] = "call"
    /\ \E ok \in BOOLEAN : Freeze(c, ok) /\ err' = ~ok
    /\ mixed' = (mixed \/ \E d \in Containers \ {c} : fpc[d] \in {"test", "write"})
    /\ fpc' = [fpc EXCEPT ![c] = "test"]
    /\ UNCHANGED <<ends, pc, ids, errMap, dpc, dumped, pubs, thawFails, stopped, crashed>>

FreezeTest(c) ==
    /\ Alive /\ fpc[c] = "test"
    /\ fpc' = [fpc EXCEPT ![c] = IF err THEN "write" ELSE "done"]
    /\ UNCHANGED <<ends, pc, ids, err, errMap, mixed, frozen, gpuFrozen, dpc, dumped, pubs, thawFails, stopped, crashed>>

\* The entry is whatever err is now.
FreezeWrite(c) ==
    /\ Alive /\ fpc[c] = "write"
    /\ errMap' = [d \in DOMAIN errMap \cup {c} |-> IF d = c THEN err ELSE errMap[d]]
    /\ fpc' = [fpc EXCEPT ![c] = "done"]
    /\ UNCHANGED <<ends, pc, ids, err, mixed, frozen, gpuFrozen, dpc, dumped, pubs, thawFails, stopped, crashed>>

\* Two writes to a map at a time end the program.
ConcurrentMapWrites ==
    /\ Alive /\ Cardinality({c \in Containers : fpc[c] = "write"}) > 1
    /\ crashed' = TRUE
    /\ UNCHANGED <<ends, pc, ids, freezing, frozen, gpuFrozen, dpc, dumped, pubs, thawFails, stopped>>

\* publishCheckpoint: nothing without a publisher; else a status, or an error of
\* the publisher that nobody looks at.
Publish(new) == pubs' \in IF "publisher" \in kept THEN {pubs, pubs \cup new} ELSE {pubs}

Status(e) == IF e THEN "error" ELSE "success"

\* After wg.Wait: the failed freezes are published; or the dumps are started.
FrozenAll ==
    /\ Alive /\ pc = "freezing" /\ \A c \in Containers : fpc[c] = "done"
    /\ IF DOMAIN errMap # {}
       THEN /\ Publish({<<c, Status(errMap[c])>> : c \in DOMAIN errMap})
            /\ pc' = "thaw" /\ UNCHANGED dpc
       ELSE pc' = "dumping" /\ dpc' = [c \in Containers |-> "call"] /\ UNCHANGED pubs
    /\ UNCHANGED <<ends, ids, freezing, frozen, gpuFrozen, dumped, thawFails, stopped, crashed>>

DumpCall(c) ==
    /\ Alive /\ dpc[c] = "call"
    /\ \/ ~stopped /\ dumped' = dumped \cup {c}
       \/ UNCHANGED dumped
    /\ dpc' = [dpc EXCEPT ![c] = "publish"]
    /\ UNCHANGED <<ends, pc, ids, freezing, frozen, gpuFrozen, pubs, thawFails, stopped, crashed>>

DumpPublish(c) ==
    /\ Alive /\ dpc[c] = "publish"
    /\ Publish({<<c, Status(c \notin dumped)>>})
    /\ dpc' = [dpc EXCEPT ![c] = "done"]
    /\ UNCHANGED <<ends, pc, ids, freezing, frozen, gpuFrozen, dumped, thawFails, stopped, crashed>>

\* Mutant: the handler returns without waiting for the dumps.
DumpedAll_NoWait ==
    /\ Alive /\ pc = "dumping" /\ pc' = "thaw"
    /\ UNCHANGED <<ends, ids, freezing, frozen, gpuFrozen, dpc, dumped, pubs, thawFails, stopped, crashed>>

DumpedAll ==
    /\ Alive /\ pc = "dumping" /\ \A c \in Containers : dpc[c] = "done"
    /\ pc' = "thaw"
    /\ UNCHANGED <<ends, ids, freezing, frozen, gpuFrozen, dpc, dumped, pubs, thawFails, stopped, crashed>>

\* The daemon's Unfreeze: the GPU, then the container.
UnfreezeGPU(c) == gpuFrozen' = gpuFrozen \ {c}
UnfreezeContainer(c) == frozen' = frozen \ {c}

DaemonUnfreeze(c, ok) ==
    \/ ok /\ ~stopped /\ UnfreezeGPU(c) /\ UnfreezeContainer(c)
    \/ ~ok /\ ~stopped /\ UnfreezeGPU(c) /\ UNCHANGED frozen
    \/ ~ok /\ UNCHANGED <<frozen, gpuFrozen>>

\* The deferred calls of Unfreeze, for every container, whatever became of its
\* Freeze.
Unfreeze ==
    /\ Alive /\ pc = "thaw"
    /\ LET rest == {c \in Containers : fpc[c] = "done"} IN
       \/ rest = {} /\ pc' = "done" /\ UNCHANGED <<fpc, frozen, gpuFrozen, thawFails>>
       \/ \E c \in rest, ok \in BOOLEAN :
             /\ DaemonUnfreeze(c, ok) /\ thawFails' = (thawFails \/ ~ok)
             /\ fpc' = [fpc EXCEPT ![c] = "thawed"] /\ UNCHANGED pc
    /\ UNCHANGED <<ends, ids, err, errMap, mixed, dpc, dumped, pubs, stopped, crashed>>

\* The helper is told to stop: every call of the daemon fails from now on.
Stop ==
    /\ Alive /\ ~stopped /\ stopped' = TRUE
    /\ UNCHANGED <<ends, pc, ids, freezing, frozen, gpuFrozen, dpc, dumped, pubs, thawFails, crashed>>

Next ==
    \/ Lifecycle \/ Receive \/ CreateCheckpoint \/ GetImageSecret \/ BuildRequests \/ StartFreezing \/ FrozenAll
    \/ DumpedAll \/ Unfreeze \/ ConcurrentMapWrites \/ Stop
    \/ \E c \in Containers :
          FreezeCall(c) \/ FreezeTest(c) \/ FreezeWrite(c) \/ DumpCall(c) \/ DumpPublish(c)

Spec == Init /\ [][Next]_vars

-----------------------------------------------------------------------------
(* Properties *)

\* Once the stream is closed and no Start method is under way, its connection,
\* consumer and publisher are closed: a Start that Close overtook closes what
\* it made.
NothingLeaks ==
    (close = "done" /\ \A e \in Ends : start[e] \notin {"read", "made"}) => ~connOpen /\ open = {}

\* No container is thawed while another of its pod is being dumped.
ThawedTogether ==
    (\E c \in Containers : fpc[c] = "thawed") =>
        \A c \in Containers : dpc[c] \in {"off", "publish", "done"}

\* The handler leaves no container frozen, nor its GPU, whatever has failed but
\* an Unfreeze: a container that could not be frozen is thawed too, since its
\* GPU may be.
ThawedAfter == (pc = "done" /\ ~thawFails) => frozen = {} /\ gpuFrozen = {}

\* A checkpoint is published as a success only if its own container was dumped,
\* and as an error only if it was not -- unless one freezing goroutine has read
\* what another wrote to err.
PublishedRight ==
    ~mixed => \A p \in pubs : p[2] = Status(p[1] \notin dumped)

\* What a pod is promised: its containers stay frozen until all are dumped, are all
\* thawed in the end, and each dump is published as what it was
\* (checkpointHandler).
PodSafe == ThawedTogether /\ ThawedAfter /\ PublishedRight

\* "all containers frozen, starting dump": what the handler logs before it
\* starts the dumps.
AllFrozen == pc = "dumping" => frozen = Containers
=============================================================================
