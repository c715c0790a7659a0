-------------------------- MODULE JobManagerProofs --------------------------
(***************************************************************************)
(* For any number of jobs, checkpoints, handlers and any capacity of the   *)
(* channel: the types, and that no update and no deletion of a local job   *)
(* and none of a checkpoint is ever forgotten on its way to the DB.        *)
(***************************************************************************)
EXTENDS JobManager, TLAPS

PutAction == {PutJob(j) : j \in JIDs} \cup {PutCheckpoint(c) : c \in CIDs}

(***************************************************************************)
(* The locals a handler and the syncer rely on at each point of their code.*)
(***************************************************************************)
HandlerLocals ==
    {l \in Locals :
        /\ l.pc \in {"new", "delRemove", "delMark", "delSend", "delList"} => l.jid \in LocalJIDs
        /\ l.pc \in {"manage", "sendJob", "addStore", "addSend"} => l.jid \in JIDs
        /\ l.pc \in {"cpRemove", "cpMark", "cpSend", "addStore", "addSend"} => l.cid \in CIDs}

SyncerLocals ==
    /\ spc \in {"load", "put", "delete", "unmark"} => sact \in PutAction
    /\ spc = "put" => IF sact.typ = "putJob" THEN sval \in Job ELSE sval \in JIDs
    /\ spc \notin {"select", "tick", "mark"} => sact \in Action
    /\ spc \in {"store", "listCheckpoints", "storeCheckpoints"} => sval \in JIDs
    /\ spc = "store" => todo[sval] # None

TypeInv == TypeOK /\ th \in [Threads -> HandlerLocals] /\ SyncerLocals

\* The four kinds of actions on the channel are told apart by typ.
LEMMA ActionFacts ==
    /\ \A j \in JIDs : PutJob(j) \in PutAction /\ PutJob(j).typ = "putJob" /\ PutJob(j).id = j
    /\ \A c \in CIDs : /\ PutCheckpoint(c) \in PutAction
                       /\ PutCheckpoint(c).typ = "putCheckpoint" /\ PutCheckpoint(c).id = c
    /\ \A a \in Action : \/ a = Initialize /\ a.typ = "initialize"
                         \/ a = Shutdown /\ a.typ = "shutdown"
                         \/ a \in PutAction /\ a.typ \in {"putJob", "putCheckpoint"}
    /\ \A a \in PutAction : IF a.typ = "putJob" THEN a.id \in JIDs /\ a = PutJob(a.id)
                                                ELSE a.id \in CIDs /\ a = PutCheckpoint(a.id)
    /\ Initialize \in Action /\ Shutdown \in Action /\ PutAction \subseteq Action
<1>1. \A j \in JIDs : PutJob(j) \in PutAction /\ PutJob(j).typ = "putJob" /\ PutJob(j).id = j
  BY DEF PutAction, PutJob
<1>2. \A c \in CIDs : /\ PutCheckpoint(c) \in PutAction
                      /\ PutCheckpoint(c).typ = "putCheckpoint" /\ PutCheckpoint(c).id = c
  BY DEF PutAction, PutCheckpoint
<1>3. \A a \in PutAction : IF a.typ = "putJob" THEN a.id \in JIDs /\ a = PutJob(a.id)
                                               ELSE a.id \in CIDs /\ a = PutCheckpoint(a.id)
  BY DEF PutAction, PutJob, PutCheckpoint
<1>4. \A a \in PutAction : a.typ \in {"putJob", "putCheckpoint"}
  BY DEF PutAction, PutJob, PutCheckpoint
<1>5. Action = {Initialize, Shutdown} \cup PutAction
  BY DEF Action, PutAction
<1>6. Initialize.typ = "initialize" /\ Shutdown.typ = "shutdown"
  BY DEF Initialize, Shutdown
<1> QED
  BY <1>1, <1>2, <1>3, <1>4, <1>5, <1>6

-----------------------------------------------------------------------------
(* What each kind of step leaves alone.                                    *)

\* A handler's step leaves the daemon's life, the DB and the syncer alone.
LEMMA HandlerFrame ==
    ASSUME NEW t \in Threads, Request(t) \/ ThreadStep(t), ~Crash
    PROVE  UNCHANGED <<daemon, db, syncer>>
<1>1. CASE Request(t)
  <2>1. ASSUME NEW j \in JIDs, NEW p \in PIDs, ManageCheck(t, j, p)
        PROVE  UNCHANGED <<daemon, db, syncer>>
    BY <2>1 DEF ManageCheck
  <2>2. ASSUME NEW j \in JIDs, NEW c \in CIDs, AddCheckpointLookup(t, j, c)
        PROVE  UNCHANGED <<daemon, db, syncer>>
    BY <2>2 DEF AddCheckpointLookup
  <2>3. ASSUME NEW j \in JIDs, NewCheck(t, j) \/ Get(t, j) \/ DeleteLoad(t, j)
        PROVE  UNCHANGED <<daemon, db, syncer>>
    BY <2>3 DEF NewCheck, Get, DeleteLoad
  <2>4. ASSUME NEW c \in CIDs, DeleteCheckpointLoad(t, c)
        PROVE  UNCHANGED <<daemon, db, syncer>>
    BY <2>4 DEF DeleteCheckpointLoad
  <2> QED
    BY <1>1, <2>1, <2>2, <2>3, <2>4 DEF Request
<1>2. CASE ThreadStep(t)
  <2>1. CASE NewStore(t) \/ ManageSet(t) \/ SendJob(t) \/ Panic(t)
    BY <2>1 DEF NewStore, ManageSet, SendJob, Panic
  <2>2. CASE DeleteRemove(t) \/ DeleteMark(t) \/ DeleteSend(t) \/ DeleteList(t) \/ DeleteEach(t)
    BY <2>2, Zenon DEF DeleteRemove, DeleteMark, DeleteSend, DeleteList, DeleteEach
  <2>3. CASE DeleteCheckpointRemove(t) \/ DeleteCheckpointMark(t) \/ DeleteCheckpointSend(t)
    BY <2>3 DEF DeleteCheckpointRemove, DeleteCheckpointMark, DeleteCheckpointSend
  <2>4. CASE AddCheckpointStore(t) \/ AddCheckpointSend(t)
    BY <2>4 DEF AddCheckpointStore, AddCheckpointSend
  <2> QED
    BY <1>2, <2>1, <2>2, <2>3, <2>4 DEF ThreadStep
<1> QED
  BY <1>1, <1>2

\* A step of the syncer leaves the daemon's life and the handlers alone.
LEMMA SyncerFrame ==
    ASSUME SyncerStep
    PROVE  UNCHANGED <<daemon, usedCIDs, th>> /\ daemon # "down"
<1>1. CASE Receive \/ Requeue \/ Tick \/ TickSend \/ LifetimeDone \/ MarkShutdown
  BY <1>1 DEF Receive, Requeue, Tick, TickSend, LifetimeDone, MarkShutdown, SyncerAt
<1>2. CASE SyncLoad \/ SyncPut \/ SyncDelete \/ SyncUnmark
  BY <1>2 DEF SyncLoad, SyncPut, SyncDelete, SyncUnmark, SyncerAt
<1>3. CASE ListJobs \/ NextRow \/ StoreRow \/ ListCheckpointsByJIDs \/ StoreCheckpoints
  BY <1>3 DEF ListJobs, NextRow, StoreRow, ListCheckpointsByJIDs, StoreCheckpoints, SyncerAt
<1> QED
  BY <1>1, <1>2, <1>3 DEF SyncerStep

Lifecycle == NewManagerLazy \/ Crash \/ CancelLifetime \/ Stop

\* The daemon's life leaves the DB alone; it changes the memory only by losing it or by
\* loading it.
LEMMA LifecycleFrame ==
    ASSUME Lifecycle
    PROVE  /\ UNCHANGED <<db, usedCIDs>> /\ daemon' \in {"down", "up", "stopping"}
           /\ \/ UNCHANGED <<memory, pending, th, syncer>> /\ daemon # "down"
              \/ /\ pending' = <<>> /\ IdleThreads /\ IdleSyncer
                 /\ deletedJobs' = {} /\ deletedCheckpoints' = {}
                 /\ \/ NewManagerLazy
                    \/ /\ daemon' = "down"
                       /\ jobs' = [j \in JIDs |-> None] /\ checkpoints' = [c \in CIDs |-> None]
<1>1. CASE NewManagerLazy
  BY <1>1 DEF NewManagerLazy, db
<1>2. CASE Crash \/ Stop
  BY <1>2 DEF Crash, Stop, db
<1>3. CASE CancelLifetime
  BY <1>3 DEF CancelLifetime, db, memory, syncer
<1> QED
  BY <1>1, <1>2, <1>3 DEF Lifecycle

\* What a handler's arguments are, by where it is.
LEMMA HandlerArgs ==
    ASSUME TypeInv, NEW t \in Threads
    PROVE  /\ th[t] \in HandlerLocals /\ th[t] \in Locals
           /\ th[t].pid \in PIDs \cup {0} /\ th[t].rest \subseteq CIDs
           /\ th[t].pc \in {"new", "delRemove", "delMark", "delSend", "delList"}
              => th[t].jid \in LocalJIDs /\ th[t].jid \in JIDs
           /\ th[t].pc \in {"manage", "sendJob", "addStore", "addSend"} => th[t].jid \in JIDs
           /\ th[t].pc \in {"cpRemove", "cpMark", "cpSend", "addStore", "addSend"}
              => th[t].cid \in CIDs
<1>1. th[t] \in HandlerLocals
  BY DEF TypeInv
<1> QED
  BY <1>1 DEF HandlerLocals, Locals, LocalJIDs

\* Every step keeps the types of the maps in memory.
LEMMA MemoryNext == TypeInv /\ [Next]_vars => MemoryOK'
<1> SUFFICES ASSUME TypeInv, [Next]_vars PROVE MemoryOK'
  OBVIOUS
<1>0. MemoryOK /\ TablesOK /\ SyncerOK /\ SyncerLocals
  BY DEF TypeInv, TypeOK
<1>1. CASE UNCHANGED memory
  BY <1>0, <1>1 DEF memory, MemoryOK
<1>2. CASE Lifecycle
  <2>1. CASE NewManagerLazy
    BY <1>0, <2>1 DEF NewManagerLazy, MemoryOK, TablesOK
  <2> QED
    BY <1>1, <1>2, <2>1, LifecycleFrame DEF MemoryOK
<1>3. ASSUME NEW t \in Threads, Request(t) PROVE MemoryOK'
  <2>1. ASSUME NEW j \in JIDs, Get(t, j) PROVE MemoryOK'
    <3>1. PICK g \in BOOLEAN, r \in BOOLEAN : jobs' = [jobs EXCEPT ![j].remote = r, ![j].gpu = g]
      <4>1. PICK attached \in BOOLEAN :
               jobs' = [jobs EXCEPT ![j].remote = (j \in OtherHostJIDs),
                                    ![j].gpu = (jobs[j].gpu \/ attached)]
        BY <2>1, Zenon DEF Get
      <4>2. (j \in OtherHostJIDs) \in BOOLEAN /\ (jobs[j].gpu \/ attached) \in BOOLEAN
        OBVIOUS
      <4> QED
        BY <4>1, <4>2, Zenon
    <3>2. jobs[j] \in Job
      BY <1>0, <2>1 DEF Get, MemoryOK
    <3>3. [jobs[j] EXCEPT !.remote = r, !.gpu = g] \in Job
      BY <3>2, Zenon DEF Job
    <3>4. jobs' = [jobs EXCEPT ![j] = [jobs[j] EXCEPT !.remote = r, !.gpu = g]]
      BY <3>1, Zenon
    <3> QED
      BY <1>0, <2>1, <3>3, <3>4, Zenon DEF Get, MemoryOK
  <2>2. ASSUME NEW j \in JIDs, NewCheck(t, j) \/ DeleteLoad(t, j) PROVE UNCHANGED memory
    BY <2>2 DEF NewCheck, DeleteLoad
  <2>3. ASSUME NEW j \in JIDs, NEW p \in PIDs, ManageCheck(t, j, p) PROVE UNCHANGED memory
    BY <2>3 DEF ManageCheck
  <2>4. ASSUME NEW j \in JIDs, NEW c \in CIDs, AddCheckpointLookup(t, j, c) PROVE UNCHANGED memory
    BY <2>4 DEF AddCheckpointLookup
  <2>5. ASSUME NEW c \in CIDs, DeleteCheckpointLoad(t, c) PROVE UNCHANGED memory
    BY <2>5 DEF DeleteCheckpointLoad
  <2> QED
    BY <1>1, <1>3, <2>1, <2>2, <2>3, <2>4, <2>5 DEF Request
<1>4. ASSUME NEW t \in Threads, ThreadStep(t) PROVE MemoryOK'
  <2> USE DEF At
  <2>1. CASE NewStore(t)
    <3>1. [pid |-> 0, gpu |-> FALSE, remote |-> FALSE] \in Job
      BY DEF Job
    <3> QED
      BY <1>0, <2>1, <3>1, HandlerArgs DEF NewStore, MemoryOK
  <2>2. CASE ManageSet(t)
    <3>1. CASE jobs[th[t].jid] = None
      BY <1>1, <2>2, <3>1 DEF ManageSet, memory
    <3>2. CASE jobs[th[t].jid] # None
      <4>1. PICK j \in JIDs : j = th[t].jid
        BY <2>2, HandlerArgs DEF ManageSet
      <4>2. PICK r \in BOOLEAN : jobs' = [jobs EXCEPT ![j] = [jobs[j] EXCEPT !.pid = th[t].pid, !.remote = r]]
        <5>1. (j \in OtherHostJIDs) \in BOOLEAN
          OBVIOUS
        <5>2. jobs' = [jobs EXCEPT ![j].pid = th[t].pid, ![j].remote = (j \in OtherHostJIDs)]
          BY <2>2, <3>2, <4>1 DEF ManageSet
        <5> QED
          BY <5>1, <5>2, Zenon
      <4>3. [jobs[j] EXCEPT !.pid = th[t].pid, !.remote = r] \in Job
        BY <1>0, <3>2, <4>1, HandlerArgs, Zenon DEF MemoryOK, Job
      <4> QED
        BY <1>0, <2>2, <4>1, <4>2, <4>3 DEF ManageSet, MemoryOK
    <3> QED
      BY <3>1, <3>2
  <2>3. CASE DeleteRemove(t) \/ DeleteMark(t)
    BY <1>0, <2>3, HandlerArgs DEF DeleteRemove, DeleteMark, MemoryOK
  <2>4. CASE DeleteCheckpointRemove(t) \/ DeleteCheckpointMark(t)
    BY <1>0, <2>4, HandlerArgs DEF DeleteCheckpointRemove, DeleteCheckpointMark, MemoryOK
  <2>5. CASE AddCheckpointStore(t)
    BY <1>0, <2>5, HandlerArgs DEF AddCheckpointStore, MemoryOK
  <2>6. CASE Panic(t)
    BY <1>2, <2>6 DEF Panic, Lifecycle
  <2>7. CASE SendJob(t) \/ DeleteSend(t) \/ DeleteList(t) \/ DeleteEach(t)
             \/ DeleteCheckpointSend(t) \/ AddCheckpointSend(t)
    BY <1>1, <2>7, Zenon DEF SendJob, DeleteSend, DeleteList, DeleteEach, DeleteCheckpointSend,
                      AddCheckpointSend
  <2> QED
    BY <1>4, <2>1, <2>2, <2>3, <2>4, <2>5, <2>6, <2>7 DEF ThreadStep
<1>5. CASE SyncerStep
  <2>1. CASE SyncUnmark
    BY <1>0, <2>1 DEF SyncUnmark, MemoryOK
  <2>2. CASE StoreRow
    BY <1>0, <2>2 DEF StoreRow, SyncerAt, MemoryOK, SyncerOK, SyncerLocals
  <2>3. CASE StoreCheckpoints
    BY <1>0, <2>3 DEF StoreCheckpoints, SyncerAt, MemoryOK, SyncerOK, SyncerLocals
  <2>4. CASE Receive \/ Requeue \/ Tick \/ TickSend \/ LifetimeDone \/ MarkShutdown
    BY <1>1, <2>4 DEF Receive, Requeue, Tick, TickSend, LifetimeDone, MarkShutdown
  <2>5. CASE SyncLoad \/ SyncPut \/ SyncDelete \/ ListJobs \/ NextRow \/ ListCheckpointsByJIDs
    BY <1>1, <2>5 DEF SyncLoad, SyncPut, SyncDelete, ListJobs, NextRow, ListCheckpointsByJIDs
  <2> QED
    BY <1>5, <2>1, <2>2, <2>3, <2>4, <2>5 DEF SyncerStep
<1>6. ASSUME NEW j \in OtherHostJIDs, OtherHostPut(j) PROVE MemoryOK'
  BY <1>1, <1>6 DEF OtherHostPut
<1>7. CASE UNCHANGED vars
  BY <1>1, <1>7 DEF vars
<1> QED
  BY <1>2, <1>3, <1>4, <1>5, <1>6, <1>7 DEF Next, Lifecycle

\* Writing a row changes the row of one job at most.
LEMMA WriteRowType ==
    ASSUME TablesOK, NEW a \in PutAction, NEW v, WriteRow(a, v),
           v = None \/ IF a.typ = "putJob" THEN v \in Job ELSE v \in JIDs
    PROVE  /\ TablesOK'
           /\ \A j \in JIDs : dbJobs'[j] = IF a = PutJob(j) THEN v ELSE dbJobs[j]
<1>1. CASE a.typ = "putJob"
  BY <1>1, ActionFacts DEF WriteRow, TablesOK
<1>2. CASE a.typ # "putJob"
  BY <1>2, ActionFacts DEF WriteRow, TablesOK
<1> QED
  BY <1>1, <1>2

\* Every step keeps the types of the tables.
LEMMA TablesNext == TypeInv /\ [Next]_vars => TablesOK'
<1> SUFFICES ASSUME TypeInv, [Next]_vars PROVE TablesOK'
  OBVIOUS
<1>0. TablesOK /\ SyncerLocals
  BY DEF TypeInv, TypeOK
<1>1. CASE UNCHANGED db
  BY <1>0, <1>1 DEF db, TablesOK
<1>2. CASE Lifecycle
  BY <1>1, <1>2, LifecycleFrame
<1>3. ASSUME NEW t \in Threads, Request(t) \/ ThreadStep(t) PROVE TablesOK'
  BY <1>1, <1>2, <1>3, HandlerFrame DEF Lifecycle
<1>4. CASE SyncerStep
  <2>1. CASE SyncPut
    BY <1>0, <1>1, <2>1, WriteRowType DEF SyncPut, SyncerAt, SyncerLocals
  <2>2. CASE SyncDelete
    BY <1>0, <1>1, <2>2, WriteRowType DEF SyncDelete, SyncerAt, SyncerLocals
  <2>3. CASE Receive \/ Requeue \/ Tick \/ TickSend \/ LifetimeDone \/ MarkShutdown
    BY <1>1, <2>3 DEF Receive, Requeue, Tick, TickSend, LifetimeDone, MarkShutdown
  <2>4. CASE SyncLoad \/ SyncUnmark \/ ListJobs \/ NextRow \/ StoreRow
             \/ ListCheckpointsByJIDs \/ StoreCheckpoints
    BY <1>1, <2>4 DEF SyncLoad, SyncUnmark, ListJobs, NextRow, StoreRow,
                      ListCheckpointsByJIDs, StoreCheckpoints
  <2> QED
    BY <1>4, <2>1, <2>2, <2>3, <2>4 DEF SyncerStep
<1>5. ASSUME NEW j \in OtherHostJIDs, OtherHostPut(j) PROVE TablesOK'
  <2>1. \A p \in PIDs : [pid |-> p, gpu |-> FALSE, remote |-> FALSE] \in Job
    BY DEF Job
  <2> QED
    BY <1>0, <1>5, <2>1, ConstantsAssumption DEF OtherHostPut, TablesOK
<1>6. CASE UNCHANGED vars
  BY <1>1, <1>6 DEF vars
<1> QED
  BY <1>2, <1>3, <1>4, <1>5, <1>6 DEF Next, Lifecycle

\* A send keeps the channel within its capacity.
LEMMA SendType ==
    ASSUME ChannelOK, NEW a \in Action, Send(a)
    PROVE  ChannelOK'
BY ConstantsAssumption DEF ChannelOK, Send

\* Every step keeps the channel within its capacity and of its type.
LEMMA ChannelNext == TypeInv /\ [Next]_vars => ChannelOK'
<1> SUFFICES ASSUME TypeInv, [Next]_vars PROVE ChannelOK'
  OBVIOUS
<1>0. ChannelOK /\ SyncerLocals
  BY DEF TypeInv, TypeOK
<1>1. CASE UNCHANGED pending
  BY <1>0, <1>1 DEF ChannelOK
<1>2. CASE Lifecycle
  <2>1. CASE pending' = <<>>
    BY <2>1, ConstantsAssumption DEF ChannelOK
  <2> QED
    BY <1>1, <1>2, <2>1, LifecycleFrame
<1>3. ASSUME NEW t \in Threads, Request(t) PROVE UNCHANGED pending
  BY <1>3, Zenon DEF Request, NewCheck, Get, DeleteLoad, ManageCheck, AddCheckpointLookup,
              DeleteCheckpointLoad
<1>4. ASSUME NEW t \in Threads, ThreadStep(t) PROVE ChannelOK'
  <2> USE DEF At
  <2>1. CASE SendJob(t) \/ DeleteSend(t)
    BY <1>0, <2>1, SendType, HandlerArgs, ActionFacts DEF SendJob, DeleteSend
  <2>2. CASE DeleteCheckpointSend(t) \/ AddCheckpointSend(t)
    BY <1>0, <2>2, SendType, HandlerArgs, ActionFacts DEF DeleteCheckpointSend, AddCheckpointSend
  <2>3. CASE Panic(t)
    BY <1>2, <2>3 DEF Panic, Lifecycle
  <2>4. CASE NewStore(t) \/ ManageSet(t) \/ DeleteRemove(t) \/ DeleteMark(t) \/ DeleteList(t)
             \/ DeleteEach(t) \/ DeleteCheckpointRemove(t) \/ DeleteCheckpointMark(t)
             \/ AddCheckpointStore(t)
    BY <1>1, <2>4, Zenon DEF NewStore, ManageSet, DeleteRemove, DeleteMark, DeleteList, DeleteEach,
          DeleteCheckpointRemove, DeleteCheckpointMark, AddCheckpointStore
  <2> QED
    BY <1>4, <2>1, <2>2, <2>3, <2>4 DEF ThreadStep
<1>5. CASE SyncerStep
  <2>1. CASE Receive
    <3>1. pending # <<>> /\ pending' = Tail(pending)
      BY <2>1 DEF Receive
    <3> QED
      BY <1>0, <3>1, ConstantsAssumption DEF ChannelOK
  <2>2. CASE Requeue
    BY <1>0, <2>2, SendType DEF Requeue, SyncerAt, SyncerLocals
  <2>3. CASE TickSend \/ MarkShutdown
    BY <1>0, <2>3, SendType, ActionFacts DEF TickSend, MarkShutdown
  <2>4. CASE Tick \/ LifetimeDone \/ SyncLoad \/ SyncPut \/ SyncDelete \/ SyncUnmark
    BY <1>1, <2>4 DEF Tick, LifetimeDone, SyncLoad, SyncPut, SyncDelete, SyncUnmark
  <2>5. CASE ListJobs \/ NextRow \/ StoreRow \/ ListCheckpointsByJIDs \/ StoreCheckpoints
    BY <1>1, <2>5 DEF ListJobs, NextRow, StoreRow, ListCheckpointsByJIDs, StoreCheckpoints
  <2> QED
    BY <1>5, <2>1, <2>2, <2>3, <2>4, <2>5 DEF SyncerStep
<1>6. CASE UNCHANGED vars \/ \E j \in OtherHostJIDs : OtherHostPut(j)
  BY <1>1, <1>6 DEF vars, OtherHostPut
<1> QED
  BY <1>1, <1>2, <1>3, <1>4, <1>5, <1>6 DEF Next, Lifecycle

\* Every step keeps the types of the syncer's locals.
LEMMA SyncerNext == TypeInv /\ [Next]_vars => SyncerOK' /\ SyncerLocals'
<1> SUFFICES ASSUME TypeInv, [Next]_vars PROVE SyncerOK' /\ SyncerLocals'
  OBVIOUS
<1>0. MemoryOK /\ TablesOK /\ ChannelOK /\ SyncerOK /\ SyncerLocals
  BY DEF TypeInv, TypeOK
<1>1. CASE UNCHANGED syncer
  BY <1>0, <1>1 DEF syncer, SyncerOK, SyncerLocals
<1>2. CASE Lifecycle
  <2>1. CASE IdleSyncer
    BY <2>1, Zenon DEF IdleSyncer, SyncerOK, SyncerLocals, SyncerPCs
  <2> QED
    BY <1>1, <1>2, <2>1, LifecycleFrame
<1>3. ASSUME NEW t \in Threads, Request(t) \/ ThreadStep(t) PROVE SyncerOK' /\ SyncerLocals'
  BY <1>1, <1>2, <1>3, HandlerFrame DEF Lifecycle
<1>4. CASE SyncerStep
  <2> USE <1>0 DEF SyncerAt, SyncReturn, SyncDone, SyncFailed, SyncerOK, SyncerLocals, SyncerPCs
  <2>1. CASE Receive
    <3>1. Head(pending) \in Action
      BY <2>1 DEF Receive, ChannelOK
    <3> QED
      BY <2>1, <3>1, ActionFacts DEF Receive
  <2>2. CASE Requeue \/ Tick \/ TickSend \/ LifetimeDone \/ MarkShutdown
    BY <2>2, Zenon DEF Requeue, Tick, TickSend, LifetimeDone, MarkShutdown
  <2>3. CASE SyncLoad
    BY <2>3, ActionFacts DEF SyncLoad, Entry, MemoryOK
  <2>4. CASE SyncPut
    BY <2>4, ActionFacts DEF SyncPut
  <2>5. CASE SyncDelete
    BY <2>5, ActionFacts DEF SyncDelete
  <2>6. CASE SyncUnmark
    BY <2>6 DEF SyncUnmark
  <2>7. CASE ListJobs
    BY <2>7 DEF ListJobs, TablesOK
  <2>8. CASE NextRow
    BY <2>8 DEF NextRow
  <2>9. CASE StoreRow
    BY <2>9 DEF StoreRow
  <2>10. CASE ListCheckpointsByJIDs
    BY <2>10 DEF ListCheckpointsByJIDs, NoRows
  <2>11. CASE StoreCheckpoints
    BY <2>11 DEF StoreCheckpoints
  <2> QED
    BY <1>4, <2>1, <2>2, <2>3, <2>4, <2>5, <2>6, <2>7, <2>8, <2>9, <2>10, <2>11, Zenon DEF SyncerStep
<1>5. CASE UNCHANGED vars \/ \E j \in OtherHostJIDs : OtherHostPut(j)
  BY <1>1, <1>5 DEF vars, OtherHostPut
<1> QED
  BY <1>2, <1>3, <1>4, <1>5 DEF Next, Lifecycle

\* A handler with no request has the types of its locals.
LEMMA LocalsFacts ==
    /\ Idle \in HandlerLocals
    /\ HandlerLocals \subseteq Locals
BY DEF HandlerLocals, Locals, Idle, ThreadPCs

\* Handlers return to the idle locals, or keep the arguments they were
\* called with.
LEMMA HandlersNext == TypeInv /\ [Next]_vars => th' \in [Threads -> HandlerLocals]
<1> SUFFICES ASSUME TypeInv, [Next]_vars PROVE th' \in [Threads -> HandlerLocals]
  OBVIOUS
<1>0. th \in [Threads -> HandlerLocals]
  BY DEF TypeInv
<1>a. ASSUME NEW t \in Threads, NEW l \in HandlerLocals, th' = [th EXCEPT ![t] = l]
      PROVE  th' \in [Threads -> HandlerLocals]
  BY <1>0, <1>a
<1>1. CASE UNCHANGED th
  BY <1>0, <1>1
<1>2. CASE Lifecycle
  <2>1. CASE IdleThreads
    BY <2>1, LocalsFacts DEF IdleThreads
  <2> QED
    BY <1>1, <1>2, <2>1, LifecycleFrame
<1>3. ASSUME NEW t \in Threads, Request(t) PROVE th' \in [Threads -> HandlerLocals]
  <2>0. ASSUME NEW j, DeleteLoad(t, j) PROVE j \in LocalJIDs
    BY <2>0 DEF DeleteLoad
  <2>1. ASSUME NEW j \in LocalJIDs, NewCheck(t, j) \/ DeleteLoad(t, j)
        PROVE  th' \in [Threads -> HandlerLocals]
    <3>1. /\ [Idle EXCEPT !.pc = "new", !.jid = j] \in HandlerLocals
          /\ [Idle EXCEPT !.pc = "delRemove", !.jid = j] \in HandlerLocals
      BY Zenon DEF HandlerLocals, Locals, Idle, ThreadPCs, LocalJIDs
    <3> QED
      BY <1>a, <2>1, <3>1 DEF NewCheck, DeleteLoad, Start
  <2>2. ASSUME NEW j \in JIDs, Get(t, j) PROVE th' \in [Threads -> HandlerLocals]
    <3>1. [Idle EXCEPT !.pc = "sendJob", !.jid = j] \in HandlerLocals
      BY Zenon DEF HandlerLocals, Locals, Idle, ThreadPCs
    <3> QED
      BY <1>a, <2>2, <3>1, LocalsFacts, Zenon DEF Get, Start
  <2>3. ASSUME NEW j \in JIDs, NEW p \in PIDs, ManageCheck(t, j, p)
        PROVE  th' \in [Threads -> HandlerLocals]
    <3>1. [Idle EXCEPT !.pc = "manage", !.jid = j, !.pid = p] \in HandlerLocals
      BY Zenon DEF HandlerLocals, Locals, Idle, ThreadPCs
    <3> QED
      BY <1>a, <2>3, <3>1, Zenon DEF ManageCheck, Start
  <2>4. ASSUME NEW c \in CIDs, DeleteCheckpointLoad(t, c)
        PROVE  th' \in [Threads -> HandlerLocals]
    <3>1. [Idle EXCEPT !.pc = "cpRemove", !.cid = c] \in HandlerLocals
      BY Zenon DEF HandlerLocals, Locals, Idle, ThreadPCs
    <3> QED
      BY <1>a, <2>4, <3>1, Zenon DEF DeleteCheckpointLoad, Start
  <2>5. ASSUME NEW j \in JIDs, NEW c \in CIDs, AddCheckpointLookup(t, j, c)
        PROVE  th' \in [Threads -> HandlerLocals]
    <3>1. [Idle EXCEPT !.pc = "addStore", !.jid = j, !.cid = c] \in HandlerLocals
      BY Zenon DEF HandlerLocals, Locals, Idle, ThreadPCs
    <3> QED
      BY <1>a, <2>5, <3>1, Zenon DEF AddCheckpointLookup, Start
  <2> QED
    BY <1>3, <2>0, <2>1, <2>2, <2>3, <2>4, <2>5 DEF Request
<1>4. ASSUME NEW t \in Threads, ThreadStep(t) PROVE th' \in [Threads -> HandlerLocals]
  <2>0. th[t] \in HandlerLocals /\ th[t] \in Locals
    BY <1>0, LocalsFacts
  <2>g. ASSUME NEW l, Goto(t, l), [th[t] EXCEPT !.pc = l] \in HandlerLocals
        PROVE  th' \in [Threads -> HandlerLocals]
    BY <1>0, <1>a, <2>g DEF Goto
  <2>r. CASE Return(t)
    BY <1>a, <2>r, LocalsFacts, Zenon DEF Return
  <2>1. CASE NewStore(t) \/ SendJob(t) \/ AddCheckpointSend(t)
    BY <2>r, <2>1 DEF NewStore, SendJob, AddCheckpointSend
  <2>2. CASE ManageSet(t)
    <3>1. [th[t] EXCEPT !.pc = "panic"] \in HandlerLocals /\ [th[t] EXCEPT !.pc = "sendJob"] \in HandlerLocals
      BY <2>0, <2>2 DEF ManageSet, At, HandlerLocals, Locals, ThreadPCs
    <3> QED
      BY <2>g, <2>2, <3>1 DEF ManageSet
  <2>3. CASE DeleteRemove(t)
    <3>1. [th[t] EXCEPT !.pc = "delMark"] \in HandlerLocals
      BY <2>0, <2>3 DEF DeleteRemove, At, HandlerLocals, Locals, ThreadPCs
    <3> QED
      BY <2>g, <2>3, <3>1 DEF DeleteRemove
  <2>4. CASE DeleteMark(t)
    <3>1. [th[t] EXCEPT !.pc = "delSend"] \in HandlerLocals
      BY <2>0, <2>4 DEF DeleteMark, At, HandlerLocals, Locals, ThreadPCs
    <3> QED
      BY <2>g, <2>4, <3>1 DEF DeleteMark
  <2>5. CASE DeleteSend(t)
    <3>1. [th[t] EXCEPT !.pc = "delList"] \in HandlerLocals
      BY <2>0, <2>5 DEF DeleteSend, At, HandlerLocals, Locals, ThreadPCs
    <3> QED
      BY <2>g, <2>5, <3>1 DEF DeleteSend
  <2>6. CASE DeleteList(t)
    <3> DEFINE S == {c \in CIDs : checkpoints[c] = th[t].jid}
    <3>1. S \subseteq CIDs
      OBVIOUS
    <3>2. th' = [th EXCEPT ![t] = [th[t] EXCEPT !.pc = "delEach", !.rest = S]]
      BY <1>0, <2>6, Zenon DEF DeleteList
    <3> HIDE DEF S
    <3>3. [th[t] EXCEPT !.pc = "delEach", !.rest = S] \in HandlerLocals
      BY <2>0, <3>1, Zenon DEF HandlerLocals, Locals, ThreadPCs
    <3> QED
      BY <1>a, <3>2, <3>3, Zenon
  <2>7. CASE DeleteEach(t)
    <3>1. ASSUME NEW c \in th[t].rest, NEW l \in {"delEach", "cpRemove"}
          PROVE  [th[t] EXCEPT !.rest = @ \ {c}, !.cid = c, !.pc = l] \in HandlerLocals
      BY <2>0, Zenon DEF HandlerLocals, Locals, ThreadPCs
    <3>2. ASSUME NEW c \in th[t].rest, NEW l \in {"delEach", "cpRemove"},
                 th' = [th EXCEPT ![t].rest = @ \ {c}, ![t].cid = c, ![t].pc = l]
          PROVE  th' \in [Threads -> HandlerLocals]
      BY <1>0, <1>a, <3>1, <3>2, Zenon
    <3>3. ASSUME NEW c \in CIDs
          PROVE  (IF checkpoints[c] = None THEN "delEach" ELSE "cpRemove") \in {"delEach", "cpRemove"}
      OBVIOUS
    <3>4. th[t].rest \subseteq CIDs
      BY <2>0 DEF Locals
    <3> QED
      BY <2>r, <2>7, <3>2, <3>3, <3>4, Zenon DEF DeleteEach
  <2>8. CASE DeleteCheckpointRemove(t)
    <3>1. [th[t] EXCEPT !.pc = "cpMark"] \in HandlerLocals
      BY <2>0, <2>8 DEF DeleteCheckpointRemove, At, HandlerLocals, Locals, ThreadPCs
    <3> QED
      BY <2>g, <2>8, <3>1 DEF DeleteCheckpointRemove
  <2>9. CASE DeleteCheckpointMark(t)
    <3>1. [th[t] EXCEPT !.pc = "cpSend"] \in HandlerLocals
      BY <2>0, <2>9 DEF DeleteCheckpointMark, At, HandlerLocals, Locals, ThreadPCs
    <3> QED
      BY <2>g, <2>9, <3>1 DEF DeleteCheckpointMark
  <2>10. CASE DeleteCheckpointSend(t)
    <3>1. [th[t] EXCEPT !.pc = "delEach"] \in HandlerLocals
      BY <2>0 DEF HandlerLocals, Locals, ThreadPCs
    <3> QED
      BY <2>g, <2>10, <3>1 DEF DeleteCheckpointSend
  <2>11. CASE AddCheckpointStore(t)
    <3>1. [th[t] EXCEPT !.pc = "addSend"] \in HandlerLocals
      BY <2>0, <2>11 DEF AddCheckpointStore, At, HandlerLocals, Locals, ThreadPCs
    <3> QED
      BY <2>g, <2>11, <3>1 DEF AddCheckpointStore
  <2>12. CASE Panic(t)
    BY <1>2, <2>12 DEF Panic, Lifecycle
  <2> QED
    BY <1>4, <2>1, <2>2, <2>3, <2>4, <2>5, <2>6, <2>7, <2>8, <2>9, <2>10, <2>11, <2>12
       DEF ThreadStep
<1>5. CASE SyncerStep
  BY <1>1, <1>5, SyncerFrame
<1>6. CASE UNCHANGED vars \/ \E j \in OtherHostJIDs : OtherHostPut(j)
  BY <1>1, <1>6 DEF vars, OtherHostPut
<1> QED
  BY <1>2, <1>3, <1>4, <1>5, <1>6 DEF Next, Lifecycle

\* The initial state has the types.
LEMMA TypeInit == Init => TypeInv
<1> SUFFICES ASSUME Init PROVE TypeInv
  OBVIOUS
<1>1. MemoryOK /\ TablesOK
  BY DEF Init, MemoryOK, TablesOK
<1>2. ChannelOK
  BY ConstantsAssumption DEF Init, ChannelOK
<1>3. SyncerOK /\ SyncerLocals
  BY Zenon DEF Init, SyncerOK, SyncerLocals, SyncerPCs
<1>4. th \in [Threads -> HandlerLocals]
  BY LocalsFacts DEF Init
<1>5. th \in [Threads -> Locals]
  BY <1>4, LocalsFacts
<1> QED
  BY <1>1, <1>2, <1>3, <1>4, <1>5 DEF TypeInv, TypeOK, Init

\* The type invariant and what holds of the locals are inductive.
LEMMA TypeInvNext == TypeInv /\ [Next]_vars => TypeInv'
<1> SUFFICES ASSUME TypeInv, [Next]_vars PROVE TypeInv'
  OBVIOUS
<1>0. daemon \in {"down", "up", "stopping"} /\ usedCIDs \subseteq CIDs
  BY DEF TypeInv, TypeOK
<1>1. daemon' \in {"down", "up", "stopping"}
  <2>1. CASE Lifecycle
    BY <2>1, LifecycleFrame
  <2>2. ASSUME NEW t \in Threads, Request(t) \/ ThreadStep(t) PROVE daemon' \in {"down", "up", "stopping"}
    BY <1>0, <2>1, <2>2, HandlerFrame DEF Lifecycle
  <2>3. CASE SyncerStep
    BY <1>0, <2>3, SyncerFrame
  <2>4. CASE UNCHANGED vars \/ \E j \in OtherHostJIDs : OtherHostPut(j)
    BY <1>0, <2>4 DEF vars, OtherHostPut
  <2> QED
    BY <2>1, <2>2, <2>3, <2>4 DEF Next, Lifecycle
<1>2. usedCIDs' \subseteq CIDs
  <2>1. CASE Lifecycle
    BY <1>0, <2>1, LifecycleFrame
  <2>2. ASSUME NEW t \in Threads, Request(t) PROVE usedCIDs' \subseteq CIDs
    BY <1>0, <2>2, Zenon DEF Request, NewCheck, Get, DeleteLoad, ManageCheck, AddCheckpointLookup,
                      DeleteCheckpointLoad
  <2>3. ASSUME NEW t \in Threads, ThreadStep(t) PROVE UNCHANGED usedCIDs
    BY <2>3, Zenon DEF ThreadStep, NewStore, ManageSet, SendJob, Panic, Crash, DeleteRemove, DeleteMark,
          DeleteSend, DeleteList, DeleteEach, DeleteCheckpointRemove, DeleteCheckpointMark,
          DeleteCheckpointSend, AddCheckpointStore, AddCheckpointSend
  <2>4. CASE SyncerStep
    BY <1>0, <2>4, SyncerFrame
  <2>5. CASE UNCHANGED vars \/ \E j \in OtherHostJIDs : OtherHostPut(j)
    BY <1>0, <2>5 DEF vars, OtherHostPut
  <2> QED
    BY <1>0, <2>1, <2>2, <2>3, <2>4, <2>5 DEF Next, Lifecycle
<1>3. th' \in [Threads -> HandlerLocals] /\ th' \in [Threads -> Locals]
  BY HandlersNext, LocalsFacts
<1>4. MemoryOK' /\ TablesOK' /\ ChannelOK' /\ SyncerOK' /\ SyncerLocals'
  BY MemoryNext, TablesNext, ChannelNext, SyncerNext
<1> QED
  BY <1>1, <1>2, <1>3, <1>4 DEF TypeInv, TypeOK

\* The variables of ManagerLazy have their types in every reachable state, and
\* the channel "pending" never holds more than its capacity.
THEOREM TypeCorrect == Spec => []TypeOK
<1>1. TypeInv => TypeOK
  BY DEF TypeInv
<1> QED
  BY TypeInit, TypeInvNext, <1>1, PTL DEF Spec

-----------------------------------------------------------------------------
(***************************************************************************)
(* The inductive invariant about one local job.                            *)
(***************************************************************************)
DelMarking(j) == \E t \in Threads : th[t].jid = j /\ th[t].pc = "delMark"

\* The row of a local job never says "remote", and the copy of a row that the
\* reload works on is the row: only the syncer writes it.
RowsOK(j) ==
    /\ jobs[j] # None => ~jobs[j].remote
    /\ dbJobs[j] # None => ~dbJobs[j].remote
    /\ Writing(PutJob(j)) => ~sval.remote
    /\ todo[j] # None => /\ todo[j] = dbJobs[j]
                         /\ spc \in {"rows", "store", "listCheckpoints", "storeCheckpoints"}

\* A managed job: NoLostUpdate, and what the syncer is about to write or to
\* delete is either the current value or will be looked at again.
UpdateOK(j) ==
    jobs[j] # None /\ jobs[j].pid # 0 =>
        /\ ~Same(jobs[j], dbJobs[j]) =>
              JobQueued(j) \/ (Writing(PutJob(j)) /\ Same(sval, jobs[j]))
        /\ Writing(PutJob(j)) /\ ~Same(sval, jobs[j]) => JobQueued(j)
        /\ Deleting(PutJob(j)) => JobQueued(j)

\* A job not in memory: NoLostDelete, also while the syncer is about to write
\* a value that it read before the job was deleted.
DeleteOK(j) ==
    /\ jobs[j] = None /\ (dbJobs[j] # None \/ Writing(PutJob(j))) =>
          \/ DelMarking(j)
          \/ j \in deletedJobs /\ (JobQueued(j) \/ Deleting(PutJob(j)))
    /\ sact = PutJob(j) /\ spc = "unmark" => dbJobs[j] = None

InvOf(j) == RowsOK(j) /\ (daemon # "down" => UpdateOK(j) /\ DeleteOK(j))

JobInv == \A j \in LocalJIDs : InvOf(j)

IInv == TypeInv /\ JobInv

\* What is on the channel after a send ...
LEMMA QueueSend ==
    ASSUME pending \in Seq(Action), NEW a \in Action, Send(a), NEW b
    PROVE  InQueue(b)' <=> InQueue(b) \/ b = a
<1>1. /\ pending' = Append(pending, a)
      /\ Len(pending') = Len(pending) + 1 /\ pending'[Len(pending) + 1] = a
      /\ \A i \in 1..Len(pending) : pending'[i] = pending[i]
      /\ Len(pending) \in Nat
  BY DEF Send
<1> QED
  BY <1>1 DEF InQueue

\* ... and after a receive.
LEMMA QueueReceive ==
    ASSUME pending \in Seq(Action), pending # <<>>, pending' = Tail(pending), NEW b, InQueue(b)
    PROVE  b = Head(pending) \/ InQueue(b)'
<1>1. PICK i \in 1..Len(pending) : pending[i] = b
  BY DEF InQueue
<1>2. CASE i = 1
  BY <1>1, <1>2
<1>3. CASE i # 1
  <2>1. Len(pending') = Len(pending) - 1 /\ i - 1 \in 1..Len(pending') /\ pending'[i - 1] = b
    BY <1>1, <1>3
  <2> QED
    BY <2>1, Zenon DEF InQueue
<1> QED
  BY <1>2, <1>3


\* A handler's step takes back nothing that it queued, and writes no row.
LEMMA HandlerKeeps ==
    ASSUME TypeInv, NEW t \in Threads, Request(t) \/ ThreadStep(t), ~Crash,
           NEW j \in LocalJIDs
    PROVE  /\ UNCHANGED <<daemon, db, syncer>>
           /\ \A u \in Threads \ {t} : th'[u] = th[u]
           /\ JobQueued(j) => JobQueued(j)'
           /\ DelMarking(j) => DelMarking(j)' \/ (j \in deletedJobs' /\ JobQueued(j)')
           /\ j \in deletedJobs => j \in deletedJobs'
<1> DEFINE Keeps == /\ UNCHANGED <<daemon, db, syncer>>
                    /\ \A u \in Threads \ {t} : th'[u] = th[u]
                    /\ \A a : InQueue(a) => InQueue(a)'
                    /\ j \in deletedJobs => j \in deletedJobs'
<1>0. pending \in Seq(Action) /\ th \in [Threads -> Locals]
  BY DEF TypeInv, TypeOK, ChannelOK
<1>1. ASSUME Keeps,
             \A k : th[t].pc \in {"sendJob", "delSend"} /\ k = th[t].jid => InQueue(PutJob(k))',
             th[t].pc = "delMark" => /\ th'[t].pc = "delSend" /\ th'[t].jid = th[t].jid
                                     /\ th[t].jid \in deletedJobs'
      PROVE  /\ JobQueued(j) => JobQueued(j)'
             /\ DelMarking(j) => DelMarking(j)' \/ (j \in deletedJobs' /\ JobQueued(j)')
  <2>1. Handled(PutJob(j)) => Handled(PutJob(j))'
    BY <1>1 DEF Handled, Held, syncer
  <2>2. ASSUME NEW u \in Threads, th[u].jid = j, th[u].pc \in {"sendJob", "delSend"}
        PROVE  JobQueued(j)'
    <3>1. CASE u = t
      BY <1>1, <2>2, <3>1, ZenonT(60) DEF JobQueued, Handled
    <3>2. CASE u # t
      BY <1>1, <2>2, <3>2 DEF JobQueued
    <3> QED
      BY <3>1, <3>2
  <2>3. ASSUME NEW u \in Threads, th[u].jid = j, th[u].pc = "delMark"
        PROVE  DelMarking(j)' \/ (j \in deletedJobs' /\ JobQueued(j)')
    BY <1>1, <2>3 DEF JobQueued, DelMarking
  <2> QED
    BY <2>1, <2>2, <2>3, Zenon DEF JobQueued, DelMarking
<1>2. CASE Request(t)
  <2>1. UNCHANGED pending => \A a : InQueue(a) => InQueue(a)'
    BY DEF InQueue
  <2>2. Keeps /\ th[t].pc = "idle"
    BY <1>0, <1>2, <2>1, Zenon DEF Request, NewCheck, Get, DeleteLoad, ManageCheck, AddCheckpointLookup,
                DeleteCheckpointLoad, Start, At, memory, db, syncer
  <2> QED
    BY <1>1, <2>2
<1>3. CASE ThreadStep(t)
  <2> USE DEF At, Goto, Return, memory, db, syncer
  <2>0. UNCHANGED pending => \A a : InQueue(a) => InQueue(a)'
    BY DEF InQueue
  <2>1. ASSUME NEW a \in Action, Send(a)
        PROVE  InQueue(a)' /\ \A b : InQueue(b) => InQueue(b)'
    BY <1>0, <2>1, QueueSend
  <2>2. CASE SendJob(t)
    <3>1. PICK a \in Action : a = PutJob(th[t].jid) /\ Send(a)
      BY <2>2, ActionFacts, HandlerArgs DEF SendJob
    <3>2. InQueue(a)' /\ \A b : InQueue(b) => InQueue(b)'
      BY <2>1, <3>1
    <3>3. Keeps
      BY <1>0, <2>2, <3>2 DEF SendJob
    <3>4. ASSUME NEW i, i = th[t].jid PROVE InQueue(PutJob(i))'
      BY <3>1, <3>2, <3>4
    <3> QED
      BY <1>1, <2>2, <3>3, <3>4, Zenon DEF SendJob
  <2>3. CASE DeleteSend(t)
    <3>1. PICK a \in Action : a = PutJob(th[t].jid) /\ Send(a)
      BY <2>3, ActionFacts, HandlerArgs DEF DeleteSend, LocalJIDs
    <3>2. InQueue(a)' /\ \A b : InQueue(b) => InQueue(b)'
      BY <2>1, <3>1
    <3>3. Keeps
      BY <1>0, <2>3, <3>2, Zenon DEF DeleteSend
    <3>4. ASSUME NEW i, i = th[t].jid PROVE InQueue(PutJob(i))'
      BY <3>1, <3>2, <3>4
    <3> QED
      BY <1>1, <2>3, <3>3, <3>4 DEF DeleteSend
  <2>4. CASE DeleteCheckpointSend(t) \/ AddCheckpointSend(t)
    <3>1. PutCheckpoint(th[t].cid) \in Action
      BY <2>4, ActionFacts, HandlerArgs DEF DeleteCheckpointSend, AddCheckpointSend
    <3>2. Keeps /\ th[t].pc \in {"cpSend", "addSend"}
      BY <1>0, <2>1, <2>4, <3>1, Zenon DEF DeleteCheckpointSend, AddCheckpointSend
    <3> QED
      BY <1>1, <3>2
  <2>5. CASE DeleteMark(t)
    <3>1. Keeps
      BY <1>0, <2>0, <2>5 DEF DeleteMark
    <3>2. th[t].pc = "delMark" /\ th'[t].pc = "delSend" /\ th'[t].jid = th[t].jid
          /\ th[t].jid \in deletedJobs'
      BY <1>0, <2>5, Zenon DEF DeleteMark, Locals
    <3> QED
      BY <1>1, <3>1, <3>2
  <2>6. CASE NewStore(t) \/ ManageSet(t) \/ DeleteRemove(t) \/ DeleteList(t) \/ DeleteEach(t)
             \/ DeleteCheckpointRemove(t) \/ DeleteCheckpointMark(t) \/ AddCheckpointStore(t)
    <3>1. Keeps
      BY <1>0, <2>0, <2>6, Zenon DEF NewStore, ManageSet, DeleteRemove, DeleteList, DeleteEach,
            DeleteCheckpointRemove, DeleteCheckpointMark, AddCheckpointStore
    <3>2. th[t].pc \notin {"sendJob", "delSend", "delMark"}
      BY <2>6, Zenon DEF NewStore, ManageSet, DeleteRemove, DeleteList, DeleteEach,
            DeleteCheckpointRemove, DeleteCheckpointMark, AddCheckpointStore
    <3> QED
      BY <1>1, <3>1, <3>2
  <2>7. CASE Panic(t)
    BY <2>7 DEF Panic
  <2> QED
    BY <1>3, <2>2, <2>3, <2>4, <2>5, <2>6, <2>7, Zenon DEF ThreadStep
<1> QED
  BY <1>2, <1>3

\* How one handler's step may change the entry of job j.
SameEntry(j) ==
    /\ jobs[j] # None /\ jobs'[j] # None
    /\ jobs'[j].pid = jobs[j].pid /\ jobs'[j].gpu = jobs[j].gpu /\ ~jobs'[j].remote
FreshEntry(j) == jobs'[j] # None /\ jobs'[j].pid = 0 /\ ~jobs'[j].remote
QueuedEntry(j) == jobs'[j] # None /\ ~jobs'[j].remote /\ JobQueued(j)'
RemovedEntry(j) == jobs'[j] = None /\ DelMarking(j)'

\* A handler's step changes the entry of j in one of these ways.
LEMMA HandlerEntry ==
    ASSUME TypeInv, NEW t \in Threads, Request(t) \/ ThreadStep(t), ~Crash,
           NEW j \in LocalJIDs
    PROVE  \/ jobs'[j] = jobs[j]
           \/ SameEntry(j) \/ FreshEntry(j) \/ QueuedEntry(j) \/ RemovedEntry(j)
<1>0. jobs \in [JIDs -> Job \cup {None}] /\ th \in [Threads -> Locals]
  BY DEF TypeInv, TypeOK, MemoryOK
<1> USE <1>0
<1>1. CASE Request(t)
  <2>1. ASSUME NEW i \in JIDs, Get(t, i), i = j
        PROVE  SameEntry(j) \/ QueuedEntry(j)
    <3>1. PICK attached \in BOOLEAN :
             LET gpu == jobs[i].gpu \/ attached IN
             /\ Start(t, IF gpu # jobs[i].gpu
                         THEN [Idle EXCEPT !.pc = "sendJob", !.jid = i] ELSE Idle)
             /\ jobs' = [jobs EXCEPT ![i].remote = (i \in OtherHostJIDs), ![i].gpu = gpu]
      BY <2>1, Zenon DEF Get
    <3> DEFINE g == jobs[j].gpu \/ attached
    <3>2. /\ jobs[j] \in Job
          /\ jobs'[j] = [jobs[j] EXCEPT !.remote = FALSE, !.gpu = g]
      <4>1. (i \in OtherHostJIDs) = FALSE
        BY <2>1 DEF LocalJIDs
      <4>2. jobs' = [jobs EXCEPT ![j].remote = FALSE, ![j].gpu = g]
        BY <2>1, <3>1, <4>1, Zenon
      <4>3. jobs[j] \in Job /\ j \in JIDs
        BY <2>1 DEF Get
      <4> HIDE DEF g
      <4> QED
        BY <4>2, <4>3
    <3>3. jobs'[j].pid = jobs[j].pid /\ jobs'[j].gpu = g /\ ~jobs'[j].remote
          /\ jobs'[j] \in Job
      <4>1. g \in BOOLEAN
        OBVIOUS
      <4> HIDE DEF g
      <4> QED
        BY <3>2, <4>1, Zenon DEF Job
    <3>4. CASE g = jobs[j].gpu
      BY <3>2, <3>3, <3>4, ConstantsAssumption DEF SameEntry
    <3>5. CASE g # jobs[j].gpu
      <4>1. Start(t, [Idle EXCEPT !.pc = "sendJob", !.jid = j])
        BY <2>1, <3>1, <3>5
      <4>2. th'[t].pc = "sendJob" /\ th'[t].jid = j
        BY <4>1 DEF Start, Idle
      <4> QED
        BY <3>3, <4>2, ConstantsAssumption DEF QueuedEntry, JobQueued
    <3> QED
      BY <3>4, <3>5
  <2>2. ASSUME NEW i \in JIDs, Get(t, i), i # j
        PROVE  jobs'[j] = jobs[j]
    BY <2>2 DEF Get, LocalJIDs
  <2> QED
    BY <1>1, <2>1, <2>2, Zenon DEF Request, NewCheck, DeleteLoad, ManageCheck, AddCheckpointLookup,
                DeleteCheckpointLoad, memory
<1>2. CASE ThreadStep(t)
  <2> USE DEF At, memory
  <2>1. CASE NewStore(t)
    <3> DEFINE fresh == [pid |-> 0, gpu |-> FALSE, remote |-> FALSE]
    <3>1. fresh \in Job
      BY DEF Job
    <3>2. jobs' = [jobs EXCEPT ![th[t].jid] = fresh]
      BY <2>1 DEF NewStore
    <3>3. fresh # None /\ fresh.pid = 0 /\ ~fresh.remote
      BY <3>1, ConstantsAssumption, Zenon
    <3> HIDE DEF fresh
    <3> QED
      BY <3>2, <3>3 DEF FreshEntry, LocalJIDs
  <2>2. CASE ManageSet(t)
    <3>1. CASE th[t].jid = j /\ jobs[j] # None
      <4>1. jobs[j] \in Job /\ jobs'[j] = [jobs[j] EXCEPT !.pid = th[t].pid, !.remote = FALSE]
        <5>1. (th[t].jid \in OtherHostJIDs) = FALSE /\ j \in JIDs
          BY <3>1 DEF LocalJIDs
        <5>2. jobs' = [jobs EXCEPT ![j].pid = th[t].pid, ![j].remote = FALSE]
          BY <2>2, <3>1, <5>1, Zenon DEF ManageSet
        <5> QED
          BY <3>1, <5>1, <5>2
      <4>2. th'[t].pc = "sendJob" /\ th'[t].jid = j
        BY <2>2, <3>1 DEF ManageSet, Goto, Locals
      <4>3. jobs'[j] # None /\ ~jobs'[j].remote
        <5>1. th[t].pid \in PIDs \cup {0}
          BY DEF Locals
        <5>2. jobs'[j] \in Job /\ ~jobs'[j].remote
          BY <4>1, <5>1, Zenon DEF Job
        <5> QED
          BY <5>2, ConstantsAssumption
      <4> QED
        BY <4>2, <4>3, Zenon DEF QueuedEntry, JobQueued
    <3> QED
      BY <2>2, <3>1 DEF ManageSet, LocalJIDs
  <2>3. CASE DeleteRemove(t)
    <3>1. CASE th[t].jid = j
      BY <2>3, <3>1 DEF DeleteRemove, RemovedEntry, DelMarking, Goto, LocalJIDs, Locals
    <3> QED
      BY <2>3, <3>1 DEF DeleteRemove, LocalJIDs
  <2>4. CASE Panic(t)
    BY <2>4 DEF Panic
  <2> QED
    BY <1>2, <2>1, <2>2, <2>3, <2>4, Zenon DEF ThreadStep, SendJob, DeleteMark, DeleteSend, DeleteList,
          DeleteEach, DeleteCheckpointRemove, DeleteCheckpointMark, DeleteCheckpointSend,
          AddCheckpointStore, AddCheckpointSend
<1> QED
  BY <1>1, <1>2

\* A handler's step keeps the invariant of every job.
LEMMA HandlerInv ==
    ASSUME TypeInv, NEW j \in LocalJIDs, InvOf(j),
           NEW t \in Threads, Request(t) \/ ThreadStep(t), ~Crash
    PROVE  InvOf(j)'
<1>1. /\ UNCHANGED <<daemon, dbJobs, spc, sact, sval, todo>>
      /\ JobQueued(j) => JobQueued(j)'
      /\ DelMarking(j) => DelMarking(j)' \/ (j \in deletedJobs' /\ JobQueued(j)')
      /\ j \in deletedJobs => j \in deletedJobs'
  BY HandlerKeeps, Zenon DEF db, syncer
<1>2. /\ Writing(PutJob(j))' <=> Writing(PutJob(j))
      /\ Deleting(PutJob(j))' <=> Deleting(PutJob(j))
  BY <1>1 DEF Writing, Deleting
<1> USE DEF InvOf, RowsOK, UpdateOK, DeleteOK
<1>3. CASE jobs'[j] = jobs[j]
  BY <1>1, <1>2, <1>3, Zenon DEF Same
<1>4. CASE SameEntry(j)
  BY <1>1, <1>2, <1>4, Zenon DEF Same, SameEntry
<1>5. CASE FreshEntry(j)
  BY <1>1, <1>2, <1>5, Zenon DEF FreshEntry
<1>6. CASE QueuedEntry(j)
  BY <1>1, <1>2, <1>6, Zenon DEF QueuedEntry
<1>7. CASE RemovedEntry(j)
  BY <1>1, <1>2, <1>7, Zenon DEF RemovedEntry
<1> QED
  BY HandlerEntry, <1>3, <1>4, <1>5, <1>6, <1>7, Zenon

\* A step of the syncer keeps the invariant of every job.
LEMMA SyncerInv ==
    ASSUME TypeInv, NEW j \in LocalJIDs, InvOf(j), SyncerStep
    PROVE  InvOf(j)'
<1> DEFINE a == PutJob(j)
           sending == \E t \in Threads : th[t].jid = j /\ th[t].pc \in {"sendJob", "delSend"}
           queued == InQueue(a) \/ a \in failed \/ sending
<1>0. /\ UNCHANGED <<daemon, th>> /\ daemon # "down"
      /\ JobQueued(j) <=> queued \/ Held(a)
      /\ (DelMarking(j)' <=> DelMarking(j)) /\ (sending' <=> sending)
      /\ a \in Action /\ a.typ = "putJob" /\ a.id = j /\ j \in JIDs
  <2>1. UNCHANGED <<daemon, th>> /\ daemon # "down"
    BY SyncerFrame
  <2>2. JobQueued(j) <=> queued \/ Held(a)
    BY DEF JobQueued, Handled
  <2>3. (DelMarking(j)' <=> DelMarking(j)) /\ (sending' <=> sending)
    BY <2>1 DEF DelMarking
  <2> QED
    BY <2>1, <2>2, <2>3, ActionFacts, Zenon DEF LocalJIDs
<1>1. JobQueued(j)' <=> queued' \/ Held(a)'
  BY DEF JobQueued, Handled
<1> HIDE DEF sending
<1> DEFINE Frame == UNCHANGED <<jobs, deletedJobs, dbJobs>>
\* A step that leaves the entry and its row alone and is not about to write or
\* to delete them: it is enough that it keeps the job queued.
<1>2. ASSUME Frame, queued \/ Held(a) => queued' \/ Held(a)',
             Writing(a) \/ Deleting(a) => queued' \/ Held(a)',
             spc' \notin {"put", "delete", "unmark"},
             todo'[j] # None =>
                 /\ todo'[j] = dbJobs'[j]
                 /\ spc' \in {"rows", "store", "listCheckpoints", "storeCheckpoints"}
      PROVE  InvOf(j)'
  BY <1>0, <1>1, <1>2, Zenon DEF InvOf, RowsOK, UpdateOK, DeleteOK, Writing, Deleting
<1> USE DEF SyncerAt, SyncReturn, SyncDone, memory, db
<1>3. CASE Receive
  <2>1. pending \in Seq(Action) /\ pending # <<>> /\ pending' = Tail(pending)
    BY <1>3 DEF Receive, TypeInv, TypeOK, ChannelOK
  <2>2. InQueue(a) => InQueue(a)' \/ Head(pending) = a
    BY <2>1, QueueReceive
  <2>3. Head(pending) = a => Held(a)'
    BY <1>0, <1>3 DEF Receive, Held
  <2>4. ~Writing(a) /\ ~Deleting(a) /\ ~Held(a) /\ todo[j] = None
    BY <1>0, <1>3 DEF Receive, Writing, Deleting, Held, InvOf, RowsOK
  <2> QED
    BY <1>0, <1>2, <1>3, <2>2, <2>3, <2>4 DEF Receive
<1>4. CASE Requeue
  <2>1. InQueue(a)' <=> InQueue(a) \/ sact = a
    BY <1>4, QueueSend, Zenon DEF Requeue, TypeInv, TypeOK, ChannelOK, SyncerLocals
  <2>2. ~Writing(a) /\ ~Deleting(a) /\ todo[j] = None
    BY <1>0, <1>4, Zenon DEF Requeue, Writing, Deleting, InvOf, RowsOK
  <2> QED
    BY <1>0, <1>2, <1>4, <2>1, <2>2, Zenon DEF Requeue, Held
<1>5. CASE Tick \/ LifetimeDone
  BY <1>0, <1>2, <1>5, Zenon DEF Tick, LifetimeDone, Writing, Deleting, Held, InvOf, RowsOK, InQueue
<1>6. CASE TickSend \/ MarkShutdown
  <2>1. InQueue(a) => InQueue(a)'
    BY <1>6, QueueSend, ActionFacts, Zenon DEF TickSend, MarkShutdown, TypeInv, TypeOK, ChannelOK
  <2> QED
    BY <1>0, <1>2, <1>6, <2>1, Zenon DEF TickSend, MarkShutdown, Writing, Deleting, Held, InvOf, RowsOK
<1>7. CASE SyncLoad
  <2>0. /\ Frame /\ UNCHANGED todo /\ (queued' <=> queued) /\ todo[j] = None
        /\ spc = "load" /\ (sact' = sact \/ spc' = "select")
    BY <1>0, <1>7, Zenon DEF SyncLoad, InQueue, InvOf, RowsOK
  <2>1. CASE sact # a
    BY <1>0, <1>1, <1>7, <2>0, <2>1, Zenon
       DEF SyncLoad, InvOf, RowsOK, UpdateOK, DeleteOK, Writing, Deleting, Held, NoAct
  <2>2. CASE sact = a /\ jobs[j] # None
    <3>1. Writing(a)' /\ sval' = jobs[j]
      BY <1>0, <1>7, <2>2, ZenonT(60) DEF SyncLoad, Entry, Writing
    <3>2. Same(sval', jobs'[j])
      BY <2>0, <2>2, <3>1 DEF Same
    <3> QED
      BY <1>0, <1>1, <2>0, <2>2, <3>1, <3>2, ZenonT(60)
         DEF InvOf, RowsOK, UpdateOK, DeleteOK, Writing, Deleting
  <2>3. CASE sact = a /\ jobs[j] = None /\ j \in deletedJobs
    <3>1. Deleting(a)'
      BY <1>0, <1>7, <2>3, Zenon DEF SyncLoad, Entry, Marked, Deleting
    <3> QED
      BY <1>0, <1>1, <2>0, <2>3, <3>1, Zenon
         DEF InvOf, RowsOK, UpdateOK, DeleteOK, Writing, Deleting
  <2>4. CASE sact = a /\ jobs[j] = None /\ j \notin deletedJobs
    <3>1. spc' = "select"
      BY <1>0, <1>7, <2>4, Zenon DEF SyncLoad, Entry, Marked
    <3> QED
      BY <1>0, <1>1, <2>0, <2>4, <3>1, Zenon
         DEF InvOf, RowsOK, UpdateOK, DeleteOK, Writing, Deleting
  <2> QED
    BY <2>1, <2>2, <2>3, <2>4
<1>8. CASE SyncPut \/ SyncDelete
  <2>0. /\ UNCHANGED <<jobs, deletedJobs, todo>>
        /\ todo[j] = None /\ (queued => queued')
        /\ spc \in {"put", "delete"} /\ spc' \in {"select", "requeue", "unmark"}
    BY <1>0, <1>8, Zenon DEF SyncPut, SyncDelete, SyncFailed, InvOf, RowsOK, InQueue
  <2>1. CASE sact # a
    <3>0. sact.typ = "putJob" => sact.id \in JIDs /\ sact.id # j
      <4>1. sact \in PutAction
        BY <2>0 DEF TypeInv, SyncerLocals
      <4> QED
        BY <2>1, <4>1, ActionFacts
    <3>1. dbJobs'[j] = dbJobs[j] \/ WriteRow(sact, sval) \/ WriteRow(sact, None)
      BY <1>8, Zenon DEF SyncPut, SyncDelete
    <3>2. ASSUME NEW v, WriteRow(sact, v) PROVE dbJobs'[j] = dbJobs[j]
      BY <1>0, <3>0, <3>2, Zenon DEF WriteRow, TypeInv, TypeOK, TablesOK
    <3>3. spc' = "unmark" => sact' = sact
      BY <1>8 DEF SyncPut, SyncDelete, SyncFailed
    <3> QED
      BY <1>0, <1>1, <2>0, <2>1, <3>1, <3>2, <3>3, Zenon
         DEF InvOf, RowsOK, UpdateOK, DeleteOK, Writing, Deleting, Held
  <2>2. CASE sact = a /\ spc = "put"
    <3>1. sval \in Job /\ sval # None
      BY <1>0, <2>2, ConstantsAssumption, Zenon DEF TypeInv, SyncerLocals
    <3>2. \/ dbJobs'[j] = sval
          \/ dbJobs'[j] = dbJobs[j] /\ (a \in failed' \/ Held(a)')
      BY <1>0, <1>8, <2>2, Zenon DEF SyncPut, SyncDelete, SyncFailed, WriteRow, Held, TypeInv, TypeOK, TablesOK
    <3>3. spc' # "unmark" /\ Writing(a) /\ ~Held(a)
      BY <1>8, <2>2 DEF SyncPut, SyncDelete, SyncFailed, Writing, Held
    <3> QED
      BY <1>0, <1>1, <2>0, <2>2, <3>1, <3>2, <3>3, ZenonT(60)
         DEF InvOf, RowsOK, UpdateOK, DeleteOK, Writing, Deleting, Same
  <2>3. CASE sact = a /\ spc = "delete"
    <3>1. \/ dbJobs'[j] = None
          \/ dbJobs'[j] = dbJobs[j] /\ (a \in failed' \/ Held(a)')
      BY <1>0, <1>8, <2>3, Zenon DEF SyncPut, SyncDelete, SyncFailed, WriteRow, Held, TypeInv, TypeOK, TablesOK
    <3>2. spc' = "unmark" => dbJobs'[j] = None
      BY <1>0, <1>8, <2>3, Zenon DEF SyncPut, SyncDelete, SyncFailed, WriteRow, TypeInv, TypeOK, TablesOK
    <3>3. Deleting(a) /\ ~Writing(a) /\ ~Held(a)
      BY <2>3 DEF Deleting, Writing, Held
    <3> QED
      BY <1>0, <1>1, <2>0, <2>3, <3>1, <3>2, <3>3, Zenon
         DEF InvOf, RowsOK, UpdateOK, DeleteOK, Writing, Deleting
  <2> QED
    BY <2>0, <2>1, <2>2, <2>3, SMTT(30)
<1>9. CASE SyncUnmark
  <2>1. /\ UNCHANGED <<jobs, dbJobs, todo>> /\ (queued' <=> queued) /\ todo[j] = None
        /\ spc = "unmark" /\ spc' = "select"
    BY <1>0, <1>9, Zenon DEF SyncUnmark, InQueue, InvOf, RowsOK
  <2>2. CASE sact = a
    BY <1>0, <1>1, <2>1, <2>2, Zenon DEF InvOf, RowsOK, UpdateOK, DeleteOK, Writing, Deleting, Held
  <2>3. CASE sact # a
    <3>1. sact \in PutAction
      BY <2>1 DEF TypeInv, SyncerLocals
    <3>2. sact.typ = "putJob" => sact.id # j
      BY <2>3, <3>1, ActionFacts
    <3>3. j \in deletedJobs => j \in deletedJobs'
      BY <1>9, <3>2 DEF SyncUnmark
    <3> QED
      BY <1>0, <1>1, <2>1, <2>3, <3>3, Zenon
         DEF InvOf, RowsOK, UpdateOK, DeleteOK, Writing, Deleting, Held
  <2> QED
    BY <2>2, <2>3
<1>10. CASE ListJobs
  BY <1>0, <1>2, <1>10, Zenon
     DEF ListJobs, SyncFailed, InQueue, Writing, Deleting, Held, InvOf, RowsOK
<1>11. CASE NextRow
  BY <1>0, <1>2, <1>11, Zenon
     DEF NextRow, NoRows, InQueue, Writing, Deleting, Held, InvOf, RowsOK, TypeInv, TypeOK, SyncerOK
<1>12. CASE StoreRow
  <2>0. /\ UNCHANGED <<dbJobs, deletedJobs>> /\ (queued' <=> queued)
        /\ spc = "store" /\ spc' \in {"rows", "listCheckpoints"} /\ sact' = sact
        /\ todo'[j] # None => todo'[j] = todo[j]
        /\ jobs'[j] = jobs[j] \/ (jobs[j] = None /\ jobs'[j] = todo[j] /\ todo[j] # None)
    BY <1>0, <1>12, Zenon
       DEF StoreRow, RowWanted, InQueue, InvOf, RowsOK, TypeInv, TypeOK, MemoryOK, SyncerOK, SyncerLocals
  <2> QED
    BY <1>0, <1>1, <2>0, ZenonT(30)
       DEF InvOf, RowsOK, UpdateOK, DeleteOK, Writing, Deleting, Held, Same
<1>13. CASE ListCheckpointsByJIDs
  BY <1>0, <1>2, <1>13, Zenon
     DEF ListCheckpointsByJIDs, NoRows, SyncFailed, InQueue, Writing, Deleting, Held, InvOf, RowsOK
<1>14. CASE StoreCheckpoints
  BY <1>0, <1>2, <1>14, Zenon
     DEF StoreCheckpoints, InQueue, Writing, Deleting, Held, InvOf, RowsOK
<1> QED
  BY <1>3, <1>4, <1>5, <1>6, <1>7, <1>8, <1>9, <1>10, <1>11, <1>12, <1>13, <1>14
     DEF SyncerStep

\* So do starts, crashes and stops, and the writes of other hosts.
LEMMA LifetimeInv ==
    ASSUME TypeInv, NEW j \in LocalJIDs, InvOf(j),
           \/ NewManagerLazy \/ Crash \/ CancelLifetime \/ Stop
           \/ \E o \in OtherHostJIDs : OtherHostPut(o)
           \/ UNCHANGED vars
    PROVE  InvOf(j)'
<1> USE DEF InvOf, RowsOK, memory, db, syncer
<1>1. CASE NewManagerLazy
  BY <1>1, Zenon DEF NewManagerLazy, IdleSyncer, UpdateOK, DeleteOK, Same, Writing, Deleting,
              LocalJIDs, TypeInv, TypeOK, TablesOK
<1>2. CASE Crash \/ Stop
  BY <1>2, ZenonT(30) DEF Crash, Stop, IdleSyncer, Writing, LocalJIDs
<1>3. CASE CancelLifetime \/ UNCHANGED vars
  BY <1>3, ZenonT(30) DEF CancelLifetime, vars, UpdateOK, DeleteOK, Same, Writing, Deleting, DelMarking,
              JobQueued, Handled, Held, InQueue
<1>4. ASSUME NEW o \in OtherHostJIDs, OtherHostPut(o) PROVE InvOf(j)'
  <2>1. dbJobs'[j] = dbJobs[j]
    BY <1>4, Zenon DEF OtherHostPut, LocalJIDs, TypeInv, TypeOK, TablesOK
  <2> QED
    BY <1>4, <2>1, Zenon DEF OtherHostPut, UpdateOK, DeleteOK, Same, Writing, Deleting, DelMarking,
              JobQueued, Handled, Held, InQueue
<1> QED
  BY <1>1, <1>2, <1>3, <1>4, ZenonT(30)

\* IInv is inductive.
LEMMA JobInvNext == IInv /\ [Next]_vars => IInv'
<1> SUFFICES ASSUME IInv, [Next]_vars PROVE IInv'
  OBVIOUS
<1>1. TypeInv /\ TypeInv'
  BY TypeInvNext DEF IInv
<1>2. ASSUME NEW j \in LocalJIDs PROVE InvOf(j)'
  <2>1. InvOf(j)
    BY DEF IInv, JobInv, InvOf
  <2>2. ASSUME NEW t \in Threads, Request(t) \/ ThreadStep(t) PROVE InvOf(j)'
    <3>1. CASE ~Crash
      BY <1>1, <2>1, <2>2, <3>1, HandlerInv
    <3>2. CASE Crash
      BY <1>1, <2>1, <2>2, <3>2, LifetimeInv
    <3> QED
      BY <3>1, <3>2
  <2> QED
    BY <1>1, <2>1, <2>2, SyncerInv, LifetimeInv DEF Next
<1> QED
  BY <1>1, <1>2 DEF IInv, JobInv, InvOf

\* IInv holds at the start.
LEMMA JobInvInit == Init => IInv
BY TypeInit DEF Init, IInv, JobInv, InvOf, RowsOK, Writing, LocalJIDs

\* For every number of jobs, handlers and every capacity: a managed job whose
\* row is outdated, and a deleted job whose row remains, is always queued, in
\* the syncer's hands, or reported as failed at shutdown (manager_lazy.go,
\* every "pending <- action" and the retry of the syncer).
THEOREM UpdatesAndDeletesKept == Spec => []NothingLost
<1>1. IInv => NothingLost
  BY DEF IInv, JobInv, InvOf, UpdateOK, DeleteOK, NothingLost, NoLostUpdate, NoLostDelete,
         DelMarking
<1> QED
  BY JobInvInit, JobInvNext, <1>1, PTL DEF Spec

\* For all constants: the periodic reload (syncWithDB, initialize) never
\* replaces a local job that is in memory.
THEOREM ReloadSafe == Spec => ReloadKeepsLocalJobs
<1>1. IInv /\ [Next]_vars =>
         [\A j \in LocalJIDs : StoreRow /\ jobs[j] # None => jobs'[j] = jobs[j]]_vars
  BY Zenon DEF IInv, JobInv, InvOf, RowsOK, StoreRow, RowWanted, TypeInv, TypeOK, MemoryOK, SyncerOK, SyncerLocals, SyncerAt, LocalJIDs
<1> QED
  BY JobInvInit, JobInvNext, <1>1, PTL DEF Spec, ReloadKeepsLocalJobs

-----------------------------------------------------------------------------
(***************************************************************************)
(* The inductive invariant about one checkpoint.                           *)
(***************************************************************************)
CpMarking(c) == \E t \in Threads : th[t].cid = c /\ th[t].pc = "cpMark"
Adding(t, c) == th[t].cid = c /\ th[t].pc = "addStore"

\* Every copy of a checkpoint belongs to the same job, and what the reload has
\* listed is what the table holds: nobody else writes the row meanwhile.
Owned(c) ==
    /\ checkpoints[c] # None /\ dbCheckpoints[c] # None => checkpoints[c] = dbCheckpoints[c]
    /\ Writing(PutCheckpoint(c)) => /\ checkpoints[c] # None => sval = checkpoints[c]
                                    /\ dbCheckpoints[c] # None => sval = dbCheckpoints[c]
    /\ spc = "storeCheckpoints" /\ c \in scps => dbCheckpoints[c] = sval

\* A UUID is handed out once: before AddCheckpoint stores it nobody has heard of it.
Unheard(c) ==
    checkpoints[c] = None /\ dbCheckpoints[c] = None /\ ~Writing(PutCheckpoint(c))
FreshID(c) ==
    /\ \A t \in Threads : Adding(t, c) =>
          Unheard(c) /\ \A u \in Threads : Adding(u, c) => u = t
    /\ c \notin usedCIDs =>
          /\ Unheard(c) /\ c \notin deletedCheckpoints
          /\ \A t \in Threads : th[t].cid # c /\ c \notin th[t].rest

\* NoLostCheckpoint; the row that the syncer is about to delete is not needed, and
\* one that it is about to write after the deletion will be looked at again.
CpKept(c) ==
    /\ checkpoints[c] # None /\ dbCheckpoints[c] # checkpoints[c]
       => CheckpointQueued(c) \/ Writing(PutCheckpoint(c))
    /\ checkpoints[c] # None /\ Deleting(PutCheckpoint(c)) => CheckpointQueued(c)
    /\ checkpoints[c] = None /\ c \in deletedCheckpoints
       /\ (dbCheckpoints[c] # None \/ Writing(PutCheckpoint(c)))
       => CheckpointQueued(c) \/ Deleting(PutCheckpoint(c)) \/ CpMarking(c)

CpInvOf(c) == Owned(c) /\ FreshID(c) /\ (daemon # "down" => CpKept(c))

CpInv == TypeInv /\ \A c \in CIDs : CpInvOf(c)

\* A handler's step leaves the other handlers alone and takes nothing off the channel.
LEMMA HandlerQueue ==
    ASSUME TypeInv, NEW t \in Threads, Request(t) \/ ThreadStep(t), ~Crash
    PROVE  /\ \A u \in Threads \ {t} : th'[u] = th[u]
           /\ \A a : InQueue(a) => InQueue(a)'
<1>0. pending \in Seq(Action) /\ th \in [Threads -> Locals]
  BY DEF TypeInv, TypeOK, ChannelOK
<1>1. UNCHANGED pending => \A a : InQueue(a) => InQueue(a)'
  BY DEF InQueue
<1>2. CASE Request(t)
  BY <1>0, <1>1, <1>2, Zenon DEF Request, NewCheck, Get, DeleteLoad, ManageCheck,
        AddCheckpointLookup, DeleteCheckpointLoad, Start
<1>3. CASE ThreadStep(t)
  <2>1. \A u \in Threads \ {t} : th'[u] = th[u]
    BY <1>0, <1>3, Zenon DEF ThreadStep, NewStore, ManageSet, SendJob, DeleteRemove, DeleteMark,
          DeleteSend, DeleteList, DeleteEach, DeleteCheckpointRemove, DeleteCheckpointMark,
          DeleteCheckpointSend, AddCheckpointStore, AddCheckpointSend, Panic, Goto, Return
  <2>2. UNCHANGED pending \/ \E a \in Action : Send(a)
    <3>1. CASE SendJob(t) \/ DeleteSend(t)
      BY <3>1, ActionFacts, HandlerArgs, Zenon DEF SendJob, DeleteSend, At
    <3>2. CASE DeleteCheckpointSend(t) \/ AddCheckpointSend(t)
      BY <3>2, ActionFacts, HandlerArgs, Zenon DEF DeleteCheckpointSend, AddCheckpointSend, At
    <3> QED
      BY <1>3, <3>1, <3>2, Zenon DEF ThreadStep, NewStore, ManageSet, DeleteRemove, DeleteMark,
            DeleteList, DeleteEach, DeleteCheckpointRemove, DeleteCheckpointMark,
            AddCheckpointStore, Panic
  <2>3. \A a \in Action : Send(a) => \A b : InQueue(b) => InQueue(b)'
    BY <1>0, QueueSend
  <2> QED
    BY <1>1, <2>1, <2>2, <2>3, Zenon
<1> QED
  BY <1>2, <1>3

\* What a handler's step does to the checkpoint c: it stores the one it was called
\* to add, removes the one it was called to delete, or leaves it alone; it queues
\* what it changed; and it learns of c from the map or by taking a fresh UUID.
LEMMA HandlerCheckpoint ==
    ASSUME TypeInv, NEW t \in Threads, Request(t) \/ ThreadStep(t), ~Crash, NEW c \in CIDs
    PROVE  /\ usedCIDs \subseteq usedCIDs'
           /\ c \in deletedCheckpoints => c \in deletedCheckpoints'
           /\ c \in deletedCheckpoints' => \/ c \in deletedCheckpoints
                                           \/ th[t].cid = c /\ th[t].pc = "cpMark"
           /\ th[t].cid = c /\ th[t].pc \in {"addSend", "cpSend"} => InQueue(PutCheckpoint(c))'
           /\ th[t].cid = c /\ th[t].pc = "cpMark" => th'[t].cid = c /\ th'[t].pc = "cpSend"
           /\ th'[t].cid = c => \/ th[t].cid = c \/ c \in th[t].rest
                                \/ checkpoints[c] # None \/ c \in usedCIDs'
           /\ c \in th'[t].rest => c \in th[t].rest \/ checkpoints[c] # None
           /\ Adding(t, c)' => c \notin usedCIDs /\ c \in usedCIDs'
           /\ \/ checkpoints'[c] = checkpoints[c]
              \/ Adding(t, c) /\ checkpoints'[c] = th[t].jid /\ th'[t].cid = c /\ th'[t].pc = "addSend"
              \/ th[t].cid = c /\ checkpoints'[c] = None /\ th'[t].cid = c /\ th'[t].pc = "cpMark"
<1>0. /\ th \in [Threads -> Locals] /\ pending \in Seq(Action)
      /\ checkpoints \in [CIDs -> JIDs \cup {None}]
      /\ c # None
  BY ConstantsAssumption DEF TypeInv, TypeOK, ChannelOK, MemoryOK
<1> USE <1>0 DEF Adding
<1>1. CASE Request(t)
  <2>1. UNCHANGED <<checkpoints, deletedCheckpoints>> /\ th[t].pc = "idle"
    BY <1>1, Zenon DEF Request, NewCheck, Get, DeleteLoad, ManageCheck, AddCheckpointLookup,
          DeleteCheckpointLoad, Start, At, memory
  <2>2. \/ /\ usedCIDs' = usedCIDs
           /\ \E l \in Locals : /\ th'[t] = l /\ l.pc # "addStore" /\ l.rest = {}
                                /\ l.cid = c => checkpoints[c] # None
        \/ \E j \in JIDs, d \in CIDs : AddCheckpointLookup(t, j, d)
    <3>1. ASSUME NEW j \in JIDs, NewCheck(t, j) \/ Get(t, j) \/ DeleteLoad(t, j)
          PROVE  /\ usedCIDs' = usedCIDs /\ th'[t].pc # "addStore" /\ th'[t].rest = {}
                 /\ th'[t].cid # c
      <4>1. usedCIDs' = usedCIDs
        BY <3>1, Zenon DEF NewCheck, Get, DeleteLoad
      <4>2. CASE NewCheck(t, j)
        BY <4>1, <4>2 DEF NewCheck, Start, Idle
      <4>3. CASE DeleteLoad(t, j)
        BY <4>1, <4>3 DEF DeleteLoad, Start, Idle
      <4>4. CASE Get(t, j)
        <5>1. th'[t] = [Idle EXCEPT !.pc = "sendJob", !.jid = j] \/ th'[t] = Idle
          BY <4>4 DEF Get, Start
        <5>2. CASE th'[t] = [Idle EXCEPT !.pc = "sendJob", !.jid = j]
          BY <4>1, <5>2 DEF Idle
        <5>3. CASE th'[t] = Idle
          BY <4>1, <5>3 DEF Idle
        <5> QED
          BY <5>1, <5>2, <5>3
      <4> QED
        BY <3>1, <4>2, <4>3, <4>4, Zenon
    <3>2. ASSUME NEW j \in JIDs, NEW p \in PIDs, ManageCheck(t, j, p)
          PROVE  /\ usedCIDs' = usedCIDs /\ th'[t].pc # "addStore" /\ th'[t].rest = {}
                 /\ th'[t].cid # c
      BY <3>2 DEF ManageCheck, Start, Idle
    <3>3. ASSUME NEW d \in CIDs, DeleteCheckpointLoad(t, d)
          PROVE  /\ usedCIDs' = usedCIDs /\ th'[t].pc # "addStore" /\ th'[t].rest = {}
                 /\ th'[t].cid = c => checkpoints[c] # None
      BY <3>3 DEF DeleteCheckpointLoad, Start, Idle
    <3>4. th'[t] \in Locals
      BY HandlersNext, LocalsFacts, <1>1 DEF Next
    <3> QED
      BY <1>1, <3>1, <3>2, <3>3, <3>4, Zenon DEF Request
  <2>3. ASSUME NEW j \in JIDs, NEW d \in CIDs, AddCheckpointLookup(t, j, d)
        PROVE  /\ usedCIDs' = usedCIDs \cup {d} /\ d \notin usedCIDs
               /\ th'[t].rest = {} /\ th'[t].cid = d
    BY <2>3 DEF AddCheckpointLookup, Start, Idle
  <2> QED
    BY <2>1, <2>2, <2>3, Zenon
<1>2. CASE ThreadStep(t)
  <2> USE DEF At, Goto, Return, Idle, memory, Locals
  <2>1. CASE SendJob(t) \/ DeleteSend(t)
    BY <2>1 DEF SendJob, DeleteSend
  <2>2. CASE DeleteCheckpointSend(t) \/ AddCheckpointSend(t)
    <3>1. PICK a \in Action : a = PutCheckpoint(th[t].cid) /\ Send(a)
      BY <2>2, HandlerArgs, ActionFacts DEF DeleteCheckpointSend, AddCheckpointSend
    <3>2. InQueue(a)'
      BY <3>1, QueueSend
    <3>3. th[t].cid = c => InQueue(PutCheckpoint(c))'
      BY <3>1, <3>2, Zenon
    <3>4. /\ UNCHANGED <<usedCIDs, checkpoints, deletedCheckpoints>>
          /\ th[t].pc \in {"addSend", "cpSend"}
      BY <2>2, Zenon DEF DeleteCheckpointSend, AddCheckpointSend
    <3>5. CASE DeleteCheckpointSend(t)
      <4>1. th'[t].cid = th[t].cid /\ th'[t].rest = th[t].rest /\ th'[t].pc = "delEach"
        BY <3>5 DEF DeleteCheckpointSend
      <4> QED
        BY <3>3, <3>4, <4>1, Zenon
    <3>6. CASE AddCheckpointSend(t)
      <4>1. th'[t].cid # c /\ th'[t].rest = {} /\ th'[t].pc = "idle"
        BY <3>6, Zenon DEF AddCheckpointSend
      <4> QED
        BY <3>3, <3>4, <4>1, ZenonT(60)
    <3> QED
      BY <2>2, <3>5, <3>6, Zenon
  <2>3. CASE NewStore(t) \/ DeleteRemove(t) \/ DeleteMark(t)
    BY <2>3 DEF NewStore, DeleteRemove, DeleteMark
  <2>4. CASE ManageSet(t)
    BY <2>4 DEF ManageSet
  <2>5. CASE DeleteList(t)
    BY <2>5, ConstantsAssumption DEF DeleteList
  <2>6. CASE DeleteEach(t)
    <3>1. UNCHANGED <<usedCIDs, checkpoints, deletedCheckpoints>> /\ th[t].pc = "delEach"
      BY <2>6, Zenon DEF DeleteEach
    <3>2. CASE th[t].rest = {} /\ Return(t)
      BY <3>1, <3>2, Zenon
    <3>3. ASSUME NEW d \in th[t].rest,
                 th' = [th EXCEPT ![t].rest = @ \ {d}, ![t].cid = d,
                          ![t].pc = IF checkpoints[d] = None THEN "delEach" ELSE "cpRemove"]
          PROVE  /\ th'[t].cid = d /\ th'[t].rest \subseteq th[t].rest
                 /\ th'[t].pc \in {"delEach", "cpRemove"}
      BY <3>3
    <3> QED
      BY <2>6, <3>1, <3>2, <3>3, Zenon DEF DeleteEach
  <2>7. CASE DeleteCheckpointRemove(t)
    BY <2>7 DEF DeleteCheckpointRemove
  <2>8. CASE DeleteCheckpointMark(t)
    BY <2>8 DEF DeleteCheckpointMark
  <2>9. CASE AddCheckpointStore(t)
    BY <2>9 DEF AddCheckpointStore
  <2>10. CASE Panic(t)
    BY <2>10, Zenon DEF Panic
  <2> QED
    BY <1>2, <2>1, <2>2, <2>3, <2>4, <2>5, <2>6, <2>7, <2>8, <2>9, <2>10, Zenon DEF ThreadStep
<1> QED
  BY <1>1, <1>2, Zenon

\* A handler's step keeps the invariant of every checkpoint.
LEMMA HandlerCpInv ==
    ASSUME TypeInv, NEW c \in CIDs, CpInvOf(c),
           NEW t \in Threads, Request(t) \/ ThreadStep(t), ~Crash
    PROVE  CpInvOf(c)'
<1>0. /\ UNCHANGED <<daemon, dbCheckpoints, spc, sact, sval, scps, failed>>
      /\ \A u \in Threads \ {t} : th'[u] = th[u]
  BY HandlerFrame, HandlerQueue, Zenon DEF db, syncer
<1>1. /\ usedCIDs \subseteq usedCIDs'
      /\ c \in deletedCheckpoints => c \in deletedCheckpoints'
      /\ c \in deletedCheckpoints' => \/ c \in deletedCheckpoints
                                      \/ th[t].cid = c /\ th[t].pc = "cpMark"
      /\ th[t].cid = c /\ th[t].pc \in {"addSend", "cpSend"} => InQueue(PutCheckpoint(c))'
      /\ th[t].cid = c /\ th[t].pc = "cpMark" => th'[t].cid = c /\ th'[t].pc = "cpSend"
      /\ th'[t].cid = c => \/ th[t].cid = c \/ c \in th[t].rest
                           \/ checkpoints[c] # None \/ c \in usedCIDs'
      /\ c \in th'[t].rest => c \in th[t].rest \/ checkpoints[c] # None
      /\ Adding(t, c)' => c \notin usedCIDs /\ c \in usedCIDs'
      /\ \/ checkpoints'[c] = checkpoints[c]
         \/ Adding(t, c) /\ checkpoints'[c] = th[t].jid /\ th'[t].cid = c /\ th'[t].pc = "addSend"
         \/ th[t].cid = c /\ checkpoints'[c] = None /\ th'[t].cid = c /\ th'[t].pc = "cpMark"
  BY HandlerCheckpoint, Zenon
<1>2. InQueue(PutCheckpoint(c)) => InQueue(PutCheckpoint(c))'
  BY HandlerQueue, Zenon
<1>3. CheckpointQueued(c) => CheckpointQueued(c)'
  <2>1. Handled(PutCheckpoint(c)) => Handled(PutCheckpoint(c))'
    BY <1>0, <1>2, Zenon DEF Handled, Held
  <2>2. ASSUME NEW u \in Threads, th[u].cid = c, th[u].pc \in {"addSend", "cpSend"}
        PROVE  CheckpointQueued(c)'
    <3>1. CASE u = t
      BY <1>1, <2>2, <3>1, Zenon DEF CheckpointQueued, Handled
    <3>2. CASE u # t
      BY <1>0, <2>2, <3>2, Zenon DEF CheckpointQueued
    <3> QED
      BY <3>1, <3>2
  <2> QED
    BY <2>1, <2>2, Zenon DEF CheckpointQueued
<1>4. CpMarking(c) => CpMarking(c)' \/ CheckpointQueued(c)'
  BY <1>0, <1>1, Zenon DEF CpMarking, CheckpointQueued
<1>5. /\ Writing(PutCheckpoint(c))' <=> Writing(PutCheckpoint(c))
      /\ Deleting(PutCheckpoint(c))' <=> Deleting(PutCheckpoint(c))
  BY <1>0 DEF Writing, Deleting
<1>6. Owned(c) /\ FreshID(c)
  BY DEF CpInvOf
<1>7. Adding(t, c) => Unheard(c)
  BY <1>6 DEF FreshID
<1>8. Owned(c)'
  BY <1>0, <1>1, <1>5, <1>6, <1>7, Zenon DEF Owned, Unheard
<1>9. FreshID(c)'
  <2>1. c \notin usedCIDs => /\ Unheard(c) /\ c \notin deletedCheckpoints
                             /\ \A u \in Threads : th[u].cid # c /\ c \notin th[u].rest
    BY <1>6 DEF FreshID
  <2>2. c \notin usedCIDs => Unheard(c)'
    BY <1>0, <1>1, <1>5, <2>1, Zenon DEF Unheard, Adding
  <2>3. ASSUME NEW u \in Threads, Adding(u, c)'
        PROVE  Unheard(c)' /\ \A v \in Threads : Adding(v, c)' => v = u
    <3>1. CASE u = t
      <4>1. c \notin usedCIDs
        BY <1>1, <2>3, <3>1, Zenon
      <4>2. ASSUME NEW v \in Threads, v # t PROVE ~Adding(v, c)'
        BY <1>0, <2>1, <4>1, <4>2 DEF Adding
      <4> QED
        BY <2>2, <3>1, <4>1, <4>2, Zenon
    <3>2. CASE u # t
      <4>1. Adding(u, c) /\ c \in usedCIDs
        BY <1>0, <2>1, <2>3, <3>2 DEF Adding
      <4>2. Unheard(c) /\ \A v \in Threads : Adding(v, c) => v = u
        BY <1>6, <4>1, Zenon DEF FreshID
      <4>3. Unheard(c)'
        BY <1>0, <1>1, <1>5, <3>2, <4>2, Zenon DEF Unheard
      <4>4. ASSUME NEW v \in Threads, Adding(v, c)' PROVE v = u
        BY <1>0, <1>1, <4>1, <4>2, <4>4, ZenonT(60) DEF Adding
      <4> QED
        BY <4>3, <4>4
    <3> QED
      BY <3>1, <3>2
  <2>4. ASSUME c \notin usedCIDs'
        PROVE  /\ Unheard(c)' /\ c \notin deletedCheckpoints'
               /\ \A u \in Threads : th'[u].cid # c /\ c \notin th'[u].rest
    <3>1. c \notin usedCIDs
      BY <1>1, <2>4, Zenon
    <3>2. th'[t].cid # c /\ c \notin th'[t].rest
      BY <1>1, <2>1, <2>4, <3>1, Zenon DEF Unheard
    <3>3. c \notin deletedCheckpoints'
      BY <1>1, <2>1, <3>1, Zenon
    <3>4. \A u \in Threads : th'[u].cid # c /\ c \notin th'[u].rest
      BY <1>0, <2>1, <3>1, <3>2, Zenon
    <3> QED
      BY <2>2, <3>1, <3>3, <3>4, Zenon
  <2> QED
    BY <2>3, <2>4, Zenon DEF FreshID
<1>10. ASSUME daemon' # "down" PROVE CpKept(c)'
  <2>1. CpKept(c)
    BY <1>0, <1>10 DEF CpInvOf
  <2>2. CASE checkpoints'[c] = checkpoints[c]
    <3>1. c \in deletedCheckpoints' /\ c \notin deletedCheckpoints => CheckpointQueued(c)'
      BY <1>1, Zenon DEF CheckpointQueued
    <3> QED
      BY <1>0, <1>3, <1>4, <1>5, <2>1, <2>2, <3>1, Zenon DEF CpKept
  <2>3. CASE Adding(t, c) /\ checkpoints'[c] = th[t].jid /\ th'[t].cid = c /\ th'[t].pc = "addSend"
    <3>1. CheckpointQueued(c)'
      BY <2>3, Zenon DEF CheckpointQueued
    <3> QED
      BY <3>1, Zenon DEF CpKept
  <2>4. CASE th[t].cid = c /\ checkpoints'[c] = None /\ th'[t].cid = c /\ th'[t].pc = "cpMark"
    <3>1. CpMarking(c)'
      BY <2>4, Zenon DEF CpMarking
    <3> QED
      BY <2>4, <3>1, Zenon DEF CpKept
  <2> QED
    BY <1>1, <2>2, <2>3, <2>4, Zenon
<1> QED
  BY <1>8, <1>9, <1>10, Zenon DEF CpInvOf

\* A step of the syncer keeps the invariant of every checkpoint.
LEMMA SyncerCpInv ==
    ASSUME TypeInv, NEW c \in CIDs, CpInvOf(c), SyncerStep
    PROVE  CpInvOf(c)'
<1> DEFINE a == PutCheckpoint(c)
           sending == \E t \in Threads : th[t].cid = c /\ th[t].pc \in {"addSend", "cpSend"}
           queued == InQueue(a) \/ a \in failed \/ sending
<1>0. /\ UNCHANGED <<daemon, usedCIDs, th>> /\ daemon # "down"
      /\ CheckpointQueued(c) <=> queued \/ Held(a)
      /\ (CpMarking(c)' <=> CpMarking(c)) /\ (sending' <=> sending)
      /\ a \in Action /\ a.typ = "putCheckpoint" /\ a.id = c
  <2>1. UNCHANGED <<daemon, usedCIDs, th>> /\ daemon # "down"
    BY SyncerFrame, Zenon
  <2>2. CheckpointQueued(c) <=> queued \/ Held(a)
    BY DEF CheckpointQueued, Handled
  <2>3. (CpMarking(c)' <=> CpMarking(c)) /\ (sending' <=> sending)
    BY <2>1 DEF CpMarking
  <2> QED
    BY <2>1, <2>2, <2>3, ActionFacts, Zenon
<1>1. CheckpointQueued(c)' <=> queued' \/ Held(a)'
  BY Zenon DEF CheckpointQueued, Handled
<1>2. Owned(c) /\ FreshID(c) /\ CpKept(c)
  BY <1>0 DEF CpInvOf
\* A step that names no checkpoint as deleted and tells nobody of one not in use.
<1>3. ASSUME c \in deletedCheckpoints' => c \in deletedCheckpoints, Unheard(c) => Unheard(c)'
      PROVE  FreshID(c)'
  BY <1>0, <1>2, <1>3, Zenon DEF FreshID, Adding
<1> HIDE DEF sending
\* A step that leaves the entry and its row alone and is not about to write or to
\* delete them: it is enough that it keeps the checkpoint queued.
<1>4. ASSUME UNCHANGED <<checkpoints, deletedCheckpoints, dbCheckpoints>>,
             queued \/ Held(a) => queued' \/ Held(a)',
             Writing(a) \/ Deleting(a) => queued' \/ Held(a)',
             spc' \notin {"put", "delete"},
             spc' = "storeCheckpoints" => spc = "storeCheckpoints" /\ UNCHANGED <<scps, sval>>
      PROVE  CpInvOf(c)'
  <2>1. ~Writing(a)' /\ ~Deleting(a)'
    BY <1>4 DEF Writing, Deleting
  <2>2. FreshID(c)'
    BY <1>3, <1>4, <2>1, Zenon DEF Unheard
  <2>3. Owned(c)'
    BY <1>2, <1>4, <2>1, Zenon DEF Owned
  <2>4. CpKept(c)'
    BY <1>0, <1>1, <1>2, <1>4, <2>1, Zenon DEF CpKept
  <2> QED
    BY <2>2, <2>3, <2>4 DEF CpInvOf
<1> USE DEF SyncerAt, SyncReturn, SyncDone, memory, db
<1>5. CASE Receive
  <2>1. pending \in Seq(Action) /\ pending # <<>> /\ pending' = Tail(pending)
    BY <1>5 DEF Receive, TypeInv, TypeOK, ChannelOK
  <2>2. InQueue(a) => InQueue(a)' \/ Head(pending) = a
    BY <2>1, QueueReceive
  <2>3. Head(pending) = a => Held(a)'
    BY <1>0, <1>5 DEF Receive, Held
  <2>4. ~Writing(a) /\ ~Deleting(a) /\ ~Held(a)
    BY <1>5 DEF Receive, Writing, Deleting, Held
  <2>5. spc' \in {"list", "exited", "load"}
    BY <1>5 DEF Receive
  <2>6. UNCHANGED <<checkpoints, deletedCheckpoints, dbCheckpoints, failed>>
    BY <1>5 DEF Receive
  <2> QED
    BY <1>0, <1>4, <2>2, <2>3, <2>4, <2>5, <2>6
<1>6. CASE Requeue
  <2>1. InQueue(a)' <=> InQueue(a) \/ sact = a
    BY <1>6, QueueSend DEF Requeue, TypeInv, TypeOK, ChannelOK, SyncerLocals
  <2> QED
    BY <1>0, <1>4, <1>6, <2>1 DEF Requeue, Held, Writing, Deleting
<1>7. CASE Tick \/ LifetimeDone
  BY <1>0, <1>4, <1>7, Zenon DEF Tick, LifetimeDone, Writing, Deleting, Held, InQueue
<1>8. CASE TickSend \/ MarkShutdown
  <2>1. InQueue(a) => InQueue(a)'
    BY <1>8, QueueSend, ActionFacts DEF TickSend, MarkShutdown, TypeInv, TypeOK, ChannelOK
  <2> QED
    BY <1>0, <1>4, <1>8, <2>1, Zenon DEF TickSend, MarkShutdown, Writing, Deleting, Held
<1>9. CASE SyncLoad
  <2>0. /\ UNCHANGED <<checkpoints, deletedCheckpoints, dbCheckpoints>> /\ (queued' <=> queued)
        /\ spc = "load" /\ spc' # "storeCheckpoints" /\ (sact' = sact \/ spc' = "select")
    BY <1>0, <1>9, Zenon DEF SyncLoad, InQueue
  <2>1. CASE sact # a
    <3>1. ~Writing(a)' /\ ~Deleting(a)' /\ ~Held(a) /\ ~Writing(a) /\ ~Deleting(a)
      BY <2>0, <2>1 DEF Writing, Deleting, Held
    <3>2. Owned(c)' /\ FreshID(c)'
      BY <1>2, <1>3, <2>0, <3>1, Zenon DEF Owned, Unheard
    <3> QED
      BY <1>0, <1>1, <1>2, <2>0, <3>1, <3>2, Zenon DEF CpInvOf, CpKept
  <2>2. CASE sact = a /\ checkpoints[c] # None
    <3>1. Writing(a)' /\ sval' = checkpoints[c] /\ ~Deleting(a)'
      BY <1>0, <1>9, <2>2, Zenon DEF SyncLoad, Entry, Writing, Deleting
    <3>2. Owned(c)' /\ FreshID(c)'
      BY <1>2, <1>3, <2>0, <2>2, <3>1, Zenon DEF Owned, Unheard
    <3> QED
      BY <1>0, <1>1, <2>0, <2>2, <3>1, <3>2, Zenon DEF CpInvOf, CpKept
  <2>3. CASE sact = a /\ checkpoints[c] = None /\ c \in deletedCheckpoints
    <3>1. Deleting(a)' /\ ~Writing(a)'
      BY <1>0, <1>9, <2>3, Zenon DEF SyncLoad, Entry, Marked, Deleting, Writing
    <3>2. Owned(c)' /\ FreshID(c)'
      BY <1>2, <1>3, <2>0, <3>1, Zenon DEF Owned, Unheard
    <3> QED
      BY <1>0, <1>1, <2>0, <2>3, <3>1, <3>2, Zenon DEF CpInvOf, CpKept
  <2>4. CASE sact = a /\ checkpoints[c] = None /\ c \notin deletedCheckpoints
    <3>1. ~Deleting(a)' /\ ~Writing(a)'
      BY <1>0, <1>9, <2>4, Zenon DEF SyncLoad, Entry, Marked, Deleting, Writing
    <3>2. Owned(c)' /\ FreshID(c)'
      BY <1>2, <1>3, <2>0, <3>1, Zenon DEF Owned, Unheard
    <3> QED
      BY <1>0, <1>1, <2>0, <2>4, <3>1, <3>2, Zenon DEF CpInvOf, CpKept
  <2> QED
    BY <2>1, <2>2, <2>3, <2>4
<1>10. CASE SyncPut \/ SyncDelete
  <2>0. /\ UNCHANGED <<checkpoints, deletedCheckpoints>> /\ (queued => queued')
        /\ spc \in {"put", "delete"} /\ spc' \in {"select", "requeue", "unmark"}
        /\ ~Writing(a)' /\ ~Deleting(a)' /\ ~Held(a)
    <3>1. /\ UNCHANGED <<checkpoints, deletedCheckpoints, pending>> /\ failed \subseteq failed'
          /\ spc \in {"put", "delete"} /\ spc' \in {"select", "requeue", "unmark"}
      BY <1>10 DEF SyncPut, SyncDelete, SyncFailed
    <3> QED
      BY <1>0, <3>1, Zenon DEF InQueue, Writing, Deleting, Held
  <2>1. CASE sact # a
    <3>1. sact.typ # "putJob" => sact.id # c
      <4>1. sact \in PutAction
        BY <2>0 DEF TypeInv, SyncerLocals
      <4> QED
        BY <2>1, <4>1, ActionFacts
    <3>2. ASSUME NEW v, WriteRow(sact, v) PROVE dbCheckpoints'[c] = dbCheckpoints[c]
      BY <3>1, <3>2 DEF WriteRow, TypeInv, TypeOK, TablesOK
    <3>3. dbCheckpoints'[c] = dbCheckpoints[c]
      BY <1>10, <3>2 DEF SyncPut, SyncDelete
    <3>4. ~Writing(a) /\ ~Deleting(a)
      BY <2>1 DEF Writing, Deleting
    <3>5. Owned(c)' /\ FreshID(c)'
      BY <1>2, <1>3, <2>0, <3>3, <3>4, Zenon DEF Owned, Unheard
    <3> QED
      BY <1>0, <1>1, <1>2, <2>0, <3>3, <3>4, <3>5, Zenon DEF CpInvOf, CpKept
  <2>2. CASE sact = a /\ spc = "put"
    <3>1. sval # None /\ Writing(a) /\ ~Deleting(a)
      BY <1>0, <2>2, ConstantsAssumption, Zenon DEF TypeInv, SyncerLocals, Writing, Deleting
    <3>2. \/ dbCheckpoints'[c] = sval
          \/ dbCheckpoints'[c] = dbCheckpoints[c] /\ (a \in failed' \/ Held(a)')
      BY <1>0, <1>10, <2>2, Zenon
         DEF SyncPut, SyncDelete, SyncFailed, WriteRow, Held, TypeInv, TypeOK, TablesOK
    <3>3. Owned(c)'
      BY <1>2, <2>0, <3>1, <3>2, Zenon DEF Owned
    <3>4. FreshID(c)'
      BY <1>3, <2>0, <3>1, Zenon DEF Unheard
    <3>5. CpKept(c)'
      BY <1>0, <1>1, <1>2, <2>0, <3>1, <3>2, Zenon DEF CpKept, Owned
    <3> QED
      BY <3>3, <3>4, <3>5 DEF CpInvOf
  <2>3. CASE sact = a /\ spc = "delete"
    <3>1. ~Writing(a) /\ Deleting(a)
      BY <2>3 DEF Writing, Deleting
    <3>2. \/ dbCheckpoints'[c] = None
          \/ dbCheckpoints'[c] = dbCheckpoints[c] /\ (a \in failed' \/ Held(a)')
      BY <1>0, <1>10, <2>3, Zenon
         DEF SyncPut, SyncDelete, SyncFailed, WriteRow, Held, TypeInv, TypeOK, TablesOK
    <3>3. Owned(c)' /\ FreshID(c)'
      BY <1>2, <1>3, <2>0, <3>1, <3>2, Zenon DEF Owned, Unheard
    <3>4. CpKept(c)'
      BY <1>0, <1>1, <1>2, <2>0, <3>1, <3>2, Zenon DEF CpKept
    <3> QED
      BY <3>3, <3>4 DEF CpInvOf
  <2> QED
    BY <2>0, <2>1, <2>2, <2>3, Zenon
<1>11. CASE SyncUnmark
  <2>1. /\ UNCHANGED <<checkpoints, dbCheckpoints, pending, failed>>
        /\ deletedCheckpoints' \subseteq deletedCheckpoints
        /\ spc = "unmark" /\ spc' = "select"
    BY <1>11 DEF SyncUnmark
  <2>2. /\ ~Writing(a)' /\ ~Deleting(a)' /\ ~Held(a) /\ ~Writing(a) /\ ~Deleting(a)
        /\ (queued' <=> queued)
    BY <1>0, <2>1, Zenon DEF Writing, Deleting, Held, InQueue
  <2>3. Owned(c)' /\ FreshID(c)'
    BY <1>2, <1>3, <2>1, <2>2, Zenon DEF Owned, Unheard
  <2> QED
    BY <1>0, <1>1, <1>2, <2>1, <2>2, <2>3, Zenon DEF CpInvOf, CpKept
<1>12. CASE ListJobs \/ NextRow \/ StoreRow
  <2>1. /\ UNCHANGED <<checkpoints, deletedCheckpoints, dbCheckpoints, pending>>
        /\ spc \in {"list", "rows", "store"} /\ failed \subseteq failed'
        /\ spc' \in {"rows", "select", "requeue", "store", "listCheckpoints"}
    <3>1. CASE ListJobs
      BY <3>1 DEF ListJobs, SyncFailed
    <3>2. CASE NextRow
      BY <3>2 DEF NextRow
    <3>3. CASE StoreRow
      BY <3>3 DEF StoreRow
    <3> QED
      BY <1>12, <3>1, <3>2, <3>3
  <2> QED
    BY <1>0, <1>4, <2>1, Zenon DEF InQueue, Writing, Deleting, Held
<1>13. CASE ListCheckpointsByJIDs
  <2>1. /\ UNCHANGED <<checkpoints, deletedCheckpoints, dbCheckpoints, pending>>
        /\ spc = "listCheckpoints" /\ failed \subseteq failed'
        /\ spc' \in {"select", "requeue", "storeCheckpoints"}
        /\ spc' = "storeCheckpoints" => sval' = sval /\ scps' = {d \in CIDs : dbCheckpoints[d] = sval}
    BY <1>13 DEF ListCheckpointsByJIDs, SyncFailed
  <2>2. /\ ~Writing(a)' /\ ~Deleting(a)' /\ ~Held(a) /\ ~Writing(a) /\ ~Deleting(a)
        /\ (queued => queued')
    BY <1>0, <2>1, Zenon DEF Writing, Deleting, Held, InQueue
  <2>3. Owned(c)' /\ FreshID(c)'
    BY <1>2, <1>3, <2>1, <2>2, Zenon DEF Owned, Unheard
  <2> QED
    BY <1>0, <1>1, <1>2, <2>1, <2>2, <2>3, Zenon DEF CpInvOf, CpKept
<1>14. CASE StoreCheckpoints
  <2>1. /\ UNCHANGED <<deletedCheckpoints, dbCheckpoints, pending, failed>>
        /\ spc = "storeCheckpoints" /\ spc' \in {"rows", "storeCheckpoints"}
        /\ spc' = "storeCheckpoints" => sval' = sval /\ scps' \subseteq scps
        /\ \/ checkpoints'[c] = checkpoints[c]
           \/ c \in scps /\ checkpoints'[c] = sval
    BY <1>14 DEF StoreCheckpoints, TypeInv, TypeOK, MemoryOK, SyncerOK
  <2>2. /\ ~Writing(a)' /\ ~Deleting(a)' /\ ~Held(a) /\ ~Writing(a) /\ ~Deleting(a)
        /\ (queued <=> queued')
    BY <1>0, <2>1, Zenon DEF Writing, Deleting, Held, InQueue
  <2>3. sval # None
    BY <2>1, ConstantsAssumption, Zenon DEF TypeInv, SyncerLocals
  <2>4. checkpoints'[c] = checkpoints[c] \/ (dbCheckpoints[c] = sval /\ checkpoints'[c] = sval)
    BY <1>2, <2>1, Zenon DEF Owned
  <2>5. Owned(c)' /\ FreshID(c)'
    BY <1>2, <1>3, <2>1, <2>2, <2>3, <2>4, Zenon DEF Owned, Unheard
  <2> QED
    BY <1>0, <1>1, <1>2, <2>1, <2>2, <2>3, <2>4, <2>5, Zenon DEF CpInvOf, CpKept
<1> QED
  BY <1>5, <1>6, <1>7, <1>8, <1>9, <1>10, <1>11, <1>12, <1>13, <1>14 DEF SyncerStep

\* So do starts, crashes and stops, and the writes of other hosts.
LEMMA LifetimeCpInv ==
    ASSUME TypeInv, NEW c \in CIDs, CpInvOf(c), Lifecycle \/ UNCHANGED vars
           \/ \E o \in OtherHostJIDs : OtherHostPut(o)
    PROVE  CpInvOf(c)'
<1>0. Owned(c) /\ FreshID(c) /\ c # None
  BY ConstantsAssumption DEF CpInvOf
<1>1. CASE UNCHANGED <<memory, pending, db, usedCIDs, th, syncer>> /\ (daemon' # "down" => daemon # "down")
  <2>1. /\ UNCHANGED <<checkpoints, deletedCheckpoints, dbCheckpoints, sval, scps, spc>>
        /\ CheckpointQueued(c)' <=> CheckpointQueued(c)
        /\ Writing(PutCheckpoint(c))' <=> Writing(PutCheckpoint(c))
        /\ Deleting(PutCheckpoint(c))' <=> Deleting(PutCheckpoint(c))
        /\ CpMarking(c)' <=> CpMarking(c)
    BY <1>1, Zenon DEF memory, db, syncer, CheckpointQueued, Handled, Held, InQueue, Writing, Deleting,
          CpMarking
  <2>2. Owned(c)' /\ FreshID(c)'
    BY <1>0, <1>1, <2>1, Zenon DEF Owned, FreshID, Unheard, Adding
  <2> QED
    BY <1>1, <2>1, <2>2, Zenon DEF CpInvOf, CpKept
<1>2. CASE Lifecycle /\ ~(UNCHANGED <<memory, pending, th, syncer>> /\ daemon # "down")
  <2>1. /\ UNCHANGED <<dbCheckpoints, usedCIDs>> /\ IdleThreads /\ IdleSyncer
        /\ deletedCheckpoints' = {}
        /\ checkpoints'[c] \in {None, dbCheckpoints[c]}
    <3>1. /\ UNCHANGED <<db, usedCIDs>> /\ IdleThreads /\ IdleSyncer /\ deletedCheckpoints' = {}
          /\ NewManagerLazy \/ checkpoints' = [d \in CIDs |-> None]
      BY <1>2, LifecycleFrame
    <3> QED
      BY <3>1, Zenon DEF db, NewManagerLazy
  <2>2. /\ ~Writing(PutCheckpoint(c))' /\ ~Deleting(PutCheckpoint(c))' /\ scps' = {}
        /\ \A t \in Threads : th'[t].cid # c /\ th'[t].rest = {}
    BY <1>0, <2>1, Zenon DEF IdleThreads, IdleSyncer, Idle, Writing, Deleting
  <2>3. Owned(c)' /\ FreshID(c)'
    BY <1>0, <2>1, <2>2, Zenon DEF Owned, FreshID, Unheard, Adding
  <2> QED
    BY <2>1, <2>2, <2>3, Zenon DEF CpInvOf, CpKept
<1>3. ASSUME NEW o \in OtherHostJIDs, OtherHostPut(o) PROVE CpInvOf(c)'
  <2>1. /\ UNCHANGED <<daemon, memory, pending, th, syncer>> /\ usedCIDs \subseteq usedCIDs'
        /\ \/ dbCheckpoints'[c] = dbCheckpoints[c]
           \/ dbCheckpoints'[c] = o /\ c \notin usedCIDs /\ c \in usedCIDs'
    BY <1>3 DEF OtherHostPut, TypeInv, TypeOK, TablesOK
  <2>2. /\ UNCHANGED <<checkpoints, deletedCheckpoints, sval, scps, spc>>
        /\ CheckpointQueued(c)' <=> CheckpointQueued(c)
        /\ Writing(PutCheckpoint(c))' <=> Writing(PutCheckpoint(c))
        /\ Deleting(PutCheckpoint(c))' <=> Deleting(PutCheckpoint(c))
        /\ CpMarking(c)' <=> CpMarking(c)
    BY <2>1, Zenon DEF memory, db, syncer, CheckpointQueued, Handled, Held, InQueue, Writing, Deleting,
          CpMarking
  <2>3. CASE dbCheckpoints'[c] = dbCheckpoints[c]
    <3>1. Owned(c)' /\ FreshID(c)'
      BY <1>0, <2>1, <2>2, <2>3, Zenon DEF Owned, FreshID, Unheard, Adding
    <3> QED
      BY <2>1, <2>2, <2>3, <3>1, Zenon DEF CpInvOf, CpKept
  <2>4. CASE dbCheckpoints'[c] = o /\ c \notin usedCIDs /\ c \in usedCIDs'
    <3>1. /\ Unheard(c) /\ c \notin deletedCheckpoints
          /\ \A t \in Threads : ~Adding(t, c)
      BY <1>0, <2>4, Zenon DEF FreshID, Adding
    <3>2. ~(spc = "storeCheckpoints" /\ c \in scps)
      BY <1>0, <3>1, ConstantsAssumption, Zenon DEF Owned, Unheard, TypeInv, SyncerLocals
    <3>3. Owned(c)' /\ FreshID(c)'
      BY <2>1, <2>2, <2>4, <3>1, <3>2, Zenon DEF Owned, FreshID, Unheard, Adding
    <3> QED
      BY <2>2, <3>1, <3>3, Zenon DEF CpInvOf, CpKept, Unheard
  <2> QED
    BY <2>1, <2>3, <2>4, Zenon
<1>4. CASE Lifecycle /\ UNCHANGED <<memory, pending, th, syncer>> /\ daemon # "down"
  BY <1>1, <1>4, LifecycleFrame
<1>5. CASE UNCHANGED vars
  BY <1>1, <1>5, Zenon DEF vars
<1> QED
  BY <1>2, <1>3, <1>4, <1>5

\* CpInv is inductive.
LEMMA CpInvNext == CpInv /\ [Next]_vars => CpInv'
<1> SUFFICES ASSUME CpInv, [Next]_vars PROVE CpInv'
  OBVIOUS
<1>1. TypeInv /\ TypeInv'
  BY TypeInvNext DEF CpInv
<1>2. ASSUME NEW c \in CIDs PROVE CpInvOf(c)'
  <2>1. CpInvOf(c)
    BY DEF CpInv
  <2>2. ASSUME NEW t \in Threads, Request(t) \/ ThreadStep(t) PROVE CpInvOf(c)'
    <3>1. CASE ~Crash
      BY <1>1, <2>1, <2>2, <3>1, HandlerCpInv
    <3>2. CASE Crash
      BY <1>1, <2>1, <3>2, LifetimeCpInv DEF Lifecycle
    <3> QED
      BY <3>1, <3>2
  <2> QED
    BY <1>1, <2>1, <2>2, SyncerCpInv, LifetimeCpInv DEF Next, Lifecycle
<1> QED
  BY <1>1, <1>2 DEF CpInv

\* CpInv holds at the start.
LEMMA CpInvInit == Init => CpInv
<1> SUFFICES ASSUME Init, NEW c \in CIDs PROVE CpInvOf(c)
  BY TypeInit DEF CpInv
<1>1. \A t \in Threads : th[t].cid # c /\ th[t].rest = {}
  BY ConstantsAssumption DEF Init, Idle
<1> QED
  BY <1>1, Zenon DEF Init, CpInvOf, Owned, FreshID, Unheard, Adding, Writing

\* For every number of jobs, checkpoints and handlers and every capacity: a stored
\* checkpoint without its row, and a deleted one whose row remains, is always on
\* its way to the DB or reported as failed (manager_lazy.go, AddCheckpoint,
\* DeleteCheckpoint, putCheckpoint and the retry of the syncer).
THEOREM CheckpointsKept == Spec => []NoLostCheckpoint
<1>1. CpInv => NoLostCheckpoint
  BY Zenon DEF CpInv, CpInvOf, CpKept, CpMarking, NoLostCheckpoint
<1> QED
  BY CpInvInit, CpInvNext, <1>1, PTL DEF Spec
=============================================================================
