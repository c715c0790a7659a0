----------------------------- MODULE JobManager -----------------------------
(***************************************************************************)
(* The lazy job manager of the daemon (internal/cedana/job/manager_lazy.go)*)
(* with its backing DB (internal/db).                                      *)
(*                                                                         *)
(* Jobs and checkpoints live in in-memory sync.Maps.  Every change that    *)
(* must survive a restart puts the ID of the changed entry on the bounded  *)
(* channel "pending"; one background goroutine (the syncer) takes IDs off  *)
(* it and writes the entry's current value to the DB, or deletes its row   *)
(* when the entry is in the "deleted" map.  When idle for 10 seconds it    *)
(* reloads the rows of the DB ("initialize").                              *)
(*                                                                         *)
(* One step is one access to shared state: one sync.Map operation, one     *)
(* channel operation or one DB call.  Request handlers are Threads.  Jobs  *)
(* of OtherHostJIDs belong to another machine that shares the DB.  A job   *)
(* keeps what the properties tell apart: its PID, its GPU flag, and        *)
(* whether its status is "remote".                                         *)
(***************************************************************************)
EXTENDS Naturals, Sequences, FiniteSets

CONSTANTS
    JIDs,           \* job IDs
    OtherHostJIDs,  \* the jobs that belong to another host
    CIDs,           \* checkpoint IDs (UUIDs)
    PIDs,           \* process IDs
    Threads,        \* concurrent request handlers
    PendingCap,     \* capacity of the channel "pending" (64 in the code)
    None            \* absent entry

\* A job: its PID (0 before it is managed), GPUEnabled, Status = "remote".
Job == [pid : PIDs \cup {0}, gpu : BOOLEAN, remote : BOOLEAN]

ASSUME ConstantsAssumption ==
    /\ OtherHostJIDs \subseteq JIDs
    /\ PIDs \subseteq Nat \ {0}
    /\ PendingCap \in Nat \ {0}
    /\ None \notin JIDs \cup CIDs \cup Job
    /\ JIDs \cap CIDs = {}

LocalJIDs == JIDs \ OtherHostJIDs

VARIABLES
    daemon,             \* "down", "up", or "stopping" once lifetime is cancelled
    jobs,               \* sync.Map of jobs
    checkpoints,        \* sync.Map of checkpoints: the JID each one belongs to
    deletedJobs,        \* sync.Map of jobs whose row is to be deleted
    deletedCheckpoints, \* the same for checkpoints
    pending,            \* channel of actions for the syncer
    dbJobs,             \* rows of the table jobs
    dbCheckpoints,      \* rows of the table checkpoints
    usedCIDs,           \* UUIDs handed out so far
    th,                 \* per thread: where it is in its handler, and its locals
    spc, sact, sval, todo, scps, \* the syncer goroutine: where it is, its locals
    drain, failed       \* it is draining the channel, with these failedActions

memory == <<jobs, checkpoints, deletedJobs, deletedCheckpoints>>
db == <<dbJobs, dbCheckpoints>>
syncer == <<spc, sact, sval, todo, scps, drain, failed>>
vars == <<daemon, memory, pending, db, usedCIDs, th, syncer>>

NoAct == [typ |-> "none", id |-> None]
Initialize == [typ |-> "initialize", id |-> None]
Shutdown == [typ |-> "shutdown", id |-> None]
PutJob(j) == [typ |-> "putJob", id |-> j]
PutCheckpoint(c) == [typ |-> "putCheckpoint", id |-> c]
Action == {Initialize, Shutdown} \cup {PutJob(j) : j \in JIDs}
                                 \cup {PutCheckpoint(c) : c \in CIDs}

ThreadPCs == {"idle", "new", "manage", "sendJob", "delRemove", "delMark",
              "delSend", "delList", "delEach", "cpRemove", "cpMark", "cpSend",
              "addStore", "addSend", "panic"}
SyncerPCs == {"select", "load", "put", "delete", "unmark", "list", "rows",
              "store", "listCheckpoints", "storeCheckpoints", "requeue",
              "tick", "mark", "exited"}

\* A thread that runs no handler.
Idle == [pc |-> "idle", jid |-> None, cid |-> None, pid |-> 0, rest |-> {}]

\* No caller other than the syncer has anything in progress.
IdleThreads == th' = [t \in Threads |-> Idle]

IdleSyncer ==
    /\ spc' = "select" /\ sact' = NoAct /\ sval' = None
    /\ todo' = [j \in JIDs |-> None] /\ scps' = {}
    /\ drain' = FALSE /\ failed' = {}

Init ==
    /\ daemon = "down"
    /\ jobs = [j \in JIDs |-> None]
    /\ checkpoints = [c \in CIDs |-> None]
    /\ deletedJobs = {} /\ deletedCheckpoints = {}
    /\ pending = <<>>
    /\ dbJobs = [j \in JIDs |-> None]
    /\ dbCheckpoints = [c \in CIDs |-> None]
    /\ usedCIDs = {}
    /\ th = [t \in Threads |-> Idle]
    /\ spc = "select" /\ sact = NoAct /\ sval = None
    /\ todo = [j \in JIDs |-> None] /\ scps = {}
    /\ drain = FALSE /\ failed = {}

-----------------------------------------------------------------------------
(* The daemon's lifetime.                                                  *)

\* NewManagerLazy: a fresh manager loads every row before it serves; a DB
\* error makes the daemon fail to start, which leaves it down.
NewManagerLazy ==
    /\ daemon = "down"
    /\ daemon' = "up"
    /\ jobs' = dbJobs
    /\ checkpoints' = [c \in CIDs |->
                        IF dbCheckpoints[c] # None /\ dbJobs[dbCheckpoints[c]] # None
                        THEN dbCheckpoints[c] ELSE None]
    /\ deletedJobs' = {} /\ deletedCheckpoints' = {}
    /\ pending' = <<>>
    /\ IdleThreads /\ IdleSyncer
    /\ UNCHANGED <<db, usedCIDs>>

\* The process dies: all that is in memory is gone.
Crash ==
    /\ daemon # "down"
    /\ daemon' = "down"
    /\ jobs' = [j \in JIDs |-> None]
    /\ checkpoints' = [c \in CIDs |-> None]
    /\ deletedJobs' = {} /\ deletedCheckpoints' = {}
    /\ pending' = <<>>
    /\ IdleThreads /\ IdleSyncer
    /\ UNCHANGED <<db, usedCIDs>>

\* The lifetime context is cancelled (Server.Launch).
CancelLifetime ==
    /\ daemon = "up"
    /\ daemon' = "stopping"
    /\ UNCHANGED <<memory, pending, db, usedCIDs, th, syncer>>

\* Server.Stop: GracefulStop waited for the handlers, wg.Wait for the syncer.
Stop ==
    /\ daemon = "stopping"
    /\ spc = "exited"
    /\ \A t \in Threads : th[t].pc = "idle"
    /\ daemon' = "down"
    /\ jobs' = [j \in JIDs |-> None]
    /\ checkpoints' = [c \in CIDs |-> None]
    /\ deletedJobs' = {} /\ deletedCheckpoints' = {}
    /\ pending' = <<>>
    /\ IdleThreads /\ IdleSyncer
    /\ UNCHANGED <<db, usedCIDs>>

-----------------------------------------------------------------------------
(* Request handlers.                                                       *)

At(t, l) == th[t].pc = l
Goto(t, l) == th' = [th EXCEPT ![t].pc = l]
Return(t) == th' = [th EXCEPT ![t] = Idle]

\* "pending <- action": blocks while the channel is full.
Send_Unbounded(a) == pending' = Append(pending, a)
Send(a) ==
    /\ Len(pending) < PendingCap
    /\ pending' = Append(pending, a)

\* A handler starts, with its first local state.
Start(t, l) ==
    /\ daemon # "down" /\ At(t, "idle")
    /\ th' = [th EXCEPT ![t] = l]

\* New: the Exists check ...
NewCheck(t, j) ==
    /\ Start(t, [Idle EXCEPT !.pc = "new", !.jid = j])
    /\ jobs[j] = None
    /\ UNCHANGED <<daemon, memory, pending, db, usedCIDs, syncer>>

\* ... and the Store are two steps.  A new job has no PID and is not queued.
NewStore(t) ==
    /\ At(t, "new")
    /\ jobs' = [jobs EXCEPT ![th[t].jid] = [pid |-> 0, gpu |-> FALSE, remote |-> FALSE]]
    /\ Return(t)
    /\ UNCHANGED <<daemon, checkpoints, deletedJobs, deletedCheckpoints, pending,
                   db, usedCIDs, syncer>>

\* Get, List, ListByHostIDs: refresh the job's status; a job found attached to
\* a GPU controller becomes GPU-enabled and is queued.
Get(t, j) ==
    /\ jobs[j] # None
    /\ \E attached \in BOOLEAN :
         LET gpu == jobs[j].gpu \/ attached IN
         /\ Start(t, IF gpu # jobs[j].gpu
                     THEN [Idle EXCEPT !.pc = "sendJob", !.jid = j] ELSE Idle)
         /\ jobs' = [jobs EXCEPT ![j].remote = (j \in OtherHostJIDs), ![j].gpu = gpu]
    /\ UNCHANGED <<daemon, checkpoints, deletedJobs, deletedCheckpoints, pending,
                   db, usedCIDs, syncer>>

\* Manage, first half: the job exists and no other job has this PID.
ManageCheck(t, j, p) ==
    /\ Start(t, [Idle EXCEPT !.pc = "manage", !.jid = j, !.pid = p])
    /\ jobs[j] # None
    /\ ~ \E k \in JIDs \ {j} : jobs[k] # None /\ jobs[k].pid = p
    /\ UNCHANGED <<daemon, memory, pending, db, usedCIDs, syncer>>

\* Manage, second half: lookup, SetPID and SyncDeep.  The job may be gone by
\* now, and then lookup returned nil and the handler panics.
ManageSet(t) ==
    /\ At(t, "manage")
    /\ LET j == th[t].jid IN
       IF jobs[j] = None
       THEN Goto(t, "panic") /\ UNCHANGED jobs
       ELSE /\ jobs' = [jobs EXCEPT ![j].pid = th[t].pid,
                                    ![j].remote = (j \in OtherHostJIDs)]
            /\ Goto(t, "sendJob")
    /\ UNCHANGED <<daemon, checkpoints, deletedJobs, deletedCheckpoints, pending,
                   db, usedCIDs, syncer>>

\* Mutant: the change is not queued.
SendJob_Skipped(t) ==
    /\ At(t, "sendJob")
    /\ Return(t)
    /\ UNCHANGED <<daemon, memory, pending, db, usedCIDs, syncer>>

\* Get and Manage queue the job.
SendJob(t) ==
    /\ At(t, "sendJob")
    /\ Send(PutJob(th[t].jid))
    /\ Return(t)
    /\ UNCHANGED <<daemon, memory, db, usedCIDs, syncer>>

\* A panic in a handler ends the daemon: no interceptor recovers it.
Panic(t) ==
    /\ At(t, "panic")
    /\ Crash

\* Delete: Load the job (absent: return) ...
DeleteLoad(t, j) ==
    /\ Start(t, [Idle EXCEPT !.pc = "delRemove", !.jid = j])
    /\ j \in LocalJIDs  \* Server.Delete refuses remote jobs, Run deletes its own
    /\ jobs[j] # None
    /\ UNCHANGED <<daemon, memory, pending, db, usedCIDs, syncer>>

\* ... remove it from the map ...
DeleteRemove(t) ==
    /\ At(t, "delRemove")
    /\ jobs' = [jobs EXCEPT ![th[t].jid] = None]
    /\ Goto(t, "delMark")
    /\ UNCHANGED <<daemon, checkpoints, deletedJobs, deletedCheckpoints, pending,
                   db, usedCIDs, syncer>>

\* ... remember that its row is to be deleted ...
DeleteMark(t) ==
    /\ At(t, "delMark")
    /\ deletedJobs' = deletedJobs \cup {th[t].jid}
    /\ Goto(t, "delSend")
    /\ UNCHANGED <<daemon, jobs, checkpoints, deletedCheckpoints, pending,
                   db, usedCIDs, syncer>>

\* ... queue it ...
DeleteSend(t) ==
    /\ At(t, "delSend")
    /\ Send(PutJob(th[t].jid))
    /\ Goto(t, "delList")
    /\ UNCHANGED <<daemon, memory, db, usedCIDs, syncer>>

\* ... and list its checkpoints ...
DeleteList(t) ==
    /\ At(t, "delList")
    /\ th' = [th EXCEPT ![t].pc = "delEach",
                        ![t].rest = {c \in CIDs : checkpoints[c] = th[t].jid}]
    /\ UNCHANGED <<daemon, memory, pending, db, usedCIDs, syncer>>

\* ... to delete each of them, if it is still there.
DeleteEach(t) ==
    /\ At(t, "delEach")
    /\ \/ th[t].rest = {} /\ Return(t)
       \/ \E c \in th[t].rest :
            th' = [th EXCEPT ![t].rest = @ \ {c}, ![t].cid = c,
                     ![t].pc = IF checkpoints[c] = None THEN "delEach" ELSE "cpRemove"]
    /\ UNCHANGED <<daemon, memory, pending, db, usedCIDs, syncer>>

\* DeleteCheckpoint called on its own (Server.DeleteCheckpoint).
DeleteCheckpointLoad(t, c) ==
    /\ Start(t, [Idle EXCEPT !.pc = "cpRemove", !.cid = c])
    /\ checkpoints[c] # None
    /\ UNCHANGED <<daemon, memory, pending, db, usedCIDs, syncer>>

DeleteCheckpointRemove(t) ==
    /\ At(t, "cpRemove")
    /\ checkpoints' = [checkpoints EXCEPT ![th[t].cid] = None]
    /\ Goto(t, "cpMark")
    /\ UNCHANGED <<daemon, jobs, deletedJobs, deletedCheckpoints, pending,
                   db, usedCIDs, syncer>>

DeleteCheckpointMark(t) ==
    /\ At(t, "cpMark")
    /\ deletedCheckpoints' = deletedCheckpoints \cup {th[t].cid}
    /\ Goto(t, "cpSend")
    /\ UNCHANGED <<daemon, jobs, checkpoints, deletedJobs, pending,
                   db, usedCIDs, syncer>>

DeleteCheckpointSend_Skipped(t) ==
    /\ At(t, "cpSend")
    /\ Goto(t, "delEach")
    /\ UNCHANGED <<daemon, memory, pending, db, usedCIDs, syncer>>

DeleteCheckpointSend(t) ==
    /\ At(t, "cpSend")
    /\ Send(PutCheckpoint(th[t].cid))
    /\ Goto(t, "delEach")
    /\ UNCHANGED <<daemon, memory, db, usedCIDs, syncer>>

\* AddCheckpoint: the job is looked up, then a checkpoint with a fresh UUID is
\* stored and queued.  Its caller dumped the job, so the job has a PID.
AddCheckpointLookup(t, j, c) ==
    /\ Start(t, [Idle EXCEPT !.pc = "addStore", !.jid = j, !.cid = c])
    /\ jobs[j] # None /\ jobs[j].pid # 0
    /\ c \in CIDs \ usedCIDs
    /\ usedCIDs' = usedCIDs \cup {c}
    /\ UNCHANGED <<daemon, memory, pending, db, syncer>>

AddCheckpointStore(t) ==
    /\ At(t, "addStore")
    /\ checkpoints' = [checkpoints EXCEPT ![th[t].cid] = th[t].jid]
    /\ Goto(t, "addSend")
    /\ UNCHANGED <<daemon, jobs, deletedJobs, deletedCheckpoints, pending,
                   db, usedCIDs, syncer>>

AddCheckpointSend(t) ==
    /\ At(t, "addSend")
    /\ Send(PutCheckpoint(th[t].cid))
    /\ Return(t)
    /\ UNCHANGED <<daemon, memory, db, usedCIDs, syncer>>

-----------------------------------------------------------------------------
(* The syncer goroutine.                                                   *)

SyncerAt(l) == daemon # "down" /\ spc = l

\* The end of syncWithDB: a failed action goes back on the channel, except
\* while draining, when it is only logged as one of failedActions.
SyncReturn == spc' = "select" /\ sact' = NoAct
SyncDone == SyncReturn /\ UNCHANGED failed

SyncFailed ==
    IF drain
    THEN SyncReturn /\ failed' = failed \cup {sact}
    ELSE spc' = "requeue" /\ UNCHANGED <<sact, failed>>

\* Mutant: the newest action is taken first.
Receive_Newest ==
    /\ SyncerAt("select") /\ pending # <<>>
    /\ LET a == pending[Len(pending)] IN
       /\ pending' = SubSeq(pending, 1, Len(pending) - 1)
       /\ sact' = a
       /\ spc' = CASE a.typ = "initialize" -> "list"
                   [] a.typ = "shutdown" -> "exited"
                   [] OTHER -> "load"
    /\ UNCHANGED <<daemon, memory, db, usedCIDs, th, sval, todo, scps, drain, failed>>

\* Take the next action off the channel.
Receive ==
    /\ SyncerAt("select") /\ pending # <<>>
    /\ pending' = Tail(pending)
    /\ sact' = Head(pending)
    /\ spc' = CASE Head(pending).typ = "initialize" -> "list"
                [] Head(pending).typ = "shutdown" -> "exited"
                [] OTHER -> "load"
    /\ UNCHANGED <<daemon, memory, db, usedCIDs, th, sval, todo, scps, drain, failed>>

\* "pending <- action" of a failed action, by the goroutine that receives.
Requeue ==
    /\ SyncerAt("requeue")
    /\ Send(sact)
    /\ SyncDone
    /\ UNCHANGED <<daemon, memory, db, usedCIDs, th, sval, todo, scps, drain>>

\* time.After(DB_SYNC_INTERVAL): nothing arrived for that long ...
Tick ==
    /\ SyncerAt("select") /\ ~drain /\ pending = <<>>
    /\ spc' = "tick"
    /\ UNCHANGED <<daemon, memory, pending, db, usedCIDs, th, sact, sval, todo,
                   scps, drain, failed>>

\* ... so queue a reload of the rows.
TickSend ==
    /\ SyncerAt("tick")
    /\ Send(Initialize)
    /\ SyncDone
    /\ UNCHANGED <<daemon, memory, db, usedCIDs, th, sval, todo, scps, drain>>

\* lifetime.Done() was selected: wait for the background routines ...
LifetimeDone ==
    /\ daemon = "stopping" /\ spc = "select" /\ ~drain
    /\ spc' = "mark"
    /\ UNCHANGED <<daemon, memory, pending, db, usedCIDs, th, sact, sval, todo,
                   scps, drain, failed>>

\* ... put the shutdown marker behind what is queued, and drain up to it.
MarkShutdown ==
    /\ SyncerAt("mark")
    /\ Send(Shutdown)
    /\ drain' = TRUE
    /\ SyncDone
    /\ UNCHANGED <<daemon, memory, db, usedCIDs, th, sval, todo, scps>>

\* The entry an action is about, and whether it is marked deleted.
Entry(a) == IF a.typ = "putJob" THEN jobs[a.id] ELSE checkpoints[a.id]
Marked(a) == a.id \in IF a.typ = "putJob" THEN deletedJobs ELSE deletedCheckpoints

\* putJob and putCheckpoint read the current entry: put it if it is there,
\* delete its row if it is marked deleted, do nothing otherwise.
SyncLoad ==
    /\ SyncerAt("load")
    /\ \/ /\ Entry(sact) # None
          /\ spc' = "put" /\ sval' = Entry(sact)
          /\ UNCHANGED <<sact, failed>>
       \/ /\ Entry(sact) = None /\ Marked(sact)
          /\ spc' = "delete"
          /\ UNCHANGED <<sact, sval, failed>>
       \/ /\ Entry(sact) = None /\ ~Marked(sact)
          /\ SyncDone /\ UNCHANGED sval
    /\ UNCHANGED <<daemon, memory, pending, db, usedCIDs, th, todo, scps, drain>>

\* The row of an action's entry becomes v.
WriteRow(a, v) ==
    IF a.typ = "putJob"
    THEN dbJobs' = [dbJobs EXCEPT ![a.id] = v] /\ UNCHANGED dbCheckpoints
    ELSE dbCheckpoints' = [dbCheckpoints EXCEPT ![a.id] = v] /\ UNCHANGED dbJobs

\* The table jobs has CHECK(PID > 0).
RowAccepted(a, v) == a.typ = "putJob" => v.pid > 0

\* PutJob, PutCheckpoint: the write is applied and reported as such, or it
\* fails, applied or not (the answer of the remote DB may be lost).
SyncPut ==
    /\ SyncerAt("put")
    /\ sval' = None
    /\ \/ RowAccepted(sact, sval) /\ WriteRow(sact, sval) /\ SyncDone
       \/ RowAccepted(sact, sval) /\ WriteRow(sact, sval) /\ SyncFailed
       \/ UNCHANGED db /\ SyncFailed
    /\ UNCHANGED <<daemon, memory, pending, usedCIDs, th, todo, scps, drain>>

\* DeleteJob, DeleteCheckpoint: the same.
SyncDelete ==
    /\ SyncerAt("delete")
    /\ \/ WriteRow(sact, None) /\ spc' = "unmark" /\ UNCHANGED <<sact, failed>>
       \/ WriteRow(sact, None) /\ SyncFailed
       \/ UNCHANGED db /\ SyncFailed
    /\ UNCHANGED <<daemon, memory, pending, usedCIDs, th, sval, todo, scps, drain>>

\* The row is gone: forget that the entry was deleted.
SyncUnmark ==
    /\ SyncerAt("unmark")
    /\ IF sact.typ = "putJob"
       THEN deletedJobs' = deletedJobs \ {sact.id} /\ UNCHANGED deletedCheckpoints
       ELSE deletedCheckpoints' = deletedCheckpoints \ {sact.id} /\ UNCHANGED deletedJobs
    /\ SyncDone
    /\ UNCHANGED <<daemon, jobs, checkpoints, pending, db, usedCIDs, th, sval,
                   todo, scps, drain>>

NoRows == [j \in JIDs |-> None]

\* initialize: ListJobs reads all rows ...
ListJobs ==
    /\ SyncerAt("list")
    /\ \/ todo' = dbJobs /\ spc' = "rows" /\ UNCHANGED <<sact, failed>>
       \/ SyncFailed /\ UNCHANGED todo
    /\ UNCHANGED <<daemon, memory, pending, db, usedCIDs, th, sval, scps, drain>>

\* ... then, row by row: skip a job that is marked deleted ...
NextRow ==
    /\ SyncerAt("rows")
    /\ \/ /\ todo = NoRows
          /\ SyncDone /\ UNCHANGED <<todo, sval>>
       \/ \E j \in JIDs :
            /\ todo[j] # None
            /\ IF j \in deletedJobs
               THEN todo' = [todo EXCEPT ![j] = None] /\ UNCHANGED <<spc, sval>>
               ELSE spc' = "store" /\ sval' = j /\ UNCHANGED todo
            /\ UNCHANGED <<sact, failed>>
    /\ UNCHANGED <<daemon, memory, pending, db, usedCIDs, th, scps, drain>>

\* ... store it if it is not in memory or its row says "remote" ...
RowWanted_Always(j) == TRUE
RowWanted(j) == jobs[j] = None \/ todo[j].remote

StoreRow ==
    /\ SyncerAt("store")
    /\ todo' = [todo EXCEPT ![sval] = None]
    /\ IF RowWanted(sval)
       THEN /\ jobs' = [jobs EXCEPT ![sval] = todo[sval]]
            /\ spc' = "listCheckpoints" /\ UNCHANGED sval
       ELSE spc' = "rows" /\ sval' = None /\ UNCHANGED jobs
    /\ UNCHANGED <<daemon, checkpoints, deletedJobs, deletedCheckpoints, pending,
                   db, usedCIDs, th, sact, scps, drain, failed>>

\* ... list its checkpoints (an error abandons the whole reload) ...
ListCheckpointsByJIDs ==
    /\ SyncerAt("listCheckpoints")
    /\ \/ /\ scps' = {c \in CIDs : dbCheckpoints[c] = sval}
          /\ spc' = "storeCheckpoints"
          /\ UNCHANGED <<sact, sval, todo, failed>>
       \/ /\ SyncFailed
          /\ sval' = None /\ todo' = NoRows /\ UNCHANGED scps
    /\ UNCHANGED <<daemon, memory, pending, db, usedCIDs, th, drain>>

\* ... and store each of them.
StoreCheckpoints ==
    /\ SyncerAt("storeCheckpoints")
    /\ \/ /\ scps = {}
          /\ spc' = "rows" /\ sval' = None /\ UNCHANGED <<checkpoints, scps>>
       \/ \E c \in scps :
            /\ checkpoints' = [checkpoints EXCEPT ![c] = sval]
            /\ scps' = scps \ {c}
            /\ UNCHANGED <<spc, sval>>
    /\ UNCHANGED <<daemon, jobs, deletedJobs, deletedCheckpoints, pending, db,
                   usedCIDs, th, sact, todo, drain, failed>>

-----------------------------------------------------------------------------
(* Another daemon that shares the DB writes the row of one of its jobs, and *)
(* possibly of a checkpoint of it.                                          *)
OtherHostPut(j) ==
    /\ \E p \in PIDs :
         dbJobs' = [dbJobs EXCEPT ![j] = [pid |-> p, gpu |-> FALSE, remote |-> FALSE]]
    /\ \/ UNCHANGED <<usedCIDs, dbCheckpoints>>
       \/ \E c \in CIDs \ usedCIDs :
            /\ usedCIDs' = usedCIDs \cup {c}
            /\ dbCheckpoints' = [dbCheckpoints EXCEPT ![c] = j]
    /\ UNCHANGED <<daemon, memory, pending, th, syncer>>

-----------------------------------------------------------------------------
ThreadStep(t) ==
    \/ NewStore(t) \/ ManageSet(t) \/ SendJob(t) \/ Panic(t)
    \/ DeleteRemove(t) \/ DeleteMark(t) \/ DeleteSend(t) \/ DeleteList(t)
    \/ DeleteEach(t) \/ DeleteCheckpointRemove(t) \/ DeleteCheckpointMark(t)
    \/ DeleteCheckpointSend(t) \/ AddCheckpointStore(t) \/ AddCheckpointSend(t)

Request(t) ==
    \/ \E j \in JIDs :
         \/ j \in LocalJIDs /\ NewCheck(t, j)
         \/ Get(t, j)
         \/ DeleteLoad(t, j)
         \/ \E p \in PIDs : ManageCheck(t, j, p)
         \/ \E c \in CIDs : AddCheckpointLookup(t, j, c)
    \/ \E c \in CIDs : DeleteCheckpointLoad(t, c)

SyncerStep ==
    \/ Receive \/ Requeue \/ Tick \/ TickSend \/ LifetimeDone \/ MarkShutdown
    \/ SyncLoad \/ SyncPut \/ SyncDelete \/ SyncUnmark
    \/ ListJobs \/ NextRow \/ StoreRow \/ ListCheckpointsByJIDs \/ StoreCheckpoints

Next ==
    \/ NewManagerLazy \/ Crash \/ CancelLifetime \/ Stop
    \/ \E t \in Threads : Request(t) \/ ThreadStep(t)
    \/ SyncerStep
    \/ \E j \in OtherHostJIDs : OtherHostPut(j)

Spec == Init /\ [][Next]_vars

\* The scheduler runs every handler and the syncer; a handler blocked on the full
\* channel is served in turn, as Go queues blocked senders (hence strong fairness);
\* and a DB call that is attempted again and again succeeds some time.
Fairness ==
    /\ WF_vars(SyncerStep)
    /\ \A t \in Threads : SF_vars(ThreadStep(t))
    /\ SF_vars(SyncDelete /\ spc' = "unmark")

FairSpec == Spec /\ Fairness

-----------------------------------------------------------------------------
(* Properties.                                                             *)

Locals == [pc : ThreadPCs, jid : JIDs \cup {None}, cid : CIDs \cup {None},
           pid : PIDs \cup {0}, rest : SUBSET CIDs]

MemoryOK ==
    /\ jobs \in [JIDs -> Job \cup {None}]
    /\ checkpoints \in [CIDs -> JIDs \cup {None}]
    /\ deletedJobs \subseteq JIDs /\ deletedCheckpoints \subseteq CIDs
TablesOK ==
    /\ dbJobs \in [JIDs -> Job \cup {None}]
    /\ dbCheckpoints \in [CIDs -> JIDs \cup {None}]
ChannelOK == pending \in Seq(Action) /\ Len(pending) <= PendingCap
SyncerOK ==
    /\ spc \in SyncerPCs /\ sact \in Action \cup {NoAct}
    /\ sval \in Job \cup JIDs \cup {None}
    /\ todo \in [JIDs -> Job \cup {None}] /\ scps \subseteq CIDs
    /\ drain \in BOOLEAN /\ failed \subseteq Action

\* The variables have their types and the channel never exceeds its capacity.
TypeOK ==
    /\ daemon \in {"down", "up", "stopping"} /\ usedCIDs \subseteq CIDs
    /\ MemoryOK /\ TablesOK /\ ChannelOK /\ SyncerOK
    /\ th \in [Threads -> Locals]

InQueue(a) == \E i \in 1..Len(pending) : pending[i] = a
Held(a) == sact = a /\ spc \in {"load", "requeue"}
Handled(a) == InQueue(a) \/ Held(a) \/ a \in failed

\* Someone will still look at the entry of job j, or has reported it failed.
JobQueued(j) ==
    \/ Handled(PutJob(j))
    \/ \E t \in Threads : th[t].jid = j /\ th[t].pc \in {"sendJob", "delSend"}

Writing(a) == sact = a /\ spc = "put"
Deleting(a) == sact = a /\ spc = "delete"

\* What a row keeps of a job.
Same(x, y) == x # None /\ y # None /\ x.pid = y.pid /\ x.gpu = y.gpu

\* A managed job whose row is missing or outdated is never forgotten: as long
\* as the daemon lives, its ID is on the channel, or in the hands of a thread
\* or of the syncer, or among the failedActions reported at shutdown, however
\* DB failures, retries, deletions and re-creations interleave
\* (manager_lazy.go: every "pending <- action{putJob, jid}" and the retry).
NoLostUpdate ==
    daemon # "down" =>
        \A j \in LocalJIDs :
            jobs[j] # None /\ jobs[j].pid # 0 /\ ~Same(jobs[j], dbJobs[j])
            => \/ JobQueued(j)
               \/ Writing(PutJob(j)) /\ Same(sval, jobs[j])

\* A job deleted from memory whose row is still in the DB is never forgotten
\* either: it is marked and queued (or about to be marked by Delete).
NoLostDelete ==
    daemon # "down" =>
        \A j \in LocalJIDs :
            jobs[j] = None /\ dbJobs[j] # None
            => \/ \E t \in Threads : th[t].jid = j /\ th[t].pc = "delMark"
               \/ j \in deletedJobs /\ (JobQueued(j) \/ Deleting(PutJob(j)))

\* No change of a job of this host is lost between memory and DB, neither an update
\* nor a deletion.
NothingLost == NoLostUpdate /\ NoLostDelete

CheckpointQueued(c) ==
    \/ Handled(PutCheckpoint(c))
    \/ \E t \in Threads : th[t].cid = c /\ th[t].pc \in {"addSend", "cpSend"}

\* The same for checkpoints: a stored checkpoint without its row, and a marked
\* deletion whose row remains, are always on their way to the DB.
NoLostCheckpoint ==
    daemon # "down" =>
        \A c \in CIDs :
            /\ checkpoints[c] # None /\ dbCheckpoints[c] # checkpoints[c]
               => CheckpointQueued(c) \/ Writing(PutCheckpoint(c))
            /\ checkpoints[c] = None /\ dbCheckpoints[c] # None
                                     /\ c \in deletedCheckpoints
               => \/ CheckpointQueued(c) \/ Deleting(PutCheckpoint(c))
                  \/ \E t \in Threads : th[t].cid = c /\ th[t].pc = "cpMark"

\* The periodic reload never replaces a job of this host that is in memory by
\* its (older) row (manager_lazy.go: "!m.Exists(job.JID) || job.IsRemote()").
ReloadKeepsLocalJobs ==
    [][\A j \in LocalJIDs : StoreRow /\ jobs[j] # None => jobs'[j] = jobs[j]]_vars

\* The syncer is about to send to the channel that only it receives from, and
\* the channel is full.
SelfBlocked == spc \in {"requeue", "tick", "mark"} /\ Len(pending) = PendingCap

\* A deletion reaches the DB: once Delete has marked a job, its row goes away
\* (or the job is created again, or the daemon stops), provided that the
\* syncer never blocks on its own channel.
DeletionReachesDB ==
    \/ <>SelfBlocked
    \/ \A j \in LocalJIDs :
         (j \in deletedJobs /\ jobs[j] = None)
         ~> (dbJobs[j] = None \/ jobs[j] # None \/ daemon # "up")

=============================================================================
