------------------------------ MODULE GPUPool ------------------------------
(***************************************************************************)
(* The GPU manager of the daemon: the pool of GPU controllers              *)
(* (internal/cedana/gpu/controller.go), its managers (manager_simple.go,   *)
(* manager_pool.go) and the run and dump adapters that use them.           *)
(*                                                                         *)
(* A controller is a process that serves the GPU of one job.  The daemon   *)
(* books a free one for a job, or spawns one; attaches it to the job's     *)
(* PID; and terminates it when the job exits or the booking is given up.   *)
(* A Sync (one at a time, on every request and every 10 seconds) asks each *)
(* controller for its state, clears the stale ones, and keeps PoolSize     *)
(* free ones.  A dump freezes the controller and holds its Termination     *)
(* mutex until it is finalized.                                            *)
(*                                                                         *)
(* Actors are the request handlers (Runners, Dumpers), the background      *)
(* goroutine Bg, and the goroutine that waits for each job (named by PID). *)
(* One step is one access to shared state or one RPC; loops whose bodies   *)
(* run in goroutines of their own and share only the sync.Map take their   *)
(* iterations in any order.                                                *)
(***************************************************************************)
EXTENDS Integers, FiniteSets

CONSTANTS
    Controllers,   \* controller IDs (UUIDs)
    PIDs,          \* jobs, by their PID
    Survivors,     \* those that an earlier daemon left running
    Runners,       \* concurrent handlers of run and restore requests
    Dumpers,       \* concurrent handlers of dump, freeze and unfreeze requests
    Bg,            \* the background goroutine of ManagerPool
    PoolSize,      \* free controllers to keep
    MaxSyncFails,  \* MAX_SYNC_FAILURES
    Stoppable,     \* whether the daemon may be shut down in this instance
    None

ASSUME ConstantsAssumption ==
    /\ IsFiniteSet(Controllers)
    /\ PoolSize \in Nat /\ MaxSyncFails \in Nat \ {0}
    /\ Stoppable \in BOOLEAN
    /\ Survivors \subseteq PIDs
    /\ Runners \cap Dumpers = {} /\ Bg \notin Runners \cup Dumpers \cup PIDs
    /\ (Runners \cup Dumpers) \cap PIDs = {}
    /\ None \notin Controllers \cup PIDs \cup Runners \cup Dumpers \cup {Bg}

Actors == Runners \cup Dumpers \cup PIDs \cup {Bg}

VARIABLES
    daemon,      \* "up", "stopping", "down", or "panic"
    ctl,         \* the controllers: processes and what the daemon knows of them
    pool,        \* sync.Map: IDs of the controllers in the pool
    tlock,       \* per controller: who holds its Termination mutex
    terminating, \* controllers whose Terminating flag is set
    closed,      \* per controller: how often its channel Terminated was closed
    running,     \* PIDs of live jobs
    gpuOf,       \* per job: the controller ID it was started with
    th,          \* per actor: where it is, and its locals
    syncOwner,   \* who holds the mutex "sync"
    todo, inflight, stale, spare, missing, \* locals of the Sync in progress
    drained, target  \* ManagerPool: free and stale are 0; poolSize

term == <<tlock, terminating, closed>>
procs == <<running, gpuOf>>
sync == <<syncOwner, todo, inflight, stale, spare, missing, drained>>
vars == <<daemon, ctl, pool, term, procs, th, sync, target>>

\* What there is of a controller: its process ("none" before it is spawned),
\* its socket file, whether this daemon is its parent, whether its PID is
\* known, AttachedPID, the PID the controller itself knows, syncFails, whether
\* the Booking lock is held, whether the GPU is frozen.
Controller == [proc : {"none", "up", "dead"}, sock : BOOLEAN, child : BOOLEAN,
               known : BOOLEAN, apid : PIDs \cup {None}, ext : PIDs \cup {None},
               fails : 0..MaxSyncFails, booked : BOOLEAN, frozen : BOOLEAN]

Unused == [proc |-> "none", sock |-> FALSE, child |-> FALSE, known |-> FALSE,
           apid |-> None, ext |-> None, fails |-> 0, booked |-> FALSE,
           frozen |-> FALSE]

\* A controller left behind by an earlier daemon, serving job p or None.
Leftover(p) == [Unused EXCEPT !.proc = "up", !.sock = TRUE, !.ext = p]

\* An actor's locals: its controller, its job, the controllers it may book,
\* where it goes on after a Sync; the controller it is spawning in a Sync or
\* terminating, and where it goes on after that; how its dump went.
Idle == [pc |-> "idle", c |-> None, p |-> None, cand |-> {}, k |-> "idle",
         t |-> None, r |-> "idle", dump |-> "none"]

Init ==
    /\ daemon = "up"
    /\ running = Survivors
    /\ gpuOf \in {f \in [PIDs -> Controllers \cup {None}] :
                    /\ \A p \in PIDs : f[p] = None <=> p \notin Survivors
                    /\ \A p, q \in Survivors : f[p] = f[q] => p = q}
    /\ \E free \in SUBSET (Controllers \ {gpuOf[p] : p \in Survivors}) :
         ctl = [c \in Controllers |->
                  IF c \in free THEN Leftover(None)
                  ELSE IF \E p \in Survivors : gpuOf[p] = c
                       THEN Leftover(CHOOSE p \in Survivors : gpuOf[p] = c)
                       ELSE Unused]
    /\ pool = {}
    /\ tlock = [c \in Controllers |-> None]
    /\ terminating = {}
    /\ closed = [c \in Controllers |-> 0]
    /\ th = [a \in Actors |-> Idle]
    /\ syncOwner = None
    /\ todo = {} /\ inflight = {} /\ stale = {} /\ spare = {} /\ missing = 0
    /\ drained = FALSE /\ target = PoolSize

Alive == daemon \in {"up", "stopping"}
At(a, l) == Alive /\ th[a].pc = l
Goto(a, l) == th' = [th EXCEPT ![a].pc = l]
\* Go on at l; an actor that ends there forgets its locals.
GoOn(a, l) == th' = [th EXCEPT ![a] = IF l = "idle" THEN Idle ELSE [@ EXCEPT !.pc = l]]
\* Terminate c, and then go on at l.
CallTerminate(a, c, l) ==
    th' = [th EXCEPT ![a].pc = "term", ![a].t = c, ![a].r = l]
Return(a) ==
    th' = [th EXCEPT ![a] = IF th[a].r = "idle" THEN Idle
                            ELSE [@ EXCEPT !.pc = th[a].r, !.t = None, !.r = "idle"]]

-----------------------------------------------------------------------------
(* Controllers.                                                            *)

\* Mutant: the liveness of the attached process is taken the wrong way round.
Status_Inverted(c) ==
    IF ctl[c].fails < MaxSyncFails /\ ctl[c].known /\ ctl[c].proc = "up"
    THEN IF ctl[c].apid = None THEN "free"
         ELSE IF ctl[c].apid \in running THEN "stale" ELSE "busy"
    ELSE "stale"

\* Status: free, busy or stale.
Status(c) ==
    IF ctl[c].fails < MaxSyncFails /\ ctl[c].known /\ ctl[c].proc = "up"
    THEN IF ctl[c].apid = None THEN "free"
         ELSE IF ctl[c].apid \in running THEN "busy" ELSE "stale"
    ELSE "stale"

\* List: a controller whose Booking lock this daemon holds counts as busy.
Free == {c \in pool : ~ctl[c].booked /\ Status(c) = "free"}
Stale == {c \in pool : ~ctl[c].booked /\ Status(c) = "stale"}

\* Find: the controllers attached to this PID.
Attached(p) == {c \in pool : ctl[c].apid = p}

\* Booking.TryLock: a Flock that this daemon has locked stays locked and the
\* call succeeds, also when it was another goroutine that locked it.
TryLock(c) == ctl' = [ctl EXCEPT ![c].booked = TRUE]
Unlock(c) == ctl' = [ctl EXCEPT ![c].booked = FALSE]

\* Terminate: Get the controller (absent: return) ...
TerminateGet(a) ==
    /\ At(a, "term")
    /\ IF th[a].t \in pool THEN Goto(a, "termLock") ELSE Return(a)
    /\ UNCHANGED <<daemon, ctl, pool, term, procs, sync, target>>

\* Mutant: Terminating is not looked at.
TerminateLock_NoFlag(a) ==
    /\ At(a, "termLock")
    /\ tlock[th[a].t] = None
    /\ tlock' = [tlock EXCEPT ![th[a].t] = a]
    /\ terminating' = terminating \cup {th[a].t}
    /\ Goto(a, "termWait")
    /\ UNCHANGED <<daemon, ctl, pool, closed, procs, sync, target>>

\* Mutant: Termination is not locked.
TerminateLock_NoMutex(a) ==
    /\ At(a, "termLock")
    /\ \/ th[a].t \in terminating /\ Return(a) /\ UNCHANGED terminating
       \/ /\ th[a].t \notin terminating
          /\ terminating' = terminating \cup {th[a].t}
          /\ Goto(a, "termWait")
    /\ UNCHANGED <<daemon, ctl, pool, tlock, closed, procs, sync, target>>

\* ... lock Termination; give up if someone has begun terminating; otherwise
\* signal the controller's process ...
TerminateLock(a) ==
    /\ At(a, "termLock")
    /\ tlock[th[a].t] = None
    /\ \/ /\ th[a].t \in terminating
          /\ Return(a) /\ UNCHANGED <<tlock, terminating>>
       \/ /\ th[a].t \notin terminating
          /\ tlock' = [tlock EXCEPT ![th[a].t] = a]
          /\ terminating' = terminating \cup {th[a].t}
          /\ Goto(a, "termWait")
    /\ UNCHANGED <<daemon, ctl, pool, closed, procs, sync, target>>

\* Mutant: the process is not waited for.
TerminateWait_NoReap(a) ==
    /\ At(a, "termWait")
    /\ LET c == th[a].t IN
         /\ ctl' = [ctl EXCEPT ![c].sock = FALSE, ![c].booked = FALSE]
         /\ pool' = pool \ {c}
         /\ closed' = [closed EXCEPT ![c] = @ + 1]
         /\ tlock' = [tlock EXCEPT ![c] = None]
    /\ Return(a)
    /\ UNCHANGED <<daemon, terminating, procs, sync, target>>

\* ... wait for it to exit (at most TERMINATE_TIMEOUT for one that is not our
\* child; one whose PID is unknown was not signalled), and run the deferred
\* clean-ups: out of the pool, Terminated closed, Booking closed, files
\* removed, Termination unlocked.
TerminateWait(a) ==
    /\ At(a, "termWait")
    /\ LET c == th[a].t IN
         /\ \E exits \in IF ctl[c].child THEN {TRUE} ELSE BOOLEAN :
              ctl' = [ctl EXCEPT ![c].sock = FALSE, ![c].booked = FALSE,
                        ![c].proc = IF ctl[c].known /\ exits THEN "dead" ELSE @]
         /\ pool' = pool \ {c}
         /\ closed' = [closed EXCEPT ![c] = @ + 1]
         /\ tlock' = [tlock EXCEPT ![c] = None]
    /\ Return(a)
    /\ UNCHANGED <<daemon, terminating, procs, sync, target>>

\* Spawn: an unused ID, booked and in the pool before its process starts.
Spawned(started) ==
    [Unused EXCEPT !.booked = TRUE, !.child = started, !.known = started,
                   !.sock = started, !.proc = IF started THEN "up" ELSE "dead"]

Spawn(c, started) ==
    /\ ctl[c] = Unused
    /\ ctl' = [ctl EXCEPT ![c] = Spawned(started)]
    /\ pool' = pool \cup {c}

-----------------------------------------------------------------------------
(* ManagerPool.Sync, called as a subroutine: it goes on at k.              *)

\* TryLock of "sync", or wait for the Sync in progress.
SyncEnter(a) ==
    /\ At(a, "sync")
    /\ IF syncOwner = None
       THEN Goto(a, "syncRead") /\ syncOwner' = a
       ELSE Goto(a, "syncWait") /\ UNCHANGED syncOwner
    /\ UNCHANGED <<daemon, ctl, pool, term, procs, target, todo, inflight, stale,
                   spare, missing, drained>>

\* Back from syncs.Wait.  A WaitGroup panics when it is used again before all
\* that waited on it have returned.
SyncWoken(a) ==
    /\ At(a, "syncWoken")
    /\ syncOwner = None
    /\ GoOn(a, th[a].k)
    /\ UNCHANGED <<daemon, ctl, pool, term, procs, sync, target>>

SyncPanics(a) ==
    /\ At(a, "syncWoken")
    /\ syncOwner # None
    /\ daemon' = "panic"
    /\ UNCHANGED <<ctl, pool, term, procs, th, sync, target>>

\* Mutant: syncs.Done is missing.
SyncLeave_NoWake(a, ok) ==
    /\ syncOwner' = None
    /\ GoOn(a, IF ok \/ a = Bg THEN th[a].k ELSE "idle")

\* The end of Sync: "sync" is unlocked and whoever waited is woken.  A request
\* whose Sync failed returns that error.
SyncLeave(a, ok) ==
    /\ syncOwner' = None
    /\ LET k == IF ok \/ a = Bg THEN th[a].k ELSE "idle" IN
       th' = [b \in Actors |->
                IF b = a THEN IF k = "idle" THEN Idle ELSE [th[a] EXCEPT !.pc = k]
                ELSE IF th[b].pc = "syncWait" THEN [th[b] EXCEPT !.pc = "syncWoken"]
                ELSE th[b]]

\* Mutant: the error return does not unlock.
SyncRead_NoUnlock(a) ==
    /\ At(a, "syncRead")
    /\ \/ /\ todo' = {c \in Controllers : ctl[c].sock}
          /\ Goto(a, "syncEach")
       \/ GoOn(a, "idle") /\ UNCHANGED todo
    /\ UNCHANGED <<daemon, ctl, pool, term, procs, target, syncOwner, inflight, stale,
                   spare, missing, drained>>

\* pool.Sync: read the socket directory.
SyncRead(a) ==
    /\ At(a, "syncRead")
    /\ \/ /\ todo' = {c \in Controllers : ctl[c].sock}
          /\ Goto(a, "syncEach") /\ UNCHANGED syncOwner
       \/ SyncLeave(a, FALSE) /\ UNCHANGED todo
    /\ UNCHANGED <<daemon, ctl, pool, term, procs, target, inflight, stale, spare,
                   missing, drained>>

\* Begin to sync with one: not if it is booked, nor if it is not in the pool
\* and its socket is gone.
SyncLaunch(a, c) ==
    /\ At(a, "syncEach") /\ c \in todo
    /\ todo' = todo \ {c}
    /\ inflight' = IF IF c \in pool THEN ctl[c].booked ELSE ~ctl[c].sock
                   THEN inflight ELSE inflight \cup {c}
    /\ UNCHANGED <<daemon, ctl, pool, term, procs, th, target, syncOwner, stale, spare,
                   missing, drained>>

\* Its answer, or an error: the process is gone, or the request that runs this
\* Sync was cancelled.  Either way the controller is stored in the pool.
SyncAnswer(a, c) ==
    /\ At(a, "syncEach") /\ c \in inflight
    /\ inflight' = inflight \ {c}
    /\ pool' = pool \cup {c}
    /\ \/ /\ ctl[c].proc = "up"
          /\ ctl' = [ctl EXCEPT ![c].fails = 0, ![c].known = TRUE,
                       ![c].apid = IF ctl[c].ext # None THEN ctl[c].ext ELSE @]
       \/ ctl' = [ctl EXCEPT ![c].fails = IF @ < MaxSyncFails THEN @ + 1 ELSE @]
    /\ UNCHANGED <<daemon, term, procs, th, target, syncOwner, todo, stale, spare,
                   missing, drained>>

\* Mutant: the operands of the subtraction are swapped.
SyncList_Swapped(a) ==
    /\ At(a, "syncEach") /\ todo = {} /\ inflight = {}
    /\ stale' = Stale
    /\ drained' = (Free \cup Stale = {})
    /\ spare' \in {S \in SUBSET Free : Cardinality(S) =
                     IF Cardinality(Free) > target THEN Cardinality(Free) - target ELSE 0}
    /\ missing' = Cardinality(Free) - target
    /\ Goto(a, "syncFix")
    /\ UNCHANGED <<daemon, ctl, pool, term, procs, target, syncOwner, todo, inflight>>

\* List, and from it what is to be cleared, given up or spawned.
SyncList(a) ==
    /\ At(a, "syncEach") /\ todo = {} /\ inflight = {}
    /\ stale' = Stale
    /\ drained' = (Free \cup Stale = {})
    /\ spare' \in {S \in SUBSET Free :
                     Cardinality(S) = IF Cardinality(Free) > target
                                      THEN Cardinality(Free) - target ELSE 0}
    /\ missing' = IF Cardinality(Free) < target THEN target - Cardinality(Free) ELSE 0
    /\ Goto(a, "syncFix")
    /\ UNCHANGED <<daemon, ctl, pool, term, procs, target, syncOwner, todo, inflight>>

\* Clear a stale one.
ClearStale(a, c) ==
    /\ At(a, "syncFix") /\ c \in stale
    /\ stale' = stale \ {c}
    /\ TryLock(c)
    /\ CallTerminate(a, c, "syncFix")
    /\ UNCHANGED <<daemon, pool, term, procs, target, syncOwner, todo, inflight,
                   spare, missing, drained>>

\* Give up a spare one, if controller.Book still finds it free.
GiveUpSpare(a, c) ==
    /\ At(a, "syncFix") /\ stale = {} /\ c \in spare
    /\ spare' = spare \ {c}
    /\ IF Status(c) = "free" THEN TryLock(c) /\ CallTerminate(a, c, "syncFix")
                             ELSE Unlock(c) /\ UNCHANGED th
    /\ UNCHANGED <<daemon, pool, term, procs, target, syncOwner, todo, inflight,
                   stale, missing, drained>>

\* Spawn a missing one: Spawn may fail before or after it is in the pool.
SpawnMissing(a) ==
    /\ At(a, "syncFix") /\ stale = {} /\ missing > 0
    /\ missing' = missing - 1
    /\ \/ \E c \in Controllers :
            \/ Spawn(c, TRUE) /\ th' = [th EXCEPT ![a].pc = "syncSpawn", ![a].t = c]
            \/ Spawn(c, FALSE) /\ CallTerminate(a, c, "syncFix")
       \/ UNCHANGED <<ctl, pool, th>>
    /\ UNCHANGED <<daemon, term, procs, target, syncOwner, todo, inflight, stale,
                   spare, drained>>

\* It is freed once it answers.
SpawnedMissing(a) ==
    /\ At(a, "syncSpawn")
    /\ \/ ctl[th[a].t].proc = "up" /\ Unlock(th[a].t)
          /\ th' = [th EXCEPT ![a].pc = "syncFix", ![a].t = None]
       \/ CallTerminate(a, th[a].t, "syncFix") /\ UNCHANGED ctl
    /\ UNCHANGED <<daemon, pool, term, procs, sync, target>>

SyncDone(a) ==
    /\ At(a, "syncFix") /\ stale = {} /\ spare = {} /\ missing = 0
    /\ SyncLeave(a, TRUE)
    /\ UNCHANGED <<daemon, ctl, pool, term, procs, target, todo, inflight, stale,
                   spare, missing, drained>>

-----------------------------------------------------------------------------
(* Run and restore requests: the adapters Attach and Restore, and          *)
(* ManagerSimple.Attach.                                                   *)

Taken == {p \in PIDs : gpuOf[p] # None} \cup {th[a].p : a \in Runners}

RunRequest(a, p) ==
    /\ daemon = "up" /\ At(a, "idle") /\ p \notin Taken
    /\ th' = [th EXCEPT ![a].pc = "sync", ![a].k = "book", ![a].p = p]
    /\ UNCHANGED <<daemon, ctl, pool, term, procs, sync, target>>

\* pool.Book: what is free now, to be tried one by one ...
BookList(a) ==
    /\ At(a, "book")
    /\ th' = [th EXCEPT ![a].pc = "tryBook", ![a].cand = Free]
    /\ UNCHANGED <<daemon, ctl, pool, term, procs, sync, target>>

\* ... and controller.Book, which unlocks what it finds not free.
TryBook(a) ==
    /\ At(a, "tryBook")
    /\ \E c \in th[a].cand :
         IF Status(c) = "free"
         THEN TryLock(c) /\ th' = [th EXCEPT ![a].pc = "launch", ![a].c = c, ![a].cand = {}]
         ELSE Unlock(c) /\ th' = [th EXCEPT ![a].cand = @ \ {c}]
    /\ UNCHANGED <<daemon, pool, term, procs, sync, target>>

\* None could be booked: Spawn, which may fail before or after Store.
SpawnOwn(a) ==
    /\ At(a, "tryBook") /\ th[a].cand = {}
    /\ \/ \E c \in Controllers :
            \/ Spawn(c, TRUE) /\ th' = [th EXCEPT ![a].pc = "spawned", ![a].c = c]
            \/ Spawn(c, FALSE) /\ CallTerminate(a, c, "idle")
       \/ GoOn(a, "idle") /\ UNCHANGED <<ctl, pool>>
    /\ UNCHANGED <<daemon, term, procs, sync, target>>

\* The new controller answers, or is terminated.
SpawnedOwn(a) ==
    /\ At(a, "spawned")
    /\ \/ ctl[th[a].c].proc = "up" /\ Goto(a, "launch")
       \/ CallTerminate(a, th[a].c, "idle")
    /\ UNCHANGED <<daemon, ctl, pool, term, procs, sync, target>>

\* The rest of the handler: start the job, or fail, which closes the channel
\* pid (AttachedPID becomes 0) and cancels the request.
Launch(a) ==
    /\ At(a, "launch")
    /\ \/ /\ running' = running \cup {th[a].p}
          /\ gpuOf' = [gpuOf EXCEPT ![th[a].p] = th[a].c]
          /\ Goto(a, "started") /\ UNCHANGED ctl
       \/ /\ CallTerminate(a, th[a].c, "idle")
          /\ \E pid \in {None, ctl[th[a].c].apid} :
               ctl' = [ctl EXCEPT ![th[a].c].apid = pid]
          /\ UNCHANGED procs
    /\ UNCHANGED <<daemon, pool, term, sync, target>>

\* Or restore it: InitializeRestore finds the controller ...
RestoreGet(a) ==
    /\ At(a, "launch")
    /\ IF th[a].c \in pool THEN Goto(a, "restoreLock")
                           ELSE CallTerminate(a, th[a].c, "idle")
    /\ UNCHANGED <<daemon, ctl, pool, term, procs, sync, target>>

\* ... and locks its Termination ...
RestoreLock(a) ==
    /\ At(a, "restoreLock")
    /\ tlock[th[a].c] = None
    /\ tlock' = [tlock EXCEPT ![th[a].c] = a]
    /\ Goto(a, "restore")
    /\ UNCHANGED <<daemon, ctl, pool, terminating, closed, procs, sync, target>>

\* ... until FinalizeRestore.  PostRestore attaches the restored PID; a process
\* whose restore fails is killed.  The hooks dereference what Get returns.
Restore(a) ==
    /\ At(a, "restore")
    /\ LET c == th[a].c IN
       \/ /\ c \notin pool
          /\ daemon' = "panic" /\ UNCHANGED <<ctl, tlock, procs, th>>
       \/ /\ c \in pool /\ ctl[c].proc = "up"
          /\ ctl' = [ctl EXCEPT ![c].apid = th[a].p, ![c].ext = th[a].p]
          /\ running' = running \cup {th[a].p}
          /\ gpuOf' = [gpuOf EXCEPT ![th[a].p] = c]
          /\ tlock' = [tlock EXCEPT ![c] = None]
          /\ Goto(a, "started") /\ UNCHANGED daemon
       \/ /\ c \in pool
          /\ \E pid \in {None, ctl[c].apid, th[a].p} : ctl' = [ctl EXCEPT ![c].apid = pid]
          /\ gpuOf' = [gpuOf EXCEPT ![th[a].p] = c]
          /\ tlock' = [tlock EXCEPT ![c] = None]
          /\ CallTerminate(a, c, "idle")
          /\ UNCHANGED <<daemon, running>>
    /\ UNCHANGED <<pool, terminating, closed, sync, target>>

\* The goroutine of Attach selects the PID, or the end of the request: the
\* handler has sent the one and returned, so both are ready.
AttachSelect(a) ==
    /\ At(a, "started")
    /\ \/ ctl' = [ctl EXCEPT ![th[a].c].apid = th[a].p] /\ Goto(a, "attach")
       \/ CallTerminate(a, th[a].c, "idle") /\ UNCHANGED ctl
    /\ UNCHANGED <<daemon, pool, term, procs, sync, target>>

\* Mutant: Booking.Unlock is missing.
AttachRPC_KeepBooking(a) ==
    /\ At(a, "attach")
    /\ ctl[th[a].c].proc = "up" /\ th[a].c \notin terminating
    /\ ctl' = [ctl EXCEPT ![th[a].c].apid = th[a].p, ![th[a].c].ext = th[a].p]
    /\ GoOn(a, "idle")
    /\ UNCHANGED <<daemon, pool, term, procs, sync, target>>

\* controller.Attach; then the booking is given up.  Terminate has set the
\* client of a controller it has terminated to nil.
AttachRPC(a) ==
    /\ At(a, "attach")
    /\ LET c == th[a].c IN
       \/ /\ ctl[c].proc = "up" /\ c \notin terminating
          /\ ctl' = [ctl EXCEPT ![c].apid = th[a].p, ![c].ext = th[a].p, ![c].booked = FALSE]
          /\ GoOn(a, "idle") /\ UNCHANGED daemon
       \/ CallTerminate(a, c, "idle") /\ UNCHANGED <<daemon, ctl>>
       \/ c \in terminating /\ daemon' = "panic" /\ UNCHANGED <<ctl, th>>
    /\ UNCHANGED <<pool, term, procs, sync, target>>

-----------------------------------------------------------------------------
(* Jobs and controllers as processes.                                      *)

\* The interception library of a job connects to its controller.
JobConnects(p) ==
    /\ p \in running /\ ctl[gpuOf[p]].proc = "up" /\ ctl[gpuOf[p]].ext # p
    /\ ctl' = [ctl EXCEPT ![gpuOf[p]].ext = p]
    /\ UNCHANGED <<daemon, pool, term, procs, th, sync, target>>

\* A job exits; the goroutine that waits for it goes on to Detach.  Nobody
\* waits for a job that was started by an earlier daemon.
Exits(p, thr) ==
    /\ running' = running \ {p}
    /\ th' = IF p \in Survivors THEN thr ELSE [thr EXCEPT ![p].pc = "detach"]
    /\ UNCHANGED gpuOf

JobExits(p) ==
    /\ p \in running
    /\ Exits(p, th)
    /\ UNCHANGED <<daemon, ctl, pool, term, sync, target>>

\* ManagerSimple.Detach.
Detach(p) ==
    /\ At(p, "detach")
    /\ \/ Attached(p) = {} /\ GoOn(p, "idle") /\ UNCHANGED ctl
       \/ \E c \in Attached(p) : TryLock(c) /\ CallTerminate(p, c, "idle")
    /\ UNCHANGED <<daemon, pool, term, procs, sync, target>>

\* A controller dies.
ControllerDies(c) ==
    /\ Alive /\ ctl[c].proc = "up"
    /\ ctl' = [ctl EXCEPT ![c].proc = "dead"]
    /\ UNCHANGED <<daemon, pool, term, procs, th, sync, target>>

-----------------------------------------------------------------------------
(* Dump requests: the adapter Dump and the hooks of CRIUCallback.          *)

DumpRequest(d, p) ==
    /\ daemon = "up" /\ At(d, "idle") /\ p \in running
    /\ \E k \in {"find", "freeze"} :
         th' = [th EXCEPT ![d].pc = "sync", ![d].k = k, ![d].p = p]
    /\ UNCHANGED <<daemon, ctl, pool, term, procs, sync, target>>

\* Find the controller; a job without one is dumped without these hooks.
DumpFind(d) ==
    /\ At(d, "find")
    /\ \/ Attached(th[d].p) = {} /\ GoOn(d, "idle")
       \/ \E c \in Attached(th[d].p) :
            th' = [th EXCEPT ![d].pc = "dumpGet", ![d].c = c]
    /\ UNCHANGED <<daemon, ctl, pool, term, procs, sync, target>>

\* InitializeDump: Get it ...
DumpGet(d) ==
    /\ At(d, "dumpGet")
    /\ GoOn(d, IF th[d].c \in pool THEN "dumpLock" ELSE "idle")
    /\ UNCHANGED <<daemon, ctl, pool, term, procs, sync, target>>

\* ... lock its Termination ...
DumpLock(d) ==
    /\ At(d, "dumpLock")
    /\ tlock[th[d].c] = None
    /\ tlock' = [tlock EXCEPT ![th[d].c] = d]
    /\ Goto(d, "dumpFreeze")
    /\ UNCHANGED <<daemon, ctl, pool, terminating, closed, procs, sync, target>>

\* ... and freeze the GPU.  On failure the hook returns as it is: CRIU's client
\* does not call FinalizeDump, and Termination stays locked.
DumpFreeze(d) ==
    /\ At(d, "dumpFreeze")
    /\ LET c == th[d].c IN
       \/ /\ ctl[c].proc = "up" /\ c \notin terminating
          /\ ctl' = [ctl EXCEPT ![c].frozen = TRUE]
          /\ Goto(d, "criu") /\ UNCHANGED daemon
       \/ GoOn(d, "idle") /\ UNCHANGED <<daemon, ctl>>
       \/ c \in terminating /\ daemon' = "panic" /\ UNCHANGED <<ctl, th>>
    /\ UNCHANGED <<pool, term, procs, sync, target>>

\* CRIU dumps: it fails early, before pre-dump (the GPU dump never starts), or
\* later; or it leaves the job running, or not.
DumpCRIU(d) ==
    /\ At(d, "criu")
    /\ \E dump \in {"early", "failed", "left", "killed"} :
         LET thr == [th EXCEPT ![d].pc = "final", ![d].dump = dump] IN
         IF dump = "killed" /\ th[d].p \in running
         THEN Exits(th[d].p, thr)
         ELSE th' = thr /\ UNCHANGED procs
    /\ UNCHANGED <<daemon, ctl, pool, term, sync, target>>

\* FinalizeDump: unfreeze, unless the GPU dump never started or the job was not
\* left running, and unlock Termination.
DumpFinalize(d) ==
    /\ At(d, "final")
    /\ LET c == th[d].c IN
       \/ /\ c \in pool
          /\ ctl' = [ctl EXCEPT ![c].frozen =
                       @ /\ (th[d].dump \in {"early", "killed"} \/ ctl[c].proc # "up")]
          /\ tlock' = [tlock EXCEPT ![c] = None]
          /\ GoOn(d, "idle") /\ UNCHANGED daemon
       \/ c \notin pool /\ daemon' = "panic" /\ UNCHANGED <<ctl, tlock, th>>
    /\ UNCHANGED <<pool, terminating, closed, procs, sync, target>>

\* Freeze and Unfreeze requests: Find, and the RPC, without any lock.
FreezeRPC(d) ==
    /\ At(d, "freeze")
    /\ \/ GoOn(d, "idle") /\ UNCHANGED <<daemon, ctl>>
       \/ \E c \in Attached(th[d].p), f \in BOOLEAN :
            \/ /\ ctl[c].proc = "up" /\ c \notin terminating
               /\ ctl' = [ctl EXCEPT ![c].frozen = f]
               /\ GoOn(d, "idle") /\ UNCHANGED daemon
            \/ c \in terminating /\ daemon' = "panic" /\ UNCHANGED <<ctl, th>>
    /\ UNCHANGED <<pool, term, procs, sync, target>>

-----------------------------------------------------------------------------
(* The background goroutine, and shutdown.                                 *)

BgTick ==
    /\ daemon = "up" /\ At(Bg, "idle")
    /\ Goto(Bg, "sync")
    /\ UNCHANGED <<daemon, ctl, pool, term, procs, sync, target>>

Shutdown ==
    /\ Stoppable /\ daemon = "up"
    /\ daemon' = "stopping"
    /\ UNCHANGED <<ctl, pool, term, procs, th, sync, target>>

\* Sync with an empty pool as the target, until nothing is free or stale ...
BgStop ==
    /\ daemon = "stopping" /\ th[Bg].pc \in {"idle", "bgAgain"}
    /\ target' = 0
    /\ th' = [th EXCEPT ![Bg].pc = "sync", ![Bg].k = "bgCheck"]
    /\ UNCHANGED <<daemon, ctl, pool, term, procs, sync>>

BgCheck ==
    /\ At(Bg, "bgCheck")
    /\ Goto(Bg, IF drained THEN "exited" ELSE "bgAgain")
    /\ UNCHANGED <<daemon, ctl, pool, term, procs, sync, target>>

\* ... or SYNC_SHUTDOWN_TIMEOUT, which is only looked at between Syncs.
BgTimeout ==
    /\ At(Bg, "bgAgain")
    /\ Goto(Bg, "exited")
    /\ UNCHANGED <<daemon, ctl, pool, term, procs, sync, target>>

\* The daemon waits for all its goroutines, and for the jobs it started.
Exit ==
    /\ daemon = "stopping" /\ th[Bg].pc = "exited" /\ running \subseteq Survivors
    /\ \A a \in Actors \ {Bg} : th[a].pc = "idle"
    /\ daemon' = "down"
    /\ UNCHANGED <<ctl, pool, term, procs, th, sync, target>>

-----------------------------------------------------------------------------
Terminate(a) == TerminateGet(a) \/ TerminateLock(a) \/ TerminateWait(a)

Sync(a) ==
    \/ SyncEnter(a) \/ SyncWoken(a) \/ SyncPanics(a) \/ SyncRead(a) \/ SyncList(a)
    \/ \E c \in Controllers :
         SyncLaunch(a, c) \/ SyncAnswer(a, c) \/ ClearStale(a, c) \/ GiveUpSpare(a, c)
    \/ SpawnMissing(a) \/ SpawnedMissing(a) \/ SyncDone(a)

Run(a) ==
    \/ BookList(a) \/ TryBook(a) \/ SpawnOwn(a) \/ SpawnedOwn(a)
    \/ Launch(a) \/ RestoreGet(a) \/ RestoreLock(a) \/ Restore(a)
    \/ AttachSelect(a) \/ AttachRPC(a)

Dump(d) ==
    \/ DumpFind(d) \/ DumpGet(d) \/ DumpLock(d) \/ DumpFreeze(d)
    \/ DumpCRIU(d) \/ DumpFinalize(d) \/ FreezeRPC(d)

\* The steps of an actor that has something to do.
Step(a) ==
    \/ Terminate(a) \/ Sync(a)
    \/ a \in Runners /\ Run(a)
    \/ a \in Dumpers /\ Dump(a)
    \/ a \in PIDs /\ Detach(a)
    \/ a = Bg /\ (BgStop \/ BgCheck \/ BgTimeout)

Next ==
    \/ \E a \in Actors : Step(a)
    \/ \E a \in Runners, p \in PIDs : RunRequest(a, p)
    \/ \E d \in Dumpers, p \in PIDs : DumpRequest(d, p)
    \/ \E p \in PIDs : JobConnects(p) \/ JobExits(p)
    \/ \E c \in Controllers : ControllerDies(c)
    \/ BgTick \/ Shutdown \/ Exit

Spec == Init /\ [][Next]_vars

\* Every goroutine is scheduled, RPCs and waits end (they have timeouts), and a
\* mutex is handed to each of its waiters in the end; the shutdown's timeout
\* comes.
Fairness == (\A a \in Actors : SF_vars(Step(a))) /\ SF_vars(BgTimeout)
FairSpec == Spec /\ Fairness

-----------------------------------------------------------------------------
(* Properties.                                                             *)

Pcs == {"idle", "term", "termLock", "termWait", "sync", "syncWait", "syncWoken",
        "syncRead", "syncEach", "syncFix", "syncSpawn", "book", "tryBook", "spawned",
        "launch", "restoreLock", "restore", "started", "attach", "detach", "find",
        "dumpGet", "dumpLock", "dumpFreeze", "criu", "final", "freeze", "bgCheck",
        "bgAgain", "exited"}

Locals == [pc : Pcs, c : Controllers \cup {None}, p : PIDs \cup {None},
           cand : SUBSET Controllers,
           k : {"idle", "book", "find", "freeze", "bgCheck"},
           t : Controllers \cup {None}, r : {"idle", "syncFix"},
           dump : {"none", "early", "failed", "left", "killed"}]

\* Every variable has the type of the field or local it stands for.
TypeOK ==
    /\ daemon \in {"up", "stopping", "down", "panic"}
    /\ ctl \in [Controllers -> Controller]
    /\ pool \subseteq Controllers
    /\ tlock \in [Controllers -> Actors \cup {None}]
    /\ terminating \subseteq Controllers
    /\ closed \in [Controllers -> Nat]
    /\ running \subseteq PIDs
    /\ gpuOf \in [PIDs -> Controllers \cup {None}]
    /\ th \in [Actors -> Locals]
    /\ syncOwner \in Actors \cup {None}
    /\ todo \subseteq Controllers /\ inflight \subseteq Controllers
    /\ stale \subseteq Controllers /\ spare \subseteq Controllers
    /\ missing \in Nat /\ drained \in BOOLEAN /\ target \in Nat

\* A controller's Terminated channel is closed at most once, however many
\* handlers, Syncs and exiting jobs terminate it at the same time: closing it
\* twice would panic (Terminate's Terminating flag, under Termination).
TerminatedOnce == \A c \in Controllers : closed[c] <= 1

\* From a successful InitializeDump to FinalizeDump the controller is not
\* terminated: it stays in the pool, its files stay, and its Termination mutex
\* is the dump's; so no hook dereferences nil and CRIU meets no ghost file.
DumpHoldsController ==
    \A d \in Dumpers : th[d].pc \in {"criu", "final"} =>
        LET c == th[d].c IN
        c \in pool /\ ctl[c].sock /\ tlock[c] = d /\ c \notin terminating

\* A controller process that this daemon spawned is in the pool for as long as
\* it runs, so that a Sync, a Detach or the shutdown can still reach it: Spawn
\* stores it first, and Terminate removes it only once it is reaped.
NoOrphan ==
    \A c \in Controllers : ctl[c].child /\ ctl[c].proc = "up" => c \in pool

\* No booking is leaked: a controller that is booked, and is not one that was
\* terminated, has a goroutine that is still to unlock or to terminate it.
BookingOwned ==
    \A c \in pool \ terminating : ctl[c].booked =>
        \E a \in Actors :
           \/ th[a].c = c /\ th[a].pc \in {"spawned", "launch", "restoreLock", "restore",
                                           "started", "attach"}
           \/ th[a].t = c /\ th[a].pc \in {"term", "termLock", "termWait", "syncSpawn"}

\* What List found stale is still stale when Sync clears it, without a second
\* look: its process is gone, or its job is, it failed MaxSyncFails
\* Syncs, or it never answered one.  This is for one run or restore request at
\* a time: of two that booked the same controller, the one whose launch fails
\* forgets the PID of the other's job.
ClearsOnlyDead ==
    \A c \in stale :
        \/ ctl[c].proc # "up"
        \/ ctl[c].apid # None /\ ctl[c].apid \notin running
        \/ ctl[c].fails = MaxSyncFails
        \/ ~ctl[c].known

\* A Termination mutex that a failed InitializeDump left locked.
Leaked ==
    \E c \in Controllers, d \in Dumpers :
        tlock[c] = d /\ ~(th[d].c = c /\ th[d].pc \in {"dumpFreeze", "criu", "final"})

\* A Sync in progress ends, so that the requests and the ticks that wait for it
\* go on, unless it waits for a leaked Termination mutex.
SyncCompletes ==
    \A a \in Actors : syncOwner = a ~> syncOwner # a \/ Leaked \/ ~Alive

\* The shutdown of the pool ends, unless it waits for a leaked mutex.
ShutdownEnds == daemon = "stopping" ~> th[Bg].pc = "exited" \/ Leaked \/ ~Alive

=============================================================================
