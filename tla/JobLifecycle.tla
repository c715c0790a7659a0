---------------------------- MODULE JobLifecycle ----------------------------
(***************************************************************************)
(* Jobs and the processes behind them (job/manager_lazy.go's Manage, Kill  *)
(* and Done, job/job.go, job.go and the adapters that run, adopt, restore  *)
(* and dump a job): requests that overlap, one goroutine that watches each *)
(* managed process, PIDs that the system gives to other processes, the     *)
(* daemon's shutdown and its restart.  What is saved of a job is in module *)
(* JobManager; here the saved row is taken to be up to date.               *)
(***************************************************************************)
EXTENDS Naturals, Sequences

CONSTANTS
    Nil,
    JIDs, PIDs,
    Requests,     \* requests that the daemon may handle at the same time
    MaxStarts,    \* how many processes there are, the system's included
    MaxJobs       \* how many Job objects are made

ASSUME LifecycleAssumption ==
    /\ MaxStarts \in Nat /\ MaxJobs \in Nat
    /\ Nil \notin [n : Nat, zombie : BOOLEAN]
    /\ Nil \notin {"start", "adopt", "restore", "manage", "set", "kill", "signal", "delete", "dumped",
                   "await", "wait", "code", "detach", "close", "over"}

VARIABLES
    daemon,     \* "up", "stopping", "restarted", or why it has panicked
    proc,       \* the process that has a PID: its number, and whether it is a zombie
    starts,     \* of the process with a number: its job, if any, and whether the daemon is its parent
    exited,     \* processes whose exit the channel `code` has told
    killed,     \* processes that were sent a signal
    objs,       \* Job objects
    jobs,       \* m.jobs: the object of a JID, or 0
    closed,     \* of every channel `done` that was made: is it closed
    watch,      \* the goroutine that watches a process
    req,
    unmanaged,  \* processes of requests that failed after they had started them
    overtaken   \* objects managed again while they were still watched

vars == <<daemon, proc, starts, exited, killed, objs, jobs, closed, watch, req, unmanaged, overtaken>>

Numbers == 1..MaxStarts
NoWatch == [pc |-> Nil, jid |-> Nil, pid |-> Nil, obj |-> 0]
Idle == [pc |-> Nil, jid |-> Nil, pid |-> Nil, obj |-> 0, n |-> 0, new |-> FALSE]

Init ==
    /\ daemon = "up" /\ proc = [p \in PIDs |-> Nil] /\ starts = <<>> /\ exited = {} /\ killed = {}
    /\ objs = <<>> /\ jobs = [j \in JIDs |-> 0] /\ closed = <<>>
    /\ watch = [n \in Numbers |-> NoWatch] /\ req = [r \in Requests |-> Idle]
    /\ unmanaged = {} /\ overtaken = {}

Running == daemon \in {"up", "stopping", "restarted"}
Begins(r) == daemon \in {"up", "restarted"} /\ req[r].pc = Nil
At(r, pc) == Running /\ req[r].pc = pc
Goto(r, pc) == req' = [req EXCEPT ![r].pc = pc]
Return(r) == req' = [req EXCEPT ![r] = Idle]

-----------------------------------------------------------------------------
(* Processes *)

\* A new process gets any PID that is free.
Starts(p, j, child) ==
    /\ proc[p] = Nil /\ Len(starts) < MaxStarts
    /\ proc' = [proc EXCEPT ![p] = [n |-> Len(starts) + 1, zombie |-> FALSE]]
    /\ starts' = Append(starts, [jid |-> j, child |-> child])

\* The system starts a process that the daemon does not know.
Spawn(p) ==
    /\ Starts(p, Nil, FALSE)
    /\ UNCHANGED <<daemon, exited, killed, objs, jobs, closed, watch, req, unmanaged, overtaken>>

Alive(p) == proc[p] # Nil /\ ~proc[p].zombie

Exit(p) ==
    /\ Alive(p) /\ proc' = [proc EXCEPT ![p].zombie = TRUE]
    /\ UNCHANGED <<daemon, starts, exited, killed, objs, jobs, closed, watch, req, unmanaged, overtaken>>

Dies(p) == proc[p] # Nil /\ proc[p].n \in killed /\ Exit(p)

\* The goroutine of Run (or of the restore) waits for the child and sends its exit code.
Reap(p) ==
    /\ Running /\ proc[p] # Nil /\ proc[p].zombie /\ starts[proc[p].n].child
    /\ proc' = [proc EXCEPT ![p] = Nil] /\ exited' = exited \cup {proc[p].n}
    /\ UNCHANGED <<daemon, starts, killed, objs, jobs, closed, watch, req, unmanaged, overtaken>>

\* Another parent does.
ReapOther(p) ==
    /\ proc[p] # Nil /\ proc[p].zombie /\ ~starts[proc[p].n].child
    /\ proc' = [proc EXCEPT ![p] = Nil]
    /\ UNCHANGED <<daemon, starts, exited, killed, objs, jobs, closed, watch, req, unmanaged, overtaken>>

\* WaitForPid looks every 300 ms whether there is such a PID and whether it is a zombie.
WaitForPid(n) ==
    /\ Running /\ watch[n].pc \in {"wait", "code"} /\ ~starts[n].child /\ n \notin exited
    /\ ~Alive(watch[n].pid)
    /\ exited' = exited \cup {n}
    /\ UNCHANGED <<daemon, proc, starts, killed, objs, jobs, closed, watch, req, unmanaged, overtaken>>

-----------------------------------------------------------------------------
(* Jobs *)

\* Sync and latestState: is there a process with the job's PID?  If its command line is
\* not the job's, the status is "stale", and the job counts as running nevertheless.
IsRunning(o) == objs[o].pid # Nil /\ proc[objs[o].pid] # Nil

NewJob(j) == [jid |-> j, pid |-> Nil, done |-> 0]

\* job.Manage, the adapter of Run and of Manage: New.
RunNew(r, j, pc) ==
    /\ Begins(r) /\ jobs[j] = 0 /\ Len(objs) < MaxJobs
    /\ objs' = Append(objs, NewJob(j)) /\ jobs' = [jobs EXCEPT ![j] = Len(objs) + 1]
    /\ req' = [req EXCEPT ![r] = [Idle EXCEPT !.pc = pc, !.jid = j, !.new = TRUE]]
    /\ UNCHANGED <<daemon, proc, starts, exited, killed, closed, watch, unmanaged, overtaken>>

Has(r, p, n) == req' = [req EXCEPT ![r].pid = p, ![r].n = n, ![r].pc = "manage"]

\* process.Run
RunStart(r, p) ==
    /\ At(r, "start") /\ Starts(p, req[r].jid, TRUE) /\ Has(r, p, Len(starts) + 1)
    /\ UNCHANGED <<daemon, exited, killed, objs, jobs, closed, watch, unmanaged, overtaken>>

\* process.Manage: a process that exists
Adopt(r, p) ==
    /\ At(r, "adopt") /\ proc[p] # Nil /\ starts[proc[p].n].jid = Nil
    /\ starts' = [starts EXCEPT ![proc[p].n].jid = req[r].jid] /\ Has(r, p, proc[p].n)
    /\ UNCHANGED <<daemon, proc, exited, killed, objs, jobs, closed, watch, unmanaged, overtaken>>

\* The handlers after job.Manage fail: the job is deleted again.
RunFails(r) ==
    /\ At(r, "start") \/ At(r, "adopt")
    /\ jobs' = [jobs EXCEPT ![req[r].jid] = 0] /\ Return(r)
    /\ UNCHANGED <<daemon, proc, starts, exited, killed, objs, closed, watch, unmanaged, overtaken>>

\* ManageRestore: a job that is not running.
RestoreGet(r, j) ==
    /\ Begins(r) /\ jobs[j] # 0 /\ ~IsRunning(jobs[j])
    /\ req' = [req EXCEPT ![r] = [Idle EXCEPT !.pc = "restore", !.jid = j, !.pid = objs[jobs[j]].pid]]
    /\ UNCHANGED <<daemon, proc, starts, exited, killed, objs, jobs, closed, watch, unmanaged, overtaken>>

\* CRIU gives the process the PID that it had, or fails.
RestoreStart(r) ==
    /\ At(r, "restore")
    /\ \/ req[r].pid # Nil /\ Starts(req[r].pid, req[r].jid, TRUE) /\ Has(r, req[r].pid, Len(starts) + 1)
       \/ Return(r) /\ UNCHANGED <<proc, starts>>
    /\ UNCHANGED <<daemon, exited, killed, objs, jobs, closed, watch, unmanaged, overtaken>>

OtherHas(j, p) == \E i \in JIDs \ {j} : jobs[i] # 0 /\ objs[jobs[i]].pid = p

\* Manage looks for the job and for another job with this PID: Find returns any one.
ManageCheck(r) ==
    /\ At(r, "manage")
    /\ jobs[req[r].jid] # 0
    /\ OtherHas(req[r].jid, req[r].pid) => objs[jobs[req[r].jid]].pid = req[r].pid
    /\ Goto(r, "set")
    /\ UNCHANGED <<daemon, proc, starts, exited, killed, objs, jobs, closed, watch, unmanaged, overtaken>>

\* The request fails, and the process runs on: a cancelled lifetime ends its I/O only.
ManageFails(r) ==
    /\ At(r, "manage")
    /\ jobs[req[r].jid] = 0 \/ OtherHas(req[r].jid, req[r].pid)
    /\ jobs' = IF req[r].new THEN [jobs EXCEPT ![req[r].jid] = 0] ELSE jobs
    /\ unmanaged' = unmanaged \cup {req[r].n} /\ Return(r)
    /\ UNCHANGED <<daemon, proc, starts, exited, killed, objs, closed, watch, overtaken>>

Watching(o) == \E n \in Numbers : watch[n].obj = o /\ watch[n].pc \notin {Nil, "over"}

\* Mutant: the channel of the process before is used again.
ManageSet_SameDone(r) ==
    LET o == jobs[req[r].jid] IN
    /\ At(r, "set") /\ o # 0
    /\ objs' = [objs EXCEPT ![o] = [@ EXCEPT !.pid = req[r].pid, !.done = IF @ = 0 THEN Len(closed) + 1 ELSE @]]
    /\ closed' = IF objs[o].done = 0 THEN Append(closed, FALSE) ELSE closed
    /\ watch' = [watch EXCEPT ![req[r].n] = [pc |-> "wait", jid |-> req[r].jid, pid |-> req[r].pid, obj |-> o]]
    /\ overtaken' = IF Watching(o) THEN overtaken \cup {o} ELSE overtaken
    /\ Return(r)
    /\ UNCHANGED <<daemon, proc, starts, exited, killed, jobs, unmanaged>>

\* The job gets the PID and a new channel, and a goroutine watches the process.
ManageSet(r) ==
    LET o == jobs[req[r].jid] IN
    /\ At(r, "set") /\ o # 0
    /\ objs' = [objs EXCEPT ![o] = [@ EXCEPT !.pid = req[r].pid, !.done = Len(closed) + 1]]
    /\ closed' = Append(closed, FALSE)
    /\ watch' = [watch EXCEPT ![req[r].n] = [pc |-> "wait", jid |-> req[r].jid, pid |-> req[r].pid, obj |-> o]]
    /\ overtaken' = IF Watching(o) THEN overtaken \cup {o} ELSE overtaken
    /\ Return(r)
    /\ UNCHANGED <<daemon, proc, starts, exited, killed, jobs, unmanaged>>

\* The job was deleted since ManageCheck: lookup returns nil.
ManagePanics(r) ==
    /\ At(r, "set") /\ jobs[req[r].jid] = 0 /\ daemon' = "no job"
    /\ UNCHANGED <<proc, starts, exited, killed, objs, jobs, closed, watch, req, unmanaged, overtaken>>

\* Server.Kill and Server.Delete list the jobs, and leave out those not running
\* and those running.
KillList(r, j) ==
    /\ Begins(r) /\ jobs[j] # 0 /\ IsRunning(jobs[j])
    /\ req' = [req EXCEPT ![r] = [Idle EXCEPT !.pc = "kill", !.jid = j]]
    /\ UNCHANGED <<daemon, proc, starts, exited, killed, objs, jobs, closed, watch, unmanaged, overtaken>>

Signal(p) == killed' = IF p # Nil /\ proc[p] # Nil THEN killed \cup {proc[p].n} ELSE killed

\* ManagerLazy.Kill looks again.
KillGet(r) ==
    LET o == jobs[req[r].jid] IN
    /\ At(r, "kill")
    /\ \/ o # 0 /\ IsRunning(o) /\ req' = [req EXCEPT ![r].pc = "signal", ![r].obj = o]
       \/ ~(o # 0 /\ IsRunning(o)) /\ Return(r)
    /\ UNCHANGED <<daemon, proc, starts, exited, killed, objs, jobs, closed, watch, unmanaged, overtaken>>

KillSignal(r) ==
    /\ At(r, "signal") /\ Signal(objs[req[r].obj].pid) /\ Return(r)
    /\ UNCHANGED <<daemon, proc, starts, exited, objs, jobs, closed, watch, unmanaged, overtaken>>

DeleteList(r, j) ==
    /\ Begins(r) /\ jobs[j] # 0 /\ ~IsRunning(jobs[j])
    /\ req' = [req EXCEPT ![r] = [Idle EXCEPT !.pc = "delete", !.jid = j]]
    /\ UNCHANGED <<daemon, proc, starts, exited, killed, objs, jobs, closed, watch, unmanaged, overtaken>>

Delete(r) ==
    /\ At(r, "delete") /\ jobs' = [jobs EXCEPT ![req[r].jid] = 0] /\ Return(r)
    /\ UNCHANGED <<daemon, proc, starts, exited, killed, objs, closed, watch, unmanaged, overtaken>>

\* ManageDump: CRIU has dumped the process and killed it.
Dump(r, j) ==
    /\ Begins(r) /\ jobs[j] # 0 /\ IsRunning(jobs[j]) /\ Alive(objs[jobs[j]].pid)
    /\ proc' = [proc EXCEPT ![objs[jobs[j]].pid].zombie = TRUE]
    /\ req' = [req EXCEPT ![r] = [Idle EXCEPT !.pc = "dumped", !.jid = j]]
    /\ UNCHANGED <<daemon, starts, exited, killed, objs, jobs, closed, watch, unmanaged, overtaken>>

\* Done: the channel of the job, a nil channel if this daemon does not manage the job.
Done(r) ==
    /\ At(r, "dumped")
    /\ \/ jobs[req[r].jid] # 0 /\ req' = [req EXCEPT ![r].pc = "await", ![r].n = objs[jobs[req[r].jid]].done]
       \/ jobs[req[r].jid] = 0 /\ Return(r)
    /\ UNCHANGED <<daemon, proc, starts, exited, killed, objs, jobs, closed, watch, unmanaged, overtaken>>

Awaited(r) ==
    /\ At(r, "await") /\ req[r].n # 0 /\ closed[req[r].n] /\ Return(r)
    /\ UNCHANGED <<daemon, proc, starts, exited, killed, objs, jobs, closed, watch, unmanaged, overtaken>>

-----------------------------------------------------------------------------
(* The goroutine that Manage starts *)

WatchAt(n, pc) == Running /\ watch[n].pc = pc

WatchExit(n) ==
    /\ WatchAt(n, "wait") \/ WatchAt(n, "code")
    /\ n \in exited /\ watch' = [watch EXCEPT ![n].pc = "detach"]
    /\ UNCHANGED <<daemon, proc, starts, exited, killed, objs, jobs, closed, req, unmanaged, overtaken>>

\* Mutant: the process is not waited for.
WatchKill_NoWait(n) ==
    /\ WatchAt(n, "wait") /\ daemon = "stopping"
    /\ watch' = [watch EXCEPT ![n].pc = "detach"]
    /\ LET o == jobs[watch[n].jid] IN
       IF o # 0 /\ IsRunning(o) THEN Signal(objs[o].pid) ELSE UNCHANGED killed
    /\ UNCHANGED <<daemon, proc, starts, exited, objs, jobs, closed, req, unmanaged, overtaken>>

\* The daemon stops: the job is killed by its name, if there still is one.
WatchKill(n) ==
    /\ WatchAt(n, "wait") /\ daemon = "stopping"
    /\ watch' = [watch EXCEPT ![n].pc = "code"]
    /\ LET o == jobs[watch[n].jid] IN
       IF o # 0 /\ IsRunning(o) THEN Signal(objs[o].pid) ELSE UNCHANGED killed
    /\ UNCHANGED <<daemon, proc, starts, exited, objs, jobs, closed, req, unmanaged, overtaken>>

\* gpus.Detach and the plugin's cleanup take their time.
Detach(n) ==
    /\ WatchAt(n, "detach") /\ watch' = [watch EXCEPT ![n].pc = "close"]
    /\ UNCHANGED <<daemon, proc, starts, exited, killed, objs, jobs, closed, req, unmanaged, overtaken>>

\* Mutant: the channel is not closed.
Close_Not(n) ==
    /\ WatchAt(n, "close") /\ watch' = [watch EXCEPT ![n].pc = "over"]
    /\ UNCHANGED <<daemon, closed, proc, starts, exited, killed, objs, jobs, req, unmanaged, overtaken>>

\* The channel that the job has now.
Close(n) ==
    LET c == objs[watch[n].obj].done IN
    /\ WatchAt(n, "close") /\ watch' = [watch EXCEPT ![n].pc = "over"]
    /\ \/ ~closed[c] /\ closed' = [closed EXCEPT ![c] = TRUE] /\ UNCHANGED daemon
       \/ closed[c] /\ daemon' = "closed twice" /\ UNCHANGED closed
    /\ UNCHANGED <<proc, starts, exited, killed, objs, jobs, req, unmanaged, overtaken>>

Stop ==
    /\ daemon \in {"up", "restarted"} /\ daemon' = "stopping"
    /\ UNCHANGED <<proc, starts, exited, killed, objs, jobs, closed, watch, req, unmanaged, overtaken>>

\* The daemon dies and starts again: its jobs come from the database, and its
\* processes have another parent.
Restart ==
    /\ daemon = "up" /\ daemon' = "restarted"
    /\ starts' = [n \in DOMAIN starts |-> [starts[n] EXCEPT !.child = FALSE]]
    /\ objs' = [o \in DOMAIN objs |-> [objs[o] EXCEPT !.done = 0]]
    /\ watch' = [n \in Numbers |-> NoWatch] /\ req' = [r \in Requests |-> Idle]
    /\ unmanaged' = {} /\ overtaken' = {}
    /\ UNCHANGED <<proc, exited, killed, jobs, closed>>

-----------------------------------------------------------------------------
Handler(r) ==
    \/ \E p \in PIDs : RunStart(r, p) \/ Adopt(r, p)
    \/ RunFails(r) \/ RestoreStart(r) \/ ManageCheck(r) \/ ManageFails(r) \/ ManageSet(r)
    \/ ManagePanics(r) \/ KillGet(r) \/ KillSignal(r) \/ Delete(r) \/ Done(r) \/ Awaited(r)

Request(r) ==
    \E j \in JIDs :
        \/ RunNew(r, j, "start") \/ RunNew(r, j, "adopt") \/ RestoreGet(r, j)
        \/ KillList(r, j) \/ DeleteList(r, j) \/ Dump(r, j)

Watcher(n) == WatchExit(n) \/ WatchKill(n) \/ Detach(n) \/ Close(n) \/ WaitForPid(n)

Next ==
    \/ \E r \in Requests : Handler(r) \/ Request(r)
    \/ \E n \in Numbers : Watcher(n)
    \/ \E p \in PIDs : Spawn(p) \/ Exit(p) \/ Reap(p) \/ ReapOther(p)
    \/ Stop \/ Restart

Spec == Init /\ [][Next]_vars

\* Goroutines run, parents reap, and a process that is killed dies.
Fairness ==
    /\ \A r \in Requests : WF_vars(Handler(r))
    /\ \A n \in Numbers : WF_vars(Watcher(n))
    /\ \A p \in PIDs : WF_vars(Dies(p)) /\ WF_vars(Reap(p) \/ ReapOther(p))

FairSpec == Spec /\ Fairness

-----------------------------------------------------------------------------
(* Properties *)

\* No channel `done` is closed twice, which would be the end of the daemon, unless a
\* restore manages a job whose former process is still being cleaned up after.
ClosedOnce == daemon = "closed twice" => overtaken # {}

\* A process that the daemon has started is in the hands of the request that starts
\* it, or is watched until it has exited; the only exception is the process of a
\* request that failed at Manage.
Watched ==
    \A p \in PIDs :
        Running /\ Alive(p) /\ starts[proc[p].n].child =>
            LET n == proc[p].n IN
            \/ n \in unmanaged \/ watch[n].pc \in {"wait", "code"}
            \/ \E r \in Requests : req[r].n = n /\ req[r].pc \in {"manage", "set"}

\* The watcher of an adopted process is looking at another process with its PID.
Misled ==
    \E n \in Numbers :
        /\ watch[n].pc \in {"wait", "code"} /\ ~starts[n].child
        /\ proc[watch[n].pid] # Nil /\ proc[watch[n].pid].n # n

\* The daemon stops, and the job of a watcher is gone: there is nothing to kill by name.
Orphaned == \E n \in Numbers : watch[n].pc = "code" /\ jobs[watch[n].jid] # watch[n].obj

\* When the daemon stops, every watcher has its process killed and ends, unless its
\* job was deleted under it or another process has an adopted process's PID.
StopEnds ==
    daemon = "stopping" ~> \/ ~Running \/ Orphaned \/ Misled
                           \/ \A n \in Numbers : watch[n].pc \in {Nil, "over"}

\* A process has the PID of the dumped one: the job was restored, maybe even before
\* Done looked up the channel, or the system has given the PID away.
Replaced(r) ==
    LET o == jobs[req[r].jid] IN o # 0 /\ objs[o].pid # Nil /\ Alive(objs[o].pid)

\* A dump that has killed the job's process returns when the process was cleaned up
\* after, unless the process is replaced or the daemon does not manage it: it has
\* been restarted since it started the job.
DumpEnds ==
    \A r \in Requests :
        req[r].pc = "await" ~> \/ req[r].pc # "await" \/ ~Running
                               \/ req[r].n = 0 \/ overtaken # {} \/ Replaced(r) \/ Misled

\* What waits for a job's process to end does not wait for ever (Manage's goroutine
\* at shutdown, ManageDump).
LifecycleEnds == StopEnds /\ DumpEnds

\* A job is killed only when this exact process is running (latestState and Kill): a
\* process that is sent a signal is a job's.
KillsOwn == \A n \in killed : starts[n].jid # Nil
=============================================================================
