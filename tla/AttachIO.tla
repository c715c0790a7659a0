------------------------------ MODULE AttachIO ------------------------------
(***************************************************************************)
(* A job that is run or restored as attachable, from the request to the    *)
(* exit of its process: the adapters of the request (internal/cedana/      *)
(* run.go, job/run_adapters.go, process/generic_adapters.go,               *)
(* process/run_handlers.go), the IO slave and its masters (pkg/io/grpc.go, *)
(* attach.go, pkg/client), the broadcast of the exit code                  *)
(* (pkg/channel/broadcaster.go), the goroutine that manages the job        *)
(* (job/manager_lazy.go) and the shutdown of the server.                   *)
(*                                                                         *)
(* Everybody waits for somebody: cmd.Wait for the copies of stdin, stdout  *)
(* and stderr; the copy of stdin for the channel in to be closed; the      *)
(* slave, who closes it, for the ends of stdout and stderr; the masters    *)
(* for the exit code, which cmd.Wait yields.                               *)
(*                                                                         *)
(* stdout and stderr are one stream here, of chunks 1, 2, ...              *)
(***************************************************************************)
EXTENDS Integers, Sequences, FiniteSets

CONSTANTS
    Masters,   \* clients that may attach
    Chunks,    \* bound on what the process writes
    Cap,       \* channelBufLen
    Inputs     \* bound on what a master sends

ASSUME AttachAssumption == Chunks \in Nat /\ Cap \in Nat /\ Inputs \in Nat

VARIABLES
    kind,      \* "run" or "restore"
    waitFirst, \* req.WaitFirstMaster
    req,       \* where the request's goroutine is
    cancelled, \* the job's own lifetime context is cancelled
    server,    \* "up", "stopping" or "stopped"
    proc,      \* the process: "none", "running", "killed" or "exited"
    wrote,     \* chunks it has written
    copied,    \* chunks the copying goroutine put into the channel out
    taken,     \* chunks the slave took from it
    outOpen,   \* out is not closed
    inq,       \* values in the channel in
    inOpen,    \* in is not closed
    stdin,     \* the goroutine that copies in to the process is running
    waiter,    \* the goroutine that waits for the process
    exit,      \* the channel exitCode: "open", "value", "taken" or "closed"
    bc,        \* the broadcaster: has it buffered the code, is it closed
    sub,       \* per subscriber: its channel
    slave,     \* where the slave's goroutine is
    exitRef,   \* what slave.exitCode refers to
    slaveOn,   \* the channel the slave waits for
    key,       \* slave.PID: the temporary id or the PID
    entries,   \* availableSlaves: keys under which the slave is found
    manager,   \* the goroutine of ManagerLazy.Manage
    master,    \* per master: where it is
    attached,  \* the slave's set of masters
    queue,     \* per master: what was sent to it and not received
    seen,      \* per master: what it has received
    typed,     \* per master: inputs sent
    panicked

request == <<kind, waitFirst, req, cancelled, server>>
process == <<proc, wrote, copied, outOpen, stdin>>
codes == <<waiter, exit, bc, sub>>
slaveVars == <<slave, exitRef, slaveOn, key, entries, taken, attached>>
masterVars == <<master, queue, seen, typed>>

vars == <<request, process, inq, inOpen, codes, slaveVars, manager, masterVars, panicked>>

\* The message with the exit code, among the chunks 1, 2, ...
ExitCode == 0

Subscribers == {"slave", "manager"}

ctxDone == cancelled \/ server # "up"

Init ==
    /\ kind \in {"run", "restore"} /\ waitFirst \in BOOLEAN
    /\ req = "handler" /\ cancelled = FALSE /\ server = "up"
    /\ proc = "none" /\ wrote = 0 /\ copied = 0 /\ taken = 0 /\ outOpen = TRUE
    /\ inq = 0 /\ inOpen = TRUE /\ stdin = FALSE
    /\ waiter = "off" /\ exit = "open" /\ bc = [value |-> FALSE, closed |-> FALSE]
    /\ sub = [s \in Subscribers |-> [reg |-> FALSE, value |-> FALSE, closed |-> FALSE]]
    /\ slave = IF waitFirst THEN "first" ELSE "loop"
    /\ exitRef = "placeholder" /\ slaveOn = "none" /\ key = "id" /\ entries = {"id"}
    /\ manager = "off"
    /\ master = [m \in Masters |-> "off"] /\ attached = {}
    /\ queue = [m \in Masters |-> <<>>] /\ seen = [m \in Masters |-> <<>>]
    /\ typed = [m \in Masters |-> 0]
    /\ panicked = FALSE

-----------------------------------------------------------------------------
(* The request, once SetupIO has made the slave *)

\* The handler starts (or CRIU restores) the process, and the goroutine that
\* will wait for it; or fails.  Only a failed restore cancels the lifetime.
Handler ==
    /\ req = "handler"
    /\ \/ /\ req' = "setcode" /\ proc' = "running" /\ stdin' = TRUE /\ waiter' = "on"
          /\ UNCHANGED cancelled
       \/ /\ req' = "failed" /\ cancelled' = (kind = "restore")
          /\ UNCHANGED <<proc, stdin, waiter>>
    /\ UNCHANGED <<kind, waitFirst, server, wrote, copied, outOpen, inq, inOpen, exit, bc, sub, slaveVars,
                   manager, masterVars, panicked>>

\* The function that Broadcaster returns: a channel with the history, which is
\* closed at once or becomes a receiver.
Subscribe(s) == sub' = [sub EXCEPT ![s] = [reg |-> TRUE, value |-> bc.value, closed |-> bc.closed]]

\* Mutant: the slave keeps its placeholder.
SetCode_Lost ==
    /\ req = "setcode" /\ req' = "unset"
    /\ Subscribe("slave")
    /\ UNCHANGED <<kind, waitFirst, cancelled, server, process, inq, inOpen, waiter, exit, bc,
                   slaveVars, manager, masterVars, panicked>>

\* SetupIO's deferred SetIOSlaveExitCode.
SetCode ==
    /\ req = "setcode" /\ req' = "unset"
    /\ Subscribe("slave")
    /\ exitRef' = IF "id" \in entries THEN "process" ELSE exitRef
    /\ UNCHANGED <<kind, waitFirst, cancelled, server, process, inq, inOpen, waiter, exit, bc,
                   slave, slaveOn, key, entries, taken, attached, manager, masterVars, panicked>>

\* SetIOSlavePID: look the slave up and delete the old entry, ...
UnsetId ==
    /\ req = "unset"
    /\ req' = IF "id" \in entries THEN "setpid" ELSE "manage"
    /\ entries' = entries \ {"id"}
    /\ UNCHANGED <<kind, waitFirst, cancelled, server, process, inq, inOpen, codes, slave, exitRef,
                   slaveOn, key, taken, attached, manager, masterVars, panicked>>

\* ... then store the new one.
SetPID ==
    /\ req = "setpid" /\ req' = "manage"
    /\ key' = "pid" /\ entries' = entries \cup {"pid"}
    /\ UNCHANGED <<kind, waitFirst, cancelled, server, process, inq, inOpen, codes, slave, exitRef,
                   slaveOn, taken, attached, manager, masterVars, panicked>>

\* jobs.Manage, or its refusal, after which the process goes on unmanaged.
Manage ==
    /\ req = "manage"
    /\ Subscribe("manager")
    /\ \/ req' = "ok" /\ manager' = "on" /\ UNCHANGED cancelled
       \/ req' = "failed" /\ cancelled' = TRUE /\ UNCHANGED manager
    /\ UNCHANGED <<kind, waitFirst, server, process, inq, inOpen, waiter, exit, bc, slaveVars,
                   masterVars, panicked>>

Request == Handler \/ SetCode \/ UnsetId \/ SetPID \/ Manage

-----------------------------------------------------------------------------
(* The process, and the goroutines that copy its input and output *)

ProcWrites ==
    /\ proc = "running" /\ wrote < Chunks /\ wrote' = wrote + 1
    /\ UNCHANGED <<request, proc, copied, outOpen, stdin, inq, inOpen, codes, slaveVars, manager,
                   masterVars, panicked>>

ProcExits ==
    /\ proc \in {"running", "killed"} /\ proc' = "exited"
    /\ UNCHANGED <<request, wrote, copied, outOpen, stdin, inq, inOpen, codes, slaveVars, manager,
                   masterVars, panicked>>

\* StreamIOWriter.ReadFrom: a chunk at a time; close(s.bytes) at the end.
CopyOut ==
    /\ outOpen
    /\ \/ copied < wrote /\ copied - taken < Cap /\ copied' = copied + 1 /\ UNCHANGED outOpen
       \/ copied = wrote /\ proc = "exited" /\ outOpen' = FALSE /\ UNCHANGED copied
    /\ UNCHANGED <<request, proc, wrote, stdin, inq, inOpen, codes, slaveVars, manager, masterVars,
                   panicked>>

\* StreamIOReader.WriteTo: until in is closed, or the process cannot read.
CopyIn ==
    /\ stdin
    /\ \/ inq > 0 /\ inq' = inq - 1 /\ stdin' = (proc # "exited")
       \/ inq = 0 /\ ~inOpen /\ stdin' = FALSE /\ UNCHANGED inq
    /\ UNCHANGED <<request, proc, wrote, copied, outOpen, inOpen, codes, slaveVars, manager,
                   masterVars, panicked>>

\* cmd.Wait returns when the copies are over too; the wait for a restored
\* process does not care for them.
Wait ==
    /\ waiter = "on" /\ proc = "exited" /\ (kind = "run" => ~outOpen /\ ~stdin)
    /\ waiter' = "done" /\ exit' = "value"
    /\ UNCHANGED <<request, process, inq, inOpen, bc, sub, slaveVars, manager, masterVars, panicked>>

\* The broadcaster's goroutine: for every value, and at the close.
Broadcast ==
    /\ \/ /\ exit = "value" /\ exit' = "taken" /\ bc' = [bc EXCEPT !.value = TRUE]
          /\ sub' = [s \in Subscribers |->
                        [sub[s] EXCEPT !.value = sub[s].reg]]
       \/ /\ exit = "taken" /\ exit' = "closed" /\ bc' = [bc EXCEPT !.closed = TRUE]
          /\ sub' = [s \in Subscribers |-> [sub[s] EXCEPT !.closed = sub[s].reg]]
    /\ UNCHANGED <<request, process, inq, inOpen, waiter, slaveVars, manager, masterVars, panicked>>

Goroutines == CopyOut \/ CopyIn \/ Wait \/ Broadcast

-----------------------------------------------------------------------------
(* The slave's goroutine *)

\* A master whose stream is up; a Send to any other fails.
Reachable == {m \in attached : master[m] = "attached"}

SendAll(x) == queue' = [m \in Masters |-> IF m \in Reachable THEN Append(queue[m], x) ELSE queue[m]]

Take(m) ==
    /\ master[m] = "offer" /\ master' = [master EXCEPT ![m] = "attached"]
    /\ attached' = attached \cup {m}

\* Mutant: the slave goes on although no master has come.
FirstMaster_NoWait ==
    /\ slave = "first" /\ slave' = "loop"
    /\ UNCHANGED <<request, process, inq, inOpen, codes, exitRef, slaveOn, key, entries, taken,
                   attached, manager, masterVars, panicked>>

\* Before anything else, wait for a first master; or return.
FirstMaster ==
    /\ slave = "first"
    /\ \/ \E m \in Masters : Take(m) /\ slave' = "loop" /\ UNCHANGED <<inOpen, entries>>
       \/ /\ ctxDone
          /\ slave' = "ended" /\ inOpen' = FALSE /\ entries' = entries \ {key}
          /\ UNCHANGED <<master, attached>>
    /\ UNCHANGED <<request, process, inq, codes, exitRef, slaveOn, key, taken, manager, queue, seen,
                   typed, panicked>>

\* The select: a master, or a chunk for all masters.
Serve ==
    /\ slave = "loop"
    /\ \/ \E m \in Masters : Take(m) /\ UNCHANGED <<taken, queue>>
       \/ /\ taken < copied /\ taken' = taken + 1
          /\ SendAll(taken + 1) /\ attached' = Reachable /\ UNCHANGED master
    /\ UNCHANGED <<request, process, inq, inOpen, codes, slave, exitRef, slaveOn, key, entries,
                   manager, seen, typed, panicked>>

\* Mutant: the loop ends although chunks are left in the closed channel.
Leave_Early ==
    /\ slave = "loop" /\ (ctxDone \/ ~outOpen)
    /\ slave' = "code" /\ inOpen' = FALSE /\ slaveOn' = exitRef
    /\ UNCHANGED <<request, process, inq, codes, exitRef, key, entries, taken, attached, manager,
                   masterVars, panicked>>

\* The loop ends: close(in), and wait for what slave.exitCode is by now.
Leave ==
    /\ slave = "loop" /\ (ctxDone \/ (~outOpen /\ taken = copied))
    /\ slave' = "code" /\ inOpen' = FALSE /\ slaveOn' = exitRef
    /\ UNCHANGED <<request, process, inq, codes, exitRef, key, entries, taken, attached, manager,
                   masterVars, panicked>>

\* Mutant: the masters are not told.
Tell_Nobody ==
    /\ slave = "code" /\ slaveOn = "process" /\ (sub["slave"].value \/ sub["slave"].closed)
    /\ slave' = "ended" /\ entries' = entries \ {key}
    /\ UNCHANGED <<request, process, inq, inOpen, codes, exitRef, slaveOn, key, taken, attached,
                   manager, masterVars, panicked>>

Tell ==
    /\ slave = "code" /\ slaveOn = "process" /\ (sub["slave"].value \/ sub["slave"].closed)
    /\ slave' = "ended" /\ entries' = entries \ {key}
    /\ SendAll(ExitCode)
    /\ UNCHANGED <<request, process, inq, inOpen, codes, exitRef, slaveOn, key, taken, attached,
                   manager, master, seen, typed, panicked>>

Slave == FirstMaster \/ Serve \/ Leave \/ Tell

-----------------------------------------------------------------------------
(* The goroutine of Manage, and the server's shutdown *)

Managing ==
    /\ \/ /\ manager = "on" /\ ctxDone /\ manager' = "killing"
          /\ proc' = IF proc = "running" THEN "killed" ELSE proc
       \/ /\ manager \in {"on", "killing"} /\ (sub["manager"].value \/ sub["manager"].closed)
          /\ manager' = "done" /\ UNCHANGED proc
    /\ UNCHANGED <<request, wrote, copied, outOpen, stdin, inq, inOpen, codes, slaveVars,
                   masterVars, panicked>>

Shutdown ==
    /\ server = "up" /\ server' = "stopping"
    /\ UNCHANGED <<kind, waitFirst, req, cancelled, process, inq, inOpen, codes, slaveVars, manager,
                   masterVars, panicked>>

\* Stop: no RPC is running, then no goroutine of the server's wait group.
Stop ==
    /\ server = "stopping" /\ req \in {"ok", "failed"}
    /\ \A m \in Masters : master[m] \notin {"offer", "attached"}
    /\ slave = "ended" /\ waiter # "on" /\ manager \in {"off", "done"}
    /\ server' = "stopped"
    /\ UNCHANGED <<kind, waitFirst, req, cancelled, process, inq, inOpen, codes, slaveVars, manager,
                   masterVars, panicked>>

-----------------------------------------------------------------------------
(* The masters *)

\* Server.Attach: find the slave of the PID.
Attach(m) ==
    /\ master[m] = "off" /\ server = "up" /\ req = "ok"
    /\ master' = [master EXCEPT ![m] = IF "pid" \in entries THEN "offer" ELSE "gone"]
    /\ UNCHANGED <<request, process, inq, inOpen, codes, slaveVars, manager, queue, seen, typed,
                   panicked>>

\* Nobody takes the master: a timeout, the end of the server or of the client.
GiveUp(m) ==
    /\ master[m] = "offer" /\ master' = [master EXCEPT ![m] = "gone"]
    /\ UNCHANGED <<request, process, inq, inOpen, codes, slaveVars, manager, queue, seen, typed,
                   panicked>>

\* Input goes into the channel in; a send on the closed channel panics.
Type(m) ==
    /\ master[m] = "attached" /\ typed[m] < Inputs
    /\ typed' = [typed EXCEPT ![m] = @ + 1]
    /\ \/ inOpen /\ inq < Cap /\ inq' = inq + 1 /\ UNCHANGED panicked
       \/ ~inOpen /\ panicked' = TRUE /\ UNCHANGED inq
    /\ UNCHANGED <<request, process, inOpen, codes, slaveVars, manager, master, queue, seen>>

\* NewStreamIOMaster: receive, up to and including the exit code, or detach.
Receive(m) ==
    /\ master[m] = "attached" /\ queue[m] # <<>>
    /\ seen' = [seen EXCEPT ![m] = Append(@, Head(queue[m]))]
    /\ queue' = [queue EXCEPT ![m] = Tail(@)]
    /\ master' = [master EXCEPT ![m] = IF Head(queue[m]) = ExitCode THEN "gone" ELSE @]
    /\ UNCHANGED <<request, process, inq, inOpen, codes, slaveVars, manager, typed, panicked>>

Detach(m) ==
    /\ master[m] = "attached" /\ master' = [master EXCEPT ![m] = "gone"]
    /\ UNCHANGED <<request, process, inq, inOpen, codes, slaveVars, manager, queue, seen, typed,
                   panicked>>

-----------------------------------------------------------------------------
Master(m) == Attach(m) \/ GiveUp(m) \/ Type(m) \/ Receive(m) \/ Detach(m)

Next ==
    /\ ~panicked
    /\ \/ Request \/ ProcWrites \/ ProcExits \/ Goroutines \/ Slave \/ Managing
       \/ Shutdown \/ Stop \/ \E m \in Masters : Master(m)

Spec == Init /\ [][Next]_vars

\* Goroutines are not suspended for ever, a killed process exits, a waiting
\* Attach times out and an attached client reads what it was sent.
Fairness ==
    /\ WF_vars(~panicked /\ Request) /\ WF_vars(~panicked /\ CopyOut)
    /\ WF_vars(~panicked /\ CopyIn) /\ WF_vars(~panicked /\ Wait)
    /\ WF_vars(~panicked /\ Broadcast) /\ WF_vars(~panicked /\ Slave)
    /\ WF_vars(~panicked /\ Managing) /\ WF_vars(~panicked /\ Stop)
    /\ WF_vars(~panicked /\ proc = "killed" /\ ProcExits)
    /\ \A m \in Masters : WF_vars(~panicked /\ GiveUp(m)) /\ WF_vars(~panicked /\ Receive(m))

FairSpec == Spec /\ Fairness

-----------------------------------------------------------------------------
(* Properties *)

\* Every variable has its type.
TypeOK ==
    /\ kind \in {"run", "restore"} /\ waitFirst \in BOOLEAN
    /\ req \in {"handler", "setcode", "unset", "setpid", "manage", "ok", "failed"}
    /\ cancelled \in BOOLEAN /\ server \in {"up", "stopping", "stopped"}
    /\ proc \in {"none", "running", "killed", "exited"}
    /\ wrote \in 0..Chunks /\ copied \in 0..wrote /\ taken \in 0..copied /\ outOpen \in BOOLEAN
    /\ inq \in 0..Cap /\ inOpen \in BOOLEAN /\ stdin \in BOOLEAN
    /\ waiter \in {"off", "on", "done"} /\ exit \in {"open", "value", "taken", "closed"}
    /\ bc \in [value : BOOLEAN, closed : BOOLEAN]
    /\ sub \in [Subscribers -> [reg : BOOLEAN, value : BOOLEAN, closed : BOOLEAN]]
    /\ slave \in {"first", "loop", "code", "ended"}
    /\ exitRef \in {"placeholder", "process"} /\ slaveOn \in {"none", "placeholder", "process"}
    /\ key \in {"id", "pid"} /\ entries \in SUBSET {"id", "pid"}
    /\ manager \in {"off", "on", "killing", "done"}
    /\ master \in [Masters -> {"off", "offer", "attached", "gone"}] /\ attached \in SUBSET Masters
    /\ queue \in [Masters -> Seq(0..Chunks)]
    /\ seen \in [Masters -> Seq(0..Chunks)]
    /\ typed \in [Masters -> 0..Inputs] /\ panicked \in BOOLEAN

\* What was sent to a master, received or not; a part of the output without
\* gaps, repetitions or exchanges, then perhaps the code.
Sent(m) == seen[m] \o queue[m]

Told(m) == \E i \in 1..Len(Sent(m)) : Sent(m)[i] = ExitCode

\* A master gets consecutive chunks and the exit code comes last, once, and
\* only when the process is over; unless the job's lifetime was cut short, all
\* the output to the last chunk comes before the code.
OutputBeforeCode ==
    \A m \in Masters :
        LET n == Len(Sent(m)) - (IF Told(m) THEN 1 ELSE 0) IN
        /\ \A i \in 1..(n - 1) : Sent(m)[i + 1] = Sent(m)[i] + 1
        /\ Told(m) => /\ Sent(m)[n + 1] = ExitCode /\ proc = "exited"
                      /\ (n > 0 /\ ~ctxDone) => Sent(m)[n] = wrote

\* With WaitFirstMaster no output is lost: when the slave has taken the first
\* chunk, it was sent to a master, unless the first one has gone by then.
FirstMasterGetsAll ==
    (waitFirst /\ taken > 0) =>
        \E m \in Masters : master[m] = "gone" \/ (Sent(m) # <<>> /\ Head(Sent(m)) = 1)

\* A slave that waits for the placeholder of its exit code, which nobody will
\* ever send, has no masters: it took none before SetIOSlaveExitCode.
NoMasterOnPlaceholder == slaveOn = "placeholder" => attached = {}

\* A job that was started is found by Attach as long as its slave serves.
ServedIsFound == (req = "ok" /\ slave # "ended") => "pid" \in entries

\* The types; and a slave is found under its PID, and serves, only with the real exit
\* code (SetIOSlavePID, SetIOSlaveExitCode, Attach).
SlaveFound == TypeOK /\ NoMasterOnPlaceholder /\ ServedIsFound

\* The copying goroutine is blocked for ever: the slave has left its loop and
\* the channel out is full.
OutputStuck == slave \in {"code", "ended"} /\ copied < wrote /\ copied - taken = Cap

\* When the process of a managed job is over, the managing goroutine finishes;
\* except after run with WaitFirstMaster while no master has come, or when
\* output is stuck, or when a late input has panicked the daemon.
JobEnds ==
    (manager = "on" /\ proc = "exited")
        ~> (manager = "done" \/ panicked \/ (kind = "run" /\ (slave = "first" \/ OutputStuck)))

\* An attached master is told the exit code, or has gone, once the process is
\* over, with the exception of stuck output.
AttachedTold ==
    \A m \in Masters :
        (master[m] = "attached" /\ proc = "exited")
            ~> (master[m] = "gone" \/ panicked \/ (kind = "run" /\ OutputStuck))

\* The shutdown comes to its end if the request has been granted, unless the
\* slave waits for the placeholder, output is stuck or the daemon has panicked.
ShutdownEnds ==
    (server = "stopping" /\ req = "ok")
        ~> (server = "stopped" \/ panicked \/ slaveOn = "placeholder" \/ (kind = "run" /\ OutputStuck))

\* Whoever waits for the end of the process gets it: the managing goroutine, an
\* attached client, and the daemon that shuts down.
AttachEnds == JobEnds /\ AttachedTold /\ ShutdownEnds
=============================================================================
