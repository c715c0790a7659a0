--------------------------- MODULE RequestOptions ---------------------------
(***************************************************************************)
(* What a dump and a later restore of its checkpoint ask CRIU and the      *)
(* storage for: the request as the command line makes it, and the adapters *)
(* through which the server passes it, each of which fills in, detects,    *)
(* overrides or refuses something (internal/cedana/defaults, validation,   *)
(* network, process, criu, dump.go and restore.go).                        *)
(***************************************************************************)
EXTENDS Naturals

CONSTANTS
    Nil,        \* not set
    Streams     \* numbers of streams that a flag or the configuration names

VARIABLES
    config,    \* the daemon's configuration
    process,   \* the process, as it is when it is dumped
    user,      \* the flags of the dump
    pc,        \* the adapter that comes next, "refused", or the end
    req,       \* the request's options
    state,     \* resp.State: what is known of the process
    ckpt,      \* the checkpoint: how it was dumped and what the storage has
    cmd        \* the subcommand: what is dumped, as a job, without the daemon

vars == <<config, process, user, pc, req, state, ckpt, cmd>>

Types == {"process", "container"}
Configs == [dir : BOOLEAN, streams : Streams, leave : BOOLEAN]
Processes == [leader : BOOLEAN, stream : BOOLEAN, active : BOOLEAN, ioUring : BOOLEAN]
Flags ==
    [streams : Streams, leave : BOOLEAN, tcp : BOOLEAN, cgroups : {Nil, "strict"}]

Init ==
    /\ config \in Configs /\ process \in Processes /\ user \in Flags
    /\ pc = "flags" /\ req = Nil /\ state = Nil /\ ckpt = Nil /\ cmd = Nil

Step(from, to) == pc = from /\ pc' = to
Refused(from) == pc = from /\ pc' = "refused" /\ UNCHANGED <<req, state>>
Same == UNCHANGED <<config, process, user, ckpt, cmd>>

-----------------------------------------------------------------------------
(* The dump *)

\* dumpCmd's PersistentPreRunE: every flag is set in the request, given or not (a
\* directory is given like a configured one).
NewDumpRequest ==
    /\ Step("flags", "subcommand")
    /\ req' = [dir |-> FALSE, streams |-> user.streams, leave |-> user.leave, tcp |-> user.tcp,
               unix |-> FALSE, shell |-> FALSE, cgroups |-> user.cgroups, type |-> Nil]
    /\ UNCHANGED state /\ Same

ProcessDumpCmd ==
    /\ Step("subcommand", "send")
    /\ cmd' = [job |-> FALSE, type |-> "process"] /\ req' = [req EXCEPT !.type = "process"]
    /\ UNCHANGED <<config, process, user, state, ckpt>>

\* The daemon knows the job's type; only a plugin's command sets it in the request.
JobDumpCmd ==
    /\ \/ /\ Step("subcommand", "send")
          /\ \E t \in Types :
                /\ cmd' = [job |-> TRUE, type |-> t]
                /\ req' = [req EXCEPT !.type = IF t = "process" THEN Nil ELSE t]
       \/ pc = "subcommand" /\ pc' = "refused" /\ UNCHANGED <<cmd, req>>
    /\ UNCHANGED <<config, process, user, state, ckpt>>

\* dumpCmd's PersistentPostRunE sends the request to the daemon, or runs it itself
\* without knowing of jobs.
SendDump ==
    /\ pc = "send"
    /\ \/ pc' = IF cmd.job THEN "manage" ELSE "defaults"
       \/ pc' = "defaults"
    /\ UNCHANGED <<req, state>> /\ Same

\* A job's dump starts from the job's state, which knows the session.
ManageDump ==
    /\ Step("manage", "defaults")
    /\ req' = [req EXCEPT !.type = cmd.type]
    /\ state' = [leader |-> process.leader, stream |-> FALSE, ioUring |-> FALSE]
    /\ Same

\* A flag that says not to leave the process running is overridden.
FillMissingDumpDefaults ==
    /\ Step("defaults", "validate")
    /\ req' = [req EXCEPT !.dir = @ \/ config.dir, !.leave = @ \/ config.leave,
                          !.cgroups = IF @ = Nil THEN "config" ELSE @]
    /\ UNCHANGED state /\ Same

ValidateDumpRequest ==
    /\ \/ Step("validate", "storage") /\ req.dir /\ req.type # Nil /\ UNCHANGED <<req, state>>
       \/ Refused("validate") /\ (~req.dir \/ req.type = Nil)
    /\ Same

\* No flag and the flag 0 are the same.  The storage plugin may not be there.
PluginDumpStorage ==
    LET streams == IF req.streams = 0 THEN config.streams ELSE req.streams IN
    /\ \/ /\ Step("storage", "middleware") /\ streams # 1
          /\ req' = [req EXCEPT !.streams = streams] /\ UNCHANGED state
       \/ Refused("storage")
    /\ Same

\* The plugin's own middleware finds the container's process, or the plugin is
\* not there.
PluginDumpMiddleware ==
    /\ \/ Step("middleware", IF req.type = "process" THEN "pid" ELSE "fill") /\ UNCHANGED <<req, state>>
       \/ Refused("middleware") /\ req.type # "process"
    /\ Same

\* The state is made here, with nothing but the PID.
SetPIDForDump ==
    /\ Step("pid", "shell")
    /\ state' = IF state = Nil THEN [leader |-> FALSE, stream |-> FALSE, ioUring |-> FALSE] ELSE state
    /\ UNCHANGED req /\ Same

\* The session is not known yet unless the process is a job: a process that leads
\* its session counts as a shell job, too.
DetectShellJobForDump ==
    /\ Step("shell", "fill") /\ req' = [req EXCEPT !.shell = ~state.leader] /\ UNCHANGED state /\ Same

\* FillProcessState, modelled in ProcessSnapshot.
FillProcessStateForDump ==
    /\ \/ /\ Step("fill", "iouring") /\ UNCHANGED req
          /\ state' = [leader |-> process.leader, stream |-> process.stream, ioUring |-> process.ioUring]
       \/ Refused("fill")
    /\ Same

DetectIOUringForDump ==
    /\ \/ Step("iouring", "network") /\ ~state.ioUring /\ UNCHANGED <<req, state>>
       \/ Refused("iouring") /\ state.ioUring
    /\ Same

\* SOCK_STREAM and AF_UNIX are the same number, and both are compared with the
\* connection's type.  Active TCP connections are those of the network namespace.
DetectNetworkOptionsForDump ==
    /\ Step("network", "check")
    /\ req' = [req EXCEPT !.tcp = @ \/ state.stream \/ process.active, !.unix = @ \/ state.stream]
    /\ UNCHANGED state /\ Same

\* What CRIU's version cannot do is refused.
CheckOptsForDump ==
    /\ \/ Step("check", "handler") /\ UNCHANGED <<req, state>>
       \/ Refused("check")
    /\ Same

\* The handler, the plugin's or CRIU's.  A shard with nothing in it is missing
\* from a remote storage.
PluginDumpHandler ==
    /\ Step("handler", "dumped")
    /\ \E shards \in {req.streams} \cup (IF req.streams > 1 THEN {req.streams - 1} ELSE {}) :
          ckpt' = [req |-> req, state |-> state, shards |-> shards]
    /\ UNCHANGED <<config, process, user, req, state, cmd>>

-----------------------------------------------------------------------------
(* The restore, by a daemon with a configuration of its own *)

NewRestoreRequest ==
    /\ Step("dumped", "restore subcommand")
    /\ \E n \in Streams : config' = [config EXCEPT !.streams = n]
    /\ \E tcp \in BOOLEAN :
          req' = [tcp |-> tcp, unix |-> FALSE, shell |-> FALSE, cgroups |-> Nil, streams |-> 0, type |-> Nil]
    /\ state' = Nil
    /\ UNCHANGED <<process, user, ckpt, cmd>>

ProcessRestoreCmd ==
    /\ Step("restore subcommand", "restore defaults") /\ ~cmd.job
    /\ req' = [req EXCEPT !.type = "process"]
    /\ UNCHANGED state /\ Same

\* Only the daemon restores a job; ManageRestore fills in the type.
JobRestoreCmd ==
    /\ \/ Step("restore subcommand", "restore defaults") /\ req' = [req EXCEPT !.type = cmd.type] /\ UNCHANGED state
       \/ Refused("restore subcommand")
    /\ cmd.job /\ Same

FillMissingRestoreDefaults ==
    /\ Step("restore defaults", "restore validate")
    /\ req' = [req EXCEPT !.cgroups = IF @ = Nil THEN "config" ELSE @]
    /\ UNCHANGED state /\ Same

\* A request without a path is refused.
ValidateRestoreRequest ==
    /\ \/ Step("restore validate", "restore storage") /\ req.type # Nil /\ UNCHANGED <<req, state>>
       \/ Refused("restore validate")
    /\ Same

\* Mutant: the number of streams is the configured one.
IsStreamable_Configured == config.streams

\* The shards found in the storage are counted.
IsStreamable == ckpt.shards

PluginRestoreStorage ==
    /\ \/ /\ Step("restore storage", "reload") /\ IsStreamable # 1
          /\ req' = [req EXCEPT !.streams = IsStreamable] /\ UNCHANGED state
       \/ Refused("restore storage")
    /\ Same

\* The images of fewer streams than were dumped, or no images, cannot be read.
ReloadProcessStateForRestore ==
    /\ \/ Step("reload", "restore network") /\ state' = ckpt.state /\ UNCHANGED req
       \/ Refused("reload")
    /\ Same

DetectNetworkOptionsForRestore ==
    /\ Step("restore network", "restore middleware")
    /\ req' = [req EXCEPT !.tcp = @ \/ state.stream, !.unix = @ \/ state.stream]
    /\ UNCHANGED state /\ Same

PluginRestoreMiddleware ==
    /\ \/ /\ Step("restore middleware", IF req.type = "process" THEN "restore shell" ELSE "restore check")
          /\ UNCHANGED <<req, state>>
       \/ Refused("restore middleware") /\ req.type # "process"
    /\ Same

DetectShellJobForRestore ==
    /\ Step("restore shell", "restore check") /\ req' = [req EXCEPT !.shell = ~state.leader]
    /\ UNCHANGED state /\ Same

CheckOptsForRestore ==
    /\ \/ Step("restore check", "restore handler") /\ UNCHANGED <<req, state>>
       \/ Refused("restore check")
    /\ Same

PluginRestoreHandler == Step("restore handler", "restored") /\ UNCHANGED <<req, state>> /\ Same

DumpNext ==
    \/ NewDumpRequest \/ ProcessDumpCmd \/ JobDumpCmd \/ SendDump \/ ManageDump
    \/ FillMissingDumpDefaults \/ ValidateDumpRequest \/ PluginDumpStorage \/ PluginDumpMiddleware
    \/ SetPIDForDump \/ DetectShellJobForDump \/ FillProcessStateForDump \/ DetectIOUringForDump
    \/ DetectNetworkOptionsForDump \/ CheckOptsForDump \/ PluginDumpHandler

RestoreNext ==
    \/ NewRestoreRequest \/ ProcessRestoreCmd \/ JobRestoreCmd
    \/ FillMissingRestoreDefaults \/ ValidateRestoreRequest \/ PluginRestoreStorage
    \/ ReloadProcessStateForRestore \/ DetectNetworkOptionsForRestore \/ PluginRestoreMiddleware
    \/ DetectShellJobForRestore \/ CheckOptsForRestore \/ PluginRestoreHandler

Next == DumpNext \/ RestoreNext

Spec == Init /\ [][Next]_vars

-----------------------------------------------------------------------------
(* Properties *)

\* A dump leaves the process running if a flag asks for it, has TCP connections
\* dumped if a flag asks for it, and uses the cgroup mode of the flag: defaults and
\* detection add to what the user asks for and take nothing back.
UserKept ==
    ckpt # Nil =>
        /\ user.leave => ckpt.req.leave
        /\ user.tcp => ckpt.req.tcp
        /\ user.cgroups \in {Nil, ckpt.req.cgroups}

\* A restore reads the checkpoint with as many streams as it was dumped with, none
\* included, whatever the restoring daemon's configuration says, if the storage has
\* every shard.
StreamsRestored ==
    pc = "restored" /\ ckpt.shards = ckpt.req.streams => req.streams = ckpt.req.streams

\* Connections that the dump has found in the process are restored without a flag,
\* and a process that is restored as a shell job was dumped as one.
DetectedAgain ==
    pc = "restored" =>
        /\ ckpt.state.stream => ckpt.req.tcp /\ req.tcp /\ req.unix
        /\ req.shell => ckpt.req.shell

\* Along the chains of adapters of a dump and of the restore of its checkpoint no
\* option gets lost: neither what the user asked for nor what the dump found out.
OptionsKept == UserKept /\ StreamsRestored /\ DetectedAgain
=============================================================================
