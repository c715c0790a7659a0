----------------------------- MODULE MCServices -----------------------------
(***************************************************************************)
(* The parts of the daemon that do not wait for one another, checked in    *)
(* one run: the event stream (EventStream), the plugin manager, the job    *)
(* store, the profiling tree, the snapshot of a process tree, the options  *)
(* of a request, and two dumps that meet at a process (DumpPipeline).      *)
(* They share no state: the variable turn says which of them a behaviour   *)
(* is about, and the others stay as they are at first.                     *)
(***************************************************************************)
EXTENDS EventStream

CONSTANTS
    Nil,
    Names,                                         \* PluginManager
    Clients, Hosts, Jobs, Checkpoints, MaxCalls,   \* JobStore
    Main, Threads, MaxSpans, MaxBytes, Times,      \* Profiling
    Root, Others, Files, MaxMoves,                 \* ProcessSnapshot
    Streams,                                       \* RequestOptions
    Requests                                       \* DumpPipeline

VARIABLES
    turn,
    local, registry, offered, command, manager, status, fetch, downloads, installed, before, n,
    file, loopErr, failed, report,
    store, hosts, jobs, cps, call, result, calls, gone, asked,
    node, comps, stack, reading, bytes, lost, data,
    parent, opened, used, seized, moves, walker, unread, ppid, queue, tree, partial, moved, saved,
    external, inherited,
    config, process, user, chain, req, state, ckpt, cmd,
    proc, attached, tracer, killer, gpu, gpuLock, images, objects, recorded, criu, sent, cz,
    faults, rq

\* One of the dumps kills the process, which has a GPU, while the other, which may
\* do so, too, is under way: both of a job and into local directories.
Killing == CHOOSE r \in Requests : TRUE

MeetingOptions ==
    [remote : {FALSE}, async : {FALSE}, compress : {FALSE}, stream : {FALSE},
     leave : BOOLEAN, managed : {TRUE}]

M == INSTANCE PluginManager WITH pc <- manager, err <- loopErr
D == INSTANCE JobStore
T == INSTANCE Profiling WITH Handler <- Main, moved <- bytes, result <- data, MaxCalls <- MaxSpans
S == INSTANCE ProcessSnapshot WITH pc <- walker, open <- opened
O == INSTANCE RequestOptions WITH pc <- chain
P == INSTANCE DumpPipeline WITH Options <- MeetingOptions, checkpoints <- recorded, None <- Nil

plugins ==
    <<local, registry, offered, command, manager, status, fetch, downloads, installed, before, n,
      file, loopErr, failed, report>>
database == <<store, hosts, jobs, cps, call, result, calls, gone, asked>>
profile == <<node, comps, stack, reading, bytes, lost, data>>
snapshot ==
    <<parent, opened, used, seized, moves, walker, unread, ppid, queue, tree, partial, moved,
      saved, external, inherited>>
request == <<config, process, user, chain, req, state, ckpt, cmd>>
dumps ==
    <<proc, attached, tracer, killer, gpu, gpuLock, images, objects, recorded, criu, sent, cz,
      faults, rq>>

-----------------------------------------------------------------------------
\* A component out of turn starts in one of its initial states.
Pinned ==
    /\ \/ turn = "plugins"
       \/ /\ local = [p \in M!Plugins |-> {}] /\ registry = "up" /\ offered = {}
          /\ command = "remove" /\ installed = [p \in M!Plugins |-> M!Each("none")]
    /\ turn = "database" \/ (store = "sqlite" /\ hosts = {})
    /\ turn = "snapshot" \/ opened = [p \in S!Pids |-> {}]
    /\ \/ turn = "request"
       \/ /\ config = (CHOOSE c \in O!Configs : TRUE)
          /\ process = (CHOOSE p \in O!Processes : TRUE) /\ user = (CHOOSE u \in O!Flags : TRUE)

MCInit ==
    /\ turn \in {"events", "plugins", "database", "profile", "snapshot", "request", "dumps"}
    /\ Pinned
    /\ Init /\ M!Init /\ D!Init /\ T!Init /\ S!Init /\ O!Init /\ P!Init
    /\ attached /\ ~rq[Killing].opt.leave
    /\ turn = "dumps" \/ \A r \in Requests \ {Killing} : rq[r].opt.leave

MCNext ==
    /\ UNCHANGED turn
    /\ \/ /\ turn = "events" /\ Next
          /\ UNCHANGED <<plugins, database, profile, snapshot, request, dumps>>
       \/ /\ turn = "plugins" /\ M!Next
          /\ UNCHANGED <<vars, database, profile, snapshot, request, dumps>>
       \/ /\ turn = "database" /\ D!Next
          /\ UNCHANGED <<vars, plugins, profile, snapshot, request, dumps>>
       \/ /\ turn = "profile" /\ T!Next
          /\ UNCHANGED <<vars, plugins, database, snapshot, request, dumps>>
       \/ /\ turn = "snapshot" /\ S!Next
          /\ UNCHANGED <<vars, plugins, database, profile, request, dumps>>
       \/ /\ turn = "request" /\ O!Next
          /\ UNCHANGED <<vars, plugins, database, profile, snapshot, dumps>>
       \/ /\ turn = "dumps" /\ P!Next
          /\ UNCHANGED <<vars, plugins, database, profile, snapshot, request>>

MCSpec ==
    MCInit /\ [][MCNext]_<<turn, vars, plugins, database, profile, snapshot, request, dumps>>

-----------------------------------------------------------------------------
MCNames == <<"p1", "p2">>

-----------------------------------------------------------------------------
\* What Install and Remove report of a plugin is what became of its files: all
\* installed from one place, or gone (LocalManager and PropagatorManager).
ReportsTrue == M!ReportsTrue

\* A Put of the SQLite store that reports success has left its row, whatever other
\* daemons did between its SELECT and its INSERT or UPDATE, and what ListJobs
\* returns was put, but for the empty list of groups.
StoreKept == D!StoreKept

\* The published I/O total is the bytes moved through the profiled components that
\* are not redundant, unless an unlocked append was lost, and Flatten divides the
\* request's duration among the components without loss.
ProfileKept == T!ProfileKept

\* FillProcessState visits a process at most once; QueryExtFiles names every external
\* file of the tree that CRIU has seized, unless a process could not be read; and a
\* restore finds them in the saved state, if the tree did not move before the freeze.
SnapshotUsable == S!SnapshotUsable

\* The adapters of a dump take back nothing that a flag asks for, and the restore
\* finds the number of streams, the connections and the shell job of the dump.
OptionsKept == O!OptionsKept

\* Two dumps that meet keep what a single one promises: the one that kills the process
\* has its images, each that reports success has its own, and each that is over
\* holds neither the process nor the lock of its GPU controller (DumpFilesystem,
\* sendAndRecv, FinalizeDump).
DumpsApart == P!TypeOK /\ P!KilledIsSaved /\ P!SuccessIsSaved /\ P!HandsOff
=============================================================================
