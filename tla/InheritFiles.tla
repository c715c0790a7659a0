---------------------------- MODULE InheritFiles ----------------------------
(***************************************************************************)
(* The files a restored process inherits: the adapters                     *)
(* InheritFilesForRestore of internal/cedana/gpu and internal/cedana/      *)
(* process, which walk the open files of the checkpointed process tree one *)
(* after the other and tell CRIU which of its own descriptors stands for   *)
(* which file.  Descriptor 3 + i of CRIU is opts.ExtraFiles[i]; the        *)
(* numbers are computed from the length of that list while it grows.       *)
(***************************************************************************)
EXTENDS Integers, Sequences

CONSTANTS
    Keys,       \* what CRIU knows a file by: its path, or its mount and inode
    ShmKey,     \* the key of the GPU controller's shared memory
    Files,      \* the files a process may have open
    MaxFiles,   \* bound on the files of the process tree
    Nil         \* no file: an empty place of ExtraFiles

\* external: in no mount of the process.  valid: it has a mount and an inode.
\* gpu: a file of the GPU interceptor, "hostmem" or "log".
FileType ==
    [fd : Nat, tty : BOOLEAN, external : BOOLEAN, valid : BOOLEAN, key : Keys,
     gpu : {"no", "hostmem", "log"}]

ASSUME InheritAssumption ==
    /\ Files \subseteq FileType /\ MaxFiles \in Nat /\ Nil \notin Keys /\ ShmKey \in Keys

VARIABLES
    mode,      \* what is restored and how
    files,     \* the open files
    stage,     \* "shm", "gpu", "process", "done" or "failed"
    i,         \* the next file
    known,     \* the keys of opts.InheritFdMap
    extra,     \* opts.ExtraFiles
    inherit,   \* req.Criu.InheritFd
    visited,   \* visitedStdioFds
    walkErr,   \* err of the process adapter's walk: is an error left?
    missed     \* the keys of files that could not be opened

fileVars == <<mode, files, stage, i, known, extra, inherit, visited, walkErr, missed>>

Modes ==
    [gpu : BOOLEAN, container : BOOLEAN, serverless : BOOLEAN, attachable : BOOLEAN, log : BOOLEAN]

FilesInit ==
    /\ mode \in Modes /\ files = <<>>
    /\ stage = (IF mode.gpu THEN "shm" ELSE "process") /\ i = 1
    /\ known = {} /\ extra = <<>> /\ inherit = <<>> /\ visited = {}
    /\ walkErr = FALSE /\ missed = {}

\* The first walk to come to the end of the list finds out what the next file is.
Discovered(f) ==
    /\ i = Len(files) + 1 /\ i <= MaxFiles /\ f \in Files
    /\ files' = Append(files, f)

\* The process adapter walks the files that the GPU adapter has walked; further
\* ones only if that adapter was not there, or stopped early.
Seen(f) ==
    \/ i \in 1..Len(files) /\ f = files[i] /\ UNCHANGED files
    \/ (~mode.gpu \/ missed = Keys) /\ Discovered(f)

\* A file is inherited as fd; its place in ExtraFiles may be empty.
Inherit(k, fd, file, tty) ==
    /\ known' = known \cup {k}
    /\ extra' = Append(extra, file)
    /\ inherit' = Append(inherit, [fd |-> fd, key |-> k, tty |-> tty])

\* Mutant: the number of the place after the next.
NextFd_AfterAppend == 4 + Len(extra)

NextFd == 3 + Len(extra)

NotInherited == UNCHANGED <<known, extra, inherit>>

-----------------------------------------------------------------------------
(* gpu.InheritFilesForRestore *)

\* The controller's shared memory; a container has it mounted instead.
InheritShm ==
    /\ stage = "shm"
    /\ \/ mode.container /\ stage' = "gpu" /\ known' = {ShmKey} /\ UNCHANGED <<extra, inherit>>
       \/ ~mode.container /\ stage' = "gpu" /\ Inherit(ShmKey, NextFd, ShmKey, FALSE)
       \/ ~mode.container /\ stage' = "failed" /\ known' = {ShmKey} /\ UNCHANGED <<extra, inherit>>
    /\ UNCHANGED <<mode, files, i, visited, walkErr, missed>>

InheritGPU(f) ==
    \/ f.key \in known /\ NotInherited
    \/ /\ f.key \notin known /\ mode.container
       /\ known' = known \cup {f.key} /\ UNCHANGED <<extra, inherit>>
    \/ f.key \notin known /\ ~mode.container /\ Inherit(f.key, NextFd, f.key, FALSE)

VisitGPU(f) ==
    /\ stage = "gpu" /\ Discovered(f)
    /\ IF f.gpu = "no" THEN NotInherited ELSE InheritGPU(f)
    /\ i' = i + 1
    /\ UNCHANGED <<mode, stage, visited, walkErr, missed>>

\* A file that cannot be made again ends the walk: with an error, or, for host
\* memory, with an error in a variable of the same name that nobody reads.
FailGPU(f) ==
    /\ stage = "gpu" /\ Discovered(f) /\ f.gpu # "no"
    /\ \/ stage' = "failed" /\ UNCHANGED <<i, missed>>
       \/ f.gpu = "hostmem" /\ stage' = "process" /\ i' = 1 /\ missed' = Keys
    /\ NotInherited
    /\ UNCHANGED <<mode, visited, walkErr>>

EndGPU ==
    /\ stage = "gpu" /\ i > Len(files)
    /\ stage' = "process" /\ i' = 1
    /\ UNCHANGED <<mode, files, known, extra, inherit, visited, walkErr, missed>>

-----------------------------------------------------------------------------
(* process.InheritFilesForRestore *)

Skipped == NotInherited /\ UNCHANGED <<visited, walkErr, missed>>

\* An external terminal keeps its own number; any other external file is opened
\* here.  A failure is logged, and left in err (walkErr).
VisitExternal(f) ==
    \/ f.tty /\ f.key \in known /\ Skipped
    \/ /\ f.tty /\ f.key \notin known
       /\ Inherit(f.key, f.fd, Nil, TRUE) /\ UNCHANGED <<visited, walkErr, missed>>
    \/ ~f.tty /\ (~f.valid \/ f.key \in known) /\ Skipped
    \/ /\ ~f.tty /\ f.valid /\ f.key \notin known
       /\ \/ Inherit(f.key, NextFd, f.key, FALSE) /\ walkErr' = FALSE /\ UNCHANGED missed
          \/ NotInherited /\ walkErr' = TRUE /\ missed' = missed \cup {f.key}
       /\ UNCHANGED visited

\* Of the other files only stdin, stdout and stderr are inherited: those of the
\* client that runs without a daemon, or those CRIU is started with.
Stdio(f) ==
    \/ mode.serverless /\ f.fd < 3
    \/ ~mode.serverless /\ f.fd = 0 /\ mode.attachable
    \/ ~mode.serverless /\ f.fd \in {1, 2} /\ (mode.attachable \/ mode.log)

VisitInternal(f) ==
    \/ f.fd \in visited /\ Skipped
    \/ /\ f.fd \notin visited /\ (~f.tty \/ mode.serverless)
       /\ visited' = visited \cup {f.fd}
       /\ \/ (~Stdio(f) \/ f.key \in known) /\ NotInherited
          \/ /\ Stdio(f) /\ f.key \notin known
             /\ IF mode.serverless THEN Inherit(f.key, NextFd, f.key, FALSE)
                                   ELSE Inherit(f.key, f.fd, Nil, FALSE)
       /\ UNCHANGED <<walkErr, missed>>

VisitProcess(f) ==
    /\ stage = "process" /\ Seen(f)
    /\ \/ f.external /\ VisitExternal(f)
       \/ ~f.external /\ VisitInternal(f)
    /\ i' = i + 1
    /\ UNCHANGED <<mode, stage>>

\* A terminal has nothing to stand for it in the daemon.
RefuseTTY(f) ==
    /\ stage = "process" /\ Seen(f)
    /\ ~f.external /\ f.fd \notin visited /\ f.tty /\ ~mode.serverless
    /\ stage' = "failed"
    /\ UNCHANGED <<mode, i, known, extra, inherit, visited, walkErr, missed>>

EndProcess ==
    /\ stage = "process" /\ i > Len(files)
    /\ stage' = IF walkErr THEN "failed" ELSE "done"
    /\ UNCHANGED <<mode, files, i, known, extra, inherit, visited, walkErr, missed>>

FilesNext ==
    \/ InheritShm \/ EndGPU \/ EndProcess
    \/ \E f \in Files : VisitGPU(f) \/ FailGPU(f) \/ VisitProcess(f) \/ RefuseTTY(f)

FilesSpec == FilesInit /\ [][FilesNext]_fileVars

-----------------------------------------------------------------------------
(* Properties *)

Entries == [fd : Nat, key : Keys, tty : BOOLEAN]

\* Every variable has its type.
FilesTypeOK ==
    /\ mode \in Modes /\ files \in Seq(Files) /\ i \in Nat \ {0}
    /\ stage \in {"shm", "gpu", "process", "done", "failed"}
    /\ known \subseteq Keys /\ extra \in Seq(Keys \cup {Nil}) /\ inherit \in Seq(Entries)
    /\ visited \subseteq Nat /\ walkErr \in BOOLEAN /\ missed \subseteq Keys

\* Every descriptor that CRIU is told of is the file it is told it is: one from 3
\* on is the place of that very file in ExtraFiles, where exec will put it, and
\* one below 3 is CRIU's own stdio.  (A terminal outside the process's mounts is
\* the exception: it is given its number in the old process.)
RightDescriptor ==
    \A n \in 1..Len(inherit) :
        LET e == inherit[n] IN
        (~e.tty /\ e.fd >= 3) => e.fd - 2 \in 1..Len(extra) /\ extra[e.fd - 2] = e.key

\* No file is inherited twice, although both adapters walk the same files.
KeysOnce ==
    \A m, n \in 1..Len(inherit) : inherit[m].key = inherit[n].key => m = n

\* When the adapters are done, every file outside the process's mounts and every
\* file of the GPU's is accounted for: CRIU was told of it, or has it mounted, or
\* opening it was seen to fail.
AllAccounted ==
    stage = "done" =>
        \A n \in 1..Len(files) :
            LET f == files[n] IN
            (\/ f.external /\ (f.valid \/ f.tty)
             \/ mode.gpu /\ f.gpu # "no") => f.key \in known \cup missed

\* After the two adapters CRIU is given the right files: each by its own descriptor,
\* once, and none left out (InheritFilesForRestore of gpu and of process).
FilesInherited == RightDescriptor /\ KeysOnce /\ AllAccounted
=============================================================================
