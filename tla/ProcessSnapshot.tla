--------------------------- MODULE ProcessSnapshot ---------------------------
(***************************************************************************)
(* How a dump finds the process tree and its external files: the state     *)
(* that FillProcessState (pkg/utils/process.go) reads from /proc while the *)
(* processes run, which the dump saves, the files read again once CRIU has *)
(* seized the tree, and what a restore makes of the saved state.           *)
(***************************************************************************)
EXTENDS Naturals, Sequences, SequencesExt, FiniteSets

CONSTANTS
    Root,       \* the process that is dumped
    Others,     \* the processes that it, or its children, may fork
    Files,      \* files outside the processes' mounts
    Nil,        \* no process, no state
    MaxMoves    \* bound on what the processes do

Pids == Others \cup {Root}
InitProcess == "init"   \* the parent of orphans, and of the process itself

VARIABLES
    parent,    \* parent[p]: the parent of process p, Nil if there is no such process
    open,      \* open[p]: the external files that p has open
    used,      \* the PIDs used so far: none is used again during a dump
    seized,    \* CRIU has stopped the processes
    moves,     \* what the processes did so far
    pc,        \* where the request is
    unread,    \* the processes found in /proc whose parent is not read yet
    ppid,      \* childrenByPPID: the parent that was read of each process
    queue,     \* the processes to visit, each with the node of its parent
    tree,      \* the nodes: the process, its parent's node and its files
    partial,   \* the walk has left out a process that exists
    moved,     \* a process has moved since the first read of the tree began
    saved,     \* the state file of the dump, or Nil
    external,  \* the external files CRIU knows of
    inherited  \* the files the restore hands to CRIU

world == <<parent, open, used, moves, moved>>
walk == <<unread, ppid, queue, tree, partial>>
vars == <<world, seized, pc, walk, saved, external, inherited>>

Alive(p) == parent[p] # Nil

Init ==
    /\ parent = [p \in Pids |-> IF p = Root THEN InitProcess ELSE Nil]
    /\ open \in [Pids -> SUBSET Files] /\ \A p \in Others : open[p] = {}
    /\ used = {Root} /\ seized = FALSE /\ moves = 0 /\ moved = FALSE
    /\ pc = "fill" /\ unread = {} /\ ppid = [p \in Pids |-> Nil] /\ queue = <<>> /\ tree = <<>>
    /\ partial = FALSE /\ saved = Nil /\ external = {} /\ inherited = {}

-----------------------------------------------------------------------------
(* The processes, until CRIU seizes them *)

Moving ==
    /\ ~seized /\ pc \notin {"restore", "done", "failed"} /\ moves < MaxMoves
    /\ moves' = moves + 1 /\ moved' = (moved \/ pc # "fill")
    /\ UNCHANGED <<seized, pc, walk, saved, external, inherited>>

Fork(p, q) ==
    /\ Moving /\ Alive(p) /\ q \notin used
    /\ parent' = [parent EXCEPT ![q] = p] /\ open' = [open EXCEPT ![q] = open[p]]
    /\ used' = used \cup {q}

Exit(p) ==
    /\ Moving /\ Alive(p)
    /\ parent' = [q \in Pids |-> CASE q = p -> Nil [] parent[q] = p -> InitProcess [] OTHER -> parent[q]]
    /\ open' = [open EXCEPT ![p] = {}]
    /\ UNCHANGED used

Open(p, f) ==
    /\ Moving /\ Alive(p) /\ f \notin open[p]
    /\ open' = [open EXCEPT ![p] = @ \cup {f}]
    /\ UNCHANGED <<parent, used>>

Close(p, f) ==
    /\ Moving /\ f \in open[p]
    /\ open' = [open EXCEPT ![p] = @ \ {f}]
    /\ UNCHANGED <<parent, used>>

-----------------------------------------------------------------------------
(* FillProcessState *)

\* fillProcessNode
Node(p, up) == [pid |-> p, up |-> up, files |-> open[p]]

Filling == pc \in {"fill", "refill"}

\* The process itself must be there and readable.
FillRoot ==
    /\ Filling
    /\ \/ /\ Alive(Root)
          /\ tree' = <<Node(Root, 0)>> /\ ppid' = [p \in Pids |-> Nil]
          /\ queue' = <<>> /\ unread' = {} /\ partial' = FALSE
          /\ pc' = IF pc = "fill" THEN "glob" ELSE "reglob"
       \/ pc' = "failed" /\ UNCHANGED walk
    /\ UNCHANGED <<world, seized, saved, external, inherited>>

Globbing == pc \in {"glob", "reglob"}

\* buildPPIDMap lists /proc ...
Glob ==
    /\ Globbing
    /\ unread' = {p \in Pids : Alive(p)}
    /\ pc' = IF pc = "glob" THEN "scan" ELSE "rescan"
    /\ UNCHANGED <<world, seized, ppid, queue, tree, partial, saved, external, inherited>>

\* ... and reads the processes' parents one after the other.
BuildPPIDMap(p) ==
    /\ pc \in {"scan", "rescan"} /\ p \in unread
    /\ unread' = unread \ {p} /\ ppid' = [ppid EXCEPT ![p] = parent[p]]
    /\ UNCHANGED <<world, seized, pc, queue, tree, partial, saved, external, inherited>>

\* A cancelled context ends the scan with an error.
ScanFails ==
    /\ pc \in {"scan", "rescan"} /\ unread # {}
    /\ pc' = "failed"
    /\ UNCHANGED <<world, seized, walk, saved, external, inherited>>

\* The children of process p, whose node is the n-th.
Children(p, n) == SetToSeq({[pid |-> q, up |-> n] : q \in {c \in Pids : ppid[c] = p}})

StartWalk ==
    /\ pc \in {"scan", "rescan"} /\ unread = {}
    /\ queue' = Children(Root, 1)
    /\ pc' = IF pc = "scan" THEN "walk" ELSE "rewalk"
    /\ UNCHANGED <<world, seized, unread, ppid, tree, partial, saved, external, inherited>>

Walking == pc \in {"walk", "rewalk"} /\ queue # <<>>

\* Mutant: the children of a child are not queued.
Visit_Shallow ==
    /\ Walking /\ Alive(Head(queue).pid)
    /\ tree' = Append(tree, Node(Head(queue).pid, Head(queue).up)) /\ queue' = Tail(queue)
    /\ UNCHANGED <<world, seized, pc, unread, ppid, partial, saved, external, inherited>>

Visit ==
    LET c == Head(queue) IN
    /\ Walking /\ Alive(c.pid)
    /\ tree' = Append(tree, Node(c.pid, c.up))
    /\ queue' = Tail(queue) \o Children(c.pid, Len(tree) + 1)
    /\ UNCHANGED <<world, seized, pc, unread, ppid, partial, saved, external, inherited>>

\* A child that is gone, or of which anything cannot be read, is left out with
\* everything below it; the error is only logged.
Skip ==
    /\ Walking
    /\ queue' = Tail(queue) /\ partial' = (partial \/ Alive(Head(queue).pid))
    /\ UNCHANGED <<world, seized, pc, unread, ppid, tree, saved, external, inherited>>

\* A cancelled context ends the walk, with no error.
Cancelled ==
    /\ Walking
    /\ queue' = <<>> /\ partial' = TRUE
    /\ UNCHANGED <<world, seized, pc, unread, ppid, tree, saved, external, inherited>>

-----------------------------------------------------------------------------
(* The dump and the restore *)

ExternalFileKeys(nodes) == UNION {nodes[i].files : i \in DOMAIN nodes}

AddExternalFilesForDump ==
    /\ pc = "walk" /\ queue = <<>>
    /\ external' = ExternalFileKeys(tree)
    /\ pc' = "save"
    /\ UNCHANGED <<world, seized, walk, saved, inherited>>

\* The state is saved, or the failure to save it logged.
SaveProcessStateForDump ==
    /\ pc = "save"
    /\ saved' \in {[nodes |-> tree, partial |-> partial], Nil}
    /\ pc' = "seize"
    /\ UNCHANGED <<world, seized, walk, external, inherited>>

\* CRIU stops the tree and asks for the external files (query-ext-files).
Seize ==
    /\ pc = "seize"
    /\ \/ Alive(Root) /\ seized' = TRUE /\ pc' = "refill"
       \/ UNCHANGED seized /\ pc' = "failed"
    /\ UNCHANGED <<world, walk, saved, external, inherited>>

QueryExtFiles ==
    /\ pc = "rewalk" /\ queue = <<>>
    /\ external' = external \cup ExternalFileKeys(tree)
    /\ pc' = "restore"
    /\ UNCHANGED <<world, seized, walk, saved, inherited>>

\* The restore reads the state and inherits its external files.
Restore ==
    /\ pc = "restore"
    /\ \/ saved # Nil /\ inherited' = ExternalFileKeys(saved.nodes) /\ pc' = "done"
       \/ saved = Nil /\ UNCHANGED inherited /\ pc' = "failed"
    /\ UNCHANGED <<world, seized, walk, saved, external>>

Next ==
    \/ \E p, q \in Pids : Fork(p, q)
    \/ \E p \in Pids : Exit(p) \/ BuildPPIDMap(p)
    \/ \E p \in Pids, f \in Files : Open(p, f) \/ Close(p, f)
    \/ FillRoot \/ Glob \/ ScanFails \/ StartWalk \/ Visit \/ Skip \/ Cancelled
    \/ AddExternalFilesForDump \/ SaveProcessStateForDump \/ Seize \/ QueryExtFiles \/ Restore

Spec == Init /\ [][Next]_vars

-----------------------------------------------------------------------------
(* Properties *)

Nodes == DOMAIN tree

\* The walk visits a process at most once, each below the process that /proc gave
\* as its parent, although processes are forked and exit while it runs.
VisitedOnce ==
    /\ \A i, j \in Nodes : tree[i].pid = tree[j].pid => i = j
    /\ \A i \in Nodes \ {1} : tree[i].up \in 1..(i - 1) /\ ppid[tree[i].pid] = tree[tree[i].up].pid

\* The processes of the tree that are alive.
RECURSIVE Below(_)
Below(S) ==
    LET more == S \cup {p \in Pids : parent[p] \in S}
    IN IF more = S THEN S ELSE Below(more)

\* CRIU is told of every external file of the tree it has seized, those opened, or
\* inherited by a fork, after the first read included, unless a process could not
\* be read.
FrozenComplete ==
    pc = "restore" /\ ~partial => UNION {open[p] : p \in Below({Root})} \subseteq external

\* A restore inherits every file that the dump named as external, if the tree did
\* not move between the first read and the freeze: the saved state is that of the
\* first read.
RestoreInherits ==
    pc = "done" /\ ~moved /\ ~saved.partial => inherited = external

\* The snapshot of a process tree serves the dump and the restore that follow, though
\* the tree changes while it is read (FillProcessState, QueryExtFiles and
\* InheritFilesForRestore).
SnapshotUsable == VisitedOnce /\ FrozenComplete /\ RestoreInherits
=============================================================================
