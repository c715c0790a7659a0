--------------------------- MODULE MCDumpPipeline ---------------------------
(***************************************************************************)
(* A dump (DumpPipeline), and the files that a restore inherits            *)
(* (InheritFiles), checked in one run.  They share no state: the variable  *)
(* turn says which of them a behaviour is about.                           *)
(***************************************************************************)
EXTENDS DumpPipeline, InheritFiles

VARIABLE turn

allVars == <<turn, vars, fileVars>>

\* What is out of turn stays in one of its initial states.
MCInit ==
    /\ turn \in {"files", "dump"}
    /\ Init /\ FilesInit
    /\ turn # "files" => mode = CHOOSE m \in Modes : TRUE
    /\ turn # "dump" => attached /\ \A r \in Requests : rq[r].opt = CHOOSE o \in Options : TRUE

MCNext ==
    /\ UNCHANGED turn
    /\ \/ turn = "files" /\ FilesNext /\ UNCHANGED vars
       \/ turn = "files" /\ stage \in {"done", "failed"} /\ UNCHANGED <<fileVars, vars>>
       \/ turn = "dump" /\ Next /\ UNCHANGED fileVars

\* The fairness of DumpPipeline, in its turn.
Dump(A) == turn = "dump" /\ A /\ UNCHANGED <<turn, fileVars>>

MCFairness ==
    \A r \in Requests :
        /\ WF_allVars(Dump(Handler(r))) /\ WF_allVars(Dump(Compress(r)))
        /\ WF_allVars(Dump(CRIU(r)))

MCSpec == MCInit /\ [][MCNext]_allVars /\ MCFairness

\* Every combination of options.
MCOptions == AllOptions

\* The files that differ for the code: GPU files are regular files, a terminal
\* has a mount and an inode.
MCFiles ==
    {f \in [fd : {0, 1, 3}, tty : BOOLEAN, external : BOOLEAN, valid : BOOLEAN,
            key : Keys \ {ShmKey}, gpu : {"no", "hostmem", "log"}] :
        /\ f.gpu # "no" => ~f.tty /\ f.valid /\ f.fd = 3
        /\ f.tty => f.valid
        /\ f.external => f.fd > 2
        /\ ~f.external => f.valid}

-----------------------------------------------------------------------------
\* A dump comes to its end, for its caller and for the process (Dump, doSwrkWithResp).
MCDumpCompletes == turn = "dump" => DumpCompletes
=============================================================================
