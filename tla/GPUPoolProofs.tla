--------------------------- MODULE GPUPoolProofs ---------------------------
(***************************************************************************)
(* For any number of controllers, jobs and handlers, and any pool size:    *)
(* the types, that a controller is terminated once, and that a dump keeps  *)
(* its controller.                                                         *)
(***************************************************************************)
EXTENDS GPUPool, FiniteSetTheorems, TLAPS

TermPcs == {"term", "termLock", "termWait", "syncSpawn"}
\* Where an actor works on a job.
RunPcs == {"book", "tryBook", "spawned", "launch", "restoreLock", "restore", "started",
           "attach", "find"}
\* Where an actor has a controller of its own.
CtlPcs == {"spawned", "launch", "restoreLock", "restore", "started", "attach",
           "dumpGet", "dumpLock", "dumpFreeze", "criu", "final"}
\* Where it holds that controller's Termination mutex.
HoldPcs == {"restore", "dumpFreeze", "criu", "final"}

(***************************************************************************)
(* The locals an actor relies on at each point of its code.                *)
(***************************************************************************)
SoundLocals ==
    {l \in Locals :
        /\ l.pc \in TermPcs => l.t \in Controllers
        /\ l.pc \in CtlPcs => l.c \in Controllers
        /\ l.pc \in RunPcs => l.k \in {"book", "find", "freeze"}
        /\ l.k \in {"book", "find", "freeze"} => l.p \in PIDs}

TypeInv ==
    /\ TypeOK
    /\ th \in [Actors -> SoundLocals]
    /\ \A p \in running : gpuOf[p] \in Controllers

(***************************************************************************)
(* Who is in a section that Termination protects holds it, and the channel *)
(* of a controller is closed only in that section.                         *)
(***************************************************************************)
LockInv ==
    /\ \A a \in Actors : th[a].pc = "termWait" =>
         tlock[th[a].t] = a /\ th[a].t \in terminating /\ closed[th[a].t] = 0
    /\ \A a \in Actors : th[a].pc \in HoldPcs => tlock[th[a].c] = a
    /\ \A c \in Controllers : closed[c] <= 1 /\ (c \notin terminating => closed[c] = 0)

(***************************************************************************)
(* Only a controller that is being terminated loses its place in the pool  *)
(* and its files.                                                          *)
(***************************************************************************)
Sane(r) ==
    r.known \/ r.proc = "up" \/ r.apid # None \/ r.ext # None => r.sock

FileInv ==
    /\ \A a \in Actors : th[a].pc \in {"dumpLock", "dumpFreeze", "criu", "final"} =>
         th[a].c \in pool \cup terminating
    /\ \A a \in Actors : th[a].pc \in CtlPcs => ctl[th[a].c].sock \/ th[a].c \in terminating
    /\ \A a \in Actors : th[a].pc \in {"criu", "final"} => th[a].c \notin terminating
    /\ \A c \in Controllers \ terminating : Sane(ctl[c])

IInv == TypeInv /\ LockInv /\ FileInv

USE ConstantsAssumption

-----------------------------------------------------------------------------
(* The locals.                                                             *)

\* What an actor's locals are good for.
LEMMA LocalsFacts ==
    ASSUME TypeInv, NEW a \in Actors
    PROVE  /\ th[a] \in SoundLocals /\ th[a] \in Locals
           /\ th[a].pc \in TermPcs => th[a].t \in Controllers
           /\ th[a].pc \in CtlPcs => th[a].c \in Controllers
           /\ th[a].pc \in RunPcs => th[a].k \in {"book", "find", "freeze"} /\ th[a].p \in PIDs
           /\ th[a].k \in {"book", "find", "freeze"} => th[a].p \in PIDs
<1>1. th[a] \in SoundLocals
  BY DEF TypeInv
<1> QED
  BY <1>1 DEF SoundLocals

\* One actor's locals change to sound ones.
LEMMA SetLocals ==
    ASSUME TypeInv, NEW a \in Actors, NEW x \in SoundLocals, th' = [th EXCEPT ![a] = x]
    PROVE  th' \in [Actors -> SoundLocals]
  BY DEF TypeInv

\* Moving on to another point of the code.
LEMMA GotoSound ==
    ASSUME TypeInv, NEW a \in Actors, NEW l \in Pcs, Goto(a, l),
           l \in TermPcs => th[a].t \in Controllers,
           l \in CtlPcs => th[a].c \in Controllers,
           l \in RunPcs => th[a].k \in {"book", "find", "freeze"}
    PROVE  th' \in [Actors -> SoundLocals]
<1> DEFINE x == [th[a] EXCEPT !.pc = l]
<1>1. th[a] \in SoundLocals /\ th[a] \in Locals
  BY LocalsFacts
<1>2. x \in Locals /\ x.pc = l /\ x.t = th[a].t /\ x.c = th[a].c /\ x.k = th[a].k /\ x.p = th[a].p
  BY <1>1 DEF Locals
<1>3. x \in SoundLocals
  BY <1>1, <1>2, Zenon DEF SoundLocals
<1>4. th' = [th EXCEPT ![a] = x]
  BY DEF Goto
<1> HIDE DEF x
<1> QED
  BY <1>3, <1>4, SetLocals, Zenon

\* A goroutine with no request has sound locals.
LEMMA IdleSound == Idle \in SoundLocals
  BY DEF Idle, SoundLocals, Locals, Pcs, TermPcs, CtlPcs, RunPcs

\* Calling Terminate, and returning from it.
LEMMA CallTerminateSound ==
    ASSUME TypeInv, NEW a \in Actors, NEW c \in Controllers, NEW l \in {"idle", "syncFix"},
           CallTerminate(a, c, l)
    PROVE  th' \in [Actors -> SoundLocals]
<1> DEFINE x == [th[a] EXCEPT !.pc = "term", !.t = c, !.r = l]
<1>1. th[a] \in SoundLocals /\ th[a] \in Locals
  BY LocalsFacts
<1>2. x \in Locals
  <2>1. "term" \in Pcs /\ c \in Controllers \cup {None}
    BY DEF Pcs
  <2> QED
    BY <1>1, <2>1, Zenon DEF Locals
<1>5. x.pc = "term" /\ x.t = c /\ x.k = th[a].k /\ x.p = th[a].p
  BY <1>1 DEF Locals
<1>3. x \in SoundLocals
  BY <1>1, <1>2, <1>5, Zenon DEF SoundLocals, CtlPcs, RunPcs
<1>4. th' = [th EXCEPT ![a] = x]
  BY <1>1, Zenon DEF CallTerminate, TypeInv
<1> HIDE DEF x
<1> QED
  BY <1>3, <1>4, SetLocals, Zenon

\* Returning from Terminate keeps every goroutine's locals sound.
LEMMA ReturnSound ==
    ASSUME TypeInv, NEW a \in Actors, Return(a)
    PROVE  th' \in [Actors -> SoundLocals]
<1> DEFINE x == IF th[a].r = "idle" THEN Idle
                ELSE [th[a] EXCEPT !.pc = th[a].r, !.t = None, !.r = "idle"]
<1>1. th[a] \in SoundLocals /\ th[a] \in Locals
  BY LocalsFacts
<1>2. x \in SoundLocals
  <2>1. CASE th[a].r = "idle"
    BY <2>1, IdleSound
  <2>2. CASE th[a].r # "idle"
    <3> DEFINE y == [th[a] EXCEPT !.pc = "syncFix", !.t = None, !.r = "idle"]
    <3>1. th[a].r = "syncFix"
      BY <1>1, <2>2 DEF Locals
    <3>2. "syncFix" \in Pcs
      BY DEF Pcs
    <3>3. y \in Locals
      BY <1>1, <3>2, Zenon DEF Locals
    <3>4. y.pc = "syncFix" /\ y.k = th[a].k /\ y.p = th[a].p
      BY <1>1 DEF Locals
    <3>5. y \in SoundLocals
      BY <1>1, <3>3, <3>4, Zenon DEF SoundLocals, TermPcs, CtlPcs, RunPcs
    <3> QED
      BY <2>2, <3>1, <3>5
  <2> QED
    BY <2>1, <2>2
<1>3. th' = [th EXCEPT ![a] = x]
  BY DEF Return
<1> HIDE DEF x
<1> QED
  BY <1>2, <1>3, SetLocals, Zenon

\* Moving to a next point keeps the locals sound, if what that point uses is set.
LEMMA GoOnSound ==
    ASSUME TypeInv, NEW a \in Actors, NEW l \in Pcs, GoOn(a, l),
           l \in TermPcs => th[a].t \in Controllers,
           l \in CtlPcs => th[a].c \in Controllers,
           l \in RunPcs => th[a].k \in {"book", "find", "freeze"}
    PROVE  th' \in [Actors -> SoundLocals]
<1>1. CASE l = "idle"
  BY <1>1, IdleSound, SetLocals, Zenon DEF GoOn
<1>2. CASE l # "idle"
  BY <1>2, GotoSound, Zenon DEF GoOn, Goto
<1> QED
  BY <1>1, <1>2

\* Leaving Sync, which may wake the goroutines that wait for it, keeps the locals sound.
LEMMA SyncLeaveSound ==
    ASSUME TypeInv, NEW a \in Actors, NEW ok \in BOOLEAN, SyncLeave(a, ok)
    PROVE  th' \in [Actors -> SoundLocals]
<1> SUFFICES ASSUME NEW b \in Actors
             PROVE  th'[b] \in SoundLocals /\ th' = [x \in Actors |-> th'[x]]
  BY Zenon DEF SyncLeave
<1>1. th[b] \in SoundLocals /\ th[b] \in Locals
  BY LocalsFacts
<1>2. [th[b] EXCEPT !.pc = "syncWoken"] \in SoundLocals
  BY <1>1 DEF SoundLocals, Locals, Pcs, TermPcs, CtlPcs, RunPcs
<1>3. th[b].k # "idle" => [th[b] EXCEPT !.pc = th[b].k] \in SoundLocals
  BY <1>1 DEF SoundLocals, Locals, Pcs, TermPcs, CtlPcs, RunPcs
<1> QED
  BY <1>1, <1>2, <1>3, IdleSound DEF SyncLeave

-----------------------------------------------------------------------------
(* Every step keeps the locals sound.                                      *)

\* Terminate.
LEMMA TerminateLocals ==
    ASSUME TypeInv, NEW a \in Actors, Terminate(a)
    PROVE  th' \in [Actors -> SoundLocals]
<1> USE LocalsFacts DEF At, Pcs, TermPcs, CtlPcs, RunPcs
<1>1. CASE TerminateGet(a)
  BY <1>1, GotoSound, ReturnSound DEF TerminateGet
<1>2. CASE TerminateLock(a)
  BY <1>2, GotoSound, ReturnSound DEF TerminateLock
<1>3. CASE TerminateWait(a)
  BY <1>3, ReturnSound DEF TerminateWait
<1> QED
  BY <1>1, <1>2, <1>3 DEF Terminate

\* Spawning in a Sync, and being done with it.
LEMMA SpawnLocals ==
    ASSUME TypeInv, NEW a \in Actors, NEW c \in Controllers \cup {None},
           NEW l \in {"syncSpawn", "syncFix"}, l = "syncSpawn" => c \in Controllers,
           th' = [th EXCEPT ![a].pc = l, ![a].t = c]
    PROVE  th' \in [Actors -> SoundLocals]
<1> DEFINE x == [th[a] EXCEPT !.pc = l, !.t = c]
<1>1. th[a] \in SoundLocals /\ th[a] \in Locals /\ l \in Pcs
  BY LocalsFacts DEF Pcs
<1>2. x \in Locals
  BY <1>1, Zenon DEF Locals
<1>3. x.pc = l /\ x.t = c /\ x.k = th[a].k /\ x.p = th[a].p
  BY <1>1 DEF Locals
<1>4. x \in SoundLocals
  BY <1>1, <1>2, <1>3, Zenon DEF SoundLocals, TermPcs, CtlPcs, RunPcs
<1>5. th' = [th EXCEPT ![a] = x]
  BY Zenon DEF TypeInv
<1> HIDE DEF x
<1> QED
  BY <1>4, <1>5, SetLocals, Zenon

\* Sync.
LEMMA SyncLocals ==
    ASSUME TypeInv, NEW a \in Actors, Sync(a)
    PROVE  th' \in [Actors -> SoundLocals]
<1>0. /\ stale \subseteq Controllers /\ spare \subseteq Controllers
      /\ th[a].k \in Pcs \ (TermPcs \cup CtlPcs)
      /\ (th[a].k \in RunPcs => th[a].k \in {"book", "find", "freeze"})
      /\ th \in [Actors -> SoundLocals]
  BY LocalsFacts DEF TypeInv, TypeOK, Locals, Pcs, TermPcs, CtlPcs, RunPcs
<1>1. CASE SyncEnter(a)
  BY <1>1, GotoSound DEF SyncEnter, Pcs, TermPcs, CtlPcs, RunPcs
<1>2. CASE SyncWoken(a)
  BY <1>0, <1>2, GoOnSound DEF SyncWoken
<1>3. CASE SyncPanics(a)
  BY <1>0, <1>3 DEF SyncPanics
<1>4. CASE SyncRead(a)
  BY <1>4, GotoSound, SyncLeaveSound, Zenon DEF SyncRead, Pcs, TermPcs, CtlPcs, RunPcs
<1>5. CASE SyncList(a)
  BY <1>5, GotoSound DEF SyncList, Pcs, TermPcs, CtlPcs, RunPcs
<1>6. ASSUME NEW c \in Controllers,
             SyncLaunch(a, c) \/ SyncAnswer(a, c) \/ ClearStale(a, c) \/ GiveUpSpare(a, c)
      PROVE  th' \in [Actors -> SoundLocals]
  <2>1. CASE SyncLaunch(a, c)
    BY <1>0, <2>1 DEF SyncLaunch
  <2>2. CASE SyncAnswer(a, c)
    BY <1>0, <2>2 DEF SyncAnswer
  <2>3. CASE ClearStale(a, c)
    BY <2>3, CallTerminateSound DEF ClearStale
  <2>4. CASE GiveUpSpare(a, c)
    BY <1>0, <2>4, CallTerminateSound DEF GiveUpSpare
  <2> QED
    BY <1>6, <2>1, <2>2, <2>3, <2>4
<1>7. CASE SpawnMissing(a)
  BY <1>0, <1>7, CallTerminateSound, SpawnLocals, Zenon DEF SpawnMissing
<1>8. CASE SpawnedMissing(a)
  BY <1>8, LocalsFacts, CallTerminateSound, SpawnLocals, Zenon DEF SpawnedMissing, At, TermPcs
<1>9. CASE SyncDone(a)
  BY <1>9, SyncLeaveSound, Zenon DEF SyncDone
<1> QED
  BY <1>1, <1>2, <1>3, <1>4, <1>5, <1>6, <1>7, <1>8, <1>9 DEF Sync

\* Taking up a request, and what a runner and a dumper do with their own locals.
LEMMA RequestLocals ==
    ASSUME TypeInv, NEW a \in Actors, NEW p \in PIDs \cup {None},
           NEW k \in {"book", "find", "freeze", "bgCheck"}, k \in {"book", "find", "freeze"} => p \in PIDs,
           th' = [th EXCEPT ![a] = [@ EXCEPT !.pc = "sync", !.k = k, !.p = p]]
    PROVE  th' \in [Actors -> SoundLocals]
<1> DEFINE x == [th[a] EXCEPT !.pc = "sync", !.k = k, !.p = p]
<1>1. th[a] \in SoundLocals /\ th[a] \in Locals /\ "sync" \in Pcs
  BY LocalsFacts DEF Pcs
<1>2. x \in Locals
  BY <1>1, Zenon DEF Locals
<1>3. x.pc = "sync" /\ x.k = k /\ x.p = p
  BY <1>1 DEF Locals
<1>4. x \in SoundLocals
  BY <1>2, <1>3, Zenon DEF SoundLocals, TermPcs, CtlPcs, RunPcs
<1> HIDE DEF x
<1> QED
  BY <1>4, SetLocals, Zenon DEF x

\* Setting a goroutine's point, controller, candidates and outcome of the dump keeps the
\* locals sound.
LEMMA OwnLocals ==
    ASSUME TypeInv, NEW a \in Actors, NEW l \in Pcs \ TermPcs,
           NEW c \in Controllers \cup {None}, NEW C \in SUBSET Controllers,
           NEW dump \in {"none", "early", "failed", "left", "killed"},
           l \in CtlPcs => c \in Controllers, l \in RunPcs => th[a].k \in {"book", "find", "freeze"}
    PROVE  [th EXCEPT ![a] = [th[a] EXCEPT !.pc = l, !.c = c, !.cand = C, !.dump = dump]]
             \in [Actors -> SoundLocals]
<1> DEFINE x == [th[a] EXCEPT !.pc = l, !.c = c, !.cand = C, !.dump = dump]
<1>1. th[a] \in SoundLocals /\ th[a] \in Locals
  BY LocalsFacts
<1>2. x \in Locals
  BY <1>1, Zenon DEF Locals
<1>3. x.pc = l /\ x.c = c /\ x.k = th[a].k /\ x.p = th[a].p
  BY <1>1 DEF Locals
<1>4. x \in SoundLocals
  BY <1>1, <1>2, <1>3, ZenonT(60) DEF SoundLocals
<1> HIDE DEF x
<1>5. [th EXCEPT ![a] = x] \in [Actors -> SoundLocals]
  BY <1>4 DEF TypeInv
<1> QED
  BY <1>5 DEF x

\* Run and restore requests.
LEMMA RunLocals ==
    ASSUME TypeInv, NEW a \in Actors, Run(a)
    PROVE  th' \in [Actors -> SoundLocals]
<1>0. /\ th[a] \in Locals /\ th \in [Actors -> SoundLocals]
      /\ th[a].pc \in CtlPcs => th[a].c \in Controllers
      /\ th[a].pc \in RunPcs => th[a].k \in {"book", "find", "freeze"}
      /\ Free \subseteq Controllers /\ th[a].cand \in SUBSET Controllers
      /\ th[a].c \in Controllers \cup {None}
      /\ th[a].dump \in {"none", "early", "failed", "left", "killed"}
  BY LocalsFacts, SMTT(40) DEF TypeInv, TypeOK, Locals, Free
<1>1. CASE BookList(a)
  <2>1. PICK C \in SUBSET Controllers : C = Free
    BY <1>0
  <2>2. th' = [th EXCEPT ![a] = [th[a] EXCEPT !.pc = "tryBook", !.c = th[a].c,
                                   !.cand = C, !.dump = th[a].dump]]
    BY <1>0, <1>1, <2>1, ZenonT(60) DEF BookList, Locals
  <2>3. th[a].k \in {"book", "find", "freeze"}
    BY <1>0, <1>1 DEF BookList, At, RunPcs
  <2> QED
    BY <1>0, <2>2, <2>3, OwnLocals, ZenonT(60) DEF Pcs, TermPcs, CtlPcs, RunPcs
<1>2. CASE TryBook(a)
  <2>1. PICK c \in th[a].cand :
           \/ th' = [th EXCEPT ![a].pc = "launch", ![a].c = c, ![a].cand = {}]
           \/ th' = [th EXCEPT ![a].cand = @ \ {c}]
    BY <1>2, ZenonT(60) DEF TryBook
  <2>2. CASE th' = [th EXCEPT ![a].pc = "launch", ![a].c = c, ![a].cand = {}]
    <3>1. th' = [th EXCEPT ![a] = [th[a] EXCEPT !.pc = "launch", !.c = c,
                                     !.cand = {}, !.dump = th[a].dump]]
      BY <1>0, <2>2 DEF Locals
    <3> QED
      BY <1>0, <1>2, <3>1, OwnLocals, ZenonT(60) DEF TryBook, At, Pcs, TermPcs, CtlPcs, RunPcs
  <2>3. CASE th' = [th EXCEPT ![a].cand = @ \ {c}]
    <3>1. th' = [th EXCEPT ![a] = [th[a] EXCEPT !.pc = "tryBook", !.c = th[a].c,
                                     !.cand = th[a].cand \ {c}, !.dump = th[a].dump]]
      BY <1>0, <1>2, <2>3, ZenonT(60) DEF Locals, TryBook, At
    <3>2. th[a].cand \ {c} \in SUBSET Controllers
      BY <1>0
    <3> QED
      BY <1>0, <1>2, <3>1, <3>2, OwnLocals, ZenonT(60) DEF TryBook, At, Pcs, TermPcs, CtlPcs, RunPcs
  <2> QED
    BY <2>1, <2>2, <2>3, SMTT(40)
<1>3. CASE SpawnOwn(a)
  <2>1. ASSUME NEW c \in Controllers, th' = [th EXCEPT ![a].pc = "spawned", ![a].c = c]
        PROVE  th' \in [Actors -> SoundLocals]
    <3>1. th' = [th EXCEPT ![a] = [th[a] EXCEPT !.pc = "spawned", !.c = c,
                                     !.cand = th[a].cand, !.dump = th[a].dump]]
      BY <1>0, <2>1, ZenonT(60) DEF Locals
    <3> QED
      BY <1>0, <1>3, <3>1, OwnLocals, ZenonT(60) DEF SpawnOwn, At, Pcs, TermPcs, CtlPcs, RunPcs
  <2>2. CASE GoOn(a, "idle")
    BY <2>2, GoOnSound DEF Pcs, TermPcs, CtlPcs, RunPcs
  <2> QED
    BY <1>3, <2>1, <2>2, CallTerminateSound, Zenon DEF SpawnOwn
<1>4. CASE SpawnedOwn(a)
  BY <1>0, <1>4, GotoSound, CallTerminateSound DEF SpawnedOwn, At, Pcs, TermPcs, CtlPcs, RunPcs
<1>5. CASE Launch(a)
  BY <1>0, <1>5, GotoSound, CallTerminateSound DEF Launch, At, Pcs, TermPcs, CtlPcs, RunPcs
<1>6. CASE RestoreGet(a)
  BY <1>0, <1>6, GotoSound, CallTerminateSound DEF RestoreGet, At, Pcs, TermPcs, CtlPcs, RunPcs
<1>7. CASE RestoreLock(a)
  BY <1>0, <1>7, GotoSound, Zenon DEF RestoreLock, At, Pcs, TermPcs, CtlPcs, RunPcs
<1>8. CASE Restore(a)
  BY <1>0, <1>8, GotoSound, CallTerminateSound DEF Restore, At, Pcs, TermPcs, CtlPcs, RunPcs
<1>9. CASE AttachSelect(a)
  BY <1>0, <1>9, GotoSound, CallTerminateSound DEF AttachSelect, At, Pcs, TermPcs, CtlPcs, RunPcs
<1>10. CASE AttachRPC(a)
  BY <1>0, <1>10, GoOnSound, CallTerminateSound DEF AttachRPC, At, Pcs, TermPcs, CtlPcs, RunPcs
<1> QED
  BY <1>1, <1>2, <1>3, <1>4, <1>5, <1>6, <1>7, <1>8, <1>9, <1>10 DEF Run

\* Dump, freeze and unfreeze requests.
LEMMA DumpLocals ==
    ASSUME TypeInv, NEW a \in Actors, Dump(a)
    PROVE  th' \in [Actors -> SoundLocals]
<1>0. /\ th[a] \in Locals /\ th \in [Actors -> SoundLocals]
      /\ th[a].pc \in CtlPcs => th[a].c \in Controllers
      /\ th[a].cand \in SUBSET Controllers
      /\ th[a].dump \in {"none", "early", "failed", "left", "killed"}
  BY LocalsFacts DEF TypeInv, TypeOK, Locals
<1>1. CASE DumpFind(a)
  <2>1. ASSUME NEW c \in Attached(th[a].p),
               th' = [th EXCEPT ![a].pc = "dumpGet", ![a].c = c]
        PROVE  th' \in [Actors -> SoundLocals]
    <3>1. th' = [th EXCEPT ![a] = [th[a] EXCEPT !.pc = "dumpGet", !.c = c,
                                     !.cand = th[a].cand, !.dump = th[a].dump]]
      BY <1>0, <2>1, ZenonT(60) DEF Locals
    <3>2. c \in Controllers
      BY DEF Attached, TypeInv, TypeOK
    <3> QED
      BY <1>0, <3>1, <3>2, OwnLocals, ZenonT(60) DEF Pcs, TermPcs, CtlPcs, RunPcs
  <2>2. CASE GoOn(a, "idle")
    BY <2>2, GoOnSound DEF Pcs, TermPcs, CtlPcs, RunPcs
  <2> QED
    BY <1>1, <2>1, <2>2, SMTT(40) DEF DumpFind
<1>2. CASE DumpGet(a)
  <2>1. CASE GoOn(a, "idle")
    BY <2>1, GoOnSound DEF Pcs, TermPcs, CtlPcs, RunPcs
  <2>2. CASE GoOn(a, "dumpLock")
    BY <1>0, <1>2, <2>2, GoOnSound DEF DumpGet, At, Pcs, TermPcs, CtlPcs, RunPcs
  <2> QED
    BY <1>2, <2>1, <2>2 DEF DumpGet
<1>3. CASE DumpLock(a)
  BY <1>0, <1>3, GotoSound DEF DumpLock, At, Pcs, TermPcs, CtlPcs, RunPcs
<1>4. CASE DumpFreeze(a)
  BY <1>0, <1>4, GotoSound, GoOnSound DEF DumpFreeze, At, Pcs, TermPcs, CtlPcs, RunPcs
<1>5. CASE DumpCRIU(a)
  <2>1. PICK dump \in {"early", "failed", "left", "killed"} :
          LET thr == [th EXCEPT ![a].pc = "final", ![a].dump = dump] IN
          th' = thr \/ \E p \in PIDs : th' = [thr EXCEPT ![p].pc = "detach"]
    BY <1>5, Zenon DEF DumpCRIU, Exits, TypeInv, TypeOK
  <2> DEFINE thr == [th EXCEPT ![a] = [th[a] EXCEPT !.pc = "final", !.c = th[a].c,
                                         !.cand = th[a].cand, !.dump = dump]]
  <2>2. thr = [th EXCEPT ![a].pc = "final", ![a].dump = dump]
    BY <1>0, ZenonT(60) DEF Locals
  <2>3. thr \in [Actors -> SoundLocals]
    BY <1>0, <1>5, OwnLocals, ZenonT(60) DEF DumpCRIU, At, Pcs, TermPcs, CtlPcs, RunPcs
  <2> HIDE DEF thr
  <2>4. ASSUME NEW p \in PIDs
        PROVE  [thr EXCEPT ![p].pc = "detach"] \in [Actors -> SoundLocals]
    <3> DEFINE x == [thr[p] EXCEPT !.pc = "detach"]
    <3>1. p \in Actors /\ thr[p] \in SoundLocals /\ thr[p] \in Locals /\ "detach" \in Pcs
      BY <2>3 DEF Actors, SoundLocals, Pcs
    <3>2. x \in Locals
      BY <3>1 DEF Locals
    <3>3. x.pc = "detach" /\ x.k = thr[p].k /\ x.p = thr[p].p
      BY <3>1 DEF Locals
    <3>4. x \in SoundLocals
      BY <3>1, <3>2, <3>3, Zenon DEF SoundLocals, TermPcs, CtlPcs, RunPcs
    <3>5. [thr EXCEPT ![p].pc = "detach"] = [thr EXCEPT ![p] = x]
      OBVIOUS
    <3> HIDE DEF x
    <3> QED
      BY <2>3, <3>1, <3>4, <3>5
  <2> QED
    BY <2>1, <2>2, <2>3, <2>4
<1>6. CASE DumpFinalize(a)
  BY <1>0, <1>6, GoOnSound DEF DumpFinalize, Pcs, TermPcs, CtlPcs, RunPcs
<1>7. CASE FreezeRPC(a)
  BY <1>0, <1>7, GoOnSound DEF FreezeRPC, Pcs, TermPcs, CtlPcs, RunPcs
<1> QED
  BY <1>1, <1>2, <1>3, <1>4, <1>5, <1>6, <1>7 DEF Dump

\* All steps.
LEMMA LocalsNext ==
    ASSUME TypeInv, Next
    PROVE  th' \in [Actors -> SoundLocals]
<1>0. th \in [Actors -> SoundLocals] /\ \A a \in Actors : th[a] \in Locals
  BY LocalsFacts, Zenon DEF TypeInv
<1>1. ASSUME NEW a \in PIDs, Detach(a)
      PROVE  th' \in [Actors -> SoundLocals]
  BY <1>1, GoOnSound, CallTerminateSound
  DEF Detach, Attached, TypeInv, TypeOK, Actors, Pcs, TermPcs, CtlPcs, RunPcs
<1>2. ASSUME BgStop \/ BgCheck \/ BgTimeout \/ BgTick
      PROVE  th' \in [Actors -> SoundLocals]
  <2>0. Bg \in Actors
    BY SMTT(40) DEF Actors
  <2>1. CASE BgStop
    <3>1. th[Bg] \in Locals /\ th[Bg].p \in PIDs \cup {None}
      BY <1>0, <2>0 DEF Locals
    <3>2. th' = [th EXCEPT ![Bg] = [@ EXCEPT !.pc = "sync", !.k = "bgCheck", !.p = th[Bg].p]]
      BY <2>1, <3>1, ZenonT(60) DEF BgStop, Locals
    <3> QED
      BY <2>0, <3>1, <3>2, RequestLocals, Zenon
  <2>2. CASE BgCheck
    <3>1. Goto(Bg, "exited") \/ Goto(Bg, "bgAgain")
      BY <2>2 DEF BgCheck
    <3> QED
      BY <2>0, <3>1, GotoSound DEF Pcs, TermPcs, CtlPcs, RunPcs
  <2>3. CASE BgTimeout \/ BgTick
    BY <2>0, <2>3, GotoSound DEF BgTimeout, BgTick, Pcs, TermPcs, CtlPcs, RunPcs
  <2> QED
    BY <1>2, <2>1, <2>2, <2>3
<1>3. ASSUME NEW a \in Actors, Step(a)
      PROVE  th' \in [Actors -> SoundLocals]
  BY <1>1, <1>2, <1>3, TerminateLocals, SyncLocals, RunLocals, DumpLocals DEF Step
<1>4. ASSUME NEW a \in Runners, NEW p \in PIDs, RunRequest(a, p)
      PROVE  th' \in [Actors -> SoundLocals]
  <2>1. th' = [th EXCEPT ![a] = [@ EXCEPT !.pc = "sync", !.k = "book", !.p = p]]
    BY <1>4, Zenon DEF RunRequest
  <2> QED
    BY <2>1, RequestLocals, Zenon DEF Actors
<1>5. ASSUME NEW d \in Dumpers, NEW p \in PIDs, DumpRequest(d, p)
      PROVE  th' \in [Actors -> SoundLocals]
  <2>1. PICK k \in {"find", "freeze"} :
          th' = [th EXCEPT ![d] = [@ EXCEPT !.pc = "sync", !.k = k, !.p = p]]
    BY <1>5, ZenonT(60) DEF DumpRequest
  <2> QED
    BY <2>1, RequestLocals, Zenon DEF Actors
<1>6. ASSUME NEW p \in PIDs, JobConnects(p) \/ JobExits(p)
      PROVE  th' \in [Actors -> SoundLocals]
  <2>1. UNCHANGED th \/ Goto(p, "detach")
    BY <1>6 DEF JobConnects, JobExits, Exits, Goto
  <2> QED
    BY <1>0, <2>1, GotoSound DEF Actors, Pcs, TermPcs, CtlPcs, RunPcs
<1>7. ASSUME NEW c \in Controllers, ControllerDies(c)
      PROVE  th' \in [Actors -> SoundLocals]
  BY <1>0, <1>7 DEF ControllerDies
<1>8. CASE Shutdown \/ Exit
  BY <1>0, <1>8 DEF Shutdown, Exit
<1> QED
  BY <1>2, <1>3, <1>4, <1>5, <1>6, <1>7, <1>8 DEF Next

-----------------------------------------------------------------------------
(* The other variables.                                                    *)

\* TypeInv, without th and ctl.
SharedOK ==
    /\ daemon \in {"up", "stopping", "down", "panic"}
    /\ pool \subseteq Controllers
    /\ tlock \in [Controllers -> Actors \cup {None}]
    /\ terminating \subseteq Controllers
    /\ closed \in [Controllers -> Nat]
    /\ running \subseteq PIDs
    /\ gpuOf \in [PIDs -> Controllers \cup {None}]
    /\ \A p \in running : gpuOf[p] \in Controllers
    /\ syncOwner \in Actors \cup {None}
    /\ todo \subseteq Controllers /\ inflight \subseteq Controllers
    /\ stale \subseteq Controllers /\ spare \subseteq Controllers
    /\ missing \in Nat /\ drained \in BOOLEAN /\ target \in Nat

CtlOK == ctl \in [Controllers -> Controller]

\* The type invariant is that of the shared state, of the controllers and of the locals.
LEMMA TypeParts == TypeInv <=> SharedOK /\ CtlOK /\ th \in [Actors -> SoundLocals]
<1>1. th \in [Actors -> SoundLocals] => th \in [Actors -> Locals]
  BY DEF SoundLocals
<1> QED
  BY <1>1 DEF TypeInv, TypeOK, SharedOK, CtlOK

\* One field of one controller changes, or a few.
LEMMA SetCtl ==
    ASSUME CtlOK, NEW c \in Controllers, NEW x \in Controller, ctl' = [ctl EXCEPT ![c] = x]
    PROVE  CtlOK'
  BY DEF CtlOK

\* The steps of Terminate keep the types of the pool and of its controllers.
LEMMA TerminateTypes ==
    ASSUME TypeInv, NEW a \in Actors, Terminate(a)
    PROVE  SharedOK' /\ CtlOK'
<1>0. SharedOK /\ CtlOK /\ (th[a].pc \in TermPcs => th[a].t \in Controllers)
  BY TypeParts, LocalsFacts
<1>1. CASE TerminateGet(a)
  BY <1>0, <1>1 DEF TerminateGet, SharedOK, CtlOK, term, procs, sync
<1>2. CASE TerminateLock(a)
  BY <1>0, <1>2 DEF TerminateLock, SharedOK, CtlOK, procs, sync, At, TermPcs
<1>3. CASE TerminateWait(a)
  <2>1. th[a].t \in Controllers
    BY <1>0, <1>3 DEF TerminateWait, At, TermPcs
  <2>2. CtlOK'
    <3>1. PICK pr \in {"none", "up", "dead"} :
            ctl' = [ctl EXCEPT ![th[a].t].sock = FALSE, ![th[a].t].booked = FALSE,
                      ![th[a].t].proc = pr]
      BY <1>0, <1>3, <2>1, Zenon DEF TerminateWait, CtlOK, Controller
    <3> DEFINE x == [ctl[th[a].t] EXCEPT !.sock = FALSE, !.booked = FALSE, !.proc = pr]
    <3>2. x \in Controller
      <4>1. ctl[th[a].t] \in Controller
        BY <1>0, <2>1 DEF CtlOK
      <4> QED
        BY <4>1, Zenon DEF Controller
    <3>3. ctl' = [ctl EXCEPT ![th[a].t] = x]
      BY <1>0, <2>1, <3>1, ZenonT(60) DEF CtlOK
    <3> HIDE DEF x
    <3> QED
      BY <1>0, <2>1, <3>2, <3>3, SMTT(40) DEF CtlOK
  <2>3. SharedOK'
    BY <1>0, <1>3, <2>1 DEF TerminateWait, SharedOK, procs, sync
  <2> QED
    BY <2>2, <2>3
<1> QED
  BY <1>1, <1>2, <1>3 DEF Terminate

\* Spawn puts a controller of the right type into the pool.
LEMMA SpawnTypes ==
    ASSUME SharedOK, CtlOK, NEW c \in Controllers, NEW started \in BOOLEAN, Spawn(c, started)
    PROVE  CtlOK' /\ pool' \subseteq Controllers
<1>1. Spawned(started) \in Controller
  <2>1. 0 \in 0..MaxSyncFails
    OBVIOUS
  <2> QED
    BY <2>1, Zenon DEF Spawned, Unused, Controller
<1> QED
  BY <1>1, SetCtl, Zenon DEF Spawn, SharedOK

\* Taking or giving up a booking keeps the types.
LEMMA LockTypes ==
    ASSUME CtlOK, NEW c \in Controllers, TryLock(c) \/ Unlock(c)
    PROVE  CtlOK'
<1> DEFINE x(b) == [ctl[c] EXCEPT !.booked = b]
<1>1. ASSUME NEW b \in BOOLEAN, ctl' = [ctl EXCEPT ![c].booked = b]
      PROVE  CtlOK'
  <2>1. x(b) \in Controller
    BY DEF CtlOK, Controller
  <2>2. ctl' = [ctl EXCEPT ![c] = x(b)]
    BY <1>1
  <2> HIDE DEF x
  <2> QED
    BY <2>1, <2>2, SetCtl, ZenonT(60)
<1> QED
  BY <1>1, Zenon DEF TryLock, Unlock

\* The steps of Sync keep the types of the pool and of its controllers.
LEMMA SyncTypes ==
    ASSUME TypeInv, NEW a \in Actors, Sync(a)
    PROVE  SharedOK' /\ CtlOK'
<1>0. SharedOK /\ CtlOK /\ (th[a].pc \in TermPcs => th[a].t \in Controllers)
  BY TypeParts, LocalsFacts
<1>1. CASE SyncEnter(a)
  BY <1>0, <1>1 DEF SyncEnter, SharedOK, CtlOK, term, procs
<1>2. CASE SyncWoken(a)
  BY <1>0, <1>2 DEF SyncWoken, SharedOK, CtlOK, term, procs, sync
<1>3. CASE SyncPanics(a)
  BY <1>0, <1>3 DEF SyncPanics, SharedOK, CtlOK, term, procs, sync
<1>4. CASE SyncRead(a)
  BY <1>0, <1>4 DEF SyncRead, SyncLeave, SharedOK, CtlOK, term, procs
<1>5. CASE SyncList(a)
  <2>1. Free \subseteq Controllers /\ Stale \subseteq Controllers /\ target \in Nat
    BY <1>0 DEF SharedOK, Free, Stale
  <2>2. IsFiniteSet(Free) /\ Cardinality(Free) \in Nat
    BY <2>1, FS_Subset, FS_CardinalityType
  <2>3. missing' \in Nat /\ target' \in Nat
    BY <1>5, <2>1, <2>2 DEF SyncList
  <2>4. /\ stale' \subseteq Controllers /\ spare' \subseteq Controllers
        /\ drained' \in BOOLEAN
    BY <1>5, <2>1 DEF SyncList
  <2> QED
    BY <1>0, <1>5, <2>3, <2>4 DEF SyncList, SharedOK, CtlOK, term, procs
<1>6. ASSUME NEW c \in Controllers,
             SyncLaunch(a, c) \/ SyncAnswer(a, c) \/ ClearStale(a, c) \/ GiveUpSpare(a, c)
      PROVE  SharedOK' /\ CtlOK'
  <2>1. CASE SyncLaunch(a, c)
    BY <1>0, <2>1 DEF SyncLaunch, SharedOK, CtlOK, term, procs
  <2>2. CASE SyncAnswer(a, c)
    <3>1. SharedOK'
      BY <1>0, <2>2 DEF SyncAnswer, SharedOK, term, procs
    <3>2. CtlOK'
      <4>1. CASE ctl' = [ctl EXCEPT ![c].fails = 0, ![c].known = TRUE,
                           ![c].apid = IF ctl[c].ext # None THEN ctl[c].ext ELSE @]
        <5>1. ctl[c] \in Controller /\ 0 \in 0..MaxSyncFails
          BY <1>0 DEF CtlOK
        <5>2. PICK q \in PIDs \cup {None} :
                q = IF ctl[c].ext # None THEN ctl[c].ext ELSE ctl[c].apid
          BY <5>1 DEF Controller
        <5> DEFINE x == [ctl[c] EXCEPT !.fails = 0, !.known = TRUE, !.apid = q]
        <5>3. x \in Controller
          BY <5>1, Zenon DEF Controller
        <5>4. ctl' = [ctl EXCEPT ![c] = x]
          BY <1>0, <4>1, <5>1, <5>2, Zenon DEF CtlOK, Controller
        <5> HIDE DEF x
        <5> QED
          BY <1>0, <5>3, <5>4, SetCtl, Zenon
      <4>2. CASE ctl' = [ctl EXCEPT ![c].fails = IF @ < MaxSyncFails THEN @ + 1 ELSE @]
        <5>1. ctl[c].fails \in 0..MaxSyncFails
          BY <1>0 DEF CtlOK, Controller
        <5>2. PICK n \in 0..MaxSyncFails :
                n = IF ctl[c].fails < MaxSyncFails THEN ctl[c].fails + 1 ELSE ctl[c].fails
          BY <5>1
        <5>3. [ctl[c] EXCEPT !.fails = n] \in Controller
          BY <1>0 DEF CtlOK, Controller
        <5>4. ctl' = [ctl EXCEPT ![c] = [ctl[c] EXCEPT !.fails = n]]
          BY <1>0, <4>2, <5>2 DEF CtlOK
        <5> QED
          BY <1>0, <5>3, <5>4, SetCtl, Zenon
      <4> QED
        BY <2>2, <4>1, <4>2 DEF SyncAnswer
    <3> QED
      BY <3>1, <3>2
  <2>3. CASE ClearStale(a, c)
    BY <1>0, <2>3, LockTypes DEF ClearStale, SharedOK, term, procs
  <2>4. CASE GiveUpSpare(a, c)
    BY <1>0, <2>4, LockTypes DEF GiveUpSpare, SharedOK, term, procs
  <2> QED
    BY <1>6, <2>1, <2>2, <2>3, <2>4, Zenon
<1>7. CASE SpawnMissing(a)
  <2>1. CtlOK' /\ pool' \subseteq Controllers
    BY <1>0, <1>7, SpawnTypes, Zenon DEF SpawnMissing, SharedOK, CtlOK
  <2> QED
    BY <1>0, <1>7, <2>1 DEF SpawnMissing, SharedOK, term, procs
<1>8. CASE SpawnedMissing(a)
  <2>1. CtlOK'
    BY <1>0, <1>8, LockTypes DEF SpawnedMissing, At, TermPcs, CtlOK
  <2> QED
    BY <1>0, <1>8, <2>1 DEF SpawnedMissing, SharedOK, term, procs, sync
<1>9. CASE SyncDone(a)
  BY <1>0, <1>9 DEF SyncDone, SyncLeave, SharedOK, CtlOK, term, procs
<1> QED
  BY <1>1, <1>2, <1>3, <1>4, <1>5, <1>6, <1>7, <1>8, <1>9, Zenon DEF Sync

\* The fields that requests, jobs and the death of a controller change.
LEMMA ApidTypes ==
    ASSUME CtlOK, NEW c \in Controllers, NEW q \in PIDs \cup {None},
           ctl' = [ctl EXCEPT ![c].apid = q]
    PROVE  CtlOK'
<1> DEFINE x == [ctl[c] EXCEPT !.apid = q]
<1>1. ctl[c] \in Controller
  BY DEF CtlOK
<1>2. x \in Controller
  BY <1>1, Zenon DEF Controller
<1>3. ctl' = [ctl EXCEPT ![c] = x]
  BY <1>1 DEF CtlOK, Controller
<1> HIDE DEF x
<1> QED
  BY <1>2, <1>3, SetCtl, Zenon

\* A controller is told by its process whom it is attached to.
LEMMA ExtTypes ==
    ASSUME CtlOK, NEW c \in Controllers, NEW q \in PIDs,
           ctl' = [ctl EXCEPT ![c].ext = q]
    PROVE  CtlOK'
<1> DEFINE x == [ctl[c] EXCEPT !.ext = q]
<1>1. ctl[c] \in Controller
  BY DEF CtlOK
<1>2. x \in Controller
  BY <1>1, Zenon DEF Controller
<1>3. ctl' = [ctl EXCEPT ![c] = x]
  BY <1>1 DEF CtlOK, Controller
<1> HIDE DEF x
<1> QED
  BY <1>2, <1>3, SetCtl, Zenon

\* The daemon and the controller both note an attached PID.
LEMMA BothTypes ==
    ASSUME CtlOK, NEW c \in Controllers, NEW q \in PIDs,
           ctl' = [ctl EXCEPT ![c].apid = q, ![c].ext = q]
    PROVE  CtlOK'
<1> DEFINE x == [ctl[c] EXCEPT !.apid = q, !.ext = q]
<1>1. ctl[c] \in Controller
  BY DEF CtlOK
<1>2. x \in Controller
  BY <1>1, Zenon DEF Controller
<1>3. ctl' = [ctl EXCEPT ![c] = x]
  BY <1>1, Zenon DEF CtlOK, Controller
<1> HIDE DEF x
<1> QED
  BY <1>2, <1>3, SetCtl, Zenon

\* An attachment notes the PID and gives up the booking.
LEMMA AttachTypes ==
    ASSUME CtlOK, NEW c \in Controllers, NEW q \in PIDs,
           ctl' = [ctl EXCEPT ![c].apid = q, ![c].ext = q, ![c].booked = FALSE]
    PROVE  CtlOK'
<1> DEFINE x == [ctl[c] EXCEPT !.apid = q, !.ext = q, !.booked = FALSE]
<1>1. ctl[c] \in Controller
  BY DEF CtlOK
<1>2. x \in Controller
  BY <1>1, Zenon DEF Controller
<1>3. ctl' = [ctl EXCEPT ![c] = x]
  BY <1>1, Zenon DEF CtlOK, Controller
<1> HIDE DEF x
<1> QED
  BY <1>2, <1>3, SetCtl, Zenon

\* A GPU is frozen or unfrozen.
LEMMA FrozenTypes ==
    ASSUME CtlOK, NEW c \in Controllers, NEW b \in BOOLEAN,
           ctl' = [ctl EXCEPT ![c].frozen = b]
    PROVE  CtlOK'
<1> DEFINE x == [ctl[c] EXCEPT !.frozen = b]
<1>1. ctl[c] \in Controller
  BY DEF CtlOK
<1>2. x \in Controller
  BY <1>1, Zenon DEF Controller
<1>3. ctl' = [ctl EXCEPT ![c] = x]
  BY <1>1 DEF CtlOK, Controller
<1> HIDE DEF x
<1> QED
  BY <1>2, <1>3, SetCtl, Zenon

\* A controller's process comes up or dies.
LEMMA DeadTypes ==
    ASSUME CtlOK, NEW c \in Controllers, NEW pr \in {"up", "dead"},
           ctl' = [ctl EXCEPT ![c].proc = pr]
    PROVE  CtlOK'
<1> DEFINE x == [ctl[c] EXCEPT !.proc = pr]
<1>1. ctl[c] \in Controller
  BY DEF CtlOK
<1>2. x \in Controller
  BY <1>1, Zenon DEF Controller
<1>3. ctl' = [ctl EXCEPT ![c] = x]
  BY <1>1 DEF CtlOK, Controller
<1> HIDE DEF x
<1> QED
  BY <1>2, <1>3, SetCtl, Zenon

\* The steps of run and restore keep the types of the pool and of its controllers.
LEMMA RunTypes ==
    ASSUME TypeInv, NEW a \in Actors, Run(a)
    PROVE  SharedOK' /\ CtlOK'
<1>0. /\ SharedOK /\ CtlOK
      /\ th[a].pc \in CtlPcs => th[a].c \in Controllers /\ ctl[th[a].c].apid \in PIDs \cup {None}
      /\ th[a].pc \in RunPcs => th[a].p \in PIDs
      /\ th[a].cand \subseteq Controllers
  BY TypeParts, LocalsFacts DEF Locals, CtlOK, Controller
<1>1. CASE BookList(a)
  BY <1>0, <1>1 DEF BookList, SharedOK, CtlOK, term, procs, sync
<1>2. CASE TryBook(a)
  <2>1. CtlOK'
    BY <1>0, <1>2, LockTypes DEF TryBook
  <2> QED
    BY <1>0, <1>2, <2>1 DEF TryBook, SharedOK, term, procs, sync
<1>3. CASE SpawnOwn(a)
  <2>1. CtlOK' /\ pool' \subseteq Controllers
    BY <1>0, <1>3, SpawnTypes, ZenonT(60) DEF SpawnOwn, SharedOK, CtlOK
  <2> QED
    BY <1>0, <1>3, <2>1 DEF SpawnOwn, SharedOK, term, procs, sync
<1>4. CASE SpawnedOwn(a)
  BY <1>0, <1>4 DEF SpawnedOwn, SharedOK, CtlOK, term, procs, sync
<1>5. CASE Launch(a)
  <2>0. th[a].c \in Controllers /\ th[a].p \in PIDs /\ ctl[th[a].c].apid \in PIDs \cup {None}
    BY <1>0, <1>5 DEF Launch, At, CtlPcs, RunPcs
  <2>1. CtlOK'
    <3>1. CASE UNCHANGED ctl
      BY <1>0, <3>1 DEF CtlOK
    <3>2. CASE \E pid \in {None, ctl[th[a].c].apid} :
                 ctl' = [ctl EXCEPT ![th[a].c].apid = pid]
      BY <1>0, <2>0, <3>2, ApidTypes, ZenonT(60)
    <3> QED
      BY <1>5, <3>1, <3>2 DEF Launch
  <2>2. SharedOK'
    BY <1>0, <1>5, <2>0, Zenon DEF Launch, SharedOK, term, procs, sync
  <2> QED
    BY <2>1, <2>2
<1>6. CASE RestoreGet(a)
  BY <1>0, <1>6 DEF RestoreGet, SharedOK, CtlOK, term, procs, sync
<1>7. CASE RestoreLock(a)
  BY <1>0, <1>7, ZenonT(60) DEF RestoreLock, SharedOK, CtlOK, procs, sync
<1>8. CASE Restore(a)
  <2>0. th[a].c \in Controllers /\ th[a].p \in PIDs /\ ctl[th[a].c].apid \in PIDs \cup {None}
    BY <1>0, <1>8, Zenon DEF Restore, At, CtlPcs, RunPcs
  <2>1. CtlOK'
    <3>1. CASE UNCHANGED ctl
      BY <1>0, <3>1 DEF CtlOK
    <3>2. CASE \E pid \in {None, ctl[th[a].c].apid, th[a].p} :
                 ctl' = [ctl EXCEPT ![th[a].c].apid = pid]
      BY <1>0, <2>0, <3>2, ApidTypes, Zenon
    <3>3. CASE ctl' = [ctl EXCEPT ![th[a].c].apid = th[a].p, ![th[a].c].ext = th[a].p]
      BY <1>0, <2>0, <3>3, BothTypes, ZenonT(60)
    <3> QED
      BY <1>8, <3>1, <3>2, <3>3 DEF Restore
  <2>2. SharedOK'
    BY <1>0, <1>8, <2>0 DEF Restore, SharedOK, procs, sync
  <2> QED
    BY <2>1, <2>2
<1>9. CASE AttachSelect(a)
  <2>0. th[a].c \in Controllers /\ th[a].p \in PIDs
    BY <1>0, <1>9 DEF AttachSelect, At, CtlPcs, RunPcs
  <2>1. CtlOK'
    BY <1>0, <1>9, <2>0, ApidTypes, Zenon DEF AttachSelect, CtlOK
  <2> QED
    BY <1>0, <1>9, <2>1 DEF AttachSelect, SharedOK, term, procs, sync
<1>10. CASE AttachRPC(a)
  <2>0. th[a].c \in Controllers /\ th[a].p \in PIDs
    BY <1>0, <1>10, SMTT(40) DEF AttachRPC, At, CtlPcs, RunPcs
  <2>1. CtlOK'
    BY <1>0, <1>10, <2>0, AttachTypes, Zenon DEF AttachRPC, CtlOK
  <2> QED
    BY <1>0, <1>10, <2>1 DEF AttachRPC, SharedOK, term, procs, sync
<1> QED
  BY <1>1, <1>2, <1>3, <1>4, <1>5, <1>6, <1>7, <1>8, <1>9, <1>10, Zenon DEF Run

\* The steps of a dump's callbacks keep the types of the pool and of its controllers.
LEMMA DumpTypes ==
    ASSUME TypeInv, NEW a \in Actors, Dump(a)
    PROVE  SharedOK' /\ CtlOK'
<1>0. SharedOK /\ CtlOK /\ (th[a].pc \in CtlPcs => th[a].c \in Controllers)
  BY TypeParts, LocalsFacts
<1>1. CASE DumpFind(a)
  BY <1>0, <1>1 DEF DumpFind, SharedOK, CtlOK, term, procs, sync
<1>2. CASE DumpGet(a)
  BY <1>0, <1>2 DEF DumpGet, SharedOK, CtlOK, term, procs, sync
<1>3. CASE DumpLock(a)
  BY <1>0, <1>3, Zenon DEF DumpLock, SharedOK, CtlOK, procs, sync
<1>4. CASE DumpFreeze(a)
  <2>1. CtlOK'
    BY <1>0, <1>4, FrozenTypes, Zenon DEF DumpFreeze, At, CtlPcs, CtlOK
  <2> QED
    BY <1>0, <1>4, <2>1 DEF DumpFreeze, SharedOK, term, procs, sync
<1>5. CASE DumpCRIU(a)
  BY <1>0, <1>5 DEF DumpCRIU, Exits, SharedOK, CtlOK, term, procs, sync
<1>6. CASE DumpFinalize(a)
  <2>0. th[a].c \in Controllers
    BY <1>0, <1>6 DEF DumpFinalize, At, CtlPcs
  <2>1. CtlOK'
    <3>1. ctl[th[a].c].frozen \in BOOLEAN
      BY <1>0, <2>0 DEF CtlOK, Controller
    <3>2. UNCHANGED ctl \/ \E b \in BOOLEAN : ctl' = [ctl EXCEPT ![th[a].c].frozen = b]
      <4>1. CASE UNCHANGED ctl
        BY <4>1
      <4>2. CASE ctl' = [ctl EXCEPT ![th[a].c].frozen =
                   @ /\ (th[a].dump \in {"early", "killed"} \/ ctl[th[a].c].proc # "up")]
        <5>1. PICK b \in BOOLEAN : b = (ctl[th[a].c].frozen
                   /\ (th[a].dump \in {"early", "killed"} \/ ctl[th[a].c].proc # "up"))
          BY Zenon
        <5> QED
          BY <1>0, <2>0, <4>2, <5>1, Zenon DEF CtlOK
      <4> QED
        BY <1>6, <4>1, <4>2 DEF DumpFinalize
    <3> QED
      BY <1>0, <2>0, <3>2, FrozenTypes, Zenon DEF CtlOK
  <2>2. SharedOK'
    BY <1>0, <1>6, <2>0 DEF DumpFinalize, SharedOK, procs, sync
  <2> QED
    BY <2>1, <2>2
<1>7. CASE FreezeRPC(a)
  <2>1. CtlOK'
    BY <1>0, <1>7, FrozenTypes DEF FreezeRPC, Attached, SharedOK, CtlOK
  <2> QED
    BY <1>0, <1>7, <2>1 DEF FreezeRPC, SharedOK, term, procs, sync
<1> QED
  BY <1>1, <1>2, <1>3, <1>4, <1>5, <1>6, <1>7 DEF Dump

\* All steps keep the types.
LEMMA TypeNext ==
    ASSUME TypeInv, [Next]_vars
    PROVE  TypeInv'
<1>0. SharedOK /\ CtlOK
  BY TypeParts
<1>1. CASE Next
  <2>1. ASSUME NEW a \in Actors, Step(a)
        PROVE  SharedOK' /\ CtlOK'
    <3>1. CASE a \in PIDs /\ Detach(a)
      <4>1. CtlOK'
        BY <1>0, <3>1, LockTypes DEF Detach, Attached, SharedOK, CtlOK
      <4> QED
        BY <1>0, <3>1, <4>1, Zenon DEF Detach, SharedOK, term, procs, sync
    <3>2. CASE BgStop \/ BgCheck \/ BgTimeout
      BY <1>0, <3>2 DEF BgStop, BgCheck, BgTimeout, SharedOK, CtlOK, term, procs, sync
    <3> QED
      BY <2>1, <3>1, <3>2, TerminateTypes, SyncTypes, RunTypes, DumpTypes DEF Step
  <2>2. ASSUME NEW a \in Runners, NEW p \in PIDs, RunRequest(a, p)
        PROVE  SharedOK' /\ CtlOK'
    BY <1>0, <2>2 DEF RunRequest, SharedOK, CtlOK, term, procs, sync
  <2>3. ASSUME NEW d \in Dumpers, NEW p \in PIDs, DumpRequest(d, p)
        PROVE  SharedOK' /\ CtlOK'
    BY <1>0, <2>3 DEF DumpRequest, SharedOK, CtlOK, term, procs, sync
  <2>4. ASSUME NEW p \in PIDs, JobConnects(p)
        PROVE  SharedOK' /\ CtlOK'
    <3>1. gpuOf[p] \in Controllers
      BY <1>0, <2>4 DEF JobConnects, SharedOK
    <3>2. CtlOK'
      BY <1>0, <2>4, <3>1, ExtTypes, Zenon DEF JobConnects
    <3> QED
      BY <1>0, <2>4, <3>2 DEF JobConnects, SharedOK, term, procs, sync
  <2>5. ASSUME NEW p \in PIDs, JobExits(p)
        PROVE  SharedOK' /\ CtlOK'
    BY <1>0, <2>5 DEF JobExits, Exits, SharedOK, CtlOK, term, sync
  <2>6. ASSUME NEW c \in Controllers, ControllerDies(c)
        PROVE  SharedOK' /\ CtlOK'
    <3>1. CtlOK'
      BY <1>0, <2>6, DeadTypes, Zenon DEF ControllerDies
    <3> QED
      BY <1>0, <2>6, <3>1 DEF ControllerDies, SharedOK, term, procs, sync
  <2>7. ASSUME BgTick PROVE SharedOK' /\ CtlOK'
    BY <1>0, <2>7 DEF BgTick, SharedOK, CtlOK, term, procs, sync
  <2>8. ASSUME Shutdown PROVE SharedOK' /\ CtlOK'
    BY <1>0, <2>8 DEF Shutdown, SharedOK, CtlOK, term, procs, sync
  <2>9. ASSUME Exit PROVE SharedOK' /\ CtlOK'
    BY <1>0, <2>9 DEF Exit, SharedOK, CtlOK, term, procs, sync
  <2>10. SharedOK' /\ CtlOK'
    BY <1>1, <2>1, <2>2, <2>3, <2>4, <2>5, <2>6, <2>7, <2>8, <2>9, ZenonT(60) DEF Next
  <2> QED
    <3>1. th' \in [Actors -> SoundLocals] /\ th' \in [Actors -> Locals]
      BY <1>1, LocalsNext DEF SoundLocals
    <3> QED
      BY <2>10, <3>1 DEF TypeInv, TypeOK, SharedOK, CtlOK
<1>2. CASE UNCHANGED vars
  BY <1>0, <1>2, TypeParts DEF vars, term, procs, sync, TypeInv, TypeOK
<1> QED
  BY <1>1, <1>2

-----------------------------------------------------------------------------
(* Who enters the sections that matter: nobody enters S in a step that     *)
(* Keeps(S).                                                               *)

Keeps(S) ==
    \A b \in Actors : th'[b].pc \in S =>
        th'[b].pc = th[b].pc /\ th'[b].c = th[b].c /\ th'[b].t = th[b].t

\* Each way to move on, for a set that its target is not in.
LEMMA GotoKeeps ==
    ASSUME TypeInv, NEW a \in Actors, NEW l, NEW S, l \notin S, Goto(a, l)
    PROVE  Keeps(S)
<1>1. th \in [Actors -> Locals]
  BY DEF TypeInv, TypeOK
<1>2. th'[a].pc = l
  BY <1>1 DEF Goto, Locals
<1>3. \A b \in Actors \ {a} : th'[b] = th[b]
  BY <1>1 DEF Goto
<1> QED
  BY <1>2, <1>3 DEF Keeps

\* A goroutine that moves to a point outside S takes no other goroutine into S.
LEMMA SetKeeps ==
    ASSUME TypeInv, NEW a \in Actors, NEW x, NEW S, x.pc \notin S, th' = [th EXCEPT ![a] = x]
    PROVE  Keeps(S)
<1>1. th \in [Actors -> Locals]
  BY DEF TypeInv, TypeOK
<1> QED
  BY <1>1 DEF Keeps

\* The same of GoOn.
LEMMA GoOnKeeps ==
    ASSUME TypeInv, NEW a \in Actors, NEW l, NEW S, l \notin S, GoOn(a, l)
    PROVE  Keeps(S)
<1>1. CASE l = "idle"
  <2>1. Idle.pc = "idle"
    BY DEF Idle
  <2>2. th' = [th EXCEPT ![a] = Idle]
    BY <1>1 DEF GoOn
  <2> QED
    BY <1>1, <2>1, <2>2, SetKeeps, Zenon
<1>2. CASE l # "idle"
  BY <1>2, GotoKeeps, Zenon DEF GoOn, Goto
<1> QED
  BY <1>1, <1>2

\* The same of a call of Terminate.
LEMMA CallTerminateKeeps ==
    ASSUME TypeInv, NEW a \in Actors, NEW c, NEW l, NEW S, "term" \notin S,
           CallTerminate(a, c, l)
    PROVE  Keeps(S)
<1> DEFINE x == [th[a] EXCEPT !.pc = "term", !.t = c, !.r = l]
<1>1. th[a] \in Locals
  BY DEF TypeInv, TypeOK
<1>2. x.pc = "term"
  BY <1>1 DEF Locals
<1>3. th' = [th EXCEPT ![a] = x]
  BY <1>1, Zenon DEF CallTerminate, TypeInv
<1> HIDE DEF x
<1> QED
  BY <1>2, <1>3, SetKeeps, Zenon

\* The same of the return from Terminate.
LEMMA ReturnKeeps ==
    ASSUME TypeInv, NEW a \in Actors, NEW S, "idle" \notin S, "syncFix" \notin S, Return(a)
    PROVE  Keeps(S)
<1>1. th \in [Actors -> Locals] /\ th[a] \in Locals /\ th[a].r \in {"idle", "syncFix"}
  BY DEF TypeInv, TypeOK, Locals
<1>2. th'[a].pc \in {"idle", "syncFix"}
  <2>1. CASE th[a].r = "idle"
    BY <1>1, <2>1 DEF Return, Idle
  <2>2. CASE th[a].r = "syncFix"
    BY <1>1, <2>2 DEF Return, Locals
  <2> QED
    BY <1>1, <2>1, <2>2
<1>3. \A b \in Actors \ {a} : th'[b] = th[b]
  BY <1>1 DEF Return
<1> QED
  BY <1>2, <1>3 DEF Keeps

\* The same of leaving Sync, for the goroutine and for those it wakes.
LEMMA SyncLeaveKeeps ==
    ASSUME TypeInv, NEW a \in Actors, NEW ok, NEW S, SyncLeave(a, ok),
           {"idle", "book", "find", "freeze", "bgCheck", "syncWoken"} \cap S = {}
    PROVE  Keeps(S)
<1>1. th \in [Actors -> Locals] /\ th[a] \in Locals
      /\ th[a].k \in {"idle", "book", "find", "freeze", "bgCheck"}
  BY DEF TypeInv, TypeOK, Locals
<1> DEFINE k == IF ok \/ a = Bg THEN th[a].k ELSE "idle"
<1>2. k \in {"idle", "book", "find", "freeze", "bgCheck"}
  BY <1>1
<1>3. th'[a].pc = k
  <2>1. th'[a] = IF k = "idle" THEN Idle ELSE [th[a] EXCEPT !.pc = k]
    BY DEF SyncLeave
  <2> HIDE DEF k
  <2> QED
    BY <1>1, <2>1 DEF Idle, Locals
<1>4. ASSUME NEW b \in Actors \ {a}
      PROVE  th'[b] = th[b] \/ th'[b].pc = "syncWoken"
  <2>1. th'[b] = IF th[b].pc = "syncWait" THEN [th[b] EXCEPT !.pc = "syncWoken"] ELSE th[b]
    BY DEF SyncLeave
  <2> QED
    BY <1>1, <2>1 DEF Locals
<1> HIDE DEF k
<1> QED
  BY <1>2, <1>3, <1>4 DEF Keeps

\* Nobody moves, so nobody enters S.
LEMMA SameKeeps == ASSUME UNCHANGED th, NEW S PROVE Keeps(S)
  BY DEF Keeps

\* Points where Termination is held, or a controller is one's own.
Guarded == CtlPcs \cup {"termWait"}

\* Sync is in none of these sections.
LEMMA SyncKeeps ==
    ASSUME TypeInv, NEW a \in Actors, Sync(a)
    PROVE  Keeps(Guarded)
<1>0. /\ \A l \in {"idle", "book", "find", "freeze", "bgCheck", "syncWoken", "syncRead",
                   "syncWait", "syncEach", "syncFix", "syncSpawn", "term"} : l \notin Guarded
      /\ th[a].k \in {"idle", "book", "find", "freeze", "bgCheck"}
      /\ {"idle", "book", "find", "freeze", "bgCheck", "syncWoken"} \cap Guarded = {}
  BY DEF Guarded, CtlPcs, TypeInv, TypeOK, Locals
<1>1. CASE SyncEnter(a)
  BY <1>0, <1>1, GotoKeeps DEF SyncEnter
<1>2. CASE SyncWoken(a)
  BY <1>0, <1>2, GoOnKeeps DEF SyncWoken
<1>3. CASE SyncPanics(a)
  BY <1>3, SameKeeps DEF SyncPanics
<1>4. CASE SyncRead(a)
  BY <1>0, <1>4, GotoKeeps, SyncLeaveKeeps, Zenon DEF SyncRead
<1>5. CASE SyncList(a)
  BY <1>0, <1>5, GotoKeeps DEF SyncList
<1>6. ASSUME NEW c \in Controllers,
             SyncLaunch(a, c) \/ SyncAnswer(a, c) \/ ClearStale(a, c) \/ GiveUpSpare(a, c)
      PROVE  Keeps(Guarded)
  BY <1>0, <1>6, SameKeeps, CallTerminateKeeps DEF SyncLaunch, SyncAnswer, ClearStale, GiveUpSpare
<1>7. ASSUME NEW l \in {"syncSpawn", "syncFix"}, NEW c,
             th' = [th EXCEPT ![a].pc = l, ![a].t = c]
      PROVE  Keeps(Guarded)
  <2> DEFINE x == [th[a] EXCEPT !.pc = l, !.t = c]
  <2>1. th[a] \in Locals
    BY DEF TypeInv, TypeOK
  <2>2. x.pc = l /\ th' = [th EXCEPT ![a] = x]
    BY <1>7, <2>1, Zenon DEF Locals, TypeInv
  <2> HIDE DEF x
  <2> QED
    BY <1>0, <2>2, SetKeeps, Zenon
<1>8. CASE SpawnMissing(a)
  BY <1>0, <1>7, <1>8, SameKeeps, CallTerminateKeeps, Zenon DEF SpawnMissing
<1>9. CASE SpawnedMissing(a)
  BY <1>0, <1>7, <1>9, CallTerminateKeeps DEF SpawnedMissing
<1>10. CASE SyncDone(a)
  BY <1>0, <1>10, SyncLeaveKeeps, Zenon DEF SyncDone
<1> QED
  BY <1>1, <1>2, <1>3, <1>4, <1>5, <1>6, <1>8, <1>9, <1>10, Zenon DEF Sync

-----------------------------------------------------------------------------
(* Termination.                                                            *)

Held == HoldPcs \cup {"termWait"}

\* A step that changes no mutex and in which nobody enters a section.
LEMMA LockQuiet ==
    ASSUME TypeInv, LockInv, Keeps(Held), UNCHANGED term
    PROVE  LockInv'
<1>1. \A b \in Actors : th'[b].pc \in Held =>
        th'[b].pc = th[b].pc /\ th'[b].c = th[b].c /\ th'[b].t = th[b].t
  BY DEF Keeps
<1> QED
  BY <1>1 DEF LockInv, term, Held

\* Who enters no guarded point takes no lock.
LEMMA KeepsHeld == ASSUME Keeps(Guarded) PROVE Keeps(Held)
  BY DEF Keeps, Guarded, Held, HoldPcs, CtlPcs

\* a locks the Termination of its controller, or unlocks it and moves on.
LEMMA LockAcquire ==
    ASSUME TypeInv, LockInv, NEW a \in Actors, NEW l \in HoldPcs, th[a].c \in Controllers,
           tlock[th[a].c] = None, tlock' = [tlock EXCEPT ![th[a].c] = a], Goto(a, l),
           UNCHANGED <<terminating, closed>>
    PROVE  LockInv'
<1>1. /\ th'[a].pc = l /\ th'[a].c = th[a].c
      /\ \A b \in Actors \ {a} : th'[b] = th[b]
      /\ \A b \in Actors : b # None
      /\ l # "termWait"
  BY DEF TypeInv, TypeOK, Goto, Locals, Actors, HoldPcs
<1>2. \A c \in Controllers : tlock'[c] = IF c = th[a].c THEN a ELSE tlock[c]
  BY DEF TypeInv, TypeOK
<1>3. \A b \in Actors : th[b].pc = "termWait" => th[b].t \in Controllers
  BY LocalsFacts DEF TermPcs
<1>4. \A b \in Actors : th[b].pc \in HoldPcs => th[b].c \in Controllers
  BY LocalsFacts DEF HoldPcs, CtlPcs
<1>5. \A b \in Actors : th'[b].pc = "termWait" =>
        tlock'[th'[b].t] = b /\ th'[b].t \in terminating' /\ closed'[th'[b].t] = 0
  BY <1>1, <1>2, <1>3 DEF LockInv
<1>6. \A b \in Actors : th'[b].pc \in HoldPcs => tlock'[th'[b].c] = b
  BY <1>1, <1>2, <1>4, SMTT(40) DEF LockInv
<1> QED
  BY <1>5, <1>6 DEF LockInv

\* a unlocks the Termination of a controller, which it may have closed first.
LEMMA LockRelease ==
    ASSUME TypeInv, LockInv, NEW a \in Actors, NEW c \in Controllers, tlock[c] = a,
           tlock' = [tlock EXCEPT ![c] = None], Keeps(Held), th'[a].pc \notin Held,
           UNCHANGED terminating,
           \A k \in Controllers : closed'[k] = closed[k] \/ (k = c /\ closed'[k] = 1 /\ k \in terminating)
    PROVE  LockInv'
<1>1. \A k \in Controllers : tlock'[k] = IF k = c THEN None ELSE tlock[k]
  BY DEF TypeInv, TypeOK
<1>2. \A b \in Actors : th[b].pc = "termWait" => th[b].t \in Controllers
  BY LocalsFacts DEF TermPcs
<1>3. \A b \in Actors : th[b].pc \in HoldPcs => th[b].c \in Controllers
  BY LocalsFacts DEF HoldPcs, CtlPcs
<1>4. \A b \in Actors : th'[b].pc \in Held =>
        b # a /\ th'[b].pc = th[b].pc /\ th'[b].c = th[b].c /\ th'[b].t = th[b].t
  BY DEF Keeps
<1>5. ASSUME NEW b \in Actors, th'[b].pc = "termWait"
      PROVE  tlock'[th'[b].t] = b /\ th'[b].t \in terminating' /\ closed'[th'[b].t] = 0
  <2>1. b # a /\ th[b].pc = "termWait" /\ th'[b].t = th[b].t
    BY <1>4, <1>5 DEF Held
  <2>2. th[b].t \in Controllers /\ tlock[th[b].t] = b /\ th[b].t \in terminating
        /\ closed[th[b].t] = 0
    BY <1>2, <2>1, Zenon DEF LockInv
  <2> QED
    BY <1>1, <2>1, <2>2
<1>6. ASSUME NEW b \in Actors, th'[b].pc \in HoldPcs
      PROVE  tlock'[th'[b].c] = b
  <2>1. b # a /\ th[b].pc \in HoldPcs /\ th'[b].c = th[b].c
    BY <1>4, <1>6 DEF Held
  <2>2. th[b].c \in Controllers /\ tlock[th[b].c] = b
    BY <1>3, <2>1 DEF LockInv
  <2> QED
    BY <1>1, <2>1, <2>2
<1> QED
  BY <1>5, <1>6 DEF LockInv

\* The steps of Terminate keep the account of the locks.
LEMMA TerminateLocks ==
    ASSUME TypeInv, LockInv, NEW a \in Actors, Terminate(a)
    PROVE  LockInv'
<1>0. "idle" \notin Held /\ "syncFix" \notin Held /\ "termLock" \notin Held
  BY DEF Held, HoldPcs
<1>1. CASE TerminateGet(a)
  BY <1>0, <1>1, GotoKeeps, ReturnKeeps, LockQuiet DEF TerminateGet
<1>2. CASE TerminateLock(a)
  <2>1. CASE th[a].t \in terminating
    <3>1. Return(a) /\ UNCHANGED term
      BY <1>2, <2>1, Zenon DEF TerminateLock, term
    <3> QED
      BY <1>0, <3>1, ReturnKeeps, LockQuiet
  <2>2. CASE th[a].t \notin terminating
    <3>0. th[a].t \in Controllers
      BY <1>2, LocalsFacts, SMTT(40) DEF TerminateLock, At, TermPcs
    <3>1. /\ tlock[th[a].t] = None /\ tlock' = [tlock EXCEPT ![th[a].t] = a]
          /\ terminating' = terminating \cup {th[a].t} /\ closed' = closed
          /\ Goto(a, "termWait")
      BY <1>2, <2>2 DEF TerminateLock
    <3>2. /\ th'[a].pc = "termWait" /\ th'[a].t = th[a].t
          /\ \A b \in Actors \ {a} : th'[b] = th[b]
          /\ \A b \in Actors : b # None
          /\ "termWait" \notin HoldPcs
      BY <3>1, SMTT(40) DEF TypeInv, TypeOK, Goto, Locals, Actors, HoldPcs
    <3>3. \A c \in Controllers : tlock'[c] = IF c = th[a].t THEN a ELSE tlock[c]
      BY <3>1 DEF TypeInv, TypeOK
    <3>4. \A b \in Actors : th[b].pc = "termWait" => th[b].t \in Controllers
      BY LocalsFacts DEF TermPcs
    <3>5. \A b \in Actors : th[b].pc \in HoldPcs => th[b].c \in Controllers
      BY LocalsFacts, Zenon DEF HoldPcs, CtlPcs
    <3>6. \A b \in Actors : th'[b].pc = "termWait" =>
            tlock'[th'[b].t] = b /\ th'[b].t \in terminating' /\ closed'[th'[b].t] = 0
      BY <2>2, <3>0, <3>1, <3>2, <3>3, <3>4, SMTT(40) DEF LockInv
    <3>7. \A b \in Actors : th'[b].pc \in HoldPcs => tlock'[th'[b].c] = b
      BY <3>1, <3>2, <3>3, <3>5, SMTT(40) DEF LockInv
    <3> QED
      BY <3>1, <3>6, <3>7, Zenon DEF LockInv
  <2> QED
    BY <2>1, <2>2
<1>3. CASE TerminateWait(a)
  <2>1. /\ th[a].t \in Controllers /\ tlock[th[a].t] = a
        /\ th[a].t \in terminating /\ closed[th[a].t] = 0
    BY <1>3, LocalsFacts DEF TerminateWait, At, TermPcs, LockInv
  <2>2. /\ tlock' = [tlock EXCEPT ![th[a].t] = None] /\ UNCHANGED terminating
        /\ Return(a) /\ closed' = [closed EXCEPT ![th[a].t] = @ + 1]
    BY <1>3 DEF TerminateWait
  <2>3. th'[a].pc \notin Held
    <3>1. th[a] \in Locals /\ th \in [Actors -> Locals]
      BY DEF TypeInv, TypeOK
    <3>2. CASE th[a].r = "idle"
      BY <1>0, <2>2, <3>1, <3>2 DEF Return, Idle
    <3>3. CASE th[a].r = "syncFix"
      BY <1>0, <2>2, <3>1, <3>3, Zenon DEF Return, Locals
    <3> QED
      BY <3>1, <3>2, <3>3 DEF Locals
  <2>4. \A k \in Controllers : closed'[k] = closed[k]
                                 \/ (k = th[a].t /\ closed'[k] = 1 /\ k \in terminating)
    BY <2>1, <2>2 DEF TypeInv, TypeOK
  <2> QED
    BY <1>0, <2>1, <2>2, <2>3, <2>4, ReturnKeeps, LockRelease, ZenonT(60)
<1> QED
  BY <1>1, <1>2, <1>3 DEF Terminate

\* Locals of an actor's own are set on the way to l.
LEMMA OwnKeeps ==
    ASSUME TypeInv, NEW a \in Actors, NEW l, NEW S, l \notin S, NEW c,
           NEW C \in SUBSET Controllers,
           \/ th' = [th EXCEPT ![a].pc = l, ![a].cand = C]
           \/ th' = [th EXCEPT ![a].pc = l, ![a].c = c]
           \/ th' = [th EXCEPT ![a].pc = l, ![a].c = c, ![a].cand = C]
    PROVE  Keeps(S)
<1>0. th[a] \in Locals
  BY DEF TypeInv, TypeOK
<1>1. CASE th' = [th EXCEPT ![a].pc = l, ![a].cand = C]
  <2> DEFINE x == [th[a] EXCEPT !.pc = l, !.cand = C]
  <2>1. x.pc = l /\ th' = [th EXCEPT ![a] = x]
    BY <1>0, <1>1, Zenon DEF Locals, TypeInv
  <2> HIDE DEF x
  <2> QED
    BY <2>1, SetKeeps, Zenon
<1>2. CASE th' = [th EXCEPT ![a].pc = l, ![a].c = c]
  <2> DEFINE x == [th[a] EXCEPT !.pc = l, !.c = c]
  <2>1. x.pc = l /\ th' = [th EXCEPT ![a] = x]
    BY <1>0, <1>2, Zenon DEF Locals, TypeInv
  <2> HIDE DEF x
  <2> QED
    BY <2>1, SetKeeps, Zenon
<1>3. CASE th' = [th EXCEPT ![a].pc = l, ![a].c = c, ![a].cand = C]
  <2> DEFINE x == [th[a] EXCEPT !.pc = l, !.c = c, !.cand = C]
  <2>1. x.pc = l /\ th' = [th EXCEPT ![a] = x]
    BY <1>0, <1>3, Zenon DEF Locals, TypeInv
  <2> HIDE DEF x
  <2> QED
    BY <2>1, SetKeeps, Zenon
<1> QED
  BY <1>1, <1>2, <1>3

\* A candidate that is not free any more is dropped.
LEMMA DropKeeps ==
    ASSUME TypeInv, NEW a \in Actors, NEW C, NEW S, th' = [th EXCEPT ![a].cand = C]
    PROVE  Keeps(S)
<1>1. th \in [Actors -> Locals]
  BY DEF TypeInv, TypeOK
<1>2. th'[a].pc = th[a].pc /\ th'[a].c = th[a].c /\ th'[a].t = th[a].t
  BY <1>1 DEF Locals
<1>3. \A b \in Actors \ {a} : th'[b] = th[b]
  BY <1>1
<1> QED
  BY <1>2, <1>3 DEF Keeps

\* The steps of run and restore keep the account of the locks.
LEMMA RunLocks ==
    ASSUME TypeInv, LockInv, NEW a \in Actors, Run(a)
    PROVE  LockInv'
<1>0. /\ \A l \in {"idle", "term", "tryBook", "spawned", "launch", "restoreLock", "started",
                   "attach"} : l \notin Held
      /\ th[a].pc \in CtlPcs => th[a].c \in Controllers
      /\ Free \in SUBSET Controllers
      /\ th \in [Actors -> Locals] /\ th[a] \in Locals
  BY LocalsFacts DEF Held, HoldPcs, Free, TypeInv, TypeOK
<1>1. CASE BookList(a)
  <2>1. PICK C \in SUBSET Controllers : C = Free
    BY <1>0
  <2>2. th' = [th EXCEPT ![a].pc = "tryBook", ![a].cand = C]
    BY <1>1, <2>1, SMTT(40) DEF BookList
  <2>3. Keeps(Held)
    BY <1>0, <2>2, OwnKeeps, Zenon
  <2> QED
    BY <1>1, <2>3, LockQuiet DEF BookList
<1>2. CASE TryBook(a)
  <2>1. PICK c \in th[a].cand :
           \/ th' = [th EXCEPT ![a].pc = "launch", ![a].c = c, ![a].cand = {}]
           \/ th' = [th EXCEPT ![a].cand = @ \ {c}]
    BY <1>2, Zenon DEF TryBook
  <2>2. Keeps(Held)
    <3>1. CASE th' = [th EXCEPT ![a].pc = "launch", ![a].c = c, ![a].cand = {}]
      <4>1. {} \in SUBSET Controllers
        OBVIOUS
      <4> QED
        BY <1>0, <3>1, <4>1, OwnKeeps, Zenon
    <3>2. CASE th' = [th EXCEPT ![a].cand = @ \ {c}]
      <4>1. th' = [th EXCEPT ![a].cand = th[a].cand \ {c}]
        BY <3>2
      <4> QED
        BY <4>1, DropKeeps, Zenon
    <3> QED
      BY <2>1, <3>1, <3>2, SMTT(40)
  <2> QED
    BY <1>2, <2>2, LockQuiet, SMTT(40) DEF TryBook
<1>3. CASE SpawnOwn(a)
  <2>1. ASSUME NEW c \in Controllers, th' = [th EXCEPT ![a].pc = "spawned", ![a].c = c]
        PROVE  Keeps(Held)
    <3>1. {} \in SUBSET Controllers
      OBVIOUS
    <3> QED
      BY <1>0, <2>1, <3>1, OwnKeeps, Zenon
  <2>2. Keeps(Held)
    BY <1>0, <1>3, <2>1, CallTerminateKeeps, GoOnKeeps, Zenon DEF SpawnOwn
  <2> QED
    BY <1>3, <2>2, LockQuiet DEF SpawnOwn
<1>4. CASE SpawnedOwn(a)
  BY <1>0, <1>4, GotoKeeps, CallTerminateKeeps, LockQuiet DEF SpawnedOwn
<1>5. CASE Launch(a)
  BY <1>0, <1>5, GotoKeeps, CallTerminateKeeps, LockQuiet, Zenon DEF Launch
<1>6. CASE RestoreGet(a)
  BY <1>0, <1>6, GotoKeeps, CallTerminateKeeps, LockQuiet, SMTT(40) DEF RestoreGet
<1>7. CASE RestoreLock(a)
  <2>1. th[a].c \in Controllers /\ "restore" \in HoldPcs
    BY <1>0, <1>7, Zenon DEF RestoreLock, At, CtlPcs, HoldPcs
  <2> QED
    BY <1>7, <2>1, LockAcquire, Zenon DEF RestoreLock
<1>8. CASE Restore(a)
  <2>1. th[a].c \in Controllers /\ tlock[th[a].c] = a
    BY <1>0, <1>8 DEF Restore, At, CtlPcs, HoldPcs, LockInv
  <2>2. CASE UNCHANGED th /\ UNCHANGED tlock
    BY <1>8, <2>2, SameKeeps, LockQuiet, SMTT(40) DEF Restore, term
  <2>3. CASE tlock' = [tlock EXCEPT ![th[a].c] = None] /\ Goto(a, "started")
    <3>1. th'[a].pc = "started"
      BY <1>0, <2>3 DEF Goto, Locals
    <3> QED
      <4>1. Keeps(Held) /\ th'[a].pc \notin Held
        BY <1>0, <2>3, <3>1, GotoKeeps
      <4>2. UNCHANGED terminating /\ \A k \in Controllers : closed'[k] = closed[k]
        BY <1>8 DEF Restore
      <4> QED
        BY <2>1, <2>3, <4>1, <4>2, LockRelease, Zenon
  <2>4. CASE tlock' = [tlock EXCEPT ![th[a].c] = None] /\ CallTerminate(a, th[a].c, "idle")
    <3>1. th'[a].pc = "term"
      <4> DEFINE x == [th[a] EXCEPT !.pc = "term", !.t = th[a].c, !.r = "idle"]
      <4>1. x.pc = "term"
        BY <1>0 DEF Locals
      <4>2. th' = [th EXCEPT ![a] = x]
        BY <1>0, <2>4, Zenon DEF CallTerminate
      <4> HIDE DEF x
      <4> QED
        BY <1>0, <4>1, <4>2
    <3> QED
      <4>1. Keeps(Held) /\ th'[a].pc \notin Held
        BY <1>0, <2>4, <3>1, CallTerminateKeeps
      <4>2. UNCHANGED terminating /\ \A k \in Controllers : closed'[k] = closed[k]
        BY <1>8 DEF Restore
      <4> QED
        BY <2>1, <2>4, <4>1, <4>2, LockRelease, Zenon
  <2> QED
    BY <1>8, <2>2, <2>3, <2>4 DEF Restore
<1>9. CASE AttachSelect(a)
  BY <1>0, <1>9, GotoKeeps, CallTerminateKeeps, LockQuiet DEF AttachSelect
<1>10. CASE AttachRPC(a)
  BY <1>0, <1>10, GoOnKeeps, CallTerminateKeeps, SameKeeps, LockQuiet DEF AttachRPC
<1> QED
  BY <1>1, <1>2, <1>3, <1>4, <1>5, <1>6, <1>7, <1>8, <1>9, <1>10, Zenon DEF Run

\* What CRIU's run changes: the dumper goes on to FinalizeDump, and the job may exit.
LEMMA CRIULocals ==
    ASSUME TypeInv, NEW a \in Actors, DumpCRIU(a), a \notin PIDs
    PROVE  /\ th'[a].pc = "final" /\ th'[a].c = th[a].c
           /\ \A b \in Actors \ {a} : th'[b] = th[b] \/ th'[b].pc = "detach"
<1>1. th \in [Actors -> Locals] /\ th[a] \in Locals
  BY DEF TypeInv, TypeOK
<1>2. PICK dump \in {"early", "failed", "left", "killed"} :
        LET thr == [th EXCEPT ![a].pc = "final", ![a].dump = dump] IN
        th' = thr \/ \E p \in PIDs : th' = [thr EXCEPT ![p].pc = "detach"]
  BY Zenon DEF DumpCRIU, Exits, TypeInv, TypeOK
<1> DEFINE thr == [th EXCEPT ![a].pc = "final", ![a].dump = dump]
<1>3. thr[a].pc = "final" /\ thr[a].c = th[a].c
  BY <1>1 DEF Locals
<1>4. \A b \in Actors \ {a} : thr[b] = th[b]
  BY <1>1
<1>5. thr \in [Actors -> Locals]
  <2> DEFINE x == [th[a] EXCEPT !.pc = "final", !.dump = dump]
  <2>1. "final" \in Pcs
    BY DEF Pcs
  <2>2. x \in Locals
    BY <1>1, <2>1, Zenon DEF Locals
  <2>3. thr = [th EXCEPT ![a] = x]
    BY <1>1, Zenon
  <2> HIDE DEF x, thr
  <2> QED
    BY <1>1, <2>2, <2>3
<1> HIDE DEF thr
<1>6. CASE th' = thr
  BY <1>3, <1>4, <1>6
<1>7. ASSUME NEW p \in PIDs, th' = [thr EXCEPT ![p].pc = "detach"]
      PROVE  /\ th'[a] = thr[a]
             /\ \A b \in Actors \ {a} : th'[b] = thr[b] \/ th'[b].pc = "detach"
  <2>1. p # a /\ p \in Actors /\ thr[p] \in Locals
    BY <1>5 DEF Actors
  <2>2. th'[p].pc = "detach"
    BY <1>5, <1>7, <2>1 DEF Locals
  <2> QED
    BY <1>5, <1>7, <2>1, <2>2
<1> QED
  BY <1>2, <1>3, <1>4, <1>6, <1>7, Zenon DEF thr

\* The steps of a dump's callbacks keep the account of the locks.
LEMMA DumpLocks ==
    ASSUME TypeInv, LockInv, NEW a \in Dumpers, Dump(a)
    PROVE  LockInv'
<1>0. /\ \A l \in {"idle", "dumpGet", "dumpLock", "detach"} : l \notin Held
      /\ a \in Actors /\ a \notin PIDs
      /\ th[a].pc \in CtlPcs => th[a].c \in Controllers
      /\ th \in [Actors -> Locals] /\ th[a] \in Locals
  BY LocalsFacts, Zenon DEF Held, HoldPcs, TypeInv, TypeOK, Actors
<1>1. CASE DumpFind(a)
  <2>1. ASSUME NEW c, th' = [th EXCEPT ![a].pc = "dumpGet", ![a].c = c]
        PROVE  Keeps(Held)
    <3>1. {} \in SUBSET Controllers
      OBVIOUS
    <3> QED
      BY <1>0, <2>1, <3>1, OwnKeeps, Zenon
  <2>2. Keeps(Held)
    BY <1>0, <1>1, <2>1, GoOnKeeps, Zenon DEF DumpFind
  <2> QED
    BY <1>1, <2>2, LockQuiet, SMTT(40) DEF DumpFind
<1>2. CASE DumpGet(a)
  <2>1. GoOn(a, "idle") \/ GoOn(a, "dumpLock")
    BY <1>2, SMTT(40) DEF DumpGet
  <2> QED
    BY <1>0, <1>2, <2>1, GoOnKeeps, LockQuiet, Zenon DEF DumpGet
<1>3. CASE DumpLock(a)
  <2>1. th[a].c \in Controllers /\ "dumpFreeze" \in HoldPcs
    BY <1>0, <1>3 DEF DumpLock, At, CtlPcs, HoldPcs
  <2> QED
    BY <1>0, <1>3, <2>1, LockAcquire, Zenon DEF DumpLock
<1>4. CASE DumpFreeze(a)
  <2>1. UNCHANGED term
    BY <1>4, Zenon DEF DumpFreeze
  <2>2. CASE Goto(a, "criu")
    <3>1. th'[a].pc = "criu" /\ th'[a].c = th[a].c /\ \A b \in Actors \ {a} : th'[b] = th[b]
      BY <1>0, <2>2 DEF Goto, Locals
    <3>2. tlock[th[a].c] = a /\ "criu" # "termWait"
      BY <1>0, <1>4 DEF DumpFreeze, At, HoldPcs, LockInv
    <3> QED
      BY <2>1, <3>1, <3>2 DEF LockInv, term
  <2>3. CASE GoOn(a, "idle")
    BY <1>0, <2>1, <2>3, GoOnKeeps, LockQuiet
  <2>4. CASE UNCHANGED th
    BY <2>1, <2>4, SameKeeps, LockQuiet
  <2> QED
    BY <1>4, <2>2, <2>3, <2>4 DEF DumpFreeze
<1>5. CASE DumpCRIU(a)
  <2>1. UNCHANGED term
    BY <1>5 DEF DumpCRIU
  <2>2. /\ th'[a].pc = "final" /\ th'[a].c = th[a].c
        /\ \A b \in Actors \ {a} : th'[b] = th[b] \/ th'[b].pc = "detach"
    BY <1>0, <1>5, CRIULocals
  <2>3. tlock[th[a].c] = a
    BY <1>0, <1>5 DEF DumpCRIU, At, HoldPcs, LockInv
  <2> QED
    BY <2>1, <2>2, <2>3 DEF LockInv, term, HoldPcs
<1>6. CASE DumpFinalize(a)
  <2>1. th[a].c \in Controllers /\ tlock[th[a].c] = a
    BY <1>0, <1>6 DEF DumpFinalize, At, CtlPcs, HoldPcs, LockInv
  <2>2. CASE UNCHANGED <<th, tlock>>
    BY <1>6, <2>2, SameKeeps, LockQuiet, SMTT(40) DEF DumpFinalize, term
  <2>3. CASE tlock' = [tlock EXCEPT ![th[a].c] = None] /\ GoOn(a, "idle")
    <3>1. th'[a].pc = "idle"
      BY <1>0, <2>3 DEF GoOn, Idle
    <3>2. Keeps(Held) /\ th'[a].pc \notin Held
      BY <1>0, <2>3, <3>1, GoOnKeeps
    <3>3. UNCHANGED terminating /\ \A k \in Controllers : closed'[k] = closed[k]
      BY <1>6 DEF DumpFinalize
    <3> QED
      BY <1>0, <2>1, <2>3, <3>2, <3>3, LockRelease, Zenon
  <2> QED
    BY <1>6, <2>2, <2>3 DEF DumpFinalize
<1>7. CASE FreezeRPC(a)
  BY <1>0, <1>7, GoOnKeeps, SameKeeps, LockQuiet DEF FreezeRPC
<1> QED
  BY <1>1, <1>2, <1>3, <1>4, <1>5, <1>6, <1>7, SMTT(40) DEF Dump

\* A request, a tick or the shutdown sets locals on the way to a Sync.
LEMMA RequestKeeps ==
    ASSUME TypeInv, NEW a \in Actors, NEW k, NEW p, NEW S,
           NEW l, l \notin S,
           \/ th' = [th EXCEPT ![a].pc = l, ![a].k = k, ![a].p = p]
           \/ th' = [th EXCEPT ![a].pc = l, ![a].k = k]
    PROVE  Keeps(S)
<1>0. th[a] \in Locals
  BY DEF TypeInv, TypeOK
<1>1. CASE th' = [th EXCEPT ![a].pc = l, ![a].k = k, ![a].p = p]
  <2> DEFINE x == [th[a] EXCEPT !.pc = l, !.k = k, !.p = p]
  <2>1. x.pc = l
    BY <1>0, Zenon DEF Locals
  <2>2. th' = [th EXCEPT ![a] = x]
    BY <1>0, <1>1, Zenon DEF TypeInv
  <2> HIDE DEF x
  <2> QED
    BY <2>1, <2>2, SetKeeps, Zenon
<1>2. CASE th' = [th EXCEPT ![a].pc = l, ![a].k = k]
  <2> DEFINE x == [th[a] EXCEPT !.pc = l, !.k = k]
  <2>1. x.pc = l
    BY <1>0, Zenon DEF Locals
  <2>2. th' = [th EXCEPT ![a] = x]
    BY <1>0, <1>2, Zenon DEF TypeInv
  <2> HIDE DEF x
  <2> QED
    BY <2>1, <2>2, SetKeeps, Zenon
<1> QED
  BY <1>1, <1>2

\* The steps that are neither a Terminate, a Run nor a Dump.
OtherStep ==
    \/ \E a \in Actors : Sync(a)
    \/ \E p \in PIDs : Detach(p) \/ JobConnects(p) \/ JobExits(p)
    \/ BgStop \/ BgCheck \/ BgTimeout \/ BgTick \/ Shutdown \/ Exit
    \/ \E a \in Runners, p \in PIDs : RunRequest(a, p)
    \/ \E d \in Dumpers, p \in PIDs : DumpRequest(d, p)
    \/ \E c \in Controllers : ControllerDies(c)

\* A step is one of Terminate, of run or restore, of a dump, or one that takes no lock.
LEMMA NextCases ==
    ASSUME Next
    PROVE  \/ \E a \in Actors : Terminate(a)
           \/ \E a \in Runners : Run(a)
           \/ \E a \in Dumpers : Dump(a)
           \/ OtherStep
  BY Zenon DEF Next, Step, OtherStep

\* The other steps enter no guarded point and leave Terminate's state alone.
LEMMA OtherKeeps ==
    ASSUME TypeInv, OtherStep
    PROVE  Keeps(Guarded) /\ UNCHANGED term
<1>0. /\ \A l \in {"idle", "term", "sync", "detach", "exited", "bgAgain"} : l \notin Guarded
      /\ Bg \in Actors /\ PIDs \subseteq Actors /\ Runners \subseteq Actors
      /\ Dumpers \subseteq Actors
  BY DEF Guarded, CtlPcs, Actors
<1>1. ASSUME NEW a \in Actors, Sync(a)
      PROVE  Keeps(Guarded) /\ UNCHANGED term
  BY <1>1, SyncKeeps, ZenonT(60) DEF Sync, SyncEnter, SyncWoken, SyncPanics, SyncRead, SyncList, SyncLaunch, SyncAnswer,
      ClearStale, GiveUpSpare, SpawnMissing, SpawnedMissing, SyncDone
<1>2. ASSUME NEW p \in PIDs, Detach(p)
      PROVE  Keeps(Guarded) /\ UNCHANGED term
  BY <1>0, <1>2, GoOnKeeps, CallTerminateKeeps DEF Detach
<1>3. ASSUME NEW p \in PIDs, JobConnects(p) \/ JobExits(p)
      PROVE  Keeps(Guarded) /\ UNCHANGED term
  <2>1. UNCHANGED term /\ (UNCHANGED th \/ Goto(p, "detach"))
    BY <1>3 DEF JobConnects, JobExits, Exits, Goto
  <2> QED
    BY <1>0, <2>1, SameKeeps, GotoKeeps
<1>4. ASSUME BgStop \/ BgCheck \/ BgTimeout \/ BgTick \/ Shutdown \/ Exit
      PROVE  Keeps(Guarded) /\ UNCHANGED term
  <2>1. ASSUME BgStop PROVE Keeps(Guarded) /\ UNCHANGED term
    BY <1>0, <2>1, RequestKeeps, Zenon DEF BgStop
  <2>2. ASSUME BgCheck PROVE Keeps(Guarded) /\ UNCHANGED term
    <3>1. Goto(Bg, "exited") \/ Goto(Bg, "bgAgain")
      BY <2>2 DEF BgCheck
    <3> QED
      BY <1>0, <2>2, <3>1, GotoKeeps DEF BgCheck
  <2>3. ASSUME BgTimeout \/ BgTick PROVE Keeps(Guarded) /\ UNCHANGED term
    BY <1>0, <2>3, GotoKeeps, Zenon DEF BgTimeout, BgTick
  <2>4. ASSUME Shutdown \/ Exit PROVE Keeps(Guarded) /\ UNCHANGED term
    BY <2>4, SameKeeps, SMTT(40) DEF Shutdown, Exit
  <2> QED
    BY <1>4, <2>1, <2>2, <2>3, <2>4, SMTT(40)
<1>5. ASSUME NEW a \in Runners, NEW p \in PIDs, RunRequest(a, p)
      PROVE  Keeps(Guarded) /\ UNCHANGED term
  BY <1>0, <1>5, RequestKeeps, ZenonT(60) DEF RunRequest
<1>6. ASSUME NEW d \in Dumpers, NEW p \in PIDs, DumpRequest(d, p)
      PROVE  Keeps(Guarded) /\ UNCHANGED term
  BY <1>0, <1>6, RequestKeeps, Zenon DEF DumpRequest
<1>7. ASSUME NEW c \in Controllers, ControllerDies(c)
      PROVE  Keeps(Guarded) /\ UNCHANGED term
  BY <1>7, SameKeeps DEF ControllerDies
<1> QED
  BY <1>1, <1>2, <1>3, <1>4, <1>5, <1>6, <1>7, Zenon DEF OtherStep

\* Every step keeps the account of the locks.
LEMMA LockNext ==
    ASSUME TypeInv, LockInv, [Next]_vars
    PROVE  LockInv'
<1>1. CASE Next
  <2>1. CASE OtherStep
    BY <2>1, OtherKeeps, KeepsHeld, LockQuiet
  <2> QED
    BY <1>1, <2>1, NextCases, TerminateLocks, RunLocks, DumpLocks DEF Actors
<1>2. CASE UNCHANGED vars
  BY <1>2, SameKeeps, LockQuiet, SMTT(40) DEF vars
<1> QED
  BY <1>1, <1>2

-----------------------------------------------------------------------------
(* Files.                                                                  *)

DumpPcs == {"dumpLock", "dumpFreeze", "criu", "final"}

\* No controller loses its files, unless it is being terminated.
CtlKept ==
    \A c \in Controllers \ terminating : (ctl[c].sock => ctl'[c].sock) /\ Sane(ctl'[c])

\* A step in which at most a comes to a point with a controller of its own.
LEMMA FileStep ==
    ASSUME TypeInv, FileInv, NEW a \in Actors, UNCHANGED terminating,
           pool \ terminating \subseteq pool', CtlKept,
           \A b \in Actors \ {a} : th'[b] = th[b] \/ th'[b].pc \notin CtlPcs,
           th'[a].pc \in CtlPcs => ctl'[th'[a].c].sock \/ th'[a].c \in terminating,
           th'[a].pc \in DumpPcs => th'[a].c \in pool' \cup terminating,
           th'[a].pc \in {"criu", "final"} => th'[a].c \notin terminating
    PROVE  FileInv'
<1>1. \A b \in Actors : th[b].pc \in CtlPcs => th[b].c \in Controllers
  BY LocalsFacts, ZenonT(60)
<1>2. DumpPcs \subseteq CtlPcs /\ "criu" \in DumpPcs /\ "final" \in DumpPcs
  BY DEF DumpPcs, CtlPcs
<1>3. \A b \in Actors : th'[b].pc \in DumpPcs => th'[b].c \in pool' \cup terminating'
  BY <1>2 DEF FileInv, DumpPcs
<1>4. ASSUME NEW b \in Actors, th'[b].pc \in CtlPcs
      PROVE  ctl'[th'[b].c].sock \/ th'[b].c \in terminating'
  <2>1. CASE b = a
    BY <1>4, <2>1, Zenon
  <2>2. CASE b # a
    <3>1. th'[b] = th[b] /\ th[b].pc \in CtlPcs /\ th[b].c \in Controllers
      BY <1>1, <1>4, <2>2, Zenon
    <3>2. CASE th[b].c \in terminating
      BY <3>1, <3>2, Zenon
    <3>3. CASE th[b].c \notin terminating
      <4>1. ctl[th[b].c].sock
        BY <3>1, <3>3, Zenon DEF FileInv
      <4> QED
        BY <3>1, <3>3, <4>1, Zenon DEF CtlKept
    <3> QED
      BY <3>2, <3>3
  <2> QED
    BY <2>1, <2>2
<1>5. \A b \in Actors : th'[b].pc \in {"criu", "final"} => th'[b].c \notin terminating'
  BY <1>2 DEF FileInv
<1>6. \A c \in Controllers \ terminating' : Sane(ctl'[c])
  BY SMTT(40), Zenon DEF CtlKept
<1> QED
  BY <1>3, <1>4, <1>5, <1>6, Zenon DEF FileInv, DumpPcs

\* Nobody does.
LEMMA FileQuiet ==
    ASSUME TypeInv, FileInv, UNCHANGED terminating, pool \ terminating \subseteq pool',
           CtlKept, Keeps(CtlPcs)
    PROVE  FileInv'
<1>1. \A b \in Actors : th[b].pc \in CtlPcs => th[b].c \in Controllers
  BY LocalsFacts
<1>2. DumpPcs \subseteq CtlPcs /\ "criu" \in DumpPcs /\ "final" \in DumpPcs
  BY DEF DumpPcs, CtlPcs
<1>3. \A b \in Actors : th'[b].pc \in CtlPcs => th'[b].pc = th[b].pc /\ th'[b].c = th[b].c
  BY DEF Keeps
<1>4. \A b \in Actors : th'[b].pc \in DumpPcs => th'[b].c \in pool' \cup terminating'
  BY <1>2, <1>3, SMTT(40) DEF FileInv, DumpPcs
<1>5. ASSUME NEW b \in Actors, th'[b].pc \in CtlPcs
      PROVE  ctl'[th'[b].c].sock \/ th'[b].c \in terminating'
  <2>1. th'[b].c = th[b].c /\ th[b].pc \in CtlPcs /\ th[b].c \in Controllers
    BY <1>1, <1>3, <1>5, SMTT(40)
  <2>2. ctl[th[b].c].sock \/ th[b].c \in terminating
    BY <2>1 DEF FileInv
  <2> QED
    BY <2>1, <2>2, ZenonT(60) DEF CtlKept
<1>6. \A b \in Actors : th'[b].pc \in {"criu", "final"} => th'[b].c \notin terminating'
  BY <1>2, <1>3, SMTT(40) DEF FileInv
<1>7. \A c \in Controllers \ terminating' : Sane(ctl'[c])
  BY DEF CtlKept
<1> QED
  BY <1>4, <1>5, <1>6, <1>7 DEF FileInv, DumpPcs, Sane

\* Who enters no guarded point makes no controller its own.
LEMMA KeepsCtl == ASSUME Keeps(Guarded) PROVE Keeps(CtlPcs)
  BY DEF Keeps, Guarded

\* What a change of one controller must respect.
LEMMA SetKept ==
    ASSUME TypeInv, FileInv, NEW c \in Controllers, NEW x, ctl' = [ctl EXCEPT ![c] = x],
           c \notin terminating => (ctl[c].sock => x.sock) /\ Sane(x)
    PROVE  CtlKept
<1>1. ctl'[c] = x /\ \A k \in Controllers \ {c} : ctl'[k] = ctl[k]
  BY DEF TypeInv, TypeOK
<1>2. ASSUME NEW k \in Controllers \ terminating
      PROVE  (ctl[k].sock => ctl'[k].sock) /\ Sane(ctl'[k])
  <2>1. CASE k = c
    BY <1>1, <2>1, Zenon
  <2>2. CASE k # c
    BY <1>1, <2>2, Zenon DEF FileInv
  <2> QED
    BY <2>1, <2>2
<1> QED
  BY <1>2 DEF CtlKept

\* Unchanged controllers keep their files.
LEMMA SameKept ==
    ASSUME FileInv, UNCHANGED ctl
    PROVE  CtlKept
  BY DEF FileInv, CtlKept, Sane

\* Changes that have nothing to do with the files.
LEMMA FieldsKept ==
    ASSUME TypeInv, FileInv, NEW c \in Controllers, NEW x \in Controller,
           ctl' = [ctl EXCEPT ![c] = x],
           x.sock = ctl[c].sock, x.known = ctl[c].known,
           x.proc = ctl[c].proc \/ x.proc = "dead",
           x.apid \in {None, ctl[c].apid}, x.ext = ctl[c].ext
    PROVE  CtlKept
<1>1. c \notin terminating => Sane(ctl[c])
  BY Zenon DEF FileInv
<1>2. c \notin terminating => (ctl[c].sock => x.sock) /\ Sane(x)
  BY <1>1 DEF Sane
<1> QED
  BY <1>2, SetKept, Zenon

\* Booking leaves the files alone.
LEMMA BookedKept ==
    ASSUME TypeInv, FileInv, NEW c \in Controllers, NEW b \in BOOLEAN,
           ctl' = [ctl EXCEPT ![c].booked = b]
    PROVE  CtlKept
<1> DEFINE x == [ctl[c] EXCEPT !.booked = b]
<1>1. ctl[c] \in Controller
  BY DEF TypeInv, TypeOK
<1>2. x \in Controller
  BY <1>1, Zenon DEF Controller
<1>3. /\ x.sock = ctl[c].sock /\ x.known = ctl[c].known
      /\ x.proc = ctl[c].proc
      /\ x.apid = ctl[c].apid /\ x.ext = ctl[c].ext
  BY <1>1, Zenon DEF Controller
<1>4. ctl' = [ctl EXCEPT ![c] = x]
  BY <1>1 DEF TypeInv, TypeOK
<1> HIDE DEF x
<1> QED
  BY <1>2, <1>3, <1>4, FieldsKept, Zenon

\* Freezing leaves the files alone.
LEMMA FrozenKept ==
    ASSUME TypeInv, FileInv, NEW c \in Controllers, NEW b \in BOOLEAN,
           ctl' = [ctl EXCEPT ![c].frozen = b]
    PROVE  CtlKept
<1> DEFINE x == [ctl[c] EXCEPT !.frozen = b]
<1>1. ctl[c] \in Controller
  BY DEF TypeInv, TypeOK
<1>2. x \in Controller
  BY <1>1, Zenon DEF Controller
<1>3. /\ x.sock = ctl[c].sock /\ x.known = ctl[c].known
      /\ x.proc = ctl[c].proc
      /\ x.apid = ctl[c].apid /\ x.ext = ctl[c].ext
  BY <1>1, Zenon DEF Controller
<1>4. ctl' = [ctl EXCEPT ![c] = x]
  BY <1>1 DEF TypeInv, TypeOK
<1> HIDE DEF x
<1> QED
  BY <1>2, <1>3, <1>4, FieldsKept, Zenon

\* Counting failed Syncs leaves the files alone.
LEMMA FailsKept ==
    ASSUME TypeInv, FileInv, NEW c \in Controllers, NEW n \in 0..MaxSyncFails,
           ctl' = [ctl EXCEPT ![c].fails = n]
    PROVE  CtlKept
<1> DEFINE x == [ctl[c] EXCEPT !.fails = n]
<1>1. ctl[c] \in Controller
  BY DEF TypeInv, TypeOK
<1>2. x \in Controller
  BY <1>1, Zenon DEF Controller
<1>3. /\ x.sock = ctl[c].sock /\ x.known = ctl[c].known
      /\ x.proc = ctl[c].proc
      /\ x.apid = ctl[c].apid /\ x.ext = ctl[c].ext
  BY <1>1, Zenon DEF Controller
<1>4. ctl' = [ctl EXCEPT ![c] = x]
  BY <1>1 DEF TypeInv, TypeOK
<1> HIDE DEF x
<1> QED
  BY <1>2, <1>3, <1>4, FieldsKept, Zenon

\* The death of a controller's process leaves its files alone.
LEMMA DeadKept ==
    ASSUME TypeInv, FileInv, NEW c \in Controllers, NEW pr \in {"dead"},
           ctl' = [ctl EXCEPT ![c].proc = pr]
    PROVE  CtlKept
<1> DEFINE x == [ctl[c] EXCEPT !.proc = pr]
<1>1. ctl[c] \in Controller
  BY DEF TypeInv, TypeOK
<1>2. x \in Controller
  BY <1>1, Zenon DEF Controller
<1>3. /\ x.sock = ctl[c].sock /\ x.known = ctl[c].known
      /\ x.proc = pr
      /\ x.apid = ctl[c].apid /\ x.ext = ctl[c].ext
  BY <1>1, Zenon DEF Controller
<1>4. ctl' = [ctl EXCEPT ![c] = x]
  BY <1>1 DEF TypeInv, TypeOK
<1> HIDE DEF x
<1> QED
  BY <1>2, <1>3, <1>4, FieldsKept, Zenon

\* A controller that has its files may be given a job.
LEMMA ApidKept ==
    ASSUME TypeInv, FileInv, NEW c \in Controllers, NEW q \in PIDs \cup {None},
           q = None \/ ctl[c].sock \/ c \in terminating,
           ctl' = [ctl EXCEPT ![c].apid = q]
    PROVE  CtlKept
<1> DEFINE x == [ctl[c] EXCEPT !.apid = q]
<1>1. ctl[c] \in Controller
  BY DEF TypeInv, TypeOK
<1>2. /\ x.sock = ctl[c].sock /\ x.known = ctl[c].known /\ x.proc = ctl[c].proc
      /\ x.apid \in {q, ctl[c].apid} /\ x.ext \in {q, ctl[c].ext}
  BY <1>1, Zenon DEF Controller
<1>3. ctl' = [ctl EXCEPT ![c] = x]
  BY <1>1 DEF TypeInv, TypeOK
<1>4. c \notin terminating => Sane(ctl[c])
  BY DEF FileInv
<1> HIDE DEF x
<1>5. c \notin terminating => (ctl[c].sock => x.sock) /\ Sane(x)
  BY <1>2, <1>4 DEF Sane
<1> QED
  BY <1>3, <1>5, SetKept, Zenon

\* So does an attachment as the controller sees it, if the controller is there.
LEMMA ExtKept ==
    ASSUME TypeInv, FileInv, NEW c \in Controllers, NEW q \in PIDs \cup {None},
           q = None \/ ctl[c].sock \/ c \in terminating,
           ctl' = [ctl EXCEPT ![c].ext = q]
    PROVE  CtlKept
<1> DEFINE x == [ctl[c] EXCEPT !.ext = q]
<1>1. ctl[c] \in Controller
  BY DEF TypeInv, TypeOK
<1>2. /\ x.sock = ctl[c].sock /\ x.known = ctl[c].known /\ x.proc = ctl[c].proc
      /\ x.apid \in {q, ctl[c].apid} /\ x.ext \in {q, ctl[c].ext}
  BY <1>1, Zenon DEF Controller
<1>3. ctl' = [ctl EXCEPT ![c] = x]
  BY <1>1 DEF TypeInv, TypeOK
<1>4. c \notin terminating => Sane(ctl[c])
  BY DEF FileInv
<1> HIDE DEF x
<1>5. c \notin terminating => (ctl[c].sock => x.sock) /\ Sane(x)
  BY <1>2, <1>4 DEF Sane
<1> QED
  BY <1>3, <1>5, SetKept, Zenon

\* So does an attachment as both sides see it.
LEMMA BothKept ==
    ASSUME TypeInv, FileInv, NEW c \in Controllers, NEW q \in PIDs \cup {None},
           q = None \/ ctl[c].sock \/ c \in terminating,
           ctl' = [ctl EXCEPT ![c].apid = q, ![c].ext = q]
    PROVE  CtlKept
<1> DEFINE x == [ctl[c] EXCEPT !.apid = q, !.ext = q]
<1>1. ctl[c] \in Controller
  BY DEF TypeInv, TypeOK
<1>2. /\ x.sock = ctl[c].sock /\ x.known = ctl[c].known /\ x.proc = ctl[c].proc
      /\ x.apid \in {q, ctl[c].apid} /\ x.ext \in {q, ctl[c].ext}
  BY <1>1, Zenon DEF Controller
<1>3. ctl' = [ctl EXCEPT ![c] = x]
  BY <1>1, Zenon DEF TypeInv, TypeOK
<1>4. c \notin terminating => Sane(ctl[c])
  BY DEF FileInv
<1> HIDE DEF x
<1>5. c \notin terminating => (ctl[c].sock => x.sock) /\ Sane(x)
  BY <1>2, <1>4 DEF Sane
<1> QED
  BY <1>3, <1>5, SetKept, Zenon

\* So does an attachment that gives up the booking.
LEMMA AttachKept ==
    ASSUME TypeInv, FileInv, NEW c \in Controllers, NEW q \in PIDs \cup {None},
           q = None \/ ctl[c].sock \/ c \in terminating,
           ctl' = [ctl EXCEPT ![c].apid = q, ![c].ext = q, ![c].booked = FALSE]
    PROVE  CtlKept
<1> DEFINE x == [ctl[c] EXCEPT !.apid = q, !.ext = q, !.booked = FALSE]
<1>1. ctl[c] \in Controller
  BY DEF TypeInv, TypeOK
<1>2. /\ x.sock = ctl[c].sock /\ x.known = ctl[c].known /\ x.proc = ctl[c].proc
      /\ x.apid \in {q, ctl[c].apid} /\ x.ext \in {q, ctl[c].ext}
  BY <1>1, Zenon DEF Controller
<1>3. ctl' = [ctl EXCEPT ![c] = x]
  BY <1>1, Zenon DEF TypeInv, TypeOK
<1>4. c \notin terminating => Sane(ctl[c])
  BY DEF FileInv
<1> HIDE DEF x
<1>5. c \notin terminating => (ctl[c].sock => x.sock) /\ Sane(x)
  BY <1>2, <1>4 DEF Sane
<1> QED
  BY <1>3, <1>5, SetKept, Zenon

\* A new controller.
LEMMA SpawnKept ==
    ASSUME TypeInv, FileInv, NEW c \in Controllers, NEW started \in BOOLEAN, Spawn(c, started)
    PROVE  CtlKept
<1>1. ctl[c].sock = FALSE
  BY DEF Spawn, Unused
<1>2. Sane(Spawned(started))
  <2>1. CASE started = TRUE
    BY <2>1, Zenon DEF Spawned, Unused, Sane
  <2>2. CASE started = FALSE
    BY <2>2, Zenon DEF Spawned, Unused, Sane
  <2> QED
    BY <2>1, <2>2, Zenon
<1>3. ctl' = [ctl EXCEPT ![c] = Spawned(started)]
  BY DEF Spawn
<1> QED
  BY <1>1, <1>2, <1>3, SetKept, Zenon

\* Terminate removes the files of no controller that somebody else is using.
LEMMA TerminateFiles ==
    ASSUME TypeInv, LockInv, FileInv, NEW a \in Actors, Terminate(a)
    PROVE  FileInv'
<1>0. "idle" \notin CtlPcs /\ "syncFix" \notin CtlPcs /\ "termLock" \notin CtlPcs
      /\ "termWait" \notin CtlPcs
  BY DEF CtlPcs
<1>1. CASE TerminateGet(a)
  BY <1>0, <1>1, GotoKeeps, ReturnKeeps, SameKept, FileQuiet, Zenon DEF TerminateGet, term
<1>2. CASE TerminateLock(a)
  <2>1. CASE th[a].t \in terminating
    <3>1. Return(a) /\ UNCHANGED <<terminating, ctl, pool>>
      BY <1>2, <2>1, Zenon DEF TerminateLock
    <3> QED
      BY <1>0, <3>1, ReturnKeeps, SameKept, FileQuiet, Zenon
  <2>2. CASE th[a].t \notin terminating
    <3>1. /\ tlock[th[a].t] = None /\ terminating' = terminating \cup {th[a].t}
          /\ Goto(a, "termWait") /\ UNCHANGED <<ctl, pool>>
      BY <1>2, <2>2, Zenon DEF TerminateLock
    <3>2. Keeps(CtlPcs)
      BY <1>0, <3>1, GotoKeeps
    <3>3. \A b \in Actors : th'[b].pc \in CtlPcs => th'[b].pc = th[b].pc /\ th'[b].c = th[b].c
      BY <3>2 DEF Keeps
    <3>4. DumpPcs \subseteq CtlPcs /\ "criu" \in CtlPcs /\ "final" \in CtlPcs
      BY SMTT(40), Zenon DEF DumpPcs, CtlPcs
    <3>5. \A b \in Actors : th'[b].pc \in DumpPcs => th'[b].c \in pool' \cup terminating'
      BY <3>1, <3>3, <3>4, Zenon DEF FileInv, DumpPcs
    <3>6. \A b \in Actors : th'[b].pc \in CtlPcs =>
            ctl'[th'[b].c].sock \/ th'[b].c \in terminating'
      BY <3>1, <3>3, Zenon DEF FileInv
    <3>7. ASSUME NEW b \in Actors, th'[b].pc \in {"criu", "final"}
          PROVE  th'[b].c \notin terminating'
      <4>1. th[b].pc \in {"criu", "final"} /\ th'[b].c = th[b].c
        BY <3>3, <3>4, <3>7, Zenon
      <4>2. tlock[th[b].c] = b /\ b # None
        BY <4>1, ZenonT(60) DEF LockInv, HoldPcs, Actors
      <4>3. th[b].c \notin terminating
        BY <4>1, SMTT(40) DEF FileInv
      <4> QED
        BY <3>1, <4>1, <4>2, <4>3, Zenon
    <3>8. \A c \in Controllers \ terminating' : Sane(ctl'[c])
      BY <3>1, Zenon DEF FileInv, Sane
    <3> QED
      BY <3>5, <3>6, <3>7, <3>8, Zenon DEF FileInv, DumpPcs, Sane
  <2> QED
    BY <2>1, <2>2
<1>3. CASE TerminateWait(a)
  <2>1. th[a].t \in Controllers /\ th[a].t \in terminating
    BY <1>3, LocalsFacts DEF TerminateWait, At, TermPcs, LockInv
  <2>2. /\ Return(a) /\ UNCHANGED terminating /\ pool' = pool \ {th[a].t}
        /\ \A c \in Controllers \ {th[a].t} : ctl'[c] = ctl[c]
    BY <1>3, Zenon DEF TerminateWait, TypeInv, TypeOK
  <2>3. CtlKept
    BY <2>1, <2>2 DEF CtlKept, FileInv
  <2> QED
    BY <1>0, <2>1, <2>2, <2>3, ReturnKeeps, FileQuiet, Zenon
<1> QED
  BY <1>1, <1>2, <1>3 DEF Terminate

\* What the other steps do to controllers.
LEMMA OtherFiles ==
    ASSUME TypeInv, FileInv, OtherStep
    PROVE  FileInv'
<1> SUFFICES CtlKept /\ pool \subseteq pool'
  BY OtherKeeps, KeepsCtl, FileQuiet DEF term
<1>0. pool \subseteq Controllers /\ stale \subseteq Controllers /\ spare \subseteq Controllers
      /\ CtlOK
  BY DEF TypeInv, TypeOK, CtlOK
<1>1. ASSUME NEW a \in Actors, Sync(a)
      PROVE  CtlKept /\ pool \subseteq pool'
  <2>1. CASE SyncEnter(a) \/ SyncWoken(a) \/ SyncPanics(a) \/ SyncRead(a) \/ SyncList(a) \/ SyncDone(a)
    BY <2>1, SameKept, ZenonT(60) DEF SyncEnter, SyncWoken, SyncPanics, SyncRead, SyncList, SyncDone
  <2>2. ASSUME NEW c \in Controllers, SyncLaunch(a, c)
        PROVE  CtlKept /\ pool \subseteq pool'
    BY <2>2, SameKept, Zenon DEF SyncLaunch
  <2>3. ASSUME NEW c \in Controllers, SyncAnswer(a, c)
        PROVE  CtlKept /\ pool \subseteq pool'
    <3>0. ctl[c] \in Controller
      BY <1>0 DEF CtlOK
    <3>1. CASE ctl[c].proc = "up" /\
               ctl' = [ctl EXCEPT ![c].fails = 0, ![c].known = TRUE,
                         ![c].apid = IF ctl[c].ext # None THEN ctl[c].ext ELSE @]
      <4>1. PICK q \in PIDs \cup {None} :
              q = IF ctl[c].ext # None THEN ctl[c].ext ELSE ctl[c].apid
        BY <3>0 DEF Controller
      <4> DEFINE x == [ctl[c] EXCEPT !.fails = 0, !.known = TRUE, !.apid = q]
      <4>2. ctl' = [ctl EXCEPT ![c] = x]
        BY <1>0, <3>0, <3>1, <4>1, Zenon DEF CtlOK, Controller
      <4>3. x.sock = ctl[c].sock
        BY <3>0, Zenon DEF Controller
      <4>4. c \notin terminating => ctl[c].sock
        BY <3>1 DEF FileInv, Sane
      <4> HIDE DEF x
      <4>5. CtlKept
        BY <4>2, <4>3, <4>4, SetKept, Zenon DEF Sane
      <4> QED
        BY <2>3, <4>5 DEF SyncAnswer
    <3>2. CASE ctl' = [ctl EXCEPT ![c].fails = IF @ < MaxSyncFails THEN @ + 1 ELSE @]
      <4>1. ctl[c].fails \in 0..MaxSyncFails
        BY <3>0 DEF Controller
      <4>2. PICK n \in 0..MaxSyncFails :
              n = IF ctl[c].fails < MaxSyncFails THEN ctl[c].fails + 1 ELSE ctl[c].fails
        BY <4>1
      <4>3. ctl' = [ctl EXCEPT ![c].fails = n]
        BY <1>0, <3>2, <4>2 DEF CtlOK
      <4> QED
        BY <2>3, <4>3, FailsKept, Zenon DEF SyncAnswer
    <3> QED
      BY <2>3, <3>1, <3>2 DEF SyncAnswer
  <2>4. ASSUME NEW c \in Controllers, ClearStale(a, c) \/ GiveUpSpare(a, c)
        PROVE  CtlKept /\ pool \subseteq pool'
    BY <2>4, BookedKept, Zenon DEF ClearStale, GiveUpSpare, TryLock, Unlock
  <2>5. CASE SpawnMissing(a)
    BY <2>5, SpawnKept, SameKept, Zenon DEF SpawnMissing, Spawn
  <2>6. CASE SpawnedMissing(a)
    <3>1. th[a].t \in Controllers
      BY <2>6, LocalsFacts DEF SpawnedMissing, At, TermPcs
    <3> QED
      BY <2>6, <3>1, BookedKept, SameKept, Zenon DEF SpawnedMissing, Unlock
  <2> QED
    BY <1>1, <2>1, <2>2, <2>3, <2>4, <2>5, <2>6, SMTT(40) DEF Sync
<1>2. ASSUME NEW p \in PIDs, Detach(p)
      PROVE  CtlKept /\ pool \subseteq pool'
  BY <1>0, <1>2, BookedKept, SameKept, Zenon DEF Detach, TryLock, Attached
<1>3. ASSUME NEW p \in PIDs, JobConnects(p)
      PROVE  CtlKept /\ pool \subseteq pool'
  <2>1. gpuOf[p] \in Controllers /\ ctl[gpuOf[p]].proc = "up"
    BY <1>3 DEF JobConnects, TypeInv
  <2>2. ctl[gpuOf[p]].sock \/ gpuOf[p] \in terminating
    BY <2>1 DEF FileInv, Sane
  <2> QED
    BY <1>3, <2>1, <2>2, ExtKept, Zenon DEF JobConnects
<1>4. ASSUME NEW p \in PIDs, JobExits(p)
      PROVE  CtlKept /\ pool \subseteq pool'
  BY <1>4, SameKept DEF JobExits
<1>5. ASSUME BgStop \/ BgCheck \/ BgTimeout \/ BgTick \/ Shutdown \/ Exit
      PROVE  CtlKept /\ pool \subseteq pool'
  BY <1>5, SameKept DEF BgStop, BgCheck, BgTimeout, BgTick, Shutdown, Exit
<1>6. ASSUME NEW a \in Runners, NEW p \in PIDs, RunRequest(a, p)
      PROVE  CtlKept /\ pool \subseteq pool'
  BY <1>6, SameKept DEF RunRequest
<1>7. ASSUME NEW d \in Dumpers, NEW p \in PIDs, DumpRequest(d, p)
      PROVE  CtlKept /\ pool \subseteq pool'
  BY <1>7, SameKept DEF DumpRequest
<1>8. ASSUME NEW c \in Controllers, ControllerDies(c)
      PROVE  CtlKept /\ pool \subseteq pool'
  BY <1>8, DeadKept, ZenonT(60) DEF ControllerDies
<1> QED
  BY <1>1, <1>2, <1>3, <1>4, <1>5, <1>6, <1>7, <1>8, ZenonT(60) DEF OtherStep

\* An actor that has a controller of its own moves on with it.
LEMMA FileMove ==
    ASSUME TypeInv, FileInv, NEW a \in Actors, NEW l \in Pcs, Goto(a, l), UNCHANGED terminating,
           pool \ terminating \subseteq pool', CtlKept, th[a].pc \in CtlPcs,
           l \in DumpPcs => th[a].c \in pool' \cup terminating,
           l \in {"criu", "final"} => th[a].c \notin terminating
    PROVE  FileInv'
<1>1. th[a].c \in Controllers /\ th[a] \in Locals /\ th \in [Actors -> Locals]
  BY LocalsFacts, Zenon DEF TypeInv, TypeOK
<1>2. th'[a].pc = l /\ th'[a].c = th[a].c
  BY <1>1 DEF Goto, Locals
<1>3. \A b \in Actors \ {a} : th'[b] = th[b]
  BY <1>1 DEF Goto
<1>4. ctl'[th[a].c].sock \/ th[a].c \in terminating
  BY <1>1, Zenon DEF FileInv, CtlKept
<1> QED
  BY <1>2, <1>3, <1>4, FileStep

\* The steps of run and restore keep the account of the files.
LEMMA RunFiles ==
    ASSUME TypeInv, FileInv, NEW a \in Actors, Run(a)
    PROVE  FileInv'
<1>0. /\ "idle" \notin CtlPcs /\ "term" \notin CtlPcs /\ "tryBook" \notin CtlPcs
      /\ th[a].pc \in CtlPcs => th[a].c \in Controllers
                                /\ (ctl[th[a].c].sock \/ th[a].c \in terminating)
      /\ th[a].pc \in RunPcs => th[a].p \in PIDs
      /\ th \in [Actors -> Locals] /\ th[a] \in Locals
      /\ th[a].cand \subseteq Controllers
      /\ pool \subseteq Controllers /\ CtlOK
  BY LocalsFacts, Zenon DEF CtlPcs, TypeInv, TypeOK, Locals, FileInv, CtlOK
<1>p. \A l \in {"launch", "restoreLock", "restore", "started", "attach"} :
        l \in Pcs /\ l \notin DumpPcs /\ l \notin {"criu", "final"}
  BY DEF Pcs, DumpPcs
<1>1. CASE BookList(a)
  <2>1. PICK C \in SUBSET Controllers : C = Free
    BY <1>0, Zenon DEF Free
  <2>2. th' = [th EXCEPT ![a].pc = "tryBook", ![a].cand = C]
    BY <1>1, <2>1 DEF BookList
  <2>3. Keeps(CtlPcs)
    BY <1>0, <2>2, OwnKeeps, Zenon
  <2> QED
    BY <1>1, <2>3, SameKept, FileQuiet DEF BookList, term
<1>2. CASE TryBook(a)
  <2>0. UNCHANGED terminating /\ UNCHANGED pool
    BY <1>2, SMTT(40) DEF TryBook, term
  <2>1. PICK c \in th[a].cand :
           IF Status(c) = "free"
           THEN TryLock(c) /\ th' = [th EXCEPT ![a].pc = "launch", ![a].c = c, ![a].cand = {}]
           ELSE Unlock(c) /\ th' = [th EXCEPT ![a].cand = @ \ {c}]
    BY <1>2, Zenon DEF TryBook
  <2>2. CtlKept /\ c \in Controllers
    BY <1>0, <2>1, BookedKept, Zenon DEF TryLock, Unlock
  <2>3. CASE Status(c) = "free"
    <3> DEFINE x == [th[a] EXCEPT !.pc = "launch", !.c = c, !.cand = {}]
    <3>1. x.pc = "launch" /\ x.c = c
      BY <1>0, Zenon DEF Locals
    <3>2. th' = [th EXCEPT ![a] = x]
      BY <1>0, <2>1, <2>3, ZenonT(60)
    <3> HIDE DEF x
    <3>3. th'[a] = x /\ \A b \in Actors \ {a} : th'[b] = th[b]
      BY <1>0, <3>2
    <3>4. c \in terminating \/ ctl[c].sock
      BY <2>2, <2>3, SMTT(40) DEF Status, FileInv, Sane
    <3>5. c \in terminating \/ ctl'[c].sock
      BY <2>2, <3>4 DEF CtlKept
    <3>6. x.pc \notin DumpPcs /\ x.pc \notin {"criu", "final"}
      BY <1>p, <3>1
    <3> QED
      BY <2>0, <2>2, <3>1, <3>3, <3>5, <3>6, FileStep
  <2>4. CASE Status(c) # "free"
    <3>1. th' = [th EXCEPT ![a].cand = th[a].cand \ {c}]
      BY <2>1, <2>4
    <3> QED
      BY <2>0, <2>2, <3>1, DropKeeps, FileQuiet, Zenon
  <2> QED
    BY <2>3, <2>4
<1>3. CASE SpawnOwn(a)
  <2>0. UNCHANGED terminating
    BY <1>3 DEF SpawnOwn, term
  <2>1. ASSUME NEW c \in Controllers, Spawn(c, TRUE),
               th' = [th EXCEPT ![a].pc = "spawned", ![a].c = c]
        PROVE  FileInv'
    <3> DEFINE x == [th[a] EXCEPT !.pc = "spawned", !.c = c]
    <3>1. x.pc = "spawned" /\ x.c = c
      BY <1>0, Zenon DEF Locals
    <3>2. th' = [th EXCEPT ![a] = x]
      BY <1>0, <2>1, Zenon
    <3> HIDE DEF x
    <3>3. th'[a] = x /\ \A b \in Actors \ {a} : th'[b] = th[b]
      BY <1>0, <3>2
    <3>4. CtlKept /\ pool \subseteq pool'
      BY <2>1, SpawnKept, Zenon DEF Spawn
    <3>5. ctl'[c].sock
      <4>1. ctl'[c] = Spawned(TRUE)
        BY <1>0, <2>1 DEF Spawn, CtlOK
      <4>2. Spawned(TRUE).sock
        BY Zenon DEF Spawned, Unused
      <4> QED
        BY <4>1, <4>2, Zenon
    <3>6. x.pc \notin DumpPcs /\ x.pc \notin {"criu", "final"}
      BY <3>1, SMTT(40) DEF DumpPcs
    <3> QED
      BY <2>0, <3>1, <3>3, <3>4, <3>5, <3>6, FileStep
  <2>2. ASSUME NEW c \in Controllers, Spawn(c, FALSE), CallTerminate(a, c, "idle")
        PROVE  FileInv'
    BY <1>0, <2>0, <2>2, SpawnKept, CallTerminateKeeps, FileQuiet, ZenonT(60) DEF Spawn
  <2>3. ASSUME GoOn(a, "idle"), UNCHANGED <<ctl, pool>>
        PROVE  FileInv'
    BY <1>0, <2>0, <2>3, SameKept, GoOnKeeps, FileQuiet, SMTT(40)
  <2> QED
    BY <1>3, <2>1, <2>2, <2>3, Zenon DEF SpawnOwn
<1>4. CASE SpawnedOwn(a)
  <2>1. th[a].pc \in CtlPcs /\ UNCHANGED <<terminating, pool>> /\ CtlKept
    BY <1>4, SameKept DEF SpawnedOwn, At, CtlPcs, term
  <2> QED
    BY <1>0, <1>4, <1>p, <2>1, FileMove, CallTerminateKeeps, FileQuiet, ZenonT(60) DEF SpawnedOwn
<1>5. CASE Launch(a)
  <2>1. th[a].pc \in CtlPcs /\ UNCHANGED <<terminating, pool>>
    BY <1>5 DEF Launch, At, CtlPcs, term
  <2>2. CASE Goto(a, "started") /\ UNCHANGED ctl
    BY <1>p, <2>1, <2>2, SameKept, FileMove
  <2>3. ASSUME NEW pid \in {None, ctl[th[a].c].apid}, CallTerminate(a, th[a].c, "idle"),
               ctl' = [ctl EXCEPT ![th[a].c].apid = pid]
        PROVE  FileInv'
    <3>1. pid \in PIDs \cup {None}
      BY <1>0, <2>1 DEF CtlOK, Controller
    <3>2. CtlKept
      BY <1>0, <2>1, <2>3, <3>1, ApidKept, ZenonT(60)
    <3> QED
      BY <1>0, <2>1, <2>3, <3>2, CallTerminateKeeps, FileQuiet, Zenon
  <2> QED
    BY <1>5, <2>2, <2>3 DEF Launch
<1>6. CASE RestoreGet(a)
  <2>1. th[a].pc \in CtlPcs /\ UNCHANGED <<terminating, pool>> /\ CtlKept
    BY <1>6, SameKept, Zenon DEF RestoreGet, At, CtlPcs, term
  <2> QED
    BY <1>0, <1>6, <1>p, <2>1, FileMove, CallTerminateKeeps, FileQuiet, Zenon DEF RestoreGet
<1>7. CASE RestoreLock(a)
  <2>1. th[a].pc \in CtlPcs /\ UNCHANGED <<terminating, pool>> /\ CtlKept
    BY <1>7, SameKept, Zenon DEF RestoreLock, At, CtlPcs
  <2> QED
    BY <1>7, <1>p, <2>1, FileMove, SMTT(40) DEF RestoreLock
<1>8. CASE Restore(a)
  <2>1. th[a].pc \in CtlPcs /\ th[a].p \in PIDs /\ UNCHANGED <<terminating, pool>>
    BY <1>0, <1>8, SMTT(40) DEF Restore, At, CtlPcs, RunPcs
  <2>2. CASE UNCHANGED <<ctl, th>>
    BY <2>1, <2>2, SameKept, SameKeeps, FileQuiet
  <2>3. CASE Goto(a, "started")
             /\ ctl' = [ctl EXCEPT ![th[a].c].apid = th[a].p, ![th[a].c].ext = th[a].p]
    <3>1. CtlKept
      BY <1>0, <2>1, <2>3, BothKept, Zenon
    <3> QED
      BY <1>p, <2>1, <2>3, <3>1, FileMove
  <2>4. ASSUME NEW pid \in {None, ctl[th[a].c].apid, th[a].p},
               CallTerminate(a, th[a].c, "idle"), ctl' = [ctl EXCEPT ![th[a].c].apid = pid]
        PROVE  FileInv'
    <3>1. pid \in PIDs \cup {None}
      BY <1>0, <2>1 DEF CtlOK, Controller
    <3>2. CtlKept
      BY <1>0, <2>1, <2>4, <3>1, ApidKept, Zenon
    <3> QED
      BY <1>0, <2>1, <2>4, <3>2, CallTerminateKeeps, FileQuiet, Zenon
  <2> QED
    BY <1>8, <2>2, <2>3, <2>4 DEF Restore
<1>9. CASE AttachSelect(a)
  <2>1. th[a].pc \in CtlPcs /\ th[a].p \in PIDs /\ UNCHANGED <<terminating, pool>>
    BY <1>0, <1>9 DEF AttachSelect, At, CtlPcs, RunPcs, term
  <2>2. CASE ctl' = [ctl EXCEPT ![th[a].c].apid = th[a].p] /\ Goto(a, "attach")
    <3>1. CtlKept
      BY <1>0, <2>1, <2>2, ApidKept, ZenonT(60)
    <3> QED
      BY <1>p, <2>1, <2>2, <3>1, FileMove
  <2>3. CASE CallTerminate(a, th[a].c, "idle") /\ UNCHANGED ctl
    BY <1>0, <2>1, <2>3, SameKept, CallTerminateKeeps, FileQuiet, Zenon
  <2> QED
    BY <1>9, <2>2, <2>3 DEF AttachSelect
<1>10. CASE AttachRPC(a)
  <2>1. th[a].pc \in CtlPcs /\ th[a].p \in PIDs /\ UNCHANGED <<terminating, pool>>
    BY <1>0, <1>10 DEF AttachRPC, At, CtlPcs, RunPcs, term
  <2>2. CASE /\ ctl' = [ctl EXCEPT ![th[a].c].apid = th[a].p, ![th[a].c].ext = th[a].p,
                          ![th[a].c].booked = FALSE]
             /\ GoOn(a, "idle")
    <3>1. CtlKept
      BY <1>0, <2>1, <2>2, AttachKept, ZenonT(60)
    <3> QED
      BY <1>0, <2>1, <2>2, <3>1, GoOnKeeps, FileQuiet, SMTT(40)
  <2>3. CASE UNCHANGED ctl /\ (CallTerminate(a, th[a].c, "idle") \/ UNCHANGED th)
    BY <1>0, <2>1, <2>3, SameKept, SameKeeps, CallTerminateKeeps, FileQuiet, ZenonT(60)
  <2> QED
    BY <1>10, <2>2, <2>3 DEF AttachRPC
<1> QED
  BY <1>1, <1>2, <1>3, <1>4, <1>5, <1>6, <1>7, <1>8, <1>9, <1>10 DEF Run

\* The steps of a dump's callbacks keep the account of the files.
LEMMA DumpFiles ==
    ASSUME TypeInv, FileInv, NEW a \in Dumpers, Dump(a)
    PROVE  FileInv'
<1>0. /\ "idle" \notin CtlPcs /\ "detach" \notin CtlPcs
      /\ a \in Actors /\ a \notin PIDs
      /\ th[a].pc \in CtlPcs => th[a].c \in Controllers
                                /\ (ctl[th[a].c].sock \/ th[a].c \in terminating)
      /\ th[a].pc \in DumpPcs => th[a].c \in pool \cup terminating
      /\ th[a].pc \in RunPcs => th[a].p \in PIDs
      /\ th \in [Actors -> Locals] /\ th[a] \in Locals
      /\ pool \subseteq Controllers /\ CtlOK
  BY LocalsFacts, Zenon DEF CtlPcs, TypeInv, TypeOK, FileInv, DumpPcs, CtlOK, Actors
<1>1. CASE DumpFind(a)
  <2>0. UNCHANGED <<terminating, pool>> /\ CtlKept /\ UNCHANGED ctl
    BY <1>1, SameKept, SMTT(40) DEF DumpFind, term
  <2>1. ASSUME NEW c \in Attached(th[a].p), th' = [th EXCEPT ![a].pc = "dumpGet", ![a].c = c]
        PROVE  FileInv'
    <3>1. c \in Controllers /\ ctl[c].apid = th[a].p /\ th[a].p # None
      BY <1>0, <1>1, SMTT(40) DEF Attached, DumpFind, At, RunPcs
    <3>2. ctl[c].sock \/ c \in terminating
      BY <3>1 DEF FileInv, Sane
    <3> DEFINE x == [th[a] EXCEPT !.pc = "dumpGet", !.c = c]
    <3>3. x.pc = "dumpGet" /\ x.c = c
      BY <1>0, Zenon DEF Locals
    <3>4. th' = [th EXCEPT ![a] = x]
      BY <1>0, <2>1, ZenonT(60)
    <3> HIDE DEF x
    <3>5. th'[a] = x /\ \A b \in Actors \ {a} : th'[b] = th[b]
      BY <1>0, <3>4
    <3>6. x.pc \notin DumpPcs /\ x.pc \notin {"criu", "final"}
      BY <3>3 DEF DumpPcs
    <3> QED
      BY <1>0, <2>0, <3>2, <3>3, <3>5, <3>6, FileStep, ZenonT(60)
  <2>2. CASE GoOn(a, "idle")
    BY <1>0, <2>0, <2>2, GoOnKeeps, FileQuiet
  <2> QED
    BY <1>1, <2>1, <2>2 DEF DumpFind
<1>2. CASE DumpGet(a)
  <2>0. UNCHANGED <<terminating, pool>> /\ CtlKept /\ th[a].pc \in CtlPcs
    BY <1>2, SameKept, SMTT(40) DEF DumpGet, term, At, CtlPcs
  <2>1. CASE GoOn(a, "idle")
    BY <1>0, <2>0, <2>1, GoOnKeeps, FileQuiet, Zenon
  <2>2. CASE th[a].c \in pool /\ GoOn(a, "dumpLock")
    <3>1. Goto(a, "dumpLock") /\ "dumpLock" \in Pcs /\ "dumpLock" \notin {"criu", "final"}
      BY <2>2, SMTT(40) DEF GoOn, Goto, Pcs
    <3> QED
      BY <1>0, <2>0, <2>2, <3>1, FileMove
  <2> QED
    BY <1>2, <2>1, <2>2 DEF DumpGet
<1>3. CASE DumpLock(a)
  <2>1. UNCHANGED <<terminating, pool>> /\ CtlKept /\ th[a].pc \in CtlPcs /\ th[a].pc \in DumpPcs
    BY <1>3, SameKept DEF DumpLock, At, CtlPcs, DumpPcs
  <2>2. "dumpFreeze" \in Pcs /\ "dumpFreeze" \notin {"criu", "final"}
    BY DEF Pcs
  <2> QED
    BY <1>0, <1>3, <2>1, <2>2, FileMove, ZenonT(60) DEF DumpLock
<1>4. CASE DumpFreeze(a)
  <2>1. UNCHANGED <<terminating, pool>> /\ th[a].pc \in CtlPcs /\ th[a].pc \in DumpPcs
    BY <1>4 DEF DumpFreeze, At, CtlPcs, DumpPcs, term
  <2>2. CASE /\ th[a].c \notin terminating /\ Goto(a, "criu")
             /\ ctl' = [ctl EXCEPT ![th[a].c].frozen = TRUE]
    <3>1. CtlKept
      BY <1>0, <2>1, <2>2, FrozenKept, ZenonT(60)
    <3>2. "criu" \in Pcs
      BY DEF Pcs
    <3> QED
      BY <1>0, <2>1, <2>2, <3>1, <3>2, FileMove
  <2>3. CASE GoOn(a, "idle") /\ UNCHANGED ctl
    BY <1>0, <2>1, <2>3, SameKept, GoOnKeeps, FileQuiet, Zenon
  <2>4. CASE UNCHANGED <<ctl, th>>
    BY <2>1, <2>4, SameKept, SameKeeps, FileQuiet, SMTT(40)
  <2> QED
    BY <1>4, <2>2, <2>3, <2>4 DEF DumpFreeze
<1>5. CASE DumpCRIU(a)
  <2>1. /\ UNCHANGED <<terminating, pool>> /\ UNCHANGED ctl /\ CtlKept
        /\ th[a].pc = "criu" /\ th[a].pc \in CtlPcs /\ th[a].pc \in DumpPcs
    BY <1>5, SameKept, SMTT(40) DEF DumpCRIU, At, CtlPcs, DumpPcs, term
  <2>2. /\ th'[a].pc = "final" /\ th'[a].c = th[a].c
        /\ \A b \in Actors \ {a} : th'[b] = th[b] \/ th'[b].pc = "detach"
    BY <1>0, <1>5, CRIULocals, ZenonT(60)
  <2>3. th[a].c \notin terminating
    BY <1>0, <2>1, ZenonT(60) DEF FileInv
  <2>4. \A b \in Actors \ {a} : th'[b] = th[b] \/ th'[b].pc \notin CtlPcs
    BY <1>0, <2>2
  <2> QED
    BY <1>0, <2>1, <2>2, <2>3, <2>4, FileStep, ZenonT(60)
<1>6. CASE DumpFinalize(a)
  <2>0. UNCHANGED <<terminating, pool>> /\ th[a].c \in Controllers
    BY <1>0, <1>6 DEF DumpFinalize, At, CtlPcs
  <2>1. CASE UNCHANGED <<ctl, th>>
    BY <2>0, <2>1, SameKept, SameKeeps, FileQuiet
  <2>2. CASE /\ GoOn(a, "idle")
             /\ ctl' = [ctl EXCEPT ![th[a].c].frozen =
                   @ /\ (th[a].dump \in {"early", "killed"} \/ ctl[th[a].c].proc # "up")]
    <3>1. PICK b \in BOOLEAN : b = (ctl[th[a].c].frozen
                 /\ (th[a].dump \in {"early", "killed"} \/ ctl[th[a].c].proc # "up"))
      BY Zenon
    <3>2. ctl' = [ctl EXCEPT ![th[a].c].frozen = b]
      BY <1>0, <2>0, <2>2, <3>1 DEF CtlOK
    <3>3. CtlKept
      BY <2>0, <3>2, FrozenKept, ZenonT(60)
    <3> QED
      BY <1>0, <2>0, <2>2, <3>3, GoOnKeeps, FileQuiet, SMTT(40)
  <2> QED
    BY <1>6, <2>1, <2>2 DEF DumpFinalize
<1>7. CASE FreezeRPC(a)
  <2>1. UNCHANGED <<terminating, pool>> /\ (GoOn(a, "idle") \/ UNCHANGED th)
    BY <1>7 DEF FreezeRPC, term
  <2>2. CtlKept
    BY <1>0, <1>7, FrozenKept, SameKept DEF FreezeRPC, Attached
  <2> QED
    BY <1>0, <2>1, <2>2, GoOnKeeps, SameKeeps, FileQuiet, Zenon
<1> QED
  BY <1>1, <1>2, <1>3, <1>4, <1>5, <1>6, <1>7 DEF Dump

\* Every step keeps the account of the files.
LEMMA FileNext ==
    ASSUME TypeInv, LockInv, FileInv, [Next]_vars
    PROVE  FileInv'
<1>1. CASE Next
  BY <1>1, NextCases, OtherFiles, TerminateFiles, RunFiles, DumpFiles, Zenon DEF Actors
<1>2. CASE UNCHANGED vars
  BY <1>2, SameKept, SameKeeps, FileQuiet DEF vars, term
<1> QED
  BY <1>1, <1>2

-----------------------------------------------------------------------------
(* Results.                                                                *)

\* The daemon starts in such a state.
LEMMA InitInv ==
    ASSUME Init
    PROVE  IInv
<1>1. th \in [Actors -> SoundLocals] /\ th \in [Actors -> Locals]
      /\ \A a \in Actors : th[a].pc = "idle"
  BY IdleSound, ZenonT(60) DEF Init, Idle, SoundLocals
<1>2. 0 \in 0..MaxSyncFails /\ \A p \in Survivors : p \in PIDs
  OBVIOUS
<1>3. Unused \in Controller /\ Sane(Unused)
  BY <1>2, Zenon DEF Unused, Controller, Sane
<1>4. ASSUME NEW p \in PIDs \cup {None}
      PROVE  Leftover(p) \in Controller /\ Sane(Leftover(p))
  BY <1>2, Zenon DEF Leftover, Unused, Controller, Sane
<1>5. ASSUME NEW c \in Controllers
      PROVE  ctl[c] \in Controller /\ Sane(ctl[c])
  <2>1. PICK free \in SUBSET (Controllers \ {gpuOf[p] : p \in Survivors}) :
          ctl = [k \in Controllers |->
                   IF k \in free THEN Leftover(None)
                   ELSE IF \E p \in Survivors : gpuOf[p] = k
                        THEN Leftover(CHOOSE p \in Survivors : gpuOf[p] = k)
                        ELSE Unused]
    BY ZenonT(60) DEF Init
  <2>2. CASE c \in free
    BY <1>4, <2>1, <2>2, Zenon
  <2>3. CASE c \notin free /\ \E p \in Survivors : gpuOf[p] = c
    <3>1. PICK p \in PIDs : p = CHOOSE q \in Survivors : gpuOf[q] = c
      BY <1>2, <2>3, Zenon
    <3>2. ctl[c] = Leftover(p)
      BY <2>1, <2>3, <3>1, Zenon
    <3> QED
      BY <1>4, <3>2
  <2>4. CASE c \notin free /\ ~\E p \in Survivors : gpuOf[p] = c
    BY <1>3, <2>1, <2>4
  <2> QED
    BY <2>2, <2>3, <2>4
<1>6. ctl \in [Controllers -> Controller]
  <2>1. ctl = [c \in Controllers |-> ctl[c]]
    BY DEF Init
  <2> QED
    BY <1>5, <2>1
<1>7. gpuOf \in [PIDs -> Controllers \cup {None}] /\ running = Survivors
      /\ \A p \in running : gpuOf[p] \in Controllers
  BY <1>2, SMTT(40) DEF Init
<1>8. TypeInv
  BY <1>1, <1>2, <1>6, <1>7, ZenonT(60) DEF TypeInv, TypeOK, Init
<1>9. LockInv
  BY <1>1 DEF LockInv, Init, HoldPcs
<1>10. FileInv
  BY <1>1, <1>5 DEF FileInv, CtlPcs, Sane
<1> QED
  BY <1>8, <1>9, <1>10, SMTT(40) DEF IInv

\* Every state the daemon reaches satisfies the inductive invariant.
THEOREM Invariance == Spec => []IInv
<1>1. Init => IInv
  BY InitInv
<1>2. IInv /\ [Next]_vars => IInv'
  BY TypeNext, LockNext, FileNext DEF IInv
<1> QED
  BY <1>1, <1>2, PTL DEF Spec

\* Every variable of the GPU manager keeps its type, and so no step of the
\* code uses a controller or a job it does not have.
THEOREM TypeCorrect == Spec => []TypeOK
<1>1. IInv => TypeOK
  BY SMTT(40) DEF IInv, TypeInv
<1> QED
  BY <1>1, Invariance, PTL

\* However many handlers, Syncs and exiting jobs call Terminate for the same
\* controller, its channel Terminated is closed at most once.
THEOREM ClosedOnce == Spec => []TerminatedOnce
<1>1. IInv => TerminatedOnce
  BY SMTT(40) DEF IInv, LockInv, TerminatedOnce
<1> QED
  BY <1>1, Invariance, PTL

\* From a successful InitializeDump to FinalizeDump the controller stays in the
\* pool with its files, and its Termination mutex is the dump's.
THEOREM DumpHolds == Spec => []DumpHoldsController
<1>1. ASSUME IInv, NEW d \in Dumpers, th[d].pc \in {"criu", "final"}
      PROVE  /\ th[d].c \in pool /\ ctl[th[d].c].sock
             /\ tlock[th[d].c] = d /\ th[d].c \notin terminating
  <2>1. d \in Actors /\ th[d].pc \in HoldPcs /\ th[d].pc \in CtlPcs
    BY <1>1, Zenon DEF Actors, HoldPcs, CtlPcs
  <2>2. th[d].c \notin terminating /\ th[d].c \in pool \cup terminating
    BY <1>1, <2>1, Zenon DEF IInv, FileInv
  <2>3. ctl[th[d].c].sock \/ th[d].c \in terminating
    BY <1>1, <2>1, Zenon DEF IInv, FileInv
  <2>4. tlock[th[d].c] = d
    BY <1>1, <2>1, Zenon DEF IInv, LockInv
  <2> QED
    BY <2>2, <2>3, <2>4, SMTT(40)
<1>2. IInv => DumpHoldsController
  BY <1>1 DEF DumpHoldsController
<1> QED
  BY <1>2, Invariance, PTL
=============================================================================
