------------------------ MODULE GPUPoolOwnersProofs ------------------------
(***************************************************************************)
(* Who owns a controller, for any number of controllers, jobs and handlers *)
(* and any pool size: a spawned controller that runs is in the pool, and a *)
(* booked one has a goroutine that is still to unlock or to terminate it.  *)
(***************************************************************************)
EXTENDS GPUPoolProofs

USE ConstantsAssumption

-----------------------------------------------------------------------------
(* The processes that the daemon spawned.                                  *)

\* One whose process runs can be reached through the pool, and its PID is known,
\* so that Terminate signals and reaps it before it leaves the pool.
ChildInv ==
    \A c \in Controllers : ctl[c].child =>
        ctl[c].known /\ (ctl[c].proc = "up" => c \in pool)

\* A change of a controller that makes no process of it.
Tame(x, y) ==
    x.child = y.child /\ (y.known => x.known) /\ (x.proc = "up" => y.proc = "up")

\* No controller gets a process and none leaves the pool.
LEMMA ChildQuiet ==
    ASSUME ChildInv, pool \subseteq pool', \A c \in Controllers : Tame(ctl'[c], ctl[c])
    PROVE  ChildInv'
  BY DEF ChildInv, Tame

\* The changes of one controller's fields, other than by Spawn and Terminate.
LEMMA TameFields ==
    ASSUME TypeInv, NEW c \in Controllers, NEW b, NEW q, NEW e, NEW n,
           \/ UNCHANGED ctl
           \/ ctl' = [ctl EXCEPT ![c].booked = b] \/ ctl' = [ctl EXCEPT ![c].frozen = b]
           \/ ctl' = [ctl EXCEPT ![c].apid = q] \/ ctl' = [ctl EXCEPT ![c].ext = e]
           \/ ctl' = [ctl EXCEPT ![c].apid = q, ![c].ext = e]
           \/ ctl' = [ctl EXCEPT ![c].apid = q, ![c].ext = e, ![c].booked = b]
           \/ ctl' = [ctl EXCEPT ![c].fails = n] \/ ctl' = [ctl EXCEPT ![c].proc = "dead"]
           \/ ctl' = [ctl EXCEPT ![c].fails = n, ![c].known = TRUE, ![c].apid = q]
    PROVE  \A k \in Controllers : Tame(ctl'[k], ctl[k])
<1>0. ctl[c] \in Controller /\ ctl \in [Controllers -> Controller]
  BY DEF TypeInv, TypeOK
<1>1. ASSUME NEW x, ctl' = [ctl EXCEPT ![c] = x], Tame(x, ctl[c])
      PROVE  \A k \in Controllers : Tame(ctl'[k], ctl[k])
  BY <1>0, <1>1 DEF Tame
<1>2. /\ Tame([ctl[c] EXCEPT !.booked = b], ctl[c])
      /\ Tame([ctl[c] EXCEPT !.frozen = b], ctl[c])
      /\ Tame([ctl[c] EXCEPT !.apid = q], ctl[c])
      /\ Tame([ctl[c] EXCEPT !.ext = e], ctl[c])
      /\ Tame([ctl[c] EXCEPT !.apid = q, !.ext = e], ctl[c])
      /\ Tame([ctl[c] EXCEPT !.apid = q, !.ext = e, !.booked = b], ctl[c])
      /\ Tame([ctl[c] EXCEPT !.fails = n], ctl[c])
      /\ Tame([ctl[c] EXCEPT !.proc = "dead"], ctl[c])
      /\ Tame([ctl[c] EXCEPT !.fails = n, !.known = TRUE, !.apid = q], ctl[c])
  BY <1>0, Zenon DEF Tame, Controller
<1>3. \/ UNCHANGED ctl
      \/ ctl' = [ctl EXCEPT ![c] = [ctl[c] EXCEPT !.booked = b]]
      \/ ctl' = [ctl EXCEPT ![c] = [ctl[c] EXCEPT !.frozen = b]]
      \/ ctl' = [ctl EXCEPT ![c] = [ctl[c] EXCEPT !.apid = q]]
      \/ ctl' = [ctl EXCEPT ![c] = [ctl[c] EXCEPT !.ext = e]]
      \/ ctl' = [ctl EXCEPT ![c] = [ctl[c] EXCEPT !.apid = q, !.ext = e]]
      \/ ctl' = [ctl EXCEPT ![c] = [ctl[c] EXCEPT !.apid = q, !.ext = e, !.booked = b]]
      \/ ctl' = [ctl EXCEPT ![c] = [ctl[c] EXCEPT !.fails = n]]
      \/ ctl' = [ctl EXCEPT ![c] = [ctl[c] EXCEPT !.proc = "dead"]]
      \/ ctl' = [ctl EXCEPT ![c] = [ctl[c] EXCEPT !.fails = n, !.known = TRUE, !.apid = q]]
  BY <1>0, Zenon
<1>4. UNCHANGED ctl => \A k \in Controllers : Tame(ctl'[k], ctl[k])
  BY Zenon DEF Tame
<1> QED
  BY <1>1, <1>2, <1>3, <1>4, Zenon

\* A new controller is in the pool.
LEMMA ChildSpawn ==
    ASSUME TypeInv, ChildInv, NEW c \in Controllers, NEW started \in BOOLEAN, Spawn(c, started)
    PROVE  ChildInv'
<1>1. /\ ctl'[c] = Spawned(started) /\ \A k \in Controllers \ {c} : ctl'[k] = ctl[k]
      /\ c \in pool' /\ pool \subseteq pool'
  BY DEF Spawn, TypeInv, TypeOK
<1>2. Spawned(started).child => Spawned(started).known
  BY Zenon DEF Spawned, Unused
<1> QED
  BY <1>1, <1>2, Zenon DEF ChildInv

\* Terminate removes a controller from the pool once it has reaped its process.
LEMMA ChildTerminate ==
    ASSUME TypeInv, ChildInv, NEW a \in Actors, Terminate(a)
    PROVE  ChildInv'
<1>1. CASE UNCHANGED <<ctl, pool>>
  BY <1>1 DEF ChildInv
<1>2. CASE TerminateWait(a)
  <2> DEFINE c == th[a].t
  <2>1. c \in Controllers /\ ctl[c] \in Controller
    BY <1>2, LocalsFacts DEF TerminateWait, At, TermPcs, TypeInv, TypeOK
  <2>2. PICK exits \in IF ctl[c].child THEN {TRUE} ELSE BOOLEAN :
           ctl' = [ctl EXCEPT ![c].sock = FALSE, ![c].booked = FALSE,
                     ![c].proc = IF ctl[c].known /\ exits THEN "dead" ELSE @]
    BY <1>2, Zenon DEF TerminateWait
  <2>3. PICK pr : pr = IF ctl[c].known /\ exits THEN "dead" ELSE ctl[c].proc
    OBVIOUS
  <2> DEFINE x == [ctl[c] EXCEPT !.sock = FALSE, !.booked = FALSE, !.proc = pr]
  <2>4. ctl' = [ctl EXCEPT ![c] = x]
    BY <2>1, <2>2, <2>3, Zenon DEF TypeInv, TypeOK, Controller
  <2>5. x.child = ctl[c].child /\ x.known = ctl[c].known /\ x.proc = pr
    BY <2>1, Zenon DEF Controller
  <2>6. ctl[c].child => ctl[c].known /\ exits
    BY <2>1, <2>2 DEF ChildInv
  <2> HIDE DEF x
  <2>7. x.child => x.known /\ x.proc # "up"
    BY <2>3, <2>5, <2>6
  <2>8. pool' = pool \ {c}
    BY <1>2, Zenon DEF TerminateWait
  <2>9. ctl'[c] = x /\ \A k \in Controllers \ {c} : ctl'[k] = ctl[k]
    BY <2>1, <2>4 DEF TypeInv, TypeOK
  <2> HIDE DEF c
  <2> QED
    BY <2>7, <2>8, <2>9 DEF ChildInv
<1> QED
  BY <1>1, <1>2, Zenon DEF Terminate, TerminateGet, TerminateLock

\* A step that makes no process and takes no controller out of the pool.
Calm == pool \subseteq pool' /\ \A k \in Controllers : Tame(ctl'[k], ctl[k])

\* What the other steps do to the processes of controllers.
LEMMA OtherChildren ==
    ASSUME TypeInv, OtherStep
    PROVE  Calm \/ \E c \in Controllers, started \in BOOLEAN : Spawn(c, started)
<1>0. pool \subseteq Controllers /\ ctl \in [Controllers -> Controller] /\ CtlOK
  BY DEF TypeInv, TypeOK, CtlOK
<1>1. ASSUME UNCHANGED ctl PROVE \A k \in Controllers : Tame(ctl'[k], ctl[k])
  BY <1>1, Zenon DEF Tame
<1>2. ASSUME NEW c \in Controllers, NEW b, ctl' = [ctl EXCEPT ![c].booked = b]
      PROVE  \A k \in Controllers : Tame(ctl'[k], ctl[k])
  BY <1>2, TameFields, Zenon
<1>3. ASSUME NEW a \in Actors, Sync(a)
      PROVE  Calm \/ \E c \in Controllers, started \in BOOLEAN : Spawn(c, started)
  <2>1. CASE \/ SyncEnter(a) \/ SyncWoken(a) \/ SyncPanics(a) \/ SyncRead(a) \/ SyncList(a)
             \/ SyncDone(a) \/ \E c \in Controllers : SyncLaunch(a, c)
    <3>1. UNCHANGED <<ctl, pool>>
      BY <2>1, Zenon DEF SyncEnter, SyncWoken, SyncPanics, SyncRead, SyncList, SyncDone, SyncLaunch
    <3> QED
      BY <1>1, <3>1, Zenon DEF Calm
  <2>2. ASSUME NEW c \in Controllers, SyncAnswer(a, c)
        PROVE  Calm
    <3>0. ctl[c] \in Controller /\ pool \subseteq pool'
      BY <1>0, <2>2 DEF SyncAnswer
    <3>1. CASE ctl' = [ctl EXCEPT ![c].fails = 0, ![c].known = TRUE,
                         ![c].apid = IF ctl[c].ext # None THEN ctl[c].ext ELSE @]
      <4>1. PICK q : q = IF ctl[c].ext # None THEN ctl[c].ext ELSE ctl[c].apid
        OBVIOUS
      <4>2. ctl' = [ctl EXCEPT ![c].fails = 0, ![c].known = TRUE, ![c].apid = q]
        BY <1>0, <3>0, <3>1, <4>1, Zenon DEF Controller
      <4> QED
        BY <3>0, <4>2, TameFields, Zenon DEF Calm
    <3>2. CASE ctl' = [ctl EXCEPT ![c].fails = IF @ < MaxSyncFails THEN @ + 1 ELSE @]
      <4>1. PICK n : n = IF ctl[c].fails < MaxSyncFails THEN ctl[c].fails + 1 ELSE ctl[c].fails
        OBVIOUS
      <4>2. ctl' = [ctl EXCEPT ![c].fails = n]
        BY <1>0, <3>2, <4>1
      <4> QED
        BY <3>0, <4>2, TameFields, Zenon DEF Calm
    <3> QED
      BY <2>2, <3>1, <3>2, Zenon DEF SyncAnswer
  <2>3. ASSUME NEW c \in Controllers, ClearStale(a, c) \/ GiveUpSpare(a, c)
        PROVE  Calm
    <3>1. UNCHANGED pool /\ \E b \in BOOLEAN : ctl' = [ctl EXCEPT ![c].booked = b]
      BY <2>3, Zenon DEF ClearStale, GiveUpSpare, TryLock, Unlock
    <3> QED
      BY <1>2, <3>1, Zenon DEF Calm
  <2>4. ASSUME SpawnMissing(a)
        PROVE  Calm \/ \E c \in Controllers, started \in BOOLEAN : Spawn(c, started)
    BY <1>1, <2>4, Zenon DEF SpawnMissing, Calm
  <2>5. CASE SpawnedMissing(a)
    <3>1. th[a].t \in Controllers /\ UNCHANGED pool
      BY <2>5, LocalsFacts DEF SpawnedMissing, At, TermPcs
    <3>2. UNCHANGED ctl \/ ctl' = [ctl EXCEPT ![th[a].t].booked = FALSE]
      BY <2>5, Zenon DEF SpawnedMissing, Unlock
    <3> QED
      BY <1>1, <1>2, <3>1, <3>2, Zenon DEF Calm
  <2> QED
    BY <1>3, <2>1, <2>2, <2>3, <2>4, <2>5, Zenon DEF Sync
<1>4. ASSUME NEW p \in PIDs, Detach(p)
      PROVE  Calm
  <2>1. UNCHANGED pool /\ (UNCHANGED ctl \/ \E c \in Controllers : ctl' = [ctl EXCEPT ![c].booked = TRUE])
    BY <1>0, <1>4, Zenon DEF Detach, TryLock, Attached
  <2> QED
    BY <1>1, <1>2, <2>1, Zenon DEF Calm
<1>5. ASSUME NEW p \in PIDs, JobConnects(p)
      PROVE  Calm
  <2>1. gpuOf[p] \in Controllers /\ UNCHANGED pool /\ ctl' = [ctl EXCEPT ![gpuOf[p]].ext = p]
    BY <1>5, Zenon DEF JobConnects, TypeInv
  <2> QED
    BY <2>1, TameFields, Zenon DEF Calm
<1>6. ASSUME NEW c \in Controllers, ControllerDies(c)
      PROVE  Calm
  <2>1. UNCHANGED pool /\ ctl' = [ctl EXCEPT ![c].proc = "dead"]
    BY <1>6, Zenon DEF ControllerDies
  <2> QED
    BY <2>1, TameFields, Zenon DEF Calm
<1>7. ASSUME \/ \E p \in PIDs : JobExits(p)
             \/ BgStop \/ BgCheck \/ BgTimeout \/ BgTick \/ Shutdown \/ Exit
             \/ \E a \in Runners, p \in PIDs : RunRequest(a, p)
             \/ \E d \in Dumpers, p \in PIDs : DumpRequest(d, p)
      PROVE  Calm
  <2>1. UNCHANGED <<ctl, pool>>
    BY <1>7, Zenon DEF JobExits, BgStop, BgCheck, BgTimeout, BgTick, Shutdown, Exit, RunRequest, DumpRequest
  <2> QED
    BY <1>1, <2>1, Zenon DEF Calm
<1> QED
  BY <1>3, <1>4, <1>5, <1>6, <1>7, Zenon DEF OtherStep

\* What run and restore requests do to them.
LEMMA RunChildren ==
    ASSUME TypeInv, NEW a \in Runners, Run(a)
    PROVE  Calm \/ \E c \in Controllers, started \in BOOLEAN : Spawn(c, started)
<1>0. a \in Actors /\ th[a] \in SoundLocals /\ th[a] \in Locals
  BY LocalsFacts DEF Actors
<1>1. ASSUME UNCHANGED <<ctl, pool>> PROVE Calm
  BY <1>1, Zenon DEF Tame, Calm
<1>2. CASE BookList(a) \/ SpawnedOwn(a) \/ RestoreGet(a) \/ RestoreLock(a)
  BY <1>1, <1>2, Zenon DEF BookList, SpawnedOwn, RestoreGet, RestoreLock
<1>3. CASE TryBook(a)
  <2>1. PICK c \in Controllers, b \in BOOLEAN : UNCHANGED pool /\ ctl' = [ctl EXCEPT ![c].booked = b]
    <3>1. th[a].cand \subseteq Controllers
      BY <1>0 DEF Locals
    <3> QED
      BY <1>3, <3>1, Zenon DEF TryBook, TryLock, Unlock
  <2> QED
    BY <2>1, TameFields, Zenon DEF Calm
<1>4. CASE SpawnOwn(a)
  BY <1>1, <1>4, Zenon DEF SpawnOwn
<1>5. ASSUME Launch(a) \/ Restore(a) \/ AttachSelect(a) \/ AttachRPC(a)
      PROVE  Calm
  <2> DEFINE c == th[a].c
  <2>0. c \in Controllers /\ UNCHANGED pool
    <3>1. th[a].pc \in {"launch", "restore", "started", "attach"} /\ UNCHANGED pool
      BY <1>5, Zenon DEF Launch, Restore, AttachSelect, AttachRPC, At
    <3> QED
      BY <1>0, <3>1, LocalsFacts DEF CtlPcs
  <2>1. \/ UNCHANGED ctl
        \/ \E q : ctl' = [ctl EXCEPT ![c].apid = q]
        \/ \E q : ctl' = [ctl EXCEPT ![c].apid = q, ![c].ext = q]
        \/ \E q : ctl' = [ctl EXCEPT ![c].apid = q, ![c].ext = q, ![c].booked = FALSE]
    BY <1>5, Zenon DEF Launch, Restore, AttachSelect, AttachRPC
  <2> HIDE DEF c
  <2>2. ASSUME NEW q, ctl' = [ctl EXCEPT ![c].apid = q] PROVE Calm
    BY <2>0, <2>2, TameFields, Zenon DEF Calm
  <2>3. ASSUME NEW q, ctl' = [ctl EXCEPT ![c].apid = q, ![c].ext = q] PROVE Calm
    BY <2>0, <2>3, TameFields, Zenon DEF Calm
  <2>4. ASSUME NEW q, ctl' = [ctl EXCEPT ![c].apid = q, ![c].ext = q, ![c].booked = FALSE] PROVE Calm
    BY <2>0, <2>4, TameFields, Zenon DEF Calm
  <2> QED
    BY <1>1, <2>0, <2>1, <2>2, <2>3, <2>4, Zenon
<1> QED
  BY <1>2, <1>3, <1>4, <1>5, ZenonT(60) DEF Run

\* What dump, freeze and unfreeze requests do to them.
LEMMA DumpChildren ==
    ASSUME TypeInv, NEW d \in Dumpers, Dump(d)
    PROVE  Calm
<1>0. d \in Actors /\ pool \subseteq Controllers
  BY DEF Actors, TypeInv, TypeOK
<1>1. ASSUME UNCHANGED <<ctl, pool>> PROVE Calm
  BY <1>1, Zenon DEF Tame, Calm
<1>2. CASE DumpFind(d) \/ DumpGet(d) \/ DumpLock(d) \/ DumpCRIU(d)
  BY <1>1, <1>2, Zenon DEF DumpFind, DumpGet, DumpLock, DumpCRIU
<1>3. CASE DumpFreeze(d) \/ DumpFinalize(d) \/ FreezeRPC(d)
  <2>1. UNCHANGED pool
    BY <1>3, Zenon DEF DumpFreeze, DumpFinalize, FreezeRPC
  <2>2. UNCHANGED ctl \/ \E c \in Controllers : \E b : ctl' = [ctl EXCEPT ![c].frozen = b]
    <3>1. CASE DumpFreeze(d) \/ DumpFinalize(d)
      <4>1. th[d].c \in Controllers
        BY <1>0, <3>1, LocalsFacts DEF DumpFreeze, DumpFinalize, At, CtlPcs
      <4>2. UNCHANGED ctl \/ \E b : ctl' = [ctl EXCEPT ![th[d].c].frozen = b]
        <5>1. CASE DumpFreeze(d)
          BY <5>1, Zenon DEF DumpFreeze
        <5>2. CASE DumpFinalize(d)
          <6>1. PICK b : b = (ctl[th[d].c].frozen /\ (th[d].dump \in {"early", "killed"} \/ ctl[th[d].c].proc # "up"))
            OBVIOUS
          <6>2. UNCHANGED ctl \/ ctl' = [ctl EXCEPT ![th[d].c].frozen = b]
            BY <4>1, <5>2, <6>1, Zenon DEF DumpFinalize, TypeInv, TypeOK
          <6> QED
            BY <6>2, Zenon
        <5> QED
          BY <3>1, <5>1, <5>2, Zenon
      <4> QED
        BY <4>1, <4>2, Zenon
    <3>2. CASE FreezeRPC(d)
      BY <1>0, <3>2, Zenon DEF FreezeRPC, Attached
    <3> QED
      BY <1>3, <3>1, <3>2
  <2>3. ASSUME NEW c \in Controllers, NEW b, ctl' = [ctl EXCEPT ![c].frozen = b] PROVE Calm
    BY <2>1, <2>3, TameFields, Zenon DEF Calm
  <2> QED
    BY <1>1, <2>1, <2>2, <2>3, Zenon
<1> QED
  BY <1>2, <1>3, Zenon DEF Dump

\* A spawned process is never lost while it runs.
LEMMA ChildNext ==
    ASSUME TypeInv, ChildInv, [Next]_vars
    PROVE  ChildInv'
<1>1. CASE Next
  <2>1. ASSUME Calm PROVE ChildInv'
    BY <2>1, ChildQuiet, Zenon DEF Calm
  <2> QED
    BY <1>1, <2>1, NextCases, ChildSpawn, ChildTerminate, OtherChildren, RunChildren,
       DumpChildren, Zenon
<1>2. CASE UNCHANGED vars
  BY <1>2 DEF vars, ChildInv
<1> QED
  BY <1>1, <1>2

-----------------------------------------------------------------------------
(* Bookings: each has a goroutine that ends it.                            *)

\* The points at which a run or restore request has a controller booked.
RunOwn == {"spawned", "launch", "restoreLock", "restore", "started", "attach"}
OwnPcs == RunOwn \cup TermPcs

\* A goroutine with the locals l is to unlock or to terminate c.
Owns(l, c) == (l.pc \in RunOwn /\ l.c = c) \/ (l.pc \in TermPcs /\ l.t = c)

(***************************************************************************)
(* A booked controller is in the pool and has an owner, unless it is being *)
(* terminated.  What List found has not left the pool in another way.      *)
(***************************************************************************)
BookInv ==
    /\ \A c \in Controllers \ terminating : ctl[c].booked =>
         c \in pool /\ \E a \in Actors : Owns(th[a], c)
    /\ stale \subseteq pool \cup terminating
    /\ spare \subseteq pool \cup terminating
    /\ \A a \in Actors : th[a].cand \subseteq pool \cup terminating

\* A run or restore request whose job has a controller, from Launch on.
Past(l) ==
    \/ l.pc \in {"started", "attach"}
    \/ l.pc \in {"term", "termLock", "termWait"} /\ l.r = "idle"

(***************************************************************************)
(* A job is started once, by one request; the goroutine that waits for it  *)
(* does nothing else while it runs.                                        *)
(***************************************************************************)
JobInv ==
    /\ \A p \in PIDs : gpuOf[p] = None => th[p].pc = "idle" /\ p \notin running
    /\ \A p \in running : th[p].pc = "idle"
    /\ \A a \in Runners : th[a].p # None /\ gpuOf[th[a].p] # None => Past(th[a])
    /\ \A a, b \in Runners : th[a].p # None /\ th[a].p = th[b].p => a = b

\* The locals of a goroutine that at most is woken from its wait for a Sync.
Still(x, y) ==
    /\ y.c = x.c /\ y.p = x.p /\ y.cand = x.cand /\ y.t = x.t /\ y.r = x.r
    /\ y.pc = x.pc \/ (x.pc = "syncWait" /\ y.pc = "syncWoken")

\* Nobody but a moves.
Only(a) == \A b \in Actors \ {a} : Still(th[b], th'[b])

\* The locals of a after the step.
After(a, pc, c, p, cand, t, r) ==
    /\ th'[a].pc = pc /\ th'[a].c = c /\ th'[a].p = p /\ th'[a].cand = cand
    /\ th'[a].t = t /\ th'[a].r = r

\* a ends its request.
Ends(a) == After(a, "idle", None, None, {}, None, "idle")

\* An update of the locals of one goroutine.
LEMMA OnlySet ==
    ASSUME TypeInv, NEW a \in Actors, NEW x, th' = [th EXCEPT ![a] = x]
    PROVE  Only(a) /\ th'[a] = x
<1>1. th'[a] = x /\ \A b \in Actors \ {a} : th'[b] = th[b]
  BY DEF TypeInv, TypeOK
<1> QED
  BY <1>1, Zenon DEF Only, Still

\* Moving on.
LEMMA GotoOnly ==
    ASSUME TypeInv, NEW a \in Actors, NEW l, Goto(a, l)
    PROVE  Only(a) /\ After(a, l, th[a].c, th[a].p, th[a].cand, th[a].t, th[a].r)
<1> DEFINE x == [th[a] EXCEPT !.pc = l]
<1>0. th \in [Actors -> Locals] /\ th[a] \in Locals
  BY DEF TypeInv, TypeOK
<1>1. th' = [th EXCEPT ![a] = x]
  BY <1>0, Zenon DEF Goto
<1>2. /\ x.pc = l /\ x.c = th[a].c /\ x.p = th[a].p /\ x.cand = th[a].cand
      /\ x.t = th[a].t /\ x.r = th[a].r
  BY <1>0, Zenon DEF Locals
<1> HIDE DEF x
<1> QED
  BY <1>1, <1>2, OnlySet, Zenon DEF After

\* Ending.
LEMMA IdleOnly ==
    ASSUME TypeInv, NEW a \in Actors, th' = [th EXCEPT ![a] = Idle]
    PROVE  Only(a) /\ Ends(a)
<1>1. /\ Idle.pc = "idle" /\ Idle.c = None /\ Idle.p = None /\ Idle.cand = {}
      /\ Idle.t = None /\ Idle.r = "idle"
  BY Zenon DEF Idle
<1> QED
  BY <1>1, OnlySet, Zenon DEF After, Ends

\* Moving on, or ending.
LEMMA GoOnOnly ==
    ASSUME TypeInv, NEW a \in Actors, NEW l, GoOn(a, l)
    PROVE  /\ Only(a)
           /\ IF l = "idle" THEN Ends(a)
              ELSE After(a, l, th[a].c, th[a].p, th[a].cand, th[a].t, th[a].r)
<1>1. CASE l = "idle"
  <2>1. th' = [th EXCEPT ![a] = Idle]
    BY <1>1, Zenon DEF GoOn
  <2> QED
    BY <1>1, <2>1, IdleOnly, Zenon
<1>2. CASE l # "idle"
  <2>1. Goto(a, l)
    BY <1>2, Zenon DEF GoOn, Goto
  <2> QED
    BY <1>2, <2>1, GotoOnly, Zenon
<1> QED
  BY <1>1, <1>2

\* Calling Terminate.
LEMMA CallOnly ==
    ASSUME TypeInv, NEW a \in Actors, NEW c, NEW l, CallTerminate(a, c, l)
    PROVE  Only(a) /\ After(a, "term", th[a].c, th[a].p, th[a].cand, c, l)
<1> DEFINE x == [th[a] EXCEPT !.pc = "term", !.t = c, !.r = l]
<1>0. th \in [Actors -> Locals] /\ th[a] \in Locals
  BY DEF TypeInv, TypeOK
<1>1. th' = [th EXCEPT ![a] = x]
  BY <1>0, Zenon DEF CallTerminate
<1>2. /\ x.pc = "term" /\ x.c = th[a].c /\ x.p = th[a].p /\ x.cand = th[a].cand
      /\ x.t = c /\ x.r = l
  BY <1>0, Zenon DEF Locals
<1> HIDE DEF x
<1> QED
  BY <1>1, <1>2, OnlySet, Zenon DEF After

\* Returning from Terminate.
LEMMA ReturnOnly ==
    ASSUME TypeInv, NEW a \in Actors, Return(a)
    PROVE  /\ Only(a)
           /\ IF th[a].r = "idle" THEN Ends(a)
              ELSE After(a, th[a].r, th[a].c, th[a].p, th[a].cand, None, "idle")
<1> DEFINE x == [th[a] EXCEPT !.pc = th[a].r, !.t = None, !.r = "idle"]
<1>0. th \in [Actors -> Locals] /\ th[a] \in Locals
  BY DEF TypeInv, TypeOK
<1>1. CASE th[a].r = "idle"
  <2>1. th' = [th EXCEPT ![a] = Idle]
    BY <1>1, Zenon DEF Return
  <2> QED
    BY <1>1, <2>1, IdleOnly, Zenon
<1>2. CASE th[a].r # "idle"
  <2>1. th' = [th EXCEPT ![a] = x]
    BY <1>0, <1>2, Zenon DEF Return
  <2>2. /\ x.pc = th[a].r /\ x.c = th[a].c /\ x.p = th[a].p /\ x.cand = th[a].cand
        /\ x.t = None /\ x.r = "idle"
    BY <1>0, Zenon DEF Locals
  <2> HIDE DEF x
  <2> QED
    BY <1>2, <2>1, <2>2, OnlySet, Zenon DEF After
<1> QED
  BY <1>1, <1>2, Zenon

\* Leaving Sync, which wakes those that wait for it.
LEMMA SyncLeaveOnly ==
    ASSUME TypeInv, NEW a \in Actors, NEW ok, SyncLeave(a, ok)
    PROVE  /\ Only(a)
           /\ \/ Ends(a)
              \/ \E l : After(a, l, th[a].c, th[a].p, th[a].cand, th[a].t, th[a].r)
<1>0. th \in [Actors -> Locals] /\ th[a] \in Locals
  BY DEF TypeInv, TypeOK
<1> DEFINE k == IF ok \/ a = Bg THEN th[a].k ELSE "idle"
<1>1. /\ th'[a] = IF k = "idle" THEN Idle ELSE [th[a] EXCEPT !.pc = k]
      /\ \A b \in Actors \ {a} :
           th'[b] = IF th[b].pc = "syncWait" THEN [th[b] EXCEPT !.pc = "syncWoken"] ELSE th[b]
  BY ZenonT(60) DEF SyncLeave
<1> HIDE DEF k
<1>2. ASSUME NEW b \in Actors \ {a} PROVE Still(th[b], th'[b])
  <2>0. th[b] \in Locals
    BY <1>0
  <2>1. CASE th[b].pc = "syncWait"
    <3> DEFINE x == [th[b] EXCEPT !.pc = "syncWoken"]
    <3>1. /\ x.pc = "syncWoken" /\ x.c = th[b].c /\ x.p = th[b].p /\ x.cand = th[b].cand
          /\ x.t = th[b].t /\ x.r = th[b].r
      BY <2>0, Zenon DEF Locals
    <3>2. th'[b] = x
      BY <1>1, <2>1, Zenon
    <3> QED
      BY <2>1, <3>1, <3>2, Zenon DEF Still
  <2>2. CASE th[b].pc # "syncWait"
    BY <1>1, <2>2, Zenon DEF Still
  <2> QED
    BY <2>1, <2>2
<1>3. CASE k = "idle"
  <2>1. /\ Idle.pc = "idle" /\ Idle.c = None /\ Idle.p = None /\ Idle.cand = {}
        /\ Idle.t = None /\ Idle.r = "idle"
    BY Zenon DEF Idle
  <2>2. th'[a] = Idle
    BY <1>1, <1>3, Zenon
  <2> QED
    BY <1>2, <2>1, <2>2, Zenon DEF Only, Ends, After
<1>4. CASE k # "idle"
  <2> DEFINE x == [th[a] EXCEPT !.pc = k]
  <2>1. /\ x.pc = k /\ x.c = th[a].c /\ x.p = th[a].p /\ x.cand = th[a].cand
        /\ x.t = th[a].t /\ x.r = th[a].r
    BY <1>0, Zenon DEF Locals
  <2>2. th'[a] = x
    BY <1>1, <1>4, Zenon
  <2>3. After(a, k, th[a].c, th[a].p, th[a].cand, th[a].t, th[a].r)
    BY <2>1, <2>2, Zenon DEF After
  <2> QED
    BY <1>2, <2>3, Zenon DEF Only
<1> QED
  BY <1>3, <1>4

\* The other ways to change one's locals.
LEMMA SetOnly ==
    ASSUME TypeInv, NEW a \in Actors, NEW l, NEW c, NEW p, NEW S, NEW k, NEW d
    PROVE  /\ th' = [th EXCEPT ![a].pc = l, ![a].t = c] =>
                Only(a) /\ After(a, l, th[a].c, th[a].p, th[a].cand, c, th[a].r)
           /\ th' = [th EXCEPT ![a].pc = l, ![a].k = k, ![a].p = p] =>
                Only(a) /\ After(a, l, th[a].c, p, th[a].cand, th[a].t, th[a].r)
           /\ th' = [th EXCEPT ![a].pc = l, ![a].k = k] =>
                Only(a) /\ After(a, l, th[a].c, th[a].p, th[a].cand, th[a].t, th[a].r)
           /\ th' = [th EXCEPT ![a].pc = l, ![a].dump = d] =>
                Only(a) /\ After(a, l, th[a].c, th[a].p, th[a].cand, th[a].t, th[a].r)
           /\ th' = [th EXCEPT ![a].pc = l, ![a].cand = S] =>
                Only(a) /\ After(a, l, th[a].c, th[a].p, S, th[a].t, th[a].r)
           /\ th' = [th EXCEPT ![a].cand = S] =>
                Only(a) /\ After(a, th[a].pc, th[a].c, th[a].p, S, th[a].t, th[a].r)
           /\ th' = [th EXCEPT ![a].pc = l, ![a].c = c] =>
                Only(a) /\ After(a, l, c, th[a].p, th[a].cand, th[a].t, th[a].r)
           /\ th' = [th EXCEPT ![a].pc = l, ![a].c = c, ![a].cand = S] =>
                Only(a) /\ After(a, l, c, th[a].p, S, th[a].t, th[a].r)
<1>0. th \in [Actors -> Locals] /\ th[a] \in Locals
  BY DEF TypeInv, TypeOK
<1>1. ASSUME NEW x, NEW y, NEW q, NEW cand, NEW t, NEW r, NEW m,
             th' = [th EXCEPT ![a] = x], x.pc = m, x.c = y, x.p = q, x.cand = cand,
             x.t = t, x.r = r
      PROVE  Only(a) /\ After(a, m, y, q, cand, t, r)
  BY <1>1, OnlySet, Zenon DEF After
<1>2. ASSUME th' = [th EXCEPT ![a].pc = l, ![a].t = c]
      PROVE  Only(a) /\ After(a, l, th[a].c, th[a].p, th[a].cand, c, th[a].r)
  <2> DEFINE x == [th[a] EXCEPT !.pc = l, !.t = c]
  <2>1. th' = [th EXCEPT ![a] = x]
    BY <1>0, <1>2, Zenon
  <2>2. x.pc = l /\ x.c = th[a].c /\ x.p = th[a].p /\ x.cand = th[a].cand /\ x.t = c /\ x.r = th[a].r
    BY <1>0, Zenon DEF Locals
  <2> HIDE DEF x
  <2> QED
    BY <1>1, <2>1, <2>2, Zenon
<1>3. ASSUME th' = [th EXCEPT ![a].pc = l, ![a].k = k, ![a].p = p]
      PROVE  Only(a) /\ After(a, l, th[a].c, p, th[a].cand, th[a].t, th[a].r)
  <2> DEFINE x == [th[a] EXCEPT !.pc = l, !.k = k, !.p = p]
  <2>1. th' = [th EXCEPT ![a] = x]
    BY <1>0, <1>3, Zenon
  <2>2. /\ x.pc = l /\ x.c = th[a].c /\ x.p = p
        /\ x.cand = th[a].cand /\ x.t = th[a].t /\ x.r = th[a].r
    BY <1>0, Zenon DEF Locals
  <2> HIDE DEF x
  <2> QED
    BY <1>1, <2>1, <2>2, Zenon
<1>4. ASSUME th' = [th EXCEPT ![a].pc = l, ![a].k = k]
      PROVE  Only(a) /\ After(a, l, th[a].c, th[a].p, th[a].cand, th[a].t, th[a].r)
  <2> DEFINE x == [th[a] EXCEPT !.pc = l, !.k = k]
  <2>1. th' = [th EXCEPT ![a] = x]
    BY <1>0, <1>4, Zenon
  <2>2. /\ x.pc = l /\ x.c = th[a].c /\ x.p = th[a].p
        /\ x.cand = th[a].cand /\ x.t = th[a].t /\ x.r = th[a].r
    BY <1>0, Zenon DEF Locals
  <2> HIDE DEF x
  <2> QED
    BY <1>1, <2>1, <2>2, Zenon
<1>5. ASSUME th' = [th EXCEPT ![a].pc = l, ![a].dump = d]
      PROVE  Only(a) /\ After(a, l, th[a].c, th[a].p, th[a].cand, th[a].t, th[a].r)
  <2> DEFINE x == [th[a] EXCEPT !.pc = l, !.dump = d]
  <2>1. th' = [th EXCEPT ![a] = x]
    BY <1>0, <1>5, Zenon
  <2>2. /\ x.pc = l /\ x.c = th[a].c /\ x.p = th[a].p
        /\ x.cand = th[a].cand /\ x.t = th[a].t /\ x.r = th[a].r
    BY <1>0, Zenon DEF Locals
  <2> HIDE DEF x
  <2> QED
    BY <1>1, <2>1, <2>2, Zenon
<1>6. ASSUME th' = [th EXCEPT ![a].pc = l, ![a].cand = S]
      PROVE  Only(a) /\ After(a, l, th[a].c, th[a].p, S, th[a].t, th[a].r)
  <2> DEFINE x == [th[a] EXCEPT !.pc = l, !.cand = S]
  <2>1. th' = [th EXCEPT ![a] = x]
    BY <1>0, <1>6, Zenon
  <2>2. /\ x.pc = l /\ x.c = th[a].c /\ x.p = th[a].p
        /\ x.cand = S /\ x.t = th[a].t /\ x.r = th[a].r
    BY <1>0, Zenon DEF Locals
  <2> HIDE DEF x
  <2> QED
    BY <1>1, <2>1, <2>2, Zenon
<1>7. ASSUME th' = [th EXCEPT ![a].cand = S]
      PROVE  Only(a) /\ After(a, th[a].pc, th[a].c, th[a].p, S, th[a].t, th[a].r)
  <2> DEFINE x == [th[a] EXCEPT !.cand = S]
  <2>1. th' = [th EXCEPT ![a] = x]
    BY <1>0, <1>7, Zenon
  <2>2. /\ x.pc = th[a].pc /\ x.c = th[a].c /\ x.p = th[a].p
        /\ x.cand = S /\ x.t = th[a].t /\ x.r = th[a].r
    BY <1>0, Zenon DEF Locals
  <2> HIDE DEF x
  <2> QED
    BY <1>1, <2>1, <2>2, Zenon
<1>8. ASSUME th' = [th EXCEPT ![a].pc = l, ![a].c = c]
      PROVE  Only(a) /\ After(a, l, c, th[a].p, th[a].cand, th[a].t, th[a].r)
  <2> DEFINE x == [th[a] EXCEPT !.pc = l, !.c = c]
  <2>1. th' = [th EXCEPT ![a] = x]
    BY <1>0, <1>8, Zenon
  <2>2. /\ x.pc = l /\ x.c = c /\ x.p = th[a].p
        /\ x.cand = th[a].cand /\ x.t = th[a].t /\ x.r = th[a].r
    BY <1>0, Zenon DEF Locals
  <2> HIDE DEF x
  <2> QED
    BY <1>1, <2>1, <2>2, Zenon
<1>9. ASSUME th' = [th EXCEPT ![a].pc = l, ![a].c = c, ![a].cand = S]
      PROVE  Only(a) /\ After(a, l, c, th[a].p, S, th[a].t, th[a].r)
  <2> DEFINE x == [th[a] EXCEPT !.pc = l, !.c = c, !.cand = S]
  <2>1. th' = [th EXCEPT ![a] = x]
    BY <1>0, <1>9, Zenon
  <2>2. /\ x.pc = l /\ x.c = c /\ x.p = th[a].p
        /\ x.cand = S /\ x.t = th[a].t /\ x.r = th[a].r
    BY <1>0, Zenon DEF Locals
  <2> HIDE DEF x
  <2> QED
    BY <1>1, <2>1, <2>2, Zenon
<1> QED
  BY <1>2, <1>3, <1>4, <1>5, <1>6, <1>7, <1>8, <1>9, Zenon

\* What keeps a goroutine's bookings and its list of candidates.
Holding(b) ==
    /\ \A c \in Controllers : Owns(th[b], c) => Owns(th'[b], c)
    /\ th'[b].cand \subseteq th[b].cand

\* Who at most is woken holds on.
LEMMA StillHolds ==
    ASSUME NEW b, Still(th[b], th'[b])
    PROVE  Holding(b)
<1>1. "syncWait" \notin RunOwn /\ "syncWait" \notin TermPcs
  BY DEF RunOwn, TermPcs
<1> QED
  BY <1>1, Zenon DEF Still, Holding, Owns

\* A step of x: what is booked after it was booked and has its owner still, or x
\* books it.  Nothing leaves the pool but what is being terminated.
LEMMA BookStep ==
    ASSUME TypeInv, BookInv, NEW x \in Actors, \A b \in Actors \ {x} : Holding(b),
           terminating \subseteq terminating',
           \A c \in Controllers \ terminating' :
              /\ c \in pool => c \in pool'
              /\ ctl'[c].booked =>
                   \/ ctl[c].booked /\ (Owns(th[x], c) => Owns(th'[x], c))
                   \/ c \in pool' /\ Owns(th'[x], c),
           th'[x].cand \subseteq th[x].cand \cup pool,
           stale' \subseteq stale \cup pool, spare' \subseteq spare \cup pool
    PROVE  BookInv'
<1>0. pool \subseteq Controllers
  BY Zenon DEF TypeInv, TypeOK
<1>1. pool \cup terminating \subseteq pool' \cup terminating'
  BY <1>0, Zenon
<1>2. ASSUME NEW c \in Controllers \ terminating', ctl'[c].booked
      PROVE  c \in pool' /\ \E a \in Actors : Owns(th'[a], c)
  <2>1. CASE ctl[c].booked /\ (Owns(th[x], c) => Owns(th'[x], c))
    <3>1. c \in pool /\ \E a \in Actors : Owns(th[a], c)
      BY <1>2, <2>1, Zenon DEF BookInv
    <3>2. PICK a \in Actors : Owns(th[a], c)
      BY <3>1, Zenon
    <3>3. Owns(th'[a], c)
      BY <1>2, <2>1, <3>2, Zenon DEF Holding
    <3> QED
      BY <1>2, <3>1, <3>3, Zenon
  <2> QED
    BY <1>2, <2>1, Zenon
<1>3. \A a \in Actors : th'[a].cand \subseteq pool' \cup terminating'
  BY <1>1, Zenon DEF BookInv, Holding
<1>4. stale' \subseteq pool' \cup terminating' /\ spare' \subseteq pool' \cup terminating'
  BY <1>1, Zenon DEF BookInv
<1> QED
  BY <1>2, <1>3, <1>4, ZenonT(60) DEF BookInv

\* A step of x that starts and ends no job.
LEMMA JobStep ==
    ASSUME TypeInv, JobInv, NEW x \in Actors, Only(x), UNCHANGED procs,
           th'[x].p \in {th[x].p, None}, x \in PIDs => th[x].pc # "idle",
           x \in Runners /\ Past(th[x]) => Past(th'[x]) \/ th'[x].p = None
    PROVE  JobInv'
<1>0. Runners \subseteq Actors /\ PIDs \subseteq Actors
  BY DEF Actors
<1>1. UNCHANGED running /\ UNCHANGED gpuOf
  BY DEF procs
<1>2. ASSUME NEW p \in PIDs, th[p].pc = "idle" PROVE th'[p].pc = "idle"
  <2>1. p # x
    BY <1>2
  <2> QED
    BY <1>0, <1>2, <2>1, Zenon DEF Only, Still
<1>3. ASSUME NEW p \in PIDs, gpuOf'[p] = None PROVE th'[p].pc = "idle" /\ p \notin running'
  BY <1>1, <1>2, <1>3, Zenon DEF JobInv
<1>4. ASSUME NEW p \in running' PROVE th'[p].pc = "idle"
  <2>1. p \in PIDs /\ p \in running
    BY <1>1, <1>4 DEF TypeInv, TypeOK
  <2> QED
    BY <1>2, <2>1, ZenonT(60) DEF JobInv
<1>5. ASSUME NEW a \in Runners, th'[a].p # None PROVE th'[a].p = th[a].p
  BY <1>0, <1>5, Zenon DEF Only, Still
<1>6. ASSUME NEW a \in Runners, th'[a].p # None, gpuOf'[th'[a].p] # None PROVE Past(th'[a])
  <2>1. th'[a].p = th[a].p
    BY <1>5, <1>6, Zenon
  <2>2. gpuOf[th[a].p] # None
    BY <1>1, <1>6, <2>1, Zenon
  <2>3. Past(th[a])
    BY <1>6, <2>1, <2>2, Zenon DEF JobInv
  <2>4. CASE a = x
    BY <1>6, <2>3, <2>4, Zenon
  <2>5. CASE a # x
    <3>1. th[a].pc # "syncWait"
      BY <2>3 DEF Past
    <3>2. th'[a].pc = th[a].pc /\ th'[a].r = th[a].r
      BY <1>0, <2>5, <3>1, Zenon DEF Only, Still
    <3> QED
      BY <2>3, <3>2, Zenon DEF Past
  <2> QED
    BY <2>4, <2>5
<1>7. ASSUME NEW a \in Runners, NEW b \in Runners, th'[a].p # None, th'[a].p = th'[b].p PROVE a = b
  <2>1. th'[a].p = th[a].p /\ th'[b].p = th[b].p
    BY <1>5, <1>7, Zenon
  <2>2. th[a].p # None /\ th[a].p = th[b].p
    BY <1>7, <2>1, Zenon
  <2> QED
    BY <2>2, Zenon DEF JobInv
<1> QED
  BY <1>3, <1>4, <1>6, <1>7, Zenon DEF JobInv

\* A booked controller, as a step finds it.
LEMMA BookedFacts ==
    ASSUME BookInv, NEW c \in Controllers \ terminating, ctl[c].booked
    PROVE  c \in pool
  BY DEF BookInv

\* What is left alone by a step of one goroutine.
Rest == UNCHANGED procs /\ UNCHANGED terminating /\ pool \subseteq pool'

\* A step of a goroutine that owns nothing, and after which nothing is booked
\* that was not.
LEMMA QuietStep ==
    ASSUME TypeInv, BookInv, JobInv, NEW x \in Actors, Only(x), Rest,
           th[x].pc \notin OwnPcs \cup {"idle"}, th'[x].p \in {th[x].p, None},
           th'[x].cand \subseteq th[x].cand \cup pool,
           \A c \in Controllers : ctl'[c].booked => ctl[c].booked,
           stale' \subseteq stale \cup pool, spare' \subseteq spare \cup pool
    PROVE  BookInv' /\ JobInv'
<1>1. \A b \in Actors \ {x} : Holding(b)
  BY StillHolds, Zenon DEF Only
<1>2. \A c \in Controllers : ~Owns(th[x], c)
  BY Zenon DEF Owns, OwnPcs
<1>3. terminating \subseteq terminating' /\ pool \subseteq pool'
  BY Zenon DEF Rest
<1>4. ~Past(th[x])
  BY DEF Past, OwnPcs, RunOwn, TermPcs
<1>5. BookInv'
  BY <1>1, <1>2, <1>3, BookStep, Zenon
<1>6. JobInv'
  BY <1>4, JobStep, ZenonT(60) DEF Rest
<1> QED
  BY <1>5, <1>6

\* A step in which such a goroutine books c.
LEMMA BookingStep ==
    ASSUME TypeInv, BookInv, JobInv, NEW x \in Actors, Only(x), Rest,
           th[x].pc \notin OwnPcs \cup {"idle"}, th'[x].p \in {th[x].p, None},
           th'[x].cand \subseteq th[x].cand,
           NEW c \in Controllers, Owns(th'[x], c), c \in pool' \cup terminating,
           \A k \in Controllers \ {c} : ctl'[k].booked => ctl[k].booked,
           stale' \subseteq stale, spare' \subseteq spare
    PROVE  BookInv' /\ JobInv'
<1>1. \A b \in Actors \ {x} : Holding(b)
  BY StillHolds, Zenon DEF Only
<1>2. \A k \in Controllers : ~Owns(th[x], k)
  BY Zenon DEF Owns, OwnPcs
<1>3. terminating' = terminating /\ pool \subseteq pool'
  BY Zenon DEF Rest
<1>4. ~Past(th[x])
  BY DEF Past, OwnPcs, RunOwn, TermPcs
<1>5. \A k \in Controllers \ terminating' :
        /\ k \in pool => k \in pool'
        /\ ctl'[k].booked =>
              \/ ctl[k].booked /\ (Owns(th[x], k) => Owns(th'[x], k))
              \/ k \in pool' /\ Owns(th'[x], k)
  BY <1>2, <1>3, Zenon
<1>6. BookInv'
  BY <1>1, <1>3, <1>5, BookStep, Zenon
<1>7. JobInv'
  BY <1>4, JobStep, Zenon DEF Rest
<1> QED
  BY <1>6, <1>7

\* A step in which nobody moves.
LEMMA NobodyMoves ==
    ASSUME TypeInv, BookInv, JobInv, UNCHANGED <<th, stale, spare>>, Rest,
           \A c \in Controllers : ctl'[c].booked => ctl[c].booked
    PROVE  BookInv' /\ JobInv'
<1>1. Bg \in Actors /\ Bg \notin PIDs /\ Bg \notin Runners
  BY DEF Actors
<1>2. Only(Bg) /\ Holding(Bg) /\ \A b \in Actors \ {Bg} : Holding(b)
  BY Zenon DEF Only, Still, Holding
<1>3. terminating \subseteq terminating' /\ pool \subseteq pool'
  BY Zenon DEF Rest
<1>4. BookInv'
  BY <1>1, <1>2, <1>3, BookStep, Zenon DEF Holding
<1>5. JobInv'
  BY <1>1, <1>2, JobStep, Zenon DEF Rest
<1> QED
  BY <1>4, <1>5

\* The changes of one controller that leave its booking alone, or end it.
LEMMA BookedFields ==
    ASSUME TypeInv, NEW c \in Controllers, NEW b, NEW q, NEW e, NEW n
    PROVE  /\ \/ UNCHANGED ctl
              \/ ctl' = [ctl EXCEPT ![c].frozen = b]
              \/ ctl' = [ctl EXCEPT ![c].apid = q] \/ ctl' = [ctl EXCEPT ![c].ext = e]
              \/ ctl' = [ctl EXCEPT ![c].apid = q, ![c].ext = e]
              \/ ctl' = [ctl EXCEPT ![c].fails = n] \/ ctl' = [ctl EXCEPT ![c].proc = "dead"]
              \/ ctl' = [ctl EXCEPT ![c].fails = n, ![c].known = TRUE, ![c].apid = q]
              => \A k \in Controllers : ctl'[k].booked = ctl[k].booked
           /\ \/ ctl' = [ctl EXCEPT ![c].booked = b]
              \/ ctl' = [ctl EXCEPT ![c].apid = q, ![c].ext = e, ![c].booked = b]
              => ctl'[c].booked = b /\ \A k \in Controllers \ {c} : ctl'[k] = ctl[k]
<1>0. ctl[c] \in Controller /\ ctl \in [Controllers -> Controller]
  BY DEF TypeInv, TypeOK
<1>1. ASSUME NEW x, ctl' = [ctl EXCEPT ![c] = x], x.booked = ctl[c].booked
      PROVE  \A k \in Controllers : ctl'[k].booked = ctl[k].booked
  BY <1>0, <1>1
<1>2. ASSUME NEW x, ctl' = [ctl EXCEPT ![c] = x], x.booked = b
      PROVE  ctl'[c].booked = b /\ \A k \in Controllers \ {c} : ctl'[k] = ctl[k]
  BY <1>0, <1>2
<1>3. /\ [ctl[c] EXCEPT !.frozen = b].booked = ctl[c].booked
      /\ [ctl[c] EXCEPT !.apid = q].booked = ctl[c].booked
      /\ [ctl[c] EXCEPT !.ext = e].booked = ctl[c].booked
      /\ [ctl[c] EXCEPT !.apid = q, !.ext = e].booked = ctl[c].booked
      /\ [ctl[c] EXCEPT !.fails = n].booked = ctl[c].booked
      /\ [ctl[c] EXCEPT !.proc = "dead"].booked = ctl[c].booked
      /\ [ctl[c] EXCEPT !.fails = n, !.known = TRUE, !.apid = q].booked = ctl[c].booked
      /\ [ctl[c] EXCEPT !.booked = b].booked = b
      /\ [ctl[c] EXCEPT !.apid = q, !.ext = e, !.booked = b].booked = b
  BY <1>0, Zenon DEF Controller
<1>4. ASSUME \/ ctl' = [ctl EXCEPT ![c].frozen = b]
             \/ ctl' = [ctl EXCEPT ![c].apid = q] \/ ctl' = [ctl EXCEPT ![c].ext = e]
             \/ ctl' = [ctl EXCEPT ![c].apid = q, ![c].ext = e]
             \/ ctl' = [ctl EXCEPT ![c].fails = n] \/ ctl' = [ctl EXCEPT ![c].proc = "dead"]
             \/ ctl' = [ctl EXCEPT ![c].fails = n, ![c].known = TRUE, ![c].apid = q]
      PROVE  \A k \in Controllers : ctl'[k].booked = ctl[k].booked
  <2>1. \/ ctl' = [ctl EXCEPT ![c] = [ctl[c] EXCEPT !.frozen = b]]
        \/ ctl' = [ctl EXCEPT ![c] = [ctl[c] EXCEPT !.apid = q]]
        \/ ctl' = [ctl EXCEPT ![c] = [ctl[c] EXCEPT !.ext = e]]
        \/ ctl' = [ctl EXCEPT ![c] = [ctl[c] EXCEPT !.apid = q, !.ext = e]]
        \/ ctl' = [ctl EXCEPT ![c] = [ctl[c] EXCEPT !.fails = n]]
        \/ ctl' = [ctl EXCEPT ![c] = [ctl[c] EXCEPT !.proc = "dead"]]
        \/ ctl' = [ctl EXCEPT ![c] = [ctl[c] EXCEPT !.fails = n, !.known = TRUE, !.apid = q]]
    BY <1>0, <1>4, Zenon
  <2> QED
    BY <1>1, <1>3, <2>1, Zenon
<1>5. ASSUME \/ ctl' = [ctl EXCEPT ![c].booked = b]
             \/ ctl' = [ctl EXCEPT ![c].apid = q, ![c].ext = e, ![c].booked = b]
      PROVE  ctl'[c].booked = b /\ \A k \in Controllers \ {c} : ctl'[k] = ctl[k]
  <2>1. \/ ctl' = [ctl EXCEPT ![c] = [ctl[c] EXCEPT !.booked = b]]
        \/ ctl' = [ctl EXCEPT ![c] = [ctl[c] EXCEPT !.apid = q, !.ext = e, !.booked = b]]
    BY <1>0, <1>5, Zenon
  <2> QED
    BY <1>2, <1>3, <2>1, Zenon
<1>6. UNCHANGED ctl => \A k \in Controllers : ctl'[k].booked = ctl[k].booked
  BY Zenon
<1> QED
  BY <1>4, <1>5, <1>6, ZenonT(60)

\* Terminate: who owned the controller ends only when it is being terminated.
LEMMA TerminateBooks ==
    ASSUME TypeInv, LockInv, BookInv, JobInv, NEW a \in Actors, Terminate(a)
    PROVE  BookInv' /\ JobInv'
<1>0. /\ th[a].pc \in {"term", "termLock", "termWait"} /\ th[a].t \in Controllers
      /\ UNCHANGED <<procs, stale, spare>>
  <2>1. th[a].pc \in {"term", "termLock", "termWait"} /\ UNCHANGED <<procs, sync>>
    BY Zenon DEF Terminate, TerminateGet, TerminateLock, TerminateWait, At
  <2> QED
    BY <2>1, LocalsFacts, Zenon DEF TermPcs, sync
<1>1. ASSUME NEW l \in {"termLock", "termWait"}, Goto(a, l)
      PROVE  JobInv' /\ Holding(a) /\ \A b \in Actors \ {a} : Holding(b)
  <2>1. Only(a) /\ After(a, l, th[a].c, th[a].p, th[a].cand, th[a].t, th[a].r)
    BY <1>1, GotoOnly, ZenonT(60)
  <2>2. Past(th[a]) => Past(th'[a])
    BY <1>0, <1>1, <2>1, Zenon DEF Past, After
  <2>3. th'[a].p = th[a].p /\ th'[a].cand = th[a].cand /\ th[a].pc # "idle"
    BY <1>0, <2>1, Zenon DEF After
  <2>4. JobInv'
    BY <1>0, <2>1, <2>2, <2>3, JobStep, ZenonT(60)
  <2>5. Owns(th[a], th[a].t) /\ \A c : Owns(th[a], c) => c = th[a].t
    BY <1>0, Zenon DEF Owns, RunOwn, TermPcs
  <2>6. Owns(th'[a], th[a].t)
    BY <1>1, <2>1 DEF Owns, After, TermPcs
  <2> QED
    BY <2>1, <2>3, <2>4, <2>5, <2>6, StillHolds, Zenon DEF Holding, Only
<1>2. ASSUME Return(a)
      PROVE  /\ JobInv' /\ \A b \in Actors \ {a} : Holding(b)
             /\ th'[a].cand \subseteq th[a].cand
  <2>1. Only(a) /\ IF th[a].r = "idle" THEN Ends(a)
                   ELSE After(a, th[a].r, th[a].c, th[a].p, th[a].cand, None, "idle")
    BY <1>2, ReturnOnly, Zenon
  <2>2. th[a].r = "idle" => th'[a].p = None /\ th'[a].cand = {}
    BY <2>1, Zenon DEF Ends, After
  <2>3. th[a].r # "idle" => th'[a].p = th[a].p /\ th'[a].cand = th[a].cand
    BY <2>1, ZenonT(60) DEF After
  <2>4. Past(th[a]) => th'[a].p = None
    BY <1>0, <2>2, Zenon DEF Past
  <2>5. th[a].pc # "idle"
    BY <1>0
  <2>6. JobInv'
    BY <1>0, <2>1, <2>2, <2>3, <2>4, <2>5, JobStep, Zenon
  <2> QED
    BY <2>1, <2>2, <2>3, <2>6, StillHolds, Zenon DEF Only
<1>3. \A c : Owns(th[a], c) => c = th[a].t
  BY <1>0 DEF Owns, RunOwn, TermPcs
<1>4. CASE TerminateGet(a)
  <2>1. UNCHANGED <<ctl, pool>> /\ UNCHANGED terminating
    BY <1>4 DEF TerminateGet, term
  <2>2. CASE th[a].t \in pool /\ Goto(a, "termLock")
    BY <1>0, <1>1, <2>1, <2>2, BookStep, Zenon DEF Holding
  <2>3. CASE th[a].t \notin pool /\ Return(a)
    <3>1. \A c \in Controllers \ terminating : ctl[c].booked => ~Owns(th[a], c)
      BY <1>3, <2>3, BookedFacts, Zenon
    <3> QED
      BY <1>0, <1>2, <2>1, <2>3, <3>1, BookStep, Zenon
  <2> QED
    BY <1>4, <2>2, <2>3, Zenon DEF TerminateGet
<1>5. CASE TerminateLock(a)
  <2>1. UNCHANGED <<ctl, pool>> /\ terminating \subseteq terminating'
    BY <1>5, Zenon DEF TerminateLock
  <2>2. CASE Goto(a, "termWait")
    BY <1>0, <1>1, <2>1, <2>2, BookStep, Zenon DEF Holding
  <2>3. CASE th[a].t \in terminating /\ Return(a)
    <3>1. \A c \in Controllers \ terminating' : ~Owns(th[a], c)
      BY <1>3, <2>1, <2>3, Zenon
    <3> QED
      BY <1>0, <1>2, <2>1, <2>3, <3>1, BookStep, Zenon
  <2> QED
    BY <1>5, <2>2, <2>3, Zenon DEF TerminateLock
<1>6. CASE TerminateWait(a)
  <2>1. UNCHANGED terminating /\ Return(a) /\ pool' = pool \ {th[a].t}
    BY <1>6, ZenonT(60) DEF TerminateWait
  <2>2. th[a].t \in terminating
    BY <1>6, Zenon DEF TerminateWait, At, LockInv
  <2>3. \A c \in Controllers \ {th[a].t} : ctl'[c] = ctl[c]
    BY <1>6 DEF TerminateWait, TypeInv, TypeOK
  <2>4. \A c \in Controllers \ terminating' :
          c # th[a].t /\ ctl'[c] = ctl[c] /\ ~Owns(th[a], c) /\ (c \in pool => c \in pool')
    BY <1>3, <2>1, <2>2, <2>3, Zenon
  <2> QED
    BY <1>0, <1>2, <2>1, <2>4, BookStep, Zenon
<1> QED
  BY <1>4, <1>5, <1>6, Zenon DEF Terminate

\* Sync books what it clears, gives up or spawns, until it is terminated or answers.
LEMMA SyncBooks ==
    ASSUME TypeInv, BookInv, JobInv, NEW a \in Actors, Sync(a)
    PROVE  BookInv' /\ JobInv'
<1>0. /\ stale \subseteq Controllers /\ spare \subseteq Controllers
      /\ \A l \in {"sync", "syncWoken", "syncRead", "syncEach", "syncFix"} : l \notin OwnPcs \cup {"idle"}
  BY DEF TypeInv, TypeOK, OwnPcs, RunOwn, TermPcs
<1>1. UNCHANGED procs /\ UNCHANGED terminating
  BY Zenon DEF Sync, SyncEnter, SyncWoken, SyncPanics, SyncRead, SyncList, SyncLaunch, SyncAnswer,
     ClearStale, GiveUpSpare, SpawnMissing, SpawnedMissing, SyncDone, term
<1>2. ASSUME \/ SyncEnter(a) \/ SyncWoken(a) \/ SyncRead(a) \/ SyncList(a) \/ SyncDone(a)
      PROVE  BookInv' /\ JobInv'
  <2>1. UNCHANGED <<ctl, pool>> /\ th[a].pc \in {"sync", "syncWoken", "syncRead", "syncEach", "syncFix"}
    BY <1>2, Zenon DEF SyncEnter, SyncWoken, SyncRead, SyncList, SyncDone, At
  <2>2. stale' \subseteq stale \cup pool /\ spare' \subseteq spare \cup pool
    <3>1. CASE SyncList(a)
      BY <3>1, Zenon DEF SyncList, Stale, Free
    <3>2. CASE SyncEnter(a) \/ SyncWoken(a) \/ SyncRead(a) \/ SyncDone(a)
      <4>1. UNCHANGED <<stale, spare>>
        BY <3>2, Zenon DEF SyncEnter, SyncWoken, SyncRead, SyncDone, sync
      <4> QED
        BY <4>1
    <3> QED
      BY <1>2, <3>1, <3>2
  <2>3. \/ \E l : Goto(a, l) \/ GoOn(a, l)
        \/ \E ok : SyncLeave(a, ok)
    BY <1>2, Zenon DEF SyncEnter, SyncWoken, SyncRead, SyncList, SyncDone
  <2>4. Only(a) /\ (Ends(a) \/ \E l : After(a, l, th[a].c, th[a].p, th[a].cand, th[a].t, th[a].r))
    BY <2>3, GotoOnly, GoOnOnly, SyncLeaveOnly, Zenon
  <2>5. th'[a].p \in {th[a].p, None} /\ th'[a].cand \subseteq th[a].cand \cup pool
    BY <2>4, Zenon DEF Ends, After
  <2>6. Rest /\ \A c \in Controllers : ctl'[c].booked => ctl[c].booked
    BY <1>1, <2>1, Zenon DEF Rest
  <2>7. th[a].pc \notin OwnPcs \cup {"idle"}
    BY <1>0, <2>1, Zenon
  <2> QED
    BY <2>2, <2>4, <2>5, <2>6, <2>7, QuietStep, Zenon
<1>3. ASSUME SyncPanics(a) \/ \E c \in Controllers : SyncLaunch(a, c)
      PROVE  BookInv' /\ JobInv'
  <2>1. UNCHANGED <<ctl, pool, th, stale, spare>>
    BY <1>3, Zenon DEF SyncPanics, SyncLaunch, sync
  <2> QED
    BY <1>1, <2>1, NobodyMoves, Zenon DEF Rest
<1>4. ASSUME NEW c \in Controllers, SyncAnswer(a, c)
      PROVE  BookInv' /\ JobInv'
  <2>1. UNCHANGED <<th, stale, spare>> /\ pool \subseteq pool'
    BY <1>4 DEF SyncAnswer
  <2>2. \A k \in Controllers : ctl'[k].booked = ctl[k].booked
    <3>0. ctl[c] \in Controller /\ ctl \in [Controllers -> Controller]
      BY DEF TypeInv, TypeOK
    <3>1. CASE ctl' = [ctl EXCEPT ![c].fails = 0, ![c].known = TRUE,
                         ![c].apid = IF ctl[c].ext # None THEN ctl[c].ext ELSE @]
      <4>1. PICK q : q = IF ctl[c].ext # None THEN ctl[c].ext ELSE ctl[c].apid
        OBVIOUS
      <4>2. ctl' = [ctl EXCEPT ![c].fails = 0, ![c].known = TRUE, ![c].apid = q]
        BY <3>0, <3>1, <4>1, Zenon DEF Controller
      <4> QED
        BY <4>2, BookedFields, Zenon
    <3>2. CASE ctl' = [ctl EXCEPT ![c].fails = IF @ < MaxSyncFails THEN @ + 1 ELSE @]
      <4>1. PICK n : n = IF ctl[c].fails < MaxSyncFails THEN ctl[c].fails + 1 ELSE ctl[c].fails
        OBVIOUS
      <4>2. ctl' = [ctl EXCEPT ![c].fails = n]
        BY <3>0, <3>2, <4>1
      <4> QED
        BY <4>2, BookedFields, Zenon
    <3> QED
      BY <1>4, <3>1, <3>2, Zenon DEF SyncAnswer
  <2> QED
    BY <1>1, <2>1, <2>2, NobodyMoves, Zenon DEF Rest
<1>5. ASSUME NEW c \in Controllers, TryLock(c), CallTerminate(a, c, "syncFix"),
             c \in pool \cup terminating, UNCHANGED pool, th[a].pc = "syncFix",
             stale' \subseteq stale, spare' \subseteq spare
      PROVE  BookInv' /\ JobInv'
  <2>1. Only(a) /\ After(a, "term", th[a].c, th[a].p, th[a].cand, c, "syncFix")
    BY <1>5, CallOnly, Zenon
  <2>2. Owns(th'[a], c) /\ th'[a].p = th[a].p /\ th'[a].cand = th[a].cand
    BY <2>1 DEF After, Owns, TermPcs
  <2>3. \A k \in Controllers \ {c} : ctl'[k].booked => ctl[k].booked
    BY <1>5, BookedFields, Zenon DEF TryLock
  <2>4. Rest /\ c \in pool' \cup terminating
    BY <1>1, <1>5, Zenon DEF Rest
  <2> QED
    BY <1>0, <1>5, <2>1, <2>2, <2>3, <2>4, BookingStep, Zenon
<1>6. ASSUME NEW c \in Controllers, ClearStale(a, c)
      PROVE  BookInv' /\ JobInv'
  <2>1. c \in pool \cup terminating
    BY <1>6, Zenon DEF ClearStale, BookInv
  <2> QED
    BY <1>5, <1>6, <2>1, Zenon DEF ClearStale, At
<1>7. ASSUME NEW c \in Controllers, GiveUpSpare(a, c)
      PROVE  BookInv' /\ JobInv'
  <2>1. /\ c \in pool \cup terminating /\ UNCHANGED <<pool, stale>> /\ spare' \subseteq spare
        /\ th[a].pc = "syncFix"
    BY <1>7, Zenon DEF GiveUpSpare, BookInv, At
  <2>2. CASE TryLock(c) /\ CallTerminate(a, c, "syncFix")
    BY <1>5, <2>1, <2>2, Zenon
  <2>3. CASE Unlock(c) /\ UNCHANGED th
    <3>1. \A k \in Controllers : ctl'[k].booked => ctl[k].booked
      BY <2>3, BookedFields, Zenon DEF Unlock
    <3>2. Only(a)
      BY <2>3, Zenon DEF Only, Still
    <3> QED
      BY <1>0, <1>1, <2>1, <2>3, <3>1, <3>2, QuietStep, Zenon DEF Rest
  <2> QED
    BY <1>7, <2>2, <2>3, Zenon DEF GiveUpSpare
<1>8. ASSUME SpawnMissing(a)
      PROVE  BookInv' /\ JobInv'
  <2>1. UNCHANGED <<stale, spare>> /\ th[a].pc = "syncFix"
    BY <1>8, Zenon DEF SpawnMissing, At
  <2>2. ASSUME NEW c \in Controllers, NEW started \in BOOLEAN, Spawn(c, started),
               Only(a), Owns(th'[a], c), th'[a].p = th[a].p, th'[a].cand = th[a].cand
        PROVE  BookInv' /\ JobInv'
    <3>1. c \in pool' /\ pool \subseteq pool' /\ \A k \in Controllers \ {c} : ctl'[k] = ctl[k]
      BY <2>2, Zenon DEF Spawn, TypeInv, TypeOK
    <3> QED
      BY <1>0, <1>1, <2>1, <2>2, <3>1, BookingStep, ZenonT(60) DEF Rest
  <2>3. ASSUME NEW c \in Controllers, Spawn(c, TRUE),
               th' = [th EXCEPT ![a].pc = "syncSpawn", ![a].t = c]
        PROVE  BookInv' /\ JobInv'
    <3>1. Only(a) /\ After(a, "syncSpawn", th[a].c, th[a].p, th[a].cand, c, th[a].r)
      BY <2>3, SetOnly, Zenon
    <3>2. Owns(th'[a], c) /\ th'[a].p = th[a].p /\ th'[a].cand = th[a].cand
      BY <3>1 DEF After, Owns, TermPcs
    <3> QED
      BY <2>2, <2>3, <3>1, <3>2, Zenon
  <2>4. ASSUME NEW c \in Controllers, Spawn(c, FALSE), CallTerminate(a, c, "syncFix")
        PROVE  BookInv' /\ JobInv'
    <3>1. Only(a) /\ After(a, "term", th[a].c, th[a].p, th[a].cand, c, "syncFix")
      BY <2>4, CallOnly, Zenon
    <3>2. Owns(th'[a], c) /\ th'[a].p = th[a].p /\ th'[a].cand = th[a].cand
      BY <3>1 DEF After, Owns, TermPcs
    <3> QED
      BY <2>2, <2>4, <3>1, <3>2, Zenon
  <2>5. CASE UNCHANGED <<ctl, pool, th>>
    BY <1>1, <2>1, <2>5, NobodyMoves, Zenon DEF Rest
  <2> QED
    BY <1>8, <2>3, <2>4, <2>5, Zenon DEF SpawnMissing
<1>9. ASSUME SpawnedMissing(a)
      PROVE  BookInv' /\ JobInv'
  <2> DEFINE t == th[a].t
  <2>1. th[a].pc = "syncSpawn" /\ UNCHANGED <<pool, stale, spare>>
    BY <1>9, ZenonT(60) DEF SpawnedMissing, At, sync
  <2>2. t \in Controllers /\ (\A c : Owns(th[a], c) => c = t) /\ ~Past(th[a]) /\ th[a].pc # "idle"
    BY <2>1, LocalsFacts DEF Owns, RunOwn, TermPcs, Past
  <2>3. CASE Unlock(t) /\ th' = [th EXCEPT ![a].pc = "syncFix", ![a].t = None]
    <3>1. Only(a) /\ After(a, "syncFix", th[a].c, th[a].p, th[a].cand, None, th[a].r)
      BY <2>3, SetOnly, Zenon
    <3>2. ctl'[t].booked = FALSE /\ \A k \in Controllers \ {t} : ctl'[k] = ctl[k]
      BY <2>2, <2>3, BookedFields, Zenon DEF Unlock
    <3>3. \A c \in Controllers : ctl'[c].booked => ctl[c].booked /\ ~Owns(th[a], c)
      BY <2>2, <3>2, Zenon
    <3>4. th'[a].p = th[a].p /\ th'[a].cand = th[a].cand /\ \A b \in Actors \ {a} : Holding(b)
      BY <3>1, StillHolds, Zenon DEF After, Only
    <3>5. BookInv'
      BY <1>1, <2>1, <3>3, <3>4, BookStep, Zenon
    <3> QED
      BY <1>1, <2>2, <3>1, <3>4, <3>5, JobStep, Zenon
  <2>4. CASE CallTerminate(a, t, "syncFix") /\ UNCHANGED ctl
    <3>1. Only(a) /\ After(a, "term", th[a].c, th[a].p, th[a].cand, t, "syncFix")
      BY <2>4, CallOnly, Zenon
    <3>2. Owns(th'[a], t)
      BY <3>1 DEF After, Owns, TermPcs
    <3>4. th'[a].p = th[a].p /\ th'[a].cand = th[a].cand /\ \A b \in Actors \ {a} : Holding(b)
      BY <3>1, StillHolds, Zenon DEF After, Only
    <3>5. BookInv'
      BY <1>1, <2>1, <2>2, <2>4, <3>2, <3>4, BookStep, ZenonT(60)
    <3> QED
      BY <1>1, <2>2, <3>1, <3>4, <3>5, JobStep, Zenon
  <2> QED
    BY <1>9, <2>3, <2>4, Zenon DEF SpawnedMissing
<1> QED
  BY <1>2, <1>3, <1>4, <1>6, <1>7, <1>8, <1>9, Zenon DEF Sync

\* A request that goes on with its controller, or calls Terminate for it.
LEMMA CarryBooks ==
    ASSUME TypeInv, BookInv, NEW a \in Runners, th[a].pc \in RunOwn,
           UNCHANGED <<pool, stale, spare>>, UNCHANGED terminating,
           \A c \in Controllers : ctl'[c].booked => ctl[c].booked,
           (\E l \in RunOwn : Goto(a, l)) \/ CallTerminate(a, th[a].c, "idle")
    PROVE  /\ BookInv' /\ Only(a) /\ th'[a].p = th[a].p
           /\ (\E l \in RunOwn : Goto(a, l) /\ th'[a].pc = l) \/ Past(th'[a])
<1>0. a \in Actors /\ \A c : Owns(th[a], c) => c = th[a].c
  BY Zenon DEF Actors, Owns, RunOwn, TermPcs
<1>1. ASSUME NEW l \in RunOwn, Goto(a, l)
      PROVE  /\ Only(a) /\ th'[a].p = th[a].p /\ th'[a].cand = th[a].cand
             /\ th'[a].pc = l /\ Owns(th'[a], th[a].c)
  <2>1. Only(a) /\ After(a, l, th[a].c, th[a].p, th[a].cand, th[a].t, th[a].r)
    BY <1>0, <1>1, GotoOnly, ZenonT(60)
  <2> QED
    BY <1>1, <2>1, Zenon DEF After, Owns
<1>2. ASSUME CallTerminate(a, th[a].c, "idle")
      PROVE  /\ Only(a) /\ th'[a].p = th[a].p /\ th'[a].cand = th[a].cand
             /\ Past(th'[a]) /\ Owns(th'[a], th[a].c)
  <2>1. Only(a) /\ After(a, "term", th[a].c, th[a].p, th[a].cand, th[a].c, "idle")
    BY <1>0, <1>2, CallOnly, Zenon
  <2> QED
    BY <2>1, Zenon DEF After, Owns, TermPcs, Past
<1>3. /\ Only(a) /\ th'[a].p = th[a].p /\ th'[a].cand = th[a].cand /\ Owns(th'[a], th[a].c)
      /\ (\E l \in RunOwn : Goto(a, l) /\ th'[a].pc = l) \/ Past(th'[a])
  BY <1>1, <1>2, Zenon
<1>4. \A b \in Actors \ {a} : Holding(b)
  BY <1>3, StillHolds, Zenon DEF Only
<1>5. BookInv'
  BY <1>0, <1>3, <1>4, BookStep, Zenon
<1> QED
  BY <1>3, <1>5, Zenon

\* A request that starts or restores its job, or fails to restore it.
LEMMA StartJob ==
    ASSUME TypeInv, JobInv, NEW a \in Runners, th[a].pc \in {"launch", "restore"}, Only(a),
           th'[a].p = th[a].p, Past(th'[a]), gpuOf' = [gpuOf EXCEPT ![th[a].p] = th[a].c],
           running' \in {running, running \cup {th[a].p}}
    PROVE  JobInv'
<1> DEFINE p == th[a].p
<1>0. /\ a \in Actors /\ a \notin PIDs /\ Runners \subseteq Actors /\ PIDs \subseteq Actors
      /\ p \in PIDs /\ p # None /\ th[a].c \in Controllers /\ th[a].c # None
      /\ gpuOf \in [PIDs -> Controllers \cup {None}] /\ running \subseteq PIDs
  <2>1. a \in Actors
    BY Zenon DEF Actors
  <2>2. p \in PIDs /\ th[a].c \in Controllers
    BY <2>1, LocalsFacts, Zenon DEF RunPcs, CtlPcs
  <2> QED
    BY <2>1, <2>2, Zenon DEF Actors, TypeInv, TypeOK
<1>1. ~Past(th[a])
  BY DEF Past
<1>2. gpuOf[p] = None
  BY <1>0, <1>1, ZenonT(60) DEF JobInv
<1>3. gpuOf'[p] # None /\ \A q \in PIDs \ {p} : gpuOf'[q] = gpuOf[q]
  BY <1>0
<1>4. ASSUME NEW q \in PIDs, th[q].pc = "idle" PROVE th'[q].pc = "idle"
  BY <1>0, <1>4, Zenon DEF Only, Still
<1>5. ASSUME NEW q \in PIDs, gpuOf'[q] = None PROVE th'[q].pc = "idle" /\ q \notin running'
  <2>1. q # p /\ gpuOf[q] = None
    BY <1>3, <1>5, Zenon
  <2>2. th[q].pc = "idle" /\ q \notin running
    BY <2>1, Zenon DEF JobInv
  <2> QED
    BY <1>4, <2>1, <2>2, Zenon
<1>6. ASSUME NEW q \in running' PROVE th'[q].pc = "idle"
  <2>1. q \in PIDs /\ th[q].pc = "idle"
    BY <1>0, <1>2, <1>6, Zenon DEF JobInv
  <2> QED
    BY <1>4, <2>1, Zenon
<1>7. ASSUME NEW b \in Runners PROVE th'[b].p = th[b].p
  BY <1>0, ZenonT(60) DEF Only, Still
<1>8. ASSUME NEW b \in Runners, th'[b].p # None, gpuOf'[th'[b].p] # None PROVE Past(th'[b])
  <2>1. CASE b = a
    BY <2>1
  <2>2. CASE b # a
    <3>1. th[b].p # None /\ th[b].p # p
      BY <1>7, <1>8, <2>2, ZenonT(60) DEF JobInv
    <3>2. th[b].p \in PIDs
      BY <1>0, <3>1, Zenon DEF TypeInv, TypeOK, Locals
    <3>3. gpuOf[th[b].p] # None
      BY <1>3, <1>7, <1>8, <3>1, <3>2, Zenon
    <3>4. Past(th[b])
      BY <3>1, <3>3, Zenon DEF JobInv
    <3>5. th[b].pc # "syncWait"
      BY <3>4 DEF Past
    <3> QED
      BY <1>0, <2>2, <3>4, <3>5, Zenon DEF Only, Still, Past
  <2> QED
    BY <2>1, <2>2, Zenon
<1>9. ASSUME NEW b \in Runners, NEW e \in Runners, th'[b].p # None, th'[b].p = th'[e].p
      PROVE  b = e
  BY <1>7, <1>9, Zenon DEF JobInv
<1> QED
  BY <1>5, <1>6, <1>8, <1>9, ZenonT(60) DEF JobInv

\* The steps of a run or restore request.
LEMMA RunBooks ==
    ASSUME TypeInv, BookInv, JobInv, NEW a \in Runners, Run(a)
    PROVE  BookInv' /\ JobInv'
<1>0. /\ a \in Actors /\ a \notin PIDs /\ th[a] \in Locals
      /\ UNCHANGED <<stale, spare>> /\ UNCHANGED terminating
  <2>1. a \in Actors /\ a \notin PIDs
    BY DEF Actors
  <2>2. UNCHANGED sync /\ UNCHANGED terminating
    BY Zenon DEF Run, BookList, TryBook, SpawnOwn, SpawnedOwn, Launch, RestoreGet, RestoreLock,
       Restore, AttachSelect, AttachRPC, term
  <2> QED
    BY <2>1, <2>2, LocalsFacts DEF sync
<1>1. "book" \notin OwnPcs \cup {"idle"} /\ "tryBook" \notin OwnPcs \cup {"idle"}
  BY DEF OwnPcs, RunOwn, TermPcs
<1>2. ASSUME BookList(a)
      PROVE  BookInv' /\ JobInv'
  <2>1. Only(a) /\ After(a, "tryBook", th[a].c, th[a].p, Free, th[a].t, th[a].r)
    BY <1>0, <1>2, SetOnly, Zenon DEF BookList
  <2>2. th'[a].p = th[a].p /\ th'[a].cand \subseteq pool
    BY <2>1, Zenon DEF After, Free
  <2>3. th[a].pc = "book" /\ UNCHANGED ctl /\ Rest
    BY <1>0, <1>2, Zenon DEF BookList, At, Rest
  <2> QED
    BY <1>0, <1>1, <2>1, <2>2, <2>3, QuietStep, Zenon
<1>3. ASSUME TryBook(a)
      PROVE  BookInv' /\ JobInv'
  <2>1. th[a].pc = "tryBook" /\ Rest /\ UNCHANGED pool
    BY <1>0, <1>3, Zenon DEF TryBook, At, Rest
  <2>2. PICK c \in th[a].cand :
          \/ TryLock(c) /\ th' = [th EXCEPT ![a].pc = "launch", ![a].c = c, ![a].cand = {}]
          \/ Unlock(c) /\ th' = [th EXCEPT ![a].cand = @ \ {c}]
    BY <1>3, Zenon DEF TryBook
  <2>3. c \in Controllers /\ c \in pool \cup terminating
    <3>1. th[a].cand \in SUBSET Controllers
      BY <1>0 DEF Locals
    <3> QED
      BY <1>0, <3>1, Zenon DEF BookInv
  <2>4. CASE TryLock(c) /\ th' = [th EXCEPT ![a].pc = "launch", ![a].c = c, ![a].cand = {}]
    <3>1. Only(a) /\ After(a, "launch", c, th[a].p, {}, th[a].t, th[a].r)
      BY <1>0, <2>4, SetOnly, ZenonT(60)
    <3>2. Owns(th'[a], c) /\ th'[a].p = th[a].p /\ th'[a].cand \subseteq th[a].cand
      BY <3>1 DEF After, Owns, RunOwn
    <3>3. \A k \in Controllers \ {c} : ctl'[k].booked => ctl[k].booked
      BY <2>3, <2>4, BookedFields, Zenon DEF TryLock
    <3> QED
      BY <1>0, <1>1, <2>1, <2>3, <3>1, <3>2, <3>3, BookingStep, Zenon
  <2>5. CASE Unlock(c) /\ th' = [th EXCEPT ![a].cand = @ \ {c}]
    <3>1. th' = [th EXCEPT ![a].cand = th[a].cand \ {c}]
      BY <1>0, <2>5, Zenon DEF TypeInv, TypeOK
    <3>2. Only(a) /\ After(a, th[a].pc, th[a].c, th[a].p, th[a].cand \ {c}, th[a].t, th[a].r)
      BY <1>0, <3>1, SetOnly, Zenon
    <3>3. th'[a].p = th[a].p /\ th'[a].cand \subseteq th[a].cand
      BY <3>2, Zenon DEF After
    <3>4. \A k \in Controllers : ctl'[k].booked => ctl[k].booked
      BY <2>3, <2>5, BookedFields, Zenon DEF Unlock
    <3> QED
      BY <1>0, <1>1, <2>1, <3>2, <3>3, <3>4, QuietStep, Zenon
  <2> QED
    BY <2>2, <2>4, <2>5
<1>4. ASSUME SpawnOwn(a)
      PROVE  BookInv' /\ JobInv'
  <2>1. th[a].pc = "tryBook" /\ UNCHANGED procs
    BY <1>4, Zenon DEF SpawnOwn, At
  <2>2. ASSUME NEW c \in Controllers, NEW started \in BOOLEAN, Spawn(c, started),
               Only(a), Owns(th'[a], c), th'[a].p = th[a].p, th'[a].cand = th[a].cand
        PROVE  BookInv' /\ JobInv'
    <3>1. c \in pool' /\ pool \subseteq pool' /\ \A k \in Controllers \ {c} : ctl'[k] = ctl[k]
      BY <2>2, Zenon DEF Spawn, TypeInv, TypeOK
    <3> QED
      BY <1>0, <1>1, <2>1, <2>2, <3>1, BookingStep, ZenonT(60) DEF Rest
  <2>3. ASSUME NEW c \in Controllers, Spawn(c, TRUE),
               th' = [th EXCEPT ![a].pc = "spawned", ![a].c = c]
        PROVE  BookInv' /\ JobInv'
    <3>1. Only(a) /\ After(a, "spawned", c, th[a].p, th[a].cand, th[a].t, th[a].r)
      BY <1>0, <2>3, SetOnly, Zenon
    <3>2. Owns(th'[a], c) /\ th'[a].p = th[a].p /\ th'[a].cand = th[a].cand
      BY <3>1 DEF After, Owns, RunOwn
    <3> QED
      BY <2>2, <2>3, <3>1, <3>2, Zenon
  <2>4. ASSUME NEW c \in Controllers, Spawn(c, FALSE), CallTerminate(a, c, "idle")
        PROVE  BookInv' /\ JobInv'
    <3>1. Only(a) /\ After(a, "term", th[a].c, th[a].p, th[a].cand, c, "idle")
      BY <1>0, <2>4, CallOnly, ZenonT(60)
    <3>2. Owns(th'[a], c) /\ th'[a].p = th[a].p /\ th'[a].cand = th[a].cand
      BY <3>1 DEF After, Owns, TermPcs
    <3> QED
      BY <2>2, <2>4, <3>1, <3>2, Zenon
  <2>5. CASE GoOn(a, "idle") /\ UNCHANGED <<ctl, pool>>
    <3>1. Only(a) /\ Ends(a)
      BY <1>0, <2>5, GoOnOnly, Zenon
    <3>2. th'[a].p = None /\ th'[a].cand = {}
      BY <3>1, Zenon DEF Ends, After
    <3> QED
      BY <1>0, <1>1, <2>1, <2>5, <3>1, <3>2, QuietStep, Zenon DEF Rest
  <2> QED
    BY <1>4, <2>3, <2>4, <2>5, Zenon DEF SpawnOwn
<1>5. ASSUME SpawnedOwn(a) \/ RestoreGet(a) \/ RestoreLock(a)
      PROVE  BookInv' /\ JobInv'
  <2>1. th[a].pc \in {"spawned", "launch", "restoreLock"} /\ UNCHANGED <<ctl, pool>> /\ UNCHANGED procs
    BY <1>5, Zenon DEF SpawnedOwn, RestoreGet, RestoreLock, At
  <2>2. (\E l \in {"launch", "restoreLock", "restore"} : Goto(a, l)) \/ CallTerminate(a, th[a].c, "idle")
    BY <1>5, Zenon DEF SpawnedOwn, RestoreGet, RestoreLock
  <2>3. th[a].pc \in RunOwn /\ ~Past(th[a]) /\ \A l \in {"launch", "restoreLock", "restore"} : l \in RunOwn
    BY <2>1 DEF RunOwn, Past
  <2>4. BookInv' /\ Only(a) /\ th'[a].p = th[a].p
    BY <1>0, <2>1, <2>2, <2>3, CarryBooks, Zenon
  <2> QED
    BY <1>0, <2>1, <2>3, <2>4, JobStep, Zenon
<1>6. ASSUME th[a].pc \in {"started", "attach"}, UNCHANGED <<ctl, pool>>, UNCHANGED procs, UNCHANGED th
      PROVE  BookInv' /\ JobInv'
  BY <1>0, <1>6, NobodyMoves, Zenon DEF Rest
<1>7. ASSUME AttachSelect(a)
      PROVE  BookInv' /\ JobInv'
  <2>1. th[a].pc = "started" /\ th[a].c \in Controllers /\ UNCHANGED pool /\ UNCHANGED procs
    BY <1>0, <1>7, LocalsFacts DEF AttachSelect, At, CtlPcs
  <2>2. Goto(a, "attach") \/ CallTerminate(a, th[a].c, "idle")
    BY <1>7, Zenon DEF AttachSelect
  <2>3. \A k \in Controllers : ctl'[k].booked => ctl[k].booked
    BY <1>7, <2>1, BookedFields, Zenon DEF AttachSelect
  <2>4. th[a].pc \in RunOwn /\ "attach" \in RunOwn
    BY <2>1 DEF RunOwn
  <2>5. BookInv' /\ Only(a) /\ th'[a].p = th[a].p
    BY <1>0, <2>1, <2>2, <2>3, <2>4, CarryBooks, ZenonT(60)
  <2>6. Past(th'[a])
    <3>1. CASE Goto(a, "attach")
      BY <1>0, <3>1, GotoOnly, Zenon DEF After, Past
    <3>2. CASE CallTerminate(a, th[a].c, "idle")
      BY <1>0, <3>2, CallOnly, Zenon DEF After, Past
    <3> QED
      BY <2>2, <3>1, <3>2
  <2> QED
    BY <1>0, <2>1, <2>5, <2>6, JobStep, Zenon
<1>8. ASSUME AttachRPC(a)
      PROVE  BookInv' /\ JobInv'
  <2> DEFINE c == th[a].c
  <2>1. th[a].pc = "attach" /\ c \in Controllers /\ UNCHANGED pool /\ UNCHANGED procs
    BY <1>0, <1>8, LocalsFacts DEF AttachRPC, At, CtlPcs
  <2>2. CASE ctl' = [ctl EXCEPT ![c].apid = th[a].p, ![c].ext = th[a].p, ![c].booked = FALSE]
             /\ GoOn(a, "idle")
    <3>1. Only(a) /\ Ends(a)
      BY <1>0, <2>2, GoOnOnly, Zenon
    <3>2. th'[a].p = None /\ th'[a].cand = {} /\ \A b \in Actors \ {a} : Holding(b)
      BY <3>1, StillHolds, Zenon DEF Ends, After, Only
    <3>3. ctl'[c].booked = FALSE /\ \A k \in Controllers \ {c} : ctl'[k] = ctl[k]
      BY <2>1, <2>2, BookedFields, Zenon
    <3>4. \A k : Owns(th[a], k) => k = c
      BY <2>1 DEF Owns, RunOwn, TermPcs
    <3>5. \A k \in Controllers : ctl'[k].booked => ctl[k].booked /\ ~Owns(th[a], k)
      BY <3>3, <3>4, Zenon
    <3>6. BookInv'
      BY <1>0, <2>1, <3>2, <3>5, BookStep, Zenon
    <3> QED
      BY <1>0, <2>1, <3>1, <3>2, <3>6, JobStep, Zenon
  <2>3. CASE CallTerminate(a, c, "idle") /\ UNCHANGED ctl
    <3>1. th[a].pc \in RunOwn
      BY <2>1 DEF RunOwn
    <3>2. BookInv' /\ Only(a) /\ th'[a].p = th[a].p
      BY <1>0, <2>1, <2>3, <3>1, CarryBooks, Zenon
    <3>3. Past(th'[a])
      BY <1>0, <2>3, CallOnly, Zenon DEF After, Past
    <3> QED
      BY <1>0, <2>1, <3>2, <3>3, JobStep, Zenon
  <2>4. CASE UNCHANGED <<ctl, th>>
    BY <1>6, <2>1, <2>4, Zenon
  <2> QED
    BY <1>8, <2>2, <2>3, <2>4, Zenon DEF AttachRPC
<1>9. ASSUME Launch(a)
      PROVE  BookInv' /\ JobInv'
  <2>1. th[a].pc = "launch" /\ th[a].c \in Controllers /\ UNCHANGED pool
    BY <1>0, <1>9, LocalsFacts DEF Launch, At, CtlPcs
  <2>2. th[a].pc \in RunOwn /\ "started" \in RunOwn /\ ~Past(th[a])
    BY <2>1 DEF RunOwn, Past
  <2>3. CASE /\ running' = running \cup {th[a].p} /\ gpuOf' = [gpuOf EXCEPT ![th[a].p] = th[a].c]
             /\ Goto(a, "started") /\ UNCHANGED ctl
    <3>1. BookInv' /\ Only(a) /\ th'[a].p = th[a].p
      BY <1>0, <2>1, <2>2, <2>3, CarryBooks, Zenon
    <3>2. Past(th'[a])
      BY <1>0, <2>3, GotoOnly, Zenon DEF After, Past
    <3> QED
      BY <2>1, <2>3, <3>1, <3>2, StartJob, Zenon
  <2>4. CASE /\ CallTerminate(a, th[a].c, "idle") /\ UNCHANGED procs
             /\ \E pid \in {None, ctl[th[a].c].apid} : ctl' = [ctl EXCEPT ![th[a].c].apid = pid]
    <3>1. \A k \in Controllers : ctl'[k].booked => ctl[k].booked
      BY <2>1, <2>4, BookedFields, ZenonT(60)
    <3>2. BookInv' /\ Only(a) /\ th'[a].p = th[a].p
      BY <1>0, <2>1, <2>2, <2>4, <3>1, CarryBooks, Zenon
    <3> QED
      BY <1>0, <2>2, <2>4, <3>2, JobStep, Zenon
  <2> QED
    BY <1>9, <2>3, <2>4, Zenon DEF Launch
<1>10. ASSUME Restore(a)
       PROVE  BookInv' /\ JobInv'
  <2> DEFINE c == th[a].c
  <2>1. th[a].pc = "restore" /\ c \in Controllers /\ UNCHANGED pool
    BY <1>0, <1>10, LocalsFacts, Zenon DEF Restore, At, CtlPcs
  <2>2. th[a].pc \in RunOwn /\ "started" \in RunOwn /\ ~Past(th[a])
    BY <2>1 DEF RunOwn, Past
  <2>3. CASE UNCHANGED <<ctl, th>> /\ UNCHANGED procs
    BY <1>0, <2>1, <2>3, NobodyMoves, Zenon DEF Rest
  <2>4. CASE /\ ctl' = [ctl EXCEPT ![c].apid = th[a].p, ![c].ext = th[a].p]
             /\ running' = running \cup {th[a].p} /\ gpuOf' = [gpuOf EXCEPT ![th[a].p] = c]
             /\ Goto(a, "started")
    <3>1. \A k \in Controllers : ctl'[k].booked => ctl[k].booked
      BY <2>1, <2>4, BookedFields, Zenon
    <3>2. BookInv' /\ Only(a) /\ th'[a].p = th[a].p
      BY <1>0, <2>1, <2>2, <2>4, <3>1, CarryBooks, Zenon
    <3>3. Past(th'[a])
      BY <1>0, <2>4, GotoOnly, Zenon DEF After, Past
    <3> QED
      BY <2>1, <2>4, <3>2, <3>3, StartJob, Zenon
  <2>5. CASE /\ \E pid \in {None, ctl[c].apid, th[a].p} : ctl' = [ctl EXCEPT ![c].apid = pid]
             /\ gpuOf' = [gpuOf EXCEPT ![th[a].p] = c] /\ UNCHANGED running
             /\ CallTerminate(a, c, "idle")
    <3>1. \A k \in Controllers : ctl'[k].booked => ctl[k].booked
      BY <2>1, <2>5, BookedFields, ZenonT(60)
    <3>2. BookInv' /\ Only(a) /\ th'[a].p = th[a].p
      BY <1>0, <2>1, <2>2, <2>5, <3>1, CarryBooks, Zenon
    <3>3. Past(th'[a])
      BY <1>0, <2>5, CallOnly, ZenonT(60) DEF After, Past
    <3> QED
      BY <2>1, <2>5, <3>2, <3>3, StartJob, Zenon
  <2> QED
    BY <1>10, <2>3, <2>4, <2>5, ZenonT(60) DEF Restore
<1> QED
  BY <1>2, <1>3, <1>4, <1>5, <1>7, <1>8, <1>9, <1>10, Zenon DEF Run

\* A job exits; the goroutine that waits for it was idle.
LEMMA EndJob ==
    ASSUME TypeInv, JobInv, NEW p \in running, running' = running \ {p}, UNCHANGED gpuOf,
           \A q \in PIDs \ {p} : th'[q] = th[q], \A a \in Runners : th'[a] = th[a]
    PROVE  JobInv'
<1>1. p \in PIDs /\ running \subseteq PIDs
  BY DEF TypeInv, TypeOK
<1>2. gpuOf[p] # None
  BY <1>1, Zenon DEF JobInv
<1>3. ASSUME NEW q \in PIDs, gpuOf'[q] = None PROVE th'[q].pc = "idle" /\ q \notin running'
  <2>1. q # p /\ gpuOf[q] = None
    BY <1>2, <1>3, Zenon
  <2> QED
    BY <2>1, Zenon DEF JobInv
<1>4. ASSUME NEW q \in running' PROVE th'[q].pc = "idle"
  BY <1>1, <1>4, Zenon DEF JobInv
<1>5. ASSUME NEW a \in Runners, th'[a].p # None, gpuOf'[th'[a].p] # None PROVE Past(th'[a])
  BY <1>5, Zenon DEF JobInv
<1>6. ASSUME NEW a \in Runners, NEW b \in Runners, th'[a].p # None, th'[a].p = th'[b].p PROVE a = b
  BY <1>6, Zenon DEF JobInv
<1> QED
  BY <1>3, <1>4, <1>5, <1>6, Zenon DEF JobInv

\* The steps of dump, freeze and unfreeze requests, which book nothing.
LEMMA DumpBooks ==
    ASSUME TypeInv, BookInv, JobInv, NEW d \in Dumpers, Dump(d)
    PROVE  BookInv' /\ JobInv'
<1>0. /\ d \in Actors /\ d \notin PIDs /\ d \notin Runners /\ pool \subseteq Controllers
      /\ PIDs \subseteq Actors /\ Runners \subseteq Actors
      /\ th \in [Actors -> Locals] /\ th[d] \in Locals
  BY DEF Actors, TypeInv, TypeOK
<1>1. UNCHANGED pool /\ UNCHANGED terminating /\ UNCHANGED <<stale, spare>>
  <2>1. UNCHANGED pool /\ UNCHANGED terminating /\ UNCHANGED sync
    BY Zenon DEF Dump, DumpFind, DumpGet, DumpLock, DumpFreeze, DumpCRIU, DumpFinalize, FreezeRPC, term
  <2> QED
    BY <2>1 DEF sync
<1>2. /\ th[d].pc \in {"find", "dumpGet", "dumpLock", "dumpFreeze", "criu", "final", "freeze"}
      /\ th[d].pc \notin OwnPcs \cup {"idle"}
  <2>1. th[d].pc \in {"find", "dumpGet", "dumpLock", "dumpFreeze", "criu", "final", "freeze"}
    BY Zenon DEF Dump, DumpFind, DumpGet, DumpLock, DumpFreeze, DumpCRIU, DumpFinalize, FreezeRPC, At
  <2> QED
    BY <2>1 DEF OwnPcs, RunOwn, TermPcs
<1>3. ASSUME UNCHANGED procs, \A c \in Controllers : ctl'[c].booked => ctl[c].booked,
             \/ UNCHANGED th
             \/ \E l : Goto(d, l) \/ GoOn(d, l)
             \/ \E l, c : th' = [th EXCEPT ![d].pc = l, ![d].c = c]
             \/ \E l, e : th' = [th EXCEPT ![d].pc = l, ![d].dump = e]
      PROVE  BookInv' /\ JobInv'
  <2>1. Rest
    BY <1>1, <1>3, Zenon DEF Rest
  <2>2. CASE UNCHANGED th
    BY <1>1, <1>3, <2>1, <2>2, NobodyMoves, Zenon
  <2>3. ASSUME Only(d), th'[d].p \in {th[d].p, None}, th'[d].cand \subseteq th[d].cand
        PROVE  BookInv' /\ JobInv'
    BY <1>0, <1>1, <1>2, <1>3, <2>1, <2>3, QuietStep, Zenon
  <2>4. ASSUME NEW l, Goto(d, l) PROVE BookInv' /\ JobInv'
    BY <1>0, <2>3, <2>4, GotoOnly, Zenon DEF After
  <2>5. ASSUME NEW l, GoOn(d, l) PROVE BookInv' /\ JobInv'
    BY <1>0, <2>3, <2>5, GoOnOnly, Zenon DEF After, Ends
  <2>6. ASSUME NEW l, NEW c, th' = [th EXCEPT ![d].pc = l, ![d].c = c] PROVE BookInv' /\ JobInv'
    <3>1. Only(d) /\ After(d, l, c, th[d].p, th[d].cand, th[d].t, th[d].r)
      BY <1>0, <2>6, SetOnly, Zenon
    <3> QED
      BY <2>3, <3>1, Zenon DEF After
  <2>7. ASSUME NEW l, NEW e, th' = [th EXCEPT ![d].pc = l, ![d].dump = e] PROVE BookInv' /\ JobInv'
    <3>1. Only(d) /\ After(d, l, th[d].c, th[d].p, th[d].cand, th[d].t, th[d].r)
      BY <1>0, <2>7, SetOnly, Zenon
    <3> QED
      BY <2>3, <3>1, Zenon DEF After
  <2> QED
    BY <1>3, <2>2, <2>4, <2>5, <2>6, <2>7, Zenon
<1>4. CASE DumpFind(d) \/ DumpGet(d) \/ DumpLock(d)
  <2>1. UNCHANGED ctl /\ UNCHANGED procs
    BY <1>4, Zenon DEF DumpFind, DumpGet, DumpLock
  <2>2. \/ \E l : Goto(d, l) \/ GoOn(d, l)
        \/ \E l, c : th' = [th EXCEPT ![d].pc = l, ![d].c = c]
    BY <1>4, Zenon DEF DumpFind, DumpGet, DumpLock
  <2> QED
    BY <1>3, <2>1, <2>2, Zenon
<1>5. ASSUME DumpFreeze(d) \/ DumpFinalize(d)
      PROVE  BookInv' /\ JobInv'
  <2>1. th[d].c \in Controllers /\ UNCHANGED procs
    BY <1>0, <1>5, LocalsFacts DEF DumpFreeze, DumpFinalize, At, CtlPcs
  <2>2. UNCHANGED ctl \/ \E b : ctl' = [ctl EXCEPT ![th[d].c].frozen = b]
    <3>1. CASE DumpFreeze(d)
      BY <3>1, Zenon DEF DumpFreeze
    <3>2. CASE DumpFinalize(d)
      <4>1. PICK b : b = (ctl[th[d].c].frozen /\ (th[d].dump \in {"early", "killed"} \/ ctl[th[d].c].proc # "up"))
        OBVIOUS
      <4>2. UNCHANGED ctl \/ ctl' = [ctl EXCEPT ![th[d].c].frozen = b]
        BY <2>1, <3>2, <4>1, Zenon DEF DumpFinalize, TypeInv, TypeOK
      <4> QED
        BY <4>2, Zenon
    <3> QED
      BY <1>5, <3>1, <3>2, Zenon
  <2>3. \A c \in Controllers : ctl'[c].booked => ctl[c].booked
    BY <2>1, <2>2, BookedFields, Zenon
  <2>4. UNCHANGED th \/ \E l : Goto(d, l) \/ GoOn(d, l)
    BY <1>5, Zenon DEF DumpFreeze, DumpFinalize
  <2> QED
    BY <1>3, <2>1, <2>3, <2>4, Zenon
<1>6. ASSUME FreezeRPC(d)
      PROVE  BookInv' /\ JobInv'
  <2>1. UNCHANGED procs /\ (UNCHANGED th \/ \E l : Goto(d, l) \/ GoOn(d, l))
    BY <1>6, Zenon DEF FreezeRPC
  <2>2. UNCHANGED ctl \/ \E c \in Controllers : \E b : ctl' = [ctl EXCEPT ![c].frozen = b]
    BY <1>0, <1>6, Zenon DEF FreezeRPC, Attached
  <2>3. \A c \in Controllers : ctl'[c].booked => ctl[c].booked
    BY <2>2, BookedFields, Zenon
  <2> QED
    BY <1>3, <2>1, <2>3, Zenon
<1>7. ASSUME DumpCRIU(d)
      PROVE  BookInv' /\ JobInv'
  <2>0. UNCHANGED ctl
    BY <1>7, Zenon DEF DumpCRIU
  <2>1. PICK dump \in {"early", "failed", "left", "killed"} :
          LET thr == [th EXCEPT ![d].pc = "final", ![d].dump = dump] IN
          \/ th[d].p \in running /\ Exits(th[d].p, thr)
          \/ th' = thr /\ UNCHANGED procs
    BY <1>7, Zenon DEF DumpCRIU
  <2> DEFINE thr == [th EXCEPT ![d].pc = "final", ![d].dump = dump]
             p == th[d].p
  <2>2. CASE th' = thr /\ UNCHANGED procs
    BY <1>3, <2>0, <2>2, Zenon
  <2>3. CASE p \in running /\ Exits(p, thr)
    <3>1. p \in PIDs /\ p # d /\ p \in Actors /\ th[p].pc = "idle" /\ th[p] \in Locals
      BY <1>0, <2>3 DEF JobInv, TypeInv, TypeOK
    <3>2. thr[d].cand = th[d].cand /\ \A b \in Actors \ {d} : thr[b] = th[b]
      BY <1>0 DEF Locals
    <3>3. running' = running \ {p} /\ UNCHANGED gpuOf
          /\ th' \in {thr, [thr EXCEPT ![p].pc = "detach"]}
      BY <2>3, Zenon DEF Exits
    <3>4. thr = [b \in Actors |-> thr[b]]
      BY <1>0, Zenon
    <3> HIDE DEF thr
    <3>5. /\ \A b \in Actors \ {p} : th'[b] = thr[b]
          /\ th'[p] = thr[p] \/ th'[p] = [thr[p] EXCEPT !.pc = "detach"]
      BY <3>1, <3>3, <3>4
    <3> HIDE DEF p
    <3>6. (\A b \in Actors \ {d, p} : th'[b] = th[b]) /\ th'[d].cand = th[d].cand
      BY <1>0, <3>1, <3>2, <3>5, Zenon
    <3>7. th'[p].cand = th[p].cand
      <4>1. [th[p] EXCEPT !.pc = "detach"].cand = th[p].cand
        BY <3>1, Zenon DEF Locals
      <4> QED
        BY <3>1, <3>2, <3>5, <4>1, Zenon
    <3>8. JobInv'
      <4>1. \A q \in PIDs \ {p} : th'[q] = th[q]
        BY <1>0, <3>6, Zenon
      <4>2. \A a \in Runners : th'[a] = th[a]
        <5>1. p \notin Runners
          BY <3>1
        <5> QED
          BY <1>0, <3>6, <5>1, Zenon
      <4> QED
        BY <2>3, <3>3, <4>1, <4>2, EndJob, Zenon
    <3>9. \A b \in Actors \ {d} : Holding(b)
      <4>1. "idle" \notin RunOwn /\ "idle" \notin TermPcs
        BY DEF RunOwn, TermPcs
      <4>2. Holding(p)
        BY <3>1, <3>7, <4>1, Zenon DEF Holding, Owns
      <4>3. \A b \in Actors \ {d, p} : Holding(b)
        BY <3>6, Zenon DEF Holding
      <4> QED
        BY <4>2, <4>3, Zenon
    <3>10. \A c \in Controllers : ~Owns(th[d], c)
      BY <1>2, Zenon DEF Owns, OwnPcs
    <3>11. BookInv'
      BY <1>0, <1>1, <2>0, <3>6, <3>9, <3>10, BookStep, Zenon
    <3> QED
      BY <3>8, <3>11
  <2> QED
    BY <2>1, <2>2, <2>3, Zenon
<1> QED
  BY <1>4, <1>5, <1>6, <1>7, Zenon DEF Dump

\* The steps of jobs, of the background goroutine, and new requests.
LEMMA OtherBooks ==
    ASSUME TypeInv, BookInv, JobInv, OtherStep
    PROVE  BookInv' /\ JobInv'
<1>0. /\ PIDs \subseteq Actors /\ Runners \subseteq Actors /\ Dumpers \subseteq Actors /\ Bg \in Actors
      /\ Bg \notin PIDs /\ Bg \notin Runners /\ pool \subseteq Controllers /\ th \in [Actors -> Locals]
  BY DEF Actors, TypeInv, TypeOK
<1>1. "detach" \notin OwnPcs \cup {"idle"}
  BY DEF OwnPcs, RunOwn, TermPcs
<1>2. ASSUME NEW p \in PIDs, Detach(p)
      PROVE  BookInv' /\ JobInv'
  <2>1. th[p].pc = "detach" /\ UNCHANGED pool /\ UNCHANGED procs /\ UNCHANGED terminating
        /\ UNCHANGED <<stale, spare>>
    BY <1>2, Zenon DEF Detach, At, term, sync
  <2>2. CASE GoOn(p, "idle") /\ UNCHANGED ctl
    <3>1. Only(p) /\ Ends(p)
      BY <1>0, <2>2, GoOnOnly, Zenon
    <3>2. th'[p].p = None /\ th'[p].cand = {}
      BY <3>1, Zenon DEF Ends, After
    <3> QED
      BY <1>0, <1>1, <2>1, <2>2, <3>1, <3>2, QuietStep, Zenon DEF Rest
  <2>3. ASSUME NEW c \in Attached(p), TryLock(c), CallTerminate(p, c, "idle")
        PROVE  BookInv' /\ JobInv'
    <3>1. c \in Controllers /\ c \in pool
      BY <1>0, Zenon DEF Attached
    <3>2. Only(p) /\ After(p, "term", th[p].c, th[p].p, th[p].cand, c, "idle")
      BY <1>0, <2>3, CallOnly, Zenon
    <3>3. Owns(th'[p], c) /\ th'[p].p = th[p].p /\ th'[p].cand = th[p].cand
      BY <3>2 DEF After, Owns, TermPcs
    <3>4. \A k \in Controllers \ {c} : ctl'[k].booked => ctl[k].booked
      BY <2>3, <3>1, BookedFields, Zenon DEF TryLock
    <3> QED
      BY <1>0, <1>1, <2>1, <3>1, <3>2, <3>3, <3>4, BookingStep, Zenon DEF Rest
  <2> QED
    BY <1>2, <2>2, <2>3, Zenon DEF Detach
<1>3. ASSUME NEW p \in PIDs, JobExits(p)
      PROVE  BookInv' /\ JobInv'
  <2>1. /\ p \in running /\ running' = running \ {p} /\ UNCHANGED gpuOf /\ UNCHANGED <<ctl, pool>>
        /\ UNCHANGED <<stale, spare>> /\ UNCHANGED terminating /\ (UNCHANGED th \/ Goto(p, "detach"))
    BY <1>3, Zenon DEF JobExits, Exits, Goto, term, sync
  <2>2. th[p].pc = "idle"
    BY <2>1, Zenon DEF JobInv
  <2>3. (\A b \in Actors \ {p} : th'[b] = th[b]) /\ th'[p].cand = th[p].cand
    <3>1. CASE UNCHANGED th
      BY <3>1
    <3>2. CASE Goto(p, "detach")
      <4>1. \A b \in Actors \ {p} : th'[b] = th[b]
        BY <1>0, <3>2 DEF Goto
      <4>2. th'[p].cand = th[p].cand
        BY <1>0, <3>2, GotoOnly, Zenon DEF After
      <4> QED
        BY <4>1, <4>2
    <3> QED
      BY <2>1, <3>1, <3>2
  <2>4. JobInv'
    <3>1. (\A q \in PIDs \ {p} : th'[q] = th[q]) /\ \A a \in Runners : a # p
      BY <1>0, <2>3
    <3> QED
      BY <1>0, <2>1, <2>3, <3>1, EndJob, Zenon
  <2>5. \A c \in Controllers : ~Owns(th[p], c)
    BY <2>2 DEF Owns, RunOwn, TermPcs
  <2>6. \A b \in Actors \ {p} : Holding(b)
    BY <2>3, Zenon DEF Holding
  <2>7. BookInv'
    BY <1>0, <2>1, <2>3, <2>5, <2>6, BookStep, Zenon
  <2> QED
    BY <2>4, <2>7
<1>4. ASSUME (\E p \in PIDs : JobConnects(p)) \/ (\E c \in Controllers : ControllerDies(c)) \/ Shutdown \/ Exit
      PROVE  BookInv' /\ JobInv'
  <2>1. UNCHANGED pool /\ UNCHANGED procs /\ UNCHANGED terminating /\ UNCHANGED <<th, stale, spare>>
    BY <1>4, Zenon DEF JobConnects, ControllerDies, Shutdown, Exit, term, sync
  <2>2. \/ UNCHANGED ctl
        \/ \E c \in Controllers : ctl' = [ctl EXCEPT ![c].proc = "dead"] \/ \E p : ctl' = [ctl EXCEPT ![c].ext = p]
    BY <1>4, Zenon DEF JobConnects, ControllerDies, Shutdown, Exit, TypeInv
  <2>3. \A k \in Controllers : ctl'[k].booked => ctl[k].booked
    BY <2>2, BookedFields, Zenon
  <2> QED
    BY <2>1, <2>3, NobodyMoves, Zenon DEF Rest
<1>5. ASSUME NEW x \in Actors, x \notin PIDs, th[x].pc \notin OwnPcs, Only(x),
             UNCHANGED <<ctl, pool>>, UNCHANGED terminating, UNCHANGED <<stale, spare>>,
             th'[x].cand = th[x].cand
      PROVE  BookInv'
  <2>1. \A c \in Controllers : ~Owns(th[x], c)
    BY <1>5, Zenon DEF Owns, OwnPcs
  <2>2. \A b \in Actors \ {x} : Holding(b)
    BY <1>5, StillHolds, Zenon DEF Only
  <2> QED
    BY <1>5, <2>1, <2>2, BookStep, Zenon
<1>6. ASSUME BgStop \/ BgCheck \/ BgTimeout \/ BgTick
      PROVE  BookInv' /\ JobInv'
  <2>1. /\ th[Bg].pc \in {"idle", "bgAgain", "bgCheck"} /\ UNCHANGED <<ctl, pool>> /\ UNCHANGED procs
        /\ UNCHANGED terminating /\ UNCHANGED <<stale, spare>>
    BY <1>6, Zenon DEF BgStop, BgCheck, BgTimeout, BgTick, At, term, sync
  <2>2. (\E l : Goto(Bg, l)) \/ \E l, k : th' = [th EXCEPT ![Bg].pc = l, ![Bg].k = k]
    BY <1>6, Zenon DEF BgStop, BgCheck, BgTimeout, BgTick
  <2>3. Only(Bg) /\ \E l : After(Bg, l, th[Bg].c, th[Bg].p, th[Bg].cand, th[Bg].t, th[Bg].r)
    BY <1>0, <2>2, GotoOnly, SetOnly, Zenon
  <2>4. th'[Bg].p = th[Bg].p /\ th'[Bg].cand = th[Bg].cand
    BY <2>3, Zenon DEF After
  <2>5. th[Bg].pc \notin OwnPcs
    BY <2>1 DEF OwnPcs, RunOwn, TermPcs
  <2>6. BookInv'
    BY <1>0, <1>5, <2>1, <2>3, <2>4, <2>5, Zenon
  <2> QED
    BY <1>0, <2>1, <2>3, <2>4, <2>6, JobStep, Zenon
<1>7. ASSUME NEW a \in Runners, NEW p \in PIDs, RunRequest(a, p)
      PROVE  BookInv' /\ JobInv'
  <2>1. /\ th[a].pc = "idle" /\ p \notin Taken /\ UNCHANGED <<ctl, pool>> /\ UNCHANGED procs
        /\ UNCHANGED terminating /\ UNCHANGED <<stale, spare>>
        /\ th' = [th EXCEPT ![a].pc = "sync", ![a].k = "book", ![a].p = p]
    BY <1>7, Zenon DEF RunRequest, At, term, sync
  <2>2. Only(a) /\ After(a, "sync", th[a].c, p, th[a].cand, th[a].t, th[a].r)
    BY <1>0, <2>1, SetOnly, Zenon
  <2>3. th'[a].p = p /\ th'[a].cand = th[a].cand /\ a \notin PIDs /\ th[a].pc \notin OwnPcs
    BY <2>1, <2>2 DEF After, OwnPcs, RunOwn, TermPcs
  <2>4. BookInv'
    BY <1>0, <1>5, <2>1, <2>2, <2>3, Zenon
  <2>5. gpuOf[p] = None /\ \A b \in Runners : th[b].p # p
    BY <2>1, Zenon DEF Taken
  <2>6. \A q \in PIDs : th[q].pc = "idle" => th'[q].pc = "idle"
    BY <1>0, <2>2, <2>3, Zenon DEF Only, Still
  <2>7. \A b \in Runners \ {a} : th'[b].p = th[b].p
    BY <1>0, <2>2, Zenon DEF Only, Still
  <2>8. UNCHANGED running /\ UNCHANGED gpuOf /\ running \subseteq PIDs
    BY <2>1 DEF procs, TypeInv, TypeOK
  <2>9. ASSUME NEW b \in Runners, th'[b].p # None, gpuOf'[th'[b].p] # None PROVE Past(th'[b])
    <3>1. b # a
      BY <2>3, <2>5, <2>8, <2>9, Zenon
    <3>2. Past(th[b])
      BY <2>7, <2>8, <2>9, <3>1, Zenon DEF JobInv
    <3>3. th[b].pc # "syncWait"
      BY <3>2 DEF Past
    <3> QED
      BY <1>0, <2>2, <3>1, <3>2, <3>3, Zenon DEF Only, Still, Past
  <2>10. ASSUME NEW b \in Runners, NEW e \in Runners, th'[b].p # None, th'[b].p = th'[e].p PROVE b = e
    <3>1. CASE b = a \/ e = a
      BY <2>3, <2>5, <2>7, <2>10, <3>1, Zenon
    <3>2. CASE b # a /\ e # a
      <4>1. th[b].p # None /\ th[b].p = th[e].p
        BY <2>7, <2>10, <3>2, Zenon
      <4> QED
        BY <4>1, Zenon DEF JobInv
    <3> QED
      BY <3>1, <3>2
  <2>11. /\ \A q \in PIDs : gpuOf'[q] = None => th'[q].pc = "idle" /\ q \notin running'
         /\ \A q \in running' : th'[q].pc = "idle"
    BY <2>6, <2>8, Zenon DEF JobInv
  <2>12. JobInv'
    BY <2>9, <2>10, <2>11, Zenon DEF JobInv
  <2> QED
    BY <2>4, <2>12
<1>8. ASSUME NEW d \in Dumpers, NEW p \in PIDs, DumpRequest(d, p)
      PROVE  BookInv' /\ JobInv'
  <2>1. /\ th[d].pc = "idle" /\ UNCHANGED <<ctl, pool>> /\ UNCHANGED procs
        /\ UNCHANGED terminating /\ UNCHANGED <<stale, spare>>
        /\ \E k : th' = [th EXCEPT ![d].pc = "sync", ![d].k = k, ![d].p = p]
    BY <1>8, Zenon DEF DumpRequest, At, term, sync
  <2>2. Only(d) /\ After(d, "sync", th[d].c, p, th[d].cand, th[d].t, th[d].r)
    BY <1>0, <2>1, SetOnly, Zenon
  <2>3. th'[d].cand = th[d].cand /\ d \notin PIDs /\ d \notin Runners /\ th[d].pc \notin OwnPcs
    BY <2>1, <2>2 DEF After, OwnPcs, RunOwn, TermPcs
  <2>4. BookInv'
    BY <1>0, <1>5, <2>1, <2>2, <2>3, Zenon
  <2>5. \A b \in PIDs \cup Runners : Still(th[b], th'[b])
    BY <1>0, <2>2, <2>3, Zenon DEF Only
  <2>6. UNCHANGED running /\ UNCHANGED gpuOf /\ running \subseteq PIDs
    BY <2>1 DEF procs, TypeInv, TypeOK
  <2>7. \A q \in PIDs : th[q].pc = "idle" => th'[q].pc = "idle"
    BY <2>5, Zenon DEF Still
  <2>8. \A b \in Runners : th'[b].p = th[b].p /\ (Past(th[b]) => Past(th'[b]))
    <3>1. \A b \in Runners : Past(th[b]) => th[b].pc # "syncWait"
      BY DEF Past
    <3> QED
      BY <2>5, <3>1, Zenon DEF Still, Past
  <2>9. JobInv'
    BY <2>6, <2>7, <2>8, Zenon DEF JobInv
  <2> QED
    BY <2>4, <2>9
<1> QED
  BY <1>2, <1>3, <1>4, <1>6, <1>7, <1>8, SyncBooks, ZenonT(60) DEF OtherStep

\* Every step keeps each booking owned and each job to one request.
LEMMA BookNext ==
    ASSUME TypeInv, LockInv, BookInv, JobInv, [Next]_vars
    PROVE  BookInv' /\ JobInv'
<1>1. CASE Next
  BY <1>1, NextCases, TerminateBooks, RunBooks, DumpBooks, OtherBooks, Zenon
<1>2. CASE UNCHANGED vars
  <2>1. UNCHANGED <<ctl, pool, th>> /\ UNCHANGED procs /\ UNCHANGED terminating /\ UNCHANGED <<stale, spare>>
    BY <1>2 DEF vars, term, sync
  <2> QED
    BY <2>1, NobodyMoves, Zenon DEF Rest
<1> QED
  BY <1>1, <1>2

-----------------------------------------------------------------------------
(* Results.                                                                *)

\* A daemon starts with no process of its own.
LEMMA ChildInit ==
    ASSUME Init
    PROVE  ChildInv
<1>1. PICK free \in SUBSET (Controllers \ {gpuOf[p] : p \in Survivors}) :
        ctl = [k \in Controllers |->
                 IF k \in free THEN Leftover(None)
                 ELSE IF \E p \in Survivors : gpuOf[p] = k
                      THEN Leftover(CHOOSE p \in Survivors : gpuOf[p] = k)
                      ELSE Unused]
  BY ZenonT(60) DEF Init
<1>2. ~Unused.child /\ \A p : ~Leftover(p).child
  BY Zenon DEF Leftover, Unused
<1> QED
  BY <1>1, <1>2, Zenon DEF ChildInv

\* The process of a controller that this daemon spawned is in the pool for as
\* long as it runs: whatever fails, a later Sync, Detach or shutdown finds it.
THEOREM NoneOrphaned == Spec => []NoOrphan
<1>1. Init => ChildInv
  BY ChildInit
<1>2. TypeInv /\ ChildInv /\ [Next]_vars => ChildInv'
  BY ChildNext
<1>3. ChildInv => NoOrphan
  BY DEF ChildInv, NoOrphan
<1>4. IInv => TypeInv
  BY DEF IInv
<1> QED
  BY <1>1, <1>2, <1>3, <1>4, Invariance, PTL DEF Spec

\* At first nothing is booked, and nobody is about to do anything.
LEMMA BookInit ==
    ASSUME Init
    PROVE  BookInv /\ JobInv
<1>1. PICK free \in SUBSET (Controllers \ {gpuOf[p] : p \in Survivors}) :
        ctl = [k \in Controllers |->
                 IF k \in free THEN Leftover(None)
                 ELSE IF \E p \in Survivors : gpuOf[p] = k
                      THEN Leftover(CHOOSE p \in Survivors : gpuOf[p] = k)
                      ELSE Unused]
  BY ZenonT(60) DEF Init
<1>2. ~Unused.booked /\ \A p : ~Leftover(p).booked
  BY Zenon DEF Leftover, Unused
<1>3. \A c \in Controllers : ~ctl[c].booked
  BY <1>1, <1>2, Zenon
<1>4. Idle.pc = "idle" /\ Idle.p = None /\ Idle.cand = {}
  BY Zenon DEF Idle
<1>5. th = [a \in Actors |-> Idle] /\ stale = {} /\ spare = {} /\ running = Survivors
  BY Zenon DEF Init
<1>6. /\ PIDs \subseteq Actors /\ Runners \subseteq Actors
      /\ \A p \in PIDs : gpuOf[p] = None <=> p \notin Survivors
  BY SMTT(40) DEF Actors, Init
<1>7. \A a \in Actors : th[a].pc = "idle" /\ th[a].p = None /\ th[a].cand = {}
  BY <1>4, <1>5, Zenon
<1>8. BookInv
  BY <1>3, <1>5, <1>7, ZenonT(60) DEF BookInv
<1>9. JobInv
  BY <1>5, <1>6, <1>7 DEF JobInv
<1> QED
  BY <1>8, <1>9

\* For any number of requests, jobs and controllers: a controller that is booked,
\* and is not being terminated, has a goroutine that will unlock or terminate it
\* (Attach, controller.Book, Spawn and the clean-ups of their failures).
THEOREM BookingsEnd == Spec => []BookingOwned
<1>1. Init => BookInv /\ JobInv
  BY BookInit
<1>2. IInv /\ BookInv /\ JobInv /\ [Next]_vars => BookInv' /\ JobInv'
  BY BookNext, Zenon DEF IInv
<1>3. TypeInv /\ BookInv => BookingOwned
  BY DEF BookInv, BookingOwned, Owns, RunOwn, TermPcs, TypeInv, TypeOK
<1>4. IInv => TypeInv
  BY DEF IInv
<1> QED
  BY <1>1, <1>2, <1>3, <1>4, Invariance, PTL DEF Spec
=============================================================================
