------------------------ MODULE JobLifecycleProofs ------------------------
(***************************************************************************)
(* Proofs about JobLifecycle, for every number of jobs, processes, PIDs    *)
(* and requests: a channel done is closed twice only after a job was       *)
(* managed again while it was watched, and no child of the daemon is left  *)
(* without somebody who waits for it.                                      *)
(***************************************************************************)
EXTENDS JobLifecycle, SequenceTheorems, TLAPS

WatchPCs == {Nil, "wait", "code", "detach", "close", "over"}
ClientPCs ==
    {Nil, "start", "adopt", "restore", "manage", "set", "kill", "signal", "delete", "dumped",
     "await"}

ProcRecord == [n : Nat, zombie : BOOLEAN]
StartRecord == [jid : JIDs \cup {Nil}, child : BOOLEAN]
JobRecord == [jid : JIDs, pid : PIDs \cup {Nil}, done : Nat]
WatchRecord == [pc : WatchPCs, jid : JIDs \cup {Nil}, pid : PIDs \cup {Nil}, obj : Nat]
ClientRecord ==
    [pc : ClientPCs, jid : JIDs \cup {Nil}, pid : PIDs \cup {Nil}, obj : Nat, n : Nat, new : BOOLEAN]

\* A process has one PID, and a child that has one was not reported as exited.
Processes ==
    /\ starts \in Seq(StartRecord) /\ Len(starts) <= MaxStarts
    /\ proc \in [PIDs -> {Nil} \cup ProcRecord]
    /\ \A p \in PIDs : proc[p] # Nil => proc[p].n \in 1..Len(starts)
    /\ exited \subseteq 1..Len(starts)
    /\ \A p, q \in PIDs : proc[p] # Nil /\ proc[q] # Nil /\ proc[p].n = proc[q].n => p = q
    /\ \A p \in PIDs : proc[p] # Nil /\ starts[proc[p].n].child => proc[p].n \notin exited

\* An object has a channel that was made, or none.
Objects ==
    /\ closed \in Seq(BOOLEAN)
    /\ objs \in Seq(JobRecord) /\ \A o \in 1..Len(objs) : objs[o].done <= Len(closed)
    /\ jobs \in [JIDs -> 0..Len(objs)]

\* A goroutine watches a process that was started, for an object that was made.
Watches ==
    /\ watch \in [Numbers -> WatchRecord]
    /\ \A n \in Numbers : watch[n].pc # Nil => n <= Len(starts) /\ watch[n].obj \in 1..Len(objs)

\* A request knows its job; one that comes to Manage knows its process.
Clients ==
    /\ req \in [Requests -> ClientRecord]
    /\ \A r \in Requests :
           /\ req[r].pc # Nil => req[r].jid \in JIDs
           /\ req[r].pc \in {"manage", "set"} => req[r].n \in 1..Len(starts)

\* Somebody waits for the process, or its request has failed.
Held(n) ==
    \/ n \in unmanaged \/ watch[n].pc \in {"wait", "code"}
    \/ \E r \in Requests : req[r].n = n /\ req[r].pc \in {"manage", "set"}

Active(n) == watch[n].pc \notin {Nil, "over"}

\* As long as no job was managed again while it was watched: every watched job has a
\* channel of its own that is not closed, and one goroutine.
Channels ==
    /\ ClosedOnce
    /\ overtaken = {} =>
           /\ \A n \in Numbers : Active(n) => objs[watch[n].obj].done # 0
                                             /\ ~closed[objs[watch[n].obj].done]
           /\ \A n, m \in Numbers : Active(n) /\ Active(m) /\ watch[n].obj = watch[m].obj => n = m
           /\ \A o, q \in 1..Len(objs) :
                  objs[o].done = objs[q].done /\ objs[o].done # 0 => o = q

IInv == Processes /\ Objects /\ Watches /\ Clients /\ Watched /\ Channels

-----------------------------------------------------------------------------
\* A sequence with one element replaced.
LEMMA SeqUpdate ==
    ASSUME NEW S, NEW s \in Seq(S), NEW i \in 1..Len(s), NEW e \in S, NEW t, t = [s EXCEPT ![i] = e]
    PROVE  t \in Seq(S) /\ Len(t) = Len(s) /\ t[i] = e /\ \A j \in 1..Len(s) \ {i} : t[j] = s[j]
  BY ExceptSeq

\* A process that dies is a zombie with its number; the other PIDs are as they were.
LEMMA ZombieFields ==
    ASSUME Processes, NEW p \in PIDs, proc[p] # Nil, proc' = [proc EXCEPT ![p].zombie = TRUE]
    PROVE  /\ proc' \in [PIDs -> {Nil} \cup ProcRecord]
           /\ \A q \in PIDs : (proc'[q] # Nil <=> proc[q] # Nil) /\ (proc[q] # Nil => proc'[q].n = proc[q].n)
           /\ proc'[p].zombie /\ \A q \in PIDs \ {p} : proc'[q] = proc[q]
<1>1. PICK z \in ProcRecord : z = proc[p]
  BY DEF Processes
<1>2. PICK y : y = [z EXCEPT !.zombie = TRUE]
  BY Zenon
<1>3. y \in ProcRecord /\ y.n = z.n /\ y.zombie
  BY <1>2, Zenon DEF ProcRecord
<1>4. proc' = [proc EXCEPT ![p] = y]
  BY <1>1, <1>2
<1>5. y # Nil
  BY <1>3, LifecycleAssumption DEF ProcRecord
<1> QED
  BY <1>1, <1>3, <1>4, <1>5, Zenon DEF Processes

\* A request that has a process goes to Manage with it.
LEMMA HasFields ==
    ASSUME Clients, NEW r \in Requests, NEW p \in PIDs, NEW n \in Nat, Has(r, p, n)
    PROVE  /\ req' \in [Requests -> ClientRecord]
           /\ req'[r].pc = "manage" /\ req'[r].n = n /\ req'[r].jid = req[r].jid
           /\ \A s \in Requests \ {r} : req'[s] = req[s]
<1>1. PICK q \in ClientRecord : q = req[r]
  BY DEF Clients
<1>2. PICK x : x = [q EXCEPT !.pid = p, !.n = n, !.pc = "manage"]
  OBVIOUS
<1>3. x \in ClientRecord /\ x.pc = "manage" /\ x.n = n /\ x.jid = q.jid
  BY <1>2, Zenon DEF ClientRecord, ClientPCs
<1>4. req' = [req EXCEPT ![r] = x]
  BY <1>1, <1>2, Zenon DEF Has
<1> QED
  BY <1>1, <1>3, <1>4 DEF Clients

\* A goroutine that goes on keeps its job, its PID and its object.
LEMMA WatchFields ==
    ASSUME Watches, NEW n \in Numbers, NEW pc \in WatchPCs, watch' = [watch EXCEPT ![n].pc = pc]
    PROVE  /\ watch' \in [Numbers -> WatchRecord]
           /\ watch'[n].pc = pc
           /\ \A m \in Numbers : watch'[m].obj = watch[m].obj
           /\ \A m \in Numbers \ {n} : watch'[m] = watch[m]
<1>1. PICK w \in WatchRecord : w = watch[n]
  BY DEF Watches
<1>2. PICK x : x = [w EXCEPT !.pc = pc]
  BY Zenon
<1>3. x \in WatchRecord /\ x.pc = pc /\ x.obj = w.obj
  BY <1>2 DEF WatchRecord
<1>4. watch' = [watch EXCEPT ![n] = x]
  BY <1>1, <1>2
<1> QED
  BY <1>1, <1>3, <1>4 DEF Watches

\* Manage gives the job its PID and a channel that no other object has.
LEMMA ObjectFields ==
    ASSUME Objects, NEW o \in 1..Len(objs), NEW p \in PIDs \cup {Nil}, NEW k \in Nat,
           objs' = [objs EXCEPT ![o] = [@ EXCEPT !.pid = p, !.done = k]]
    PROVE  /\ objs' \in Seq(JobRecord) /\ Len(objs') = Len(objs) /\ objs'[o].done = k
           /\ \A q \in 1..Len(objs) \ {o} : objs'[q] = objs[q]
<1>1. PICK b \in JobRecord : b = objs[o]
  BY DEF Objects
<1>2. PICK x : x = [b EXCEPT !.pid = p, !.done = k]
  OBVIOUS
<1>3. x \in JobRecord /\ x.done = k
  BY <1>2, Zenon DEF JobRecord
<1>4. objs' = [objs EXCEPT ![o] = x]
  BY <1>1, <1>2
<1>5. objs \in Seq(JobRecord)
  BY DEF Objects
<1>6. \A t : t = [objs EXCEPT ![o] = x] =>
          t \in Seq(JobRecord) /\ Len(t) = Len(objs) /\ t[o] = x /\ \A q \in 1..Len(objs) \ {o} : t[q] = objs[q]
  BY <1>3, <1>5, SeqUpdate, SMT
<1>7. /\ objs' \in Seq(JobRecord) /\ Len(objs') = Len(objs)
      /\ objs'[o] = x /\ \A q \in 1..Len(objs) \ {o} : objs'[q] = objs[q]
  BY <1>4, <1>6, Zenon
<1> QED
  BY <1>3, <1>7

\* A daemon that starts again is the parent of no process.
LEMMA RestartStarts ==
    ASSUME Processes, starts' = [n \in DOMAIN starts |-> [starts[n] EXCEPT !.child = FALSE]]
    PROVE  /\ starts' \in Seq(StartRecord) /\ Len(starts') = Len(starts)
           /\ \A n \in 1..Len(starts) : ~starts'[n].child
<1>1. starts \in Seq(StartRecord) /\ Len(starts) \in Nat /\ DOMAIN starts = 1..Len(starts)
  BY DEF Processes
<1>2. \A n \in 1..Len(starts) : /\ [starts[n] EXCEPT !.child = FALSE] \in StartRecord
                                /\ ~[starts[n] EXCEPT !.child = FALSE].child
  <2> SUFFICES ASSUME NEW n \in 1..Len(starts)
               PROVE  /\ [starts[n] EXCEPT !.child = FALSE] \in StartRecord
                      /\ ~[starts[n] EXCEPT !.child = FALSE].child
    OBVIOUS
  <2>1. PICK s \in StartRecord : s = starts[n]
    BY <1>1
  <2>2. [s EXCEPT !.child = FALSE] \in StartRecord /\ ~[s EXCEPT !.child = FALSE].child
    BY Zenon DEF StartRecord
  <2> QED
    BY <2>1, <2>2
<1> DEFINE F(n) == [starts[n] EXCEPT !.child = FALSE]
<1>3. starts' = [n \in 1..Len(starts) |-> F(n)] /\ \A n \in 1..Len(starts) : F(n) \in StartRecord
  BY <1>1, <1>2
<1>5. \A n \in 1..Len(starts) : ~F(n).child
  BY <1>2
<1> HIDE DEF F
<1>4. starts' \in [1..Len(starts) -> StartRecord] /\ \A n \in 1..Len(starts) : starts'[n] = F(n)
  BY <1>3, Zenon
<1>6. starts' \in Seq(StartRecord) /\ Len(starts') = Len(starts)
  BY <1>1, <1>4
<1> QED
  BY <1>4, <1>5, <1>6, Zenon

\* A daemon that starts again has jobs without a channel.
LEMMA RestartObjects ==
    ASSUME Objects, objs' = [o \in DOMAIN objs |-> [objs[o] EXCEPT !.done = 0]]
    PROVE  /\ objs' \in Seq(JobRecord) /\ Len(objs') = Len(objs)
           /\ \A o \in 1..Len(objs) : objs'[o].done = 0
<1>1. objs \in Seq(JobRecord) /\ Len(objs) \in Nat /\ DOMAIN objs = 1..Len(objs)
  BY DEF Objects
<1>2. \A o \in 1..Len(objs) : /\ [objs[o] EXCEPT !.done = 0] \in JobRecord
                              /\ [objs[o] EXCEPT !.done = 0].done = 0
  <2> SUFFICES ASSUME NEW o \in 1..Len(objs)
               PROVE  [objs[o] EXCEPT !.done = 0] \in JobRecord /\ [objs[o] EXCEPT !.done = 0].done = 0
    OBVIOUS
  <2>1. PICK b \in JobRecord : b = objs[o]
    BY <1>1
  <2>2. [b EXCEPT !.done = 0] \in JobRecord /\ [b EXCEPT !.done = 0].done = 0
    BY DEF JobRecord
  <2> QED
    BY <2>1, <2>2
<1> DEFINE F(o) == [objs[o] EXCEPT !.done = 0]
<1>3. objs' = [o \in 1..Len(objs) |-> F(o)] /\ \A o \in 1..Len(objs) : F(o) \in JobRecord /\ F(o).done = 0
  BY <1>1, <1>2
<1> HIDE DEF F
<1> QED
  BY <1>1, <1>3

\* What a request that is not at Manage does leaves those that are.
LEMMA OtherRequests ==
    ASSUME Clients, NEW r \in Requests, NEW q, req' = [req EXCEPT ![r] = q],
           req[r].pc \notin {"manage", "set"}
    PROVE  \A s \in Requests : req[s].pc \in {"manage", "set"} => req'[s] = req[s]
  BY DEF Clients

\* A channel that is closed: the others are as they were.
LEMMA ClosedFields ==
    ASSUME NEW s \in Seq(BOOLEAN), NEW c, NEW t, t = [s EXCEPT ![c] = TRUE]
    PROVE  t \in Seq(BOOLEAN) /\ Len(t) = Len(s) /\ \A d \in 1..Len(s) \ {c} : t[d] = s[d]
<1>1. DOMAIN s = 1..Len(s) /\ Len(s) \in Nat /\ \A d \in 1..Len(s) : s[d] \in BOOLEAN
  OBVIOUS
<1>2. DOMAIN t = 1..Len(s) /\ \A d \in 1..Len(s) : t[d] = IF d = c THEN TRUE ELSE s[d]
  BY <1>1
<1>3. t \in [1..Len(s) -> BOOLEAN]
  BY <1>1, Zenon
<1>4. t \in Seq(BOOLEAN) /\ Len(t) = Len(s)
  BY <1>1, <1>3
<1> QED
  BY <1>2, <1>4

\* A new process gets the next number and a PID that was free.
LEMMA StartsFields ==
    ASSUME Processes, NEW p \in PIDs, NEW j \in JIDs \cup {Nil}, NEW child \in BOOLEAN, Starts(p, j, child)
    PROVE  /\ starts' \in Seq(StartRecord) /\ Len(starts') = Len(starts) + 1 /\ Len(starts') <= MaxStarts
           /\ \A n \in 1..Len(starts) : starts'[n] = starts[n]
           /\ proc' \in [PIDs -> {Nil} \cup ProcRecord] /\ proc'[p].n = Len(starts) + 1
           /\ \A q \in PIDs \ {p} : proc'[q] = proc[q]
<1>1. starts \in Seq(StartRecord) /\ Len(starts) \in Nat /\ MaxStarts \in Nat
  BY LifecycleAssumption DEF Processes
<1>2. PICK s \in StartRecord : s = [jid |-> j, child |-> child]
  BY Zenon DEF StartRecord
<1>3. PICK k \in Nat : k = Len(starts) + 1
  BY <1>1
<1>4. PICK z \in ProcRecord : z = [n |-> k, zombie |-> FALSE]
  BY Zenon DEF ProcRecord
<1>5. starts' = Append(starts, s) /\ proc' = [proc EXCEPT ![p] = z] /\ Len(starts) < MaxStarts /\ z.n = k
  BY <1>2, <1>3, <1>4 DEF Starts
<1>6. proc \in [PIDs -> {Nil} \cup ProcRecord]
  BY DEF Processes
<1>7. /\ starts' \in Seq(StartRecord) /\ Len(starts') = Len(starts) + 1
      /\ \A n \in 1..Len(starts) : starts'[n] = starts[n]
  BY <1>1, <1>5
<1>8. proc' \in [PIDs -> {Nil} \cup ProcRecord] /\ proc'[p] = z /\ \A q \in PIDs \ {p} : proc'[q] = proc[q]
  BY <1>5, <1>6
<1> QED
  BY <1>1, <1>3, <1>5, <1>7, <1>8

\* Processes keep their numbers and their PIDs, or lose them.
LEMMA ProcessesKept ==
    ASSUME Processes, UNCHANGED <<starts, exited>>, proc' \in [PIDs -> {Nil} \cup ProcRecord],
           \A q \in PIDs : proc'[q] # Nil => proc[q] # Nil /\ proc'[q].n = proc[q].n
    PROVE  Processes'
<1>1. /\ starts' \in Seq(StartRecord) /\ Len(starts') <= MaxStarts /\ exited' \subseteq 1..Len(starts')
      /\ \A p \in PIDs : proc'[p] # Nil => proc'[p].n \in 1..Len(starts')
  BY DEF Processes
<1>2. \A p, q \in PIDs : proc'[p] # Nil /\ proc'[q] # Nil /\ proc'[p].n = proc'[q].n => p = q
  BY DEF Processes
<1>3. \A p \in PIDs : proc'[p] # Nil /\ starts'[proc'[p].n].child => proc'[p].n \notin exited'
  <2> SUFFICES ASSUME NEW p \in PIDs, proc'[p] # Nil, starts[proc'[p].n].child PROVE proc'[p].n \notin exited
    OBVIOUS
  <2>1. proc[p] # Nil /\ starts[proc[p].n].child /\ proc'[p].n = proc[p].n
    OBVIOUS
  <2> QED
    BY <2>1 DEF Processes
<1> QED
  BY <1>1, <1>2, <1>3 DEF Processes

\* A new process has no number that another one has or had.
LEMMA ProcessStarted ==
    ASSUME Processes, NEW p \in PIDs, NEW j \in JIDs \cup {Nil}, NEW child \in BOOLEAN,
           Starts(p, j, child), exited' = exited
    PROVE  Processes'
<1>1. /\ starts' \in Seq(StartRecord) /\ Len(starts') = Len(starts) + 1 /\ Len(starts') <= MaxStarts
      /\ \A n \in 1..Len(starts) : starts'[n] = starts[n]
      /\ proc' \in [PIDs -> {Nil} \cup ProcRecord] /\ proc'[p].n = Len(starts) + 1
      /\ \A q \in PIDs \ {p} : proc'[q] = proc[q]
  BY StartsFields
<1>2. Len(starts) \in Nat
  BY DEF Processes
<1>3. \A q \in PIDs : proc'[q] # Nil => \/ q = p /\ proc'[q].n = Len(starts) + 1
                                        \/ q # p /\ proc[q] # Nil /\ proc'[q] = proc[q] /\ proc'[q].n \in 1..Len(starts)
  BY <1>1 DEF Processes
<1>4. exited' \subseteq 1..Len(starts') /\ \A q \in PIDs : proc'[q] # Nil => proc'[q].n \in 1..Len(starts')
  BY <1>1, <1>2, <1>3 DEF Processes
<1>5. \A q, t \in PIDs : proc'[q] # Nil /\ proc'[t] # Nil /\ proc'[q].n = proc'[t].n => q = t
  BY <1>2, <1>3 DEF Processes
<1>6. ASSUME NEW q \in PIDs, proc'[q] # Nil, starts'[proc'[q].n].child PROVE proc'[q].n \notin exited'
  <2>1. CASE q = p
    BY <1>2, <1>3, <1>6, <2>1 DEF Processes
  <2>2. CASE q # p
    <3>1. proc[q] # Nil /\ proc'[q] = proc[q] /\ proc[q].n \in 1..Len(starts)
      BY <1>3, <1>6, <2>2
    <3>2. starts[proc[q].n].child
      BY <1>1, <1>6, <3>1
    <3> QED
      BY <3>1, <3>2 DEF Processes
  <2> QED
    BY <2>1, <2>2
<1> QED
  BY <1>1, <1>4, <1>5, <1>6 DEF Processes

\* Adopting a process gives it a job; whose child it is stays.
LEMMA AdoptFields ==
    ASSUME Processes, NEW k \in 1..Len(starts), NEW j \in JIDs, starts' = [starts EXCEPT ![k].jid = j]
    PROVE  /\ starts' \in Seq(StartRecord) /\ Len(starts') = Len(starts)
           /\ \A n \in 1..Len(starts) : starts'[n].child = starts[n].child
<1>1. starts \in Seq(StartRecord)
  BY DEF Processes
<1>2. PICK s \in StartRecord : s = starts[k]
  BY <1>1
<1>3. PICK x : x = [s EXCEPT !.jid = j]
  BY Zenon
<1>4. x \in StartRecord /\ x.child = s.child
  BY <1>3 DEF StartRecord
<1>5. starts' = [starts EXCEPT ![k] = x]
  BY <1>2, <1>3
<1>6. \A t : t = [starts EXCEPT ![k] = x] =>
          t \in Seq(StartRecord) /\ Len(t) = Len(starts) /\ t[k] = x /\ \A n \in 1..Len(starts) \ {k} : t[n] = starts[n]
  BY <1>1, <1>4, SeqUpdate, SMT
<1>7. /\ starts' \in Seq(StartRecord) /\ Len(starts') = Len(starts)
      /\ starts'[k] = x /\ \A n \in 1..Len(starts) \ {k} : starts'[n] = starts[n]
  BY <1>5, <1>6, Zenon
<1> QED
  BY <1>2, <1>4, <1>7, Zenon

\* A request that goes on keeps its job and its process.
LEMMA GotoFields ==
    ASSUME Clients, NEW r \in Requests, NEW pc \in ClientPCs, Goto(r, pc)
    PROVE  /\ req' \in [Requests -> ClientRecord]
           /\ req'[r].pc = pc /\ req'[r].n = req[r].n /\ req'[r].jid = req[r].jid
           /\ \A s \in Requests \ {r} : req'[s] = req[s]
<1>1. PICK q \in ClientRecord : q = req[r]
  BY DEF Clients
<1>2. PICK x : x = [q EXCEPT !.pc = pc]
  BY Zenon
<1>3. x \in ClientRecord /\ x.pc = pc /\ x.n = q.n /\ x.jid = q.jid
  BY <1>2 DEF ClientRecord
<1>4. req' = [req EXCEPT ![r] = x]
  BY <1>1, <1>2 DEF Goto
<1> QED
  BY <1>1, <1>3, <1>4 DEF Clients

\* What ManageSet does to the objects and the channels.
LEMMA ManageSetFields ==
    ASSUME Objects, Clients, NEW r \in Requests, ManageSet(r)
    PROVE  /\ jobs[req[r].jid] \in 1..Len(objs)
           /\ objs' \in Seq(JobRecord) /\ Len(objs') = Len(objs)
           /\ objs'[jobs[req[r].jid]].done = Len(closed) + 1
           /\ \A q \in 1..Len(objs) \ {jobs[req[r].jid]} : objs'[q] = objs[q]
<1>1. PICK o \in 1..Len(objs), p \in PIDs \cup {Nil} : o = jobs[req[r].jid] /\ p = req[r].pid
  BY LifecycleAssumption DEF Objects, Clients, ClientRecord, ManageSet, At
<1>2. objs' = [objs EXCEPT ![o] = [@ EXCEPT !.pid = p, !.done = Len(closed) + 1]]
  BY <1>1 DEF ManageSet
<1>3. Len(closed) + 1 \in Nat
  BY DEF Objects
<1>4. /\ objs' \in Seq(JobRecord) /\ Len(objs') = Len(objs) /\ objs'[o].done = Len(closed) + 1
      /\ \A q \in 1..Len(objs) \ {o} : objs'[q] = objs[q]
  BY <1>2, <1>3, ObjectFields, Zenon
<1> QED
  BY <1>1, <1>4

\* Every step keeps the numbers of the processes apart, and reports no child that has
\* a PID.
LEMMA ProcessesStep == IInv /\ [Next]_vars => Processes'
<1> SUFFICES ASSUME IInv, [Next]_vars PROVE Processes'
  OBVIOUS
<1> USE LifecycleAssumption DEF Numbers
<1>0. Processes /\ Objects /\ Watches /\ Clients
  BY DEF IInv
<1>1. ASSUME UNCHANGED <<proc, starts, exited>>
      PROVE  Processes'
  BY <1>0, <1>1 DEF Processes
<1>2. ASSUME NEW r \in Requests, RunFails(r) \/ ManageCheck(r) \/ ManageFails(r) \/
          ManageSet(r) \/ ManagePanics(r) \/ KillGet(r) \/ KillSignal(r) \/ Delete(r) \/
          Done(r) \/ Awaited(r)
      PROVE  Processes'
  BY <1>1, <1>2, Zenon DEF RunFails, At, Return, ManageCheck, Goto, ManageFails, ManageSet, ManagePanics,
    KillGet, KillSignal, Delete, Done, Awaited
<1>3. ASSUME NEW r \in Requests, NEW j \in JIDs, RestoreGet(r, j) \/ KillList(r, j) \/
          DeleteList(r, j)
      PROVE  Processes'
  BY <1>1, <1>3 DEF RestoreGet, Begins, KillList, DeleteList
<1>4. ASSUME NEW r \in Requests, NEW j \in JIDs, NEW pc \in {"start", "adopt"}, RunNew(r, j, pc)
      PROVE  Processes'
  BY <1>1, <1>4 DEF RunNew, Begins, NewJob
<1>5. ASSUME NEW n \in Numbers, WatchExit(n) \/ WatchKill(n) \/ Detach(n) \/ Close(n)
      PROVE  Processes'
  BY <1>1, <1>5, Zenon DEF WatchExit, WatchAt, WatchKill, Detach, Close
<1>6. CASE Stop
  BY <1>1, <1>6 DEF Stop
<1>7. ASSUME NEW p \in PIDs, Spawn(p) PROVE Processes'
  BY <1>0, <1>7, ProcessStarted, Zenon DEF Spawn
<1>8. ASSUME NEW p \in PIDs, Exit(p) PROVE Processes'
  BY <1>0, <1>8, ZombieFields, ProcessesKept, Zenon DEF Exit, Alive
<1>9. ASSUME NEW p \in PIDs, Reap(p) PROVE Processes'
  BY <1>0, <1>9, Zenon DEF Processes, Reap
<1>10. ASSUME NEW p \in PIDs, ReapOther(p) PROVE Processes'
  BY <1>0, <1>10 DEF Processes, ReapOther
<1>11. ASSUME NEW n \in Numbers, WaitForPid(n) PROVE Processes'
  BY <1>0, <1>11 DEF Processes, WaitForPid, Alive, Watches, WatchPCs
<1>12. ASSUME NEW r \in Requests, NEW p \in PIDs, RunStart(r, p) PROVE Processes'
  <2>1. req[r].jid \in JIDs
    BY <1>0, <1>12 DEF RunStart, At, Clients
  <2> QED
    BY <1>0, <1>12, <2>1, ProcessStarted, Zenon DEF RunStart
<1>13. ASSUME NEW r \in Requests, NEW p \in PIDs, Adopt(r, p) PROVE Processes'
  <2>1. /\ proc[p].n \in 1..Len(starts) /\ req[r].jid \in JIDs
        /\ starts' = [starts EXCEPT ![proc[p].n].jid = req[r].jid]
    BY <1>0, <1>13 DEF Adopt, At, Processes, Clients
  <2>2. /\ starts' \in Seq(StartRecord) /\ Len(starts') = Len(starts)
        /\ \A n \in 1..Len(starts) : starts'[n].child = starts[n].child
    BY <1>0, <2>1, AdoptFields, Zenon
  <2>3. UNCHANGED <<proc, exited>>
    BY <1>13 DEF Adopt
  <2> QED
    BY <1>0, <2>2, <2>3 DEF Processes
<1>14. ASSUME NEW r \in Requests, RestoreStart(r) PROVE Processes'
  <2>1. CASE req[r].pid # Nil /\ Starts(req[r].pid, req[r].jid, TRUE)
    <3>1. req[r].pid \in PIDs /\ req[r].jid \in JIDs
      BY <1>0, <2>1, <1>14 DEF RestoreStart, At, Clients, ClientRecord
    <3> QED
      BY <1>0, <1>14, <2>1, <3>1, ProcessStarted, Zenon DEF RestoreStart
  <2>2. CASE UNCHANGED <<proc, starts>>
    BY <1>1, <2>2, <1>14 DEF RestoreStart
  <2> QED
    BY <2>1, <2>2, <1>14, Zenon DEF RestoreStart
<1>15. ASSUME NEW r \in Requests, NEW j \in JIDs, Dump(r, j) PROVE Processes'
  <2>1. PICK q \in PIDs : q = objs[jobs[j]].pid /\ proc[q] # Nil
    <3>1. objs[jobs[j]] \in JobRecord
      BY <1>0, <1>15 DEF Dump, Objects
    <3> QED
      BY <3>1, <1>15 DEF Dump, IsRunning, JobRecord
  <2>2. proc' = [proc EXCEPT ![q].zombie = TRUE] /\ UNCHANGED <<starts, exited>>
    BY <2>1, <1>15 DEF Dump
  <2> QED
    BY <1>0, <2>1, <2>2, ZombieFields, ProcessesKept, Zenon
<1>16. CASE Restart
  BY <1>0, <1>16, RestartStarts DEF Processes, Restart
<1>17. CASE UNCHANGED vars
  BY <1>1, <1>17 DEF vars
<1> QED
  BY <1>2, <1>3, <1>4, <1>5, <1>6, <1>7, <1>8, <1>9, <1>10, <1>11, <1>12, <1>13, <1>14, <1>15,
     <1>16, <1>17
  DEF Next, Handler, Request, Watcher

\* Every step keeps the job objects and their channels.
LEMMA ObjectsStep == IInv /\ [Next]_vars => Objects'
<1> SUFFICES ASSUME IInv, [Next]_vars PROVE Objects'
  OBVIOUS
<1> USE LifecycleAssumption DEF Numbers
<1>0. Processes /\ Objects /\ Watches /\ Clients
  BY DEF IInv
<1>1. ASSUME UNCHANGED <<objs, jobs, closed>>
      PROVE  Objects'
  BY <1>0, <1>1 DEF Objects
<1>2. ASSUME NEW p \in PIDs, Spawn(p) \/ Exit(p) \/ Reap(p) \/ ReapOther(p)
      PROVE  Objects'
  BY <1>1, <1>2 DEF Spawn, Starts, Exit, Alive, Reap, ReapOther
<1>3. ASSUME NEW n \in Numbers, WaitForPid(n) \/ WatchExit(n) \/ WatchKill(n) \/ Detach(n)
      PROVE  Objects'
  BY <1>1, <1>3 DEF WaitForPid, Alive, WatchExit, WatchAt, WatchKill, Detach
<1>4. ASSUME NEW r \in Requests, NEW p \in PIDs, RunStart(r, p) \/ Adopt(r, p)
      PROVE  Objects'
  BY <1>1, <1>4 DEF RunStart, At, Starts, Has, Adopt
<1>5. ASSUME NEW r \in Requests, RestoreStart(r) \/ ManageCheck(r) \/ ManagePanics(r) \/
          KillGet(r) \/ KillSignal(r) \/ Done(r) \/ Awaited(r)
      PROVE  Objects'
  BY <1>1, <1>5, Zenon DEF RestoreStart, At, Starts, Has, Return, ManageCheck, Goto, ManagePanics,
    KillGet, KillSignal, Done, Awaited
<1>6. ASSUME NEW r \in Requests, NEW j \in JIDs, RestoreGet(r, j) \/ KillList(r, j) \/
          DeleteList(r, j) \/ Dump(r, j)
      PROVE  Objects'
  BY <1>1, <1>6 DEF RestoreGet, Begins, KillList, DeleteList, Dump, Alive, IsRunning
<1>7. CASE Stop
  BY <1>1, <1>7 DEF Stop
<1>8. ASSUME NEW r \in Requests, RunFails(r) PROVE Objects'
  BY <1>0, <1>8 DEF Objects, Clients, RunFails, At
<1>9. ASSUME NEW r \in Requests, ManageFails(r) PROVE Objects'
  BY <1>0, <1>9 DEF Objects, Clients, ManageFails, At
<1>10. ASSUME NEW r \in Requests, ManageSet(r) PROVE Objects'
  <2>1. closed \in Seq(BOOLEAN) /\ Len(closed) \in Nat
    BY <1>0 DEF Objects
  <2>2. closed' \in Seq(BOOLEAN) /\ Len(closed') = Len(closed) + 1 /\ jobs' = jobs
    BY <2>1, <1>10 DEF ManageSet
  <2>3. \A q \in 1..Len(objs) : objs[q].done \in Nat /\ objs[q].done <= Len(closed)
    <3>1. \A q \in 1..Len(objs) : objs[q] \in JobRecord /\ objs[q].done <= Len(closed)
      BY <1>0 DEF Objects
    <3> QED
      BY <3>1 DEF JobRecord
  <2>4. PICK o \in 1..Len(objs) :
            /\ objs' \in Seq(JobRecord) /\ Len(objs') = Len(objs) /\ objs'[o].done = Len(closed) + 1
            /\ \A q \in 1..Len(objs) \ {o} : objs'[q] = objs[q]
    BY <1>0, <1>10, ManageSetFields
  <2>5. ASSUME NEW q \in 1..Len(objs') PROVE objs'[q].done <= Len(closed')
    <3>1. CASE q = o
      BY <2>1, <2>2, <2>4, <3>1
    <3>2. CASE q # o
      <4>1. q \in 1..Len(objs) /\ objs'[q] = objs[q]
        BY <2>4, <2>5, <3>2
      <4> QED
        BY <2>1, <2>2, <2>3, <4>1
    <3> QED
      BY <3>1, <3>2
  <2> QED
    BY <1>0, <2>2, <2>4, <2>5 DEF Objects
<1>11. ASSUME NEW r \in Requests, Delete(r) PROVE Objects'
  BY <1>0, <1>11 DEF Objects, Clients, Delete, At
<1>12. ASSUME NEW r \in Requests, NEW j \in JIDs, NEW pc \in {"start", "adopt"}, RunNew(r, j, pc) PROVE Objects'
  <2>1. NewJob(j) \in JobRecord /\ NewJob(j).done = 0
    BY DEF NewJob, JobRecord
  <2> QED
    BY <1>0, <2>1, <1>12 DEF Objects, RunNew
<1>13. ASSUME NEW n \in Numbers, Close(n) PROVE Objects'
  <2>1. closed' \in Seq(BOOLEAN) /\ Len(closed') = Len(closed)
    BY <1>0, <1>13, ClosedFields, Zenon DEF Objects, Close
  <2> QED
    BY <1>0, <2>1, <1>13, Zenon DEF Objects, Close
<1>14. CASE Restart
  BY <1>0, <1>14, RestartObjects DEF Objects, Restart
<1>15. CASE UNCHANGED vars
  BY <1>1, <1>15 DEF vars
<1> QED
  BY <1>2, <1>3, <1>4, <1>5, <1>6, <1>7, <1>8, <1>9, <1>10, <1>11, <1>12, <1>13, <1>14, <1>15
  DEF Next, Handler, Request, Watcher

\* Every step keeps the goroutines at objects and processes that exist.
LEMMA WatchesStep == IInv /\ [Next]_vars => Watches'
<1> SUFFICES ASSUME IInv, [Next]_vars PROVE Watches'
  OBVIOUS
<1> USE LifecycleAssumption DEF Numbers
<1>0. Processes /\ Objects /\ Watches /\ Clients
  BY DEF IInv
<1>1. ASSUME UNCHANGED <<watch, starts, objs>>
      PROVE  Watches'
  BY <1>0, <1>1 DEF Watches
<1>2. ASSUME NEW p \in PIDs, Exit(p) \/ Reap(p) \/ ReapOther(p)
      PROVE  Watches'
  BY <1>1, <1>2 DEF Exit, Alive, Reap, ReapOther
<1>3. ASSUME NEW n \in Numbers, WaitForPid(n)
      PROVE  Watches'
  BY <1>1, <1>3 DEF WaitForPid, Alive
<1>4. ASSUME NEW r \in Requests, RunFails(r) \/ ManageCheck(r) \/ ManageFails(r) \/
          ManagePanics(r) \/ KillGet(r) \/ KillSignal(r) \/ Delete(r) \/ Done(r) \/ Awaited(r)
      PROVE  Watches'
  BY <1>1, <1>4, Zenon DEF RunFails, At, Return, ManageCheck, Goto, ManageFails, ManagePanics, KillGet,
    KillSignal, Delete, Done, Awaited
<1>5. ASSUME NEW r \in Requests, NEW j \in JIDs, RestoreGet(r, j) \/ KillList(r, j) \/
          DeleteList(r, j) \/ Dump(r, j)
      PROVE  Watches'
  BY <1>1, <1>5 DEF RestoreGet, Begins, KillList, DeleteList, Dump, Alive, IsRunning
<1>6. CASE Stop
  BY <1>1, <1>6 DEF Stop
<1>7. ASSUME NEW p \in PIDs, Spawn(p) PROVE Watches'
  BY <1>0, <1>7 DEF Watches, Spawn, Starts, Processes
<1>8. ASSUME NEW r \in Requests, NEW p \in PIDs, RunStart(r, p) PROVE Watches'
  BY <1>0, <1>8 DEF Watches, RunStart, At, Starts, Has, Processes
<1>9. ASSUME NEW r \in Requests, NEW p \in PIDs, Adopt(r, p) PROVE Watches'
  BY <1>0, <1>9 DEF Watches, Adopt, At, Has, Processes
<1>10. ASSUME NEW r \in Requests, RestoreStart(r) PROVE Watches'
  BY <1>0, <1>10 DEF Watches, RestoreStart, At, Starts, Has, Return, Processes
<1>11. ASSUME NEW r \in Requests, ManageSet(r) PROVE Watches'
  <2>1. PICK o \in 1..Len(objs), p \in PIDs \cup {Nil}, k \in 1..Len(starts) :
            o = jobs[req[r].jid] /\ p = req[r].pid /\ k = req[r].n
    BY <1>0, <1>11 DEF Objects, Clients, ClientRecord, ManageSet, At
  <2>3. Len(objs') = Len(objs)
    BY <1>0, <1>11, ManageSetFields
  <2>4. PICK j \in JIDs : j = req[r].jid
    BY <1>0, <1>11 DEF Clients, ManageSet, At
  <2>6. PICK w \in WatchRecord : w = [pc |-> "wait", jid |-> j, pid |-> p, obj |-> o]
    <3>1. o \in Nat
      OBVIOUS
    <3> QED
      BY <3>1, Zenon DEF WatchRecord, WatchPCs
  <2>5. watch' = [watch EXCEPT ![k] = w] /\ starts' = starts /\ w.obj = o
    BY <2>1, <2>4, <2>6, <1>11 DEF ManageSet
  <2> QED
    BY <1>0, <2>3, <2>5 DEF Watches, Processes
<1>12. ASSUME NEW r \in Requests, NEW j \in JIDs, NEW pc \in {"start", "adopt"}, RunNew(r, j, pc) PROVE Watches'
  <2>1. Len(objs') = Len(objs) + 1 /\ UNCHANGED <<watch, starts>>
    BY <1>0, <1>12 DEF RunNew, Objects
  <2> QED
    BY <1>0, <2>1 DEF Watches, Objects
<1>13. ASSUME NEW n \in Numbers, WatchExit(n) PROVE Watches'
  <2>1. watch' = [watch EXCEPT ![n].pc = "detach"] /\ UNCHANGED <<starts, objs>>
    BY <1>13 DEF WatchExit
  <2>2. "detach" \in WatchPCs /\ watch[n].pc # Nil
    BY <1>13 DEF WatchPCs, WatchExit, WatchAt
  <2> QED
    BY <1>0, <2>1, <2>2, WatchFields, Zenon DEF Watches
<1>14. ASSUME NEW n \in Numbers, WatchKill(n) PROVE Watches'
  <2>1. watch' = [watch EXCEPT ![n].pc = "code"] /\ UNCHANGED <<starts, objs>>
    BY <1>14 DEF WatchKill
  <2>2. "code" \in WatchPCs /\ watch[n].pc # Nil
    BY <1>14 DEF WatchPCs, WatchKill, WatchAt
  <2> QED
    BY <1>0, <2>1, <2>2, WatchFields, Zenon DEF Watches
<1>15. ASSUME NEW n \in Numbers, Detach(n) PROVE Watches'
  <2>1. watch' = [watch EXCEPT ![n].pc = "close"] /\ UNCHANGED <<starts, objs>>
    BY <1>15 DEF Detach
  <2>2. "close" \in WatchPCs /\ watch[n].pc # Nil
    BY <1>15 DEF WatchPCs, Detach, WatchAt
  <2> QED
    BY <1>0, <2>1, <2>2, WatchFields, Zenon DEF Watches
<1>16. ASSUME NEW n \in Numbers, Close(n) PROVE Watches'
  <2>1. watch' = [watch EXCEPT ![n].pc = "over"] /\ UNCHANGED <<starts, objs>>
    BY <1>16, Zenon DEF Close
  <2>2. "over" \in WatchPCs /\ watch[n].pc # Nil
    BY <1>16, Zenon DEF WatchPCs, Close, WatchAt
  <2> QED
    BY <1>0, <2>1, <2>2, WatchFields, Zenon DEF Watches
<1>17. CASE Restart
  BY <1>0, <1>17 DEF Watches, WatchRecord, WatchPCs, Restart, NoWatch
<1>18. CASE UNCHANGED vars
  BY <1>1, <1>18 DEF vars
<1> QED
  BY <1>2, <1>3, <1>4, <1>5, <1>6, <1>7, <1>8, <1>9, <1>10, <1>11, <1>12, <1>13, <1>14, <1>15,
     <1>16, <1>17, <1>18
  DEF Next, Handler, Request, Watcher

\* Every step keeps the requests at jobs and processes that exist.
LEMMA ClientsStep == IInv /\ [Next]_vars => Clients'
<1> SUFFICES ASSUME IInv, [Next]_vars PROVE Clients'
  OBVIOUS
<1> USE LifecycleAssumption DEF Numbers
<1>0. Processes /\ Objects /\ Watches /\ Clients
  BY DEF IInv
<1>1. ASSUME UNCHANGED <<req, starts>>
      PROVE  Clients'
  BY <1>0, <1>1 DEF Clients, ClientRecord, ClientPCs, Idle
<1>2. ASSUME NEW p \in PIDs, Exit(p) \/ Reap(p) \/ ReapOther(p)
      PROVE  Clients'
  BY <1>1, <1>2 DEF Exit, Alive, Reap, ReapOther
<1>3. ASSUME NEW n \in Numbers, WaitForPid(n) \/ WatchExit(n) \/ WatchKill(n) \/ Detach(n) \/
          Close(n)
      PROVE  Clients'
  BY <1>1, <1>3, Zenon DEF WaitForPid, Alive, WatchExit, WatchAt, WatchKill, Detach, Close
<1>4. ASSUME NEW r \in Requests, ManagePanics(r)
      PROVE  Clients'
  BY <1>1, <1>4, Zenon DEF ManagePanics, At
<1>5. CASE Stop
  BY <1>1, <1>5 DEF Stop
<1>6. ASSUME NEW p \in PIDs, Spawn(p) PROVE Clients'
  BY <1>0, <1>6 DEF Clients, ClientRecord, ClientPCs, Idle, Spawn, Starts, Processes, Objects
<1>7. ASSUME NEW r \in Requests, NEW p \in PIDs, RunStart(r, p) PROVE Clients'
  <2>1. Len(starts) + 1 \in Nat /\ Len(starts') = Len(starts) + 1 /\ req[r].jid \in JIDs
    BY <1>0, <1>7 DEF RunStart, At, Starts, Processes, Clients
  <2> QED
    BY <1>0, <1>7, <2>1, HasFields DEF RunStart, Clients
<1>8. ASSUME NEW r \in Requests, NEW p \in PIDs, Adopt(r, p) PROVE Clients'
  <2>1. proc[p].n \in 1..Len(starts) /\ proc[p].n \in Nat /\ Len(starts') = Len(starts) /\ req[r].jid \in JIDs
    BY <1>0, <1>8 DEF Adopt, At, Processes, Clients
  <2> QED
    BY <1>0, <1>8, <2>1, HasFields DEF Adopt, Clients
<1>9. ASSUME NEW r \in Requests, RunFails(r) PROVE Clients'
  BY <1>0, <1>9 DEF Clients, ClientRecord, ClientPCs, Idle, RunFails, At, Return, Processes,
    Objects
<1>10. ASSUME NEW r \in Requests, RestoreStart(r) PROVE Clients'
  <2>1. CASE req[r].pid # Nil /\ Starts(req[r].pid, req[r].jid, TRUE) /\ Has(r, req[r].pid, Len(starts) + 1)
    <3>1. /\ req[r].pid \in PIDs /\ req[r].jid \in JIDs
          /\ Len(starts) + 1 \in Nat /\ Len(starts') = Len(starts) + 1
      BY <1>0, <2>1, <1>10 DEF RestoreStart, At, Starts, Processes, Clients, ClientRecord
    <3> QED
      BY <1>0, <2>1, <3>1, HasFields DEF Clients
  <2>2. CASE Return(r) /\ UNCHANGED <<proc, starts>>
    BY <1>0, <2>2 DEF Clients, ClientRecord, ClientPCs, Idle, Return
  <2> QED
    BY <2>1, <2>2, <1>10, Zenon DEF RestoreStart
<1>11. ASSUME NEW r \in Requests, ManageCheck(r) PROVE Clients'
  <2>1. Goto(r, "set") /\ "set" \in ClientPCs /\ req[r].pc = "manage" /\ starts' = starts
    BY <1>11 DEF ManageCheck, At, ClientPCs
  <2> QED
    BY <1>0, <2>1, GotoFields DEF Clients
<1>12. ASSUME NEW r \in Requests, ManageFails(r) PROVE Clients'
  BY <1>0, <1>12 DEF Clients, ClientRecord, ClientPCs, Idle, ManageFails, At, Return, Processes,
    Objects
<1>13. ASSUME NEW r \in Requests, ManageSet(r) PROVE Clients'
  BY <1>0, <1>13 DEF Clients, ClientRecord, ClientPCs, Idle, ManageSet, At, Return, Processes,
    Objects
<1>14. ASSUME NEW r \in Requests, KillGet(r) PROVE Clients'
  <2>1. CASE Return(r)
    BY <1>0, <2>1, <1>14 DEF Clients, ClientRecord, ClientPCs, Idle, Return, KillGet
  <2>2. CASE req' = [req EXCEPT ![r].pc = "signal", ![r].obj = jobs[req[r].jid]]
    <3>1. PICK q \in ClientRecord, o \in Nat : q = req[r] /\ o = jobs[q.jid] /\ q.jid \in JIDs
      BY <1>0, <1>14 DEF Clients, Objects, KillGet, At
    <3>2. PICK x : x = [q EXCEPT !.pc = "signal", !.obj = o]
      OBVIOUS
    <3>3. x \in ClientRecord /\ x.pc = "signal" /\ x.jid = q.jid
      BY <3>2, Zenon DEF ClientRecord, ClientPCs
    <3>4. req' = [req EXCEPT ![r] = x] /\ starts' = starts
      BY <2>2, <3>1, <3>2, <1>14, Zenon DEF KillGet
    <3> QED
      BY <1>0, <3>1, <3>3, <3>4 DEF Clients
  <2> QED
    BY <2>1, <2>2, <1>14 DEF KillGet
<1>15. ASSUME NEW r \in Requests, KillSignal(r) PROVE Clients'
  BY <1>0, <1>15 DEF Clients, ClientRecord, ClientPCs, Idle, KillSignal, At, Return, Processes,
    Objects
<1>16. ASSUME NEW r \in Requests, Delete(r) PROVE Clients'
  BY <1>0, <1>16 DEF Clients, ClientRecord, ClientPCs, Idle, Delete, At, Return, Processes,
    Objects
<1>17. ASSUME NEW r \in Requests, Done(r) PROVE Clients'
  <2>1. CASE Return(r)
    BY <1>0, <2>1, <1>17 DEF Clients, ClientRecord, ClientPCs, Idle, Return, Done
  <2>2. CASE jobs[req[r].jid] # 0 /\ req' = [req EXCEPT ![r].pc = "await", ![r].n = objs[jobs[req[r].jid]].done]
    <3>1. PICK q \in ClientRecord : q = req[r] /\ q.jid \in JIDs
      BY <1>0, <1>17 DEF Clients, Done, At
    <3>2. objs[jobs[q.jid]] \in JobRecord
      BY <1>0, <2>2, <3>1 DEF Objects
    <3>3. PICK k \in Nat : k = objs[jobs[q.jid]].done
      BY <3>2 DEF JobRecord
    <3>4. PICK x : x = [q EXCEPT !.pc = "await", !.n = k]
      OBVIOUS
    <3>5. x \in ClientRecord /\ x.pc = "await" /\ x.jid = q.jid
      BY <3>4, Zenon DEF ClientRecord, ClientPCs
    <3>6. req' = [req EXCEPT ![r] = x] /\ starts' = starts
      BY <2>2, <3>1, <3>3, <3>4, <1>17, Zenon DEF Done
    <3> QED
      BY <1>0, <3>1, <3>5, <3>6 DEF Clients
  <2> QED
    BY <2>1, <2>2, <1>17 DEF Done
<1>18. ASSUME NEW r \in Requests, Awaited(r) PROVE Clients'
  BY <1>0, <1>18 DEF Clients, ClientRecord, ClientPCs, Idle, Awaited, At, Return, Processes,
    Objects
<1>19. ASSUME NEW r \in Requests, NEW j \in JIDs, RestoreGet(r, j) PROVE Clients'
  <2>1. objs[jobs[j]] \in JobRecord
    BY <1>0, <1>19 DEF RestoreGet, Objects
  <2>2. PICK p \in PIDs \cup {Nil} : p = objs[jobs[j]].pid
    BY <2>1 DEF JobRecord
  <2>3. PICK x : x = [Idle EXCEPT !.pc = "restore", !.jid = j, !.pid = p]
    OBVIOUS
  <2>4. x \in ClientRecord /\ x.pc = "restore" /\ x.jid = j
    BY <2>3, Zenon DEF ClientRecord, ClientPCs, Idle
  <2>5. req' = [req EXCEPT ![r] = x] /\ starts' = starts
    BY <2>2, <2>3, <1>19 DEF RestoreGet
  <2> QED
    BY <1>0, <2>4, <2>5 DEF Clients
<1>20. ASSUME NEW r \in Requests, NEW j \in JIDs, KillList(r, j) PROVE Clients'
  BY <1>0, <1>20, Zenon DEF Clients, ClientRecord, ClientPCs, Idle, KillList, Begins, Processes, Objects
<1>21. ASSUME NEW r \in Requests, NEW j \in JIDs, DeleteList(r, j) PROVE Clients'
  BY <1>0, <1>21, Zenon DEF Clients, ClientRecord, ClientPCs, Idle, DeleteList, Begins, Processes,
    Objects
<1>22. ASSUME NEW r \in Requests, NEW j \in JIDs, Dump(r, j) PROVE Clients'
  BY <1>0, <1>22, Zenon DEF Clients, ClientRecord, ClientPCs, Idle, Dump, Begins, Alive, IsRunning,
    Processes, Objects
<1>23. ASSUME NEW r \in Requests, NEW j \in JIDs, NEW pc \in {"start", "adopt"}, RunNew(r, j, pc) PROVE Clients'
  BY <1>0, <1>23, Zenon DEF Clients, ClientRecord, ClientPCs, Idle, RunNew, Begins, NewJob, Processes,
    Objects
<1>24. CASE Restart
  BY <1>0, <1>24 DEF Clients, ClientRecord, ClientPCs, Idle, Restart, Processes, Objects
<1>25. CASE UNCHANGED vars
  BY <1>1, <1>25 DEF vars
<1> QED
  BY <1>2, <1>3, <1>4, <1>5, <1>6, <1>7, <1>8, <1>9, <1>10, <1>11, <1>12, <1>13, <1>14, <1>15,
     <1>16, <1>17, <1>18, <1>19, <1>20, <1>21, <1>22, <1>23, <1>24, <1>25
  DEF Next, Handler, Request, Watcher

\* Every step keeps a child in somebody's hands.
LEMMA WatchedStep == IInv /\ [Next]_vars => Watched'
<1> SUFFICES ASSUME IInv, [Next]_vars PROVE Watched'
  OBVIOUS
<1> USE LifecycleAssumption DEF Numbers
<1>0. Processes /\ Objects /\ Watches /\ Clients /\ Watched
  BY DEF IInv
<1>1. ASSUME UNCHANGED <<daemon, proc, starts, unmanaged, watch>>,
             \A s \in Requests : req[s].pc \in {"manage", "set"} => req'[s] = req[s]
      PROVE  Watched'
  BY <1>0, <1>1 DEF Watched, Running, Alive
<1>2. ASSUME NEW n \in Numbers, WaitForPid(n)
      PROVE  Watched'
  BY <1>1, <1>2 DEF WaitForPid, Alive
<1>3. ASSUME NEW p \in PIDs, Spawn(p) PROVE Watched'
  BY <1>0, <1>3 DEF Watched, Running, Alive, Spawn, Starts, Processes, Clients, Watches
<1>4. ASSUME NEW p \in PIDs, Exit(p) PROVE Watched'
  BY <1>0, <1>4 DEF Watched, Running, Alive, Exit, Processes, Clients, Watches
<1>5. ASSUME NEW p \in PIDs, Reap(p) PROVE Watched'
  BY <1>0, <1>5 DEF Watched, Running, Alive, Reap, Processes, Clients, Watches
<1>6. ASSUME NEW p \in PIDs, ReapOther(p) PROVE Watched'
  BY <1>0, <1>6 DEF Watched, Running, Alive, ReapOther, Processes, Clients, Watches
<1>7. ASSUME NEW r \in Requests, NEW p \in PIDs, RunStart(r, p) PROVE Watched'
  <2>1. req[r].jid \in JIDs /\ req[r].pc = "start" /\ Len(starts) + 1 \in Nat
    BY <1>0, <1>7 DEF RunStart, At, Clients, Processes
  <2>2. /\ \A n \in 1..Len(starts) : starts'[n] = starts[n]
      /\ proc'[p].n = Len(starts) + 1 /\ \A q \in PIDs \ {p} : proc'[q] = proc[q]
    BY <1>0, <2>1, <1>7, StartsFields, Zenon DEF RunStart
  <2>3. /\ req'[r].pc = "manage" /\ req'[r].n = Len(starts) + 1 /\ \A s \in Requests \ {r} : req'[s] = req[s]
    BY <1>0, <2>1, <1>7, HasFields DEF RunStart
  <2>4. UNCHANGED <<daemon, unmanaged, watch>>
    BY <1>7 DEF RunStart
  <2>5. ASSUME NEW q \in PIDs, Running', Alive(q)', (starts[proc[q].n].child)' PROVE Held(proc[q].n)'
    <3>1. CASE q = p
      BY <2>2, <2>3, <3>1 DEF Held
    <3>2. CASE q # p
      <4>1. proc'[q] = proc[q] /\ proc[q] # Nil /\ proc[q].n \in 1..Len(starts)
        BY <1>0, <2>2, <2>5, <3>2 DEF Alive, Processes
      <4>2. Running /\ Alive(q) /\ starts[proc[q].n].child
        BY <2>2, <2>4, <2>5, <4>1 DEF Running, Alive
      <4>3. Held(proc[q].n)
        BY <1>0, <4>2 DEF Watched, Held
      <4> QED
        BY <2>1, <2>3, <2>4, <4>1, <4>3 DEF Held
    <3> QED
      BY <3>1, <3>2
  <2> QED
    BY <2>5 DEF Watched, Held
<1>8. ASSUME NEW r \in Requests, NEW p \in PIDs, Adopt(r, p) PROVE Watched'
  <2>1. /\ proc[p].n \in 1..Len(starts) /\ req[r].jid \in JIDs /\ req[r].pc = "adopt"
        /\ starts' = [starts EXCEPT ![proc[p].n].jid = req[r].jid]
    BY <1>0, <1>8 DEF Adopt, At, Processes, Clients
  <2>2. \A n \in 1..Len(starts) : starts'[n].child = starts[n].child
    BY <1>0, <2>1, AdoptFields
  <2>3. \A s \in Requests : req[s].pc \in {"manage", "set"} => req'[s] = req[s]
    <3>1. \A s \in Requests \ {r} : req'[s] = req[s]
      BY <1>0, <2>1, <1>8, HasFields DEF Adopt
    <3> QED
      BY <2>1, <3>1
  <2>4. UNCHANGED <<daemon, proc, unmanaged, watch>>
    BY <1>8 DEF Adopt
  <2> QED
    BY <1>0, <2>2, <2>3, <2>4 DEF Watched, Running, Alive, Processes
<1>9. ASSUME NEW r \in Requests, RunFails(r) PROVE Watched'
  <2>1. UNCHANGED <<daemon, proc, starts, unmanaged, watch>> /\ req[r].pc \notin {"manage", "set"}
    BY <1>9 DEF RunFails, At
  <2>2. PICK q : req' = [req EXCEPT ![r] = q]
    BY <1>9, Zenon DEF RunFails, Return
  <2> QED
    BY <1>0, <1>1, <2>1, <2>2, OtherRequests
<1>10. ASSUME NEW r \in Requests, RestoreStart(r) PROVE Watched'
  <2>1. CASE req[r].pid # Nil /\ Starts(req[r].pid, req[r].jid, TRUE) /\ Has(r, req[r].pid, Len(starts) + 1)
    <3>1. PICK p \in PIDs : p = req[r].pid
      BY <1>0, <2>1 DEF Clients, ClientRecord
    <3>2. req[r].jid \in JIDs /\ req[r].pc = "restore" /\ Len(starts) + 1 \in Nat
      BY <1>0, <1>10 DEF RestoreStart, At, Clients, Processes
    <3>3. /\ \A n \in 1..Len(starts) : starts'[n] = starts[n]
        /\ proc'[p].n = Len(starts) + 1 /\ \A q \in PIDs \ {p} : proc'[q] = proc[q]
      BY <1>0, <2>1, <3>1, <3>2, StartsFields, Zenon
    <3>4. /\ req'[r].pc = "manage" /\ req'[r].n = Len(starts) + 1 /\ \A s \in Requests \ {r} : req'[s] = req[s]
      BY <1>0, <2>1, <3>1, <3>2, HasFields
    <3>5. UNCHANGED <<daemon, unmanaged, watch>>
      BY <1>10, Zenon DEF RestoreStart
    <3> QED
      BY <1>0, <3>2, <3>3, <3>4, <3>5 DEF Watched, Running, Alive, Processes
  <2>2. CASE Return(r) /\ UNCHANGED <<proc, starts>>
    <3>1. UNCHANGED <<daemon, proc, starts, unmanaged, watch>> /\ req[r].pc \notin {"manage", "set"}
      BY <2>2, <1>10 DEF RestoreStart, At
    <3>2. PICK q : req' = [req EXCEPT ![r] = q]
      BY <2>2, Zenon DEF Return
    <3> QED
      BY <1>0, <1>1, <3>1, <3>2, OtherRequests
  <2> QED
    BY <2>1, <2>2, <1>10, Zenon DEF RestoreStart
<1>11. ASSUME NEW r \in Requests, ManageCheck(r) PROVE Watched'
  BY <1>0, <1>11 DEF Watched, Running, Alive, ManageCheck, At, Goto, Processes, Clients, Watches
<1>12. ASSUME NEW r \in Requests, ManageFails(r) PROVE Watched'
  BY <1>0, <1>12, Zenon DEF Watched, Running, Alive, ManageFails, At, Return, Processes, Clients, Watches
<1>13. ASSUME NEW r \in Requests, ManageSet(r) PROVE Watched'
  <2>1. PICK k \in Numbers : k = req[r].n
    BY <1>0, <1>13 DEF ManageSet, At, Clients, Processes
  <2>2. PICK w : w.pc = "wait" /\ watch' = [watch EXCEPT ![k] = w]
    <3>1. PICK w : w = [pc |-> "wait", jid |-> req[r].jid, pid |-> req[r].pid, obj |-> jobs[req[r].jid]]
      BY Zenon
    <3> QED
      BY <2>1, <3>1, <1>13, Zenon DEF ManageSet
  <2>3. PICK c : req' = [req EXCEPT ![r] = c]
    BY <1>13, Zenon DEF ManageSet, Return
  <2>4. UNCHANGED <<daemon, proc, starts, unmanaged>>
    BY <1>13 DEF ManageSet
  <2>5. ASSUME NEW q \in PIDs, Running', Alive(q)', (starts[proc[q].n].child)' PROVE Held(proc[q].n)'
    <3>1. Running /\ Alive(q) /\ starts[proc[q].n].child /\ proc'[q] = proc[q] /\ proc[q].n \in Numbers
      BY <1>0, <2>4, <2>5 DEF Running, Alive, Processes
    <3>2. Held(proc[q].n)
      BY <1>0, <3>1 DEF Watched, Held
    <3>3. CASE proc[q].n = k
      BY <1>0, <2>1, <2>2, <3>1, <3>3 DEF Held, Watches
    <3>4. CASE proc[q].n # k
      BY <1>0, <2>1, <2>2, <2>3, <2>4, <3>1, <3>2, <3>4 DEF Held, Watches, Clients
    <3> QED
      BY <3>3, <3>4
  <2> QED
    BY <2>5 DEF Watched, Held
<1>14. ASSUME NEW r \in Requests, ManagePanics(r) PROVE Watched'
  BY <1>0, <1>14, Zenon DEF Watched, Running, Alive, ManagePanics, At, Processes, Clients, Watches
<1>15. ASSUME NEW r \in Requests, KillGet(r) PROVE Watched'
  <2>1. UNCHANGED <<daemon, proc, starts, unmanaged, watch>> /\ req[r].pc \notin {"manage", "set"}
    BY <1>15 DEF KillGet, At
  <2>2. PICK q : req' = [req EXCEPT ![r] = q]
    BY <1>15, Zenon DEF KillGet, Return
  <2> QED
    BY <1>0, <1>1, <2>1, <2>2, OtherRequests
<1>16. ASSUME NEW r \in Requests, KillSignal(r) PROVE Watched'
  <2>1. UNCHANGED <<daemon, proc, starts, unmanaged, watch>> /\ req[r].pc \notin {"manage", "set"}
    BY <1>16 DEF KillSignal, At
  <2>2. PICK q : req' = [req EXCEPT ![r] = q]
    BY <1>16, Zenon DEF KillSignal, Return
  <2> QED
    BY <1>0, <1>1, <2>1, <2>2, OtherRequests
<1>17. ASSUME NEW r \in Requests, Delete(r) PROVE Watched'
  <2>1. UNCHANGED <<daemon, proc, starts, unmanaged, watch>> /\ req[r].pc \notin {"manage", "set"}
    BY <1>17 DEF Delete, At
  <2>2. PICK q : req' = [req EXCEPT ![r] = q]
    BY <1>17, Zenon DEF Delete, Return
  <2> QED
    BY <1>0, <1>1, <2>1, <2>2, OtherRequests
<1>18. ASSUME NEW r \in Requests, Done(r) PROVE Watched'
  <2>1. UNCHANGED <<daemon, proc, starts, unmanaged, watch>> /\ req[r].pc \notin {"manage", "set"}
    BY <1>18 DEF Done, At
  <2>2. PICK q : req' = [req EXCEPT ![r] = q]
    BY <1>18, Zenon DEF Done, Return
  <2> QED
    BY <1>0, <1>1, <2>1, <2>2, OtherRequests
<1>19. ASSUME NEW r \in Requests, Awaited(r) PROVE Watched'
  <2>1. UNCHANGED <<daemon, proc, starts, unmanaged, watch>> /\ req[r].pc \notin {"manage", "set"}
    BY <1>19 DEF Awaited, At
  <2>2. PICK q : req' = [req EXCEPT ![r] = q]
    BY <1>19, Zenon DEF Awaited, Return
  <2> QED
    BY <1>0, <1>1, <2>1, <2>2, OtherRequests
<1>20. ASSUME NEW r \in Requests, NEW j \in JIDs, RestoreGet(r, j) PROVE Watched'
  <2>1. UNCHANGED <<daemon, proc, starts, unmanaged, watch>> /\ req[r].pc \notin {"manage", "set"}
    BY <1>20 DEF RestoreGet, Begins
  <2>2. PICK q : req' = [req EXCEPT ![r] = q]
    BY <1>20, Zenon DEF RestoreGet
  <2> QED
    BY <1>0, <1>1, <2>1, <2>2, OtherRequests
<1>21. ASSUME NEW r \in Requests, NEW j \in JIDs, KillList(r, j) PROVE Watched'
  <2>1. UNCHANGED <<daemon, proc, starts, unmanaged, watch>> /\ req[r].pc \notin {"manage", "set"}
    BY <1>21 DEF KillList, Begins
  <2>2. PICK q : req' = [req EXCEPT ![r] = q]
    BY <1>21, Zenon DEF KillList
  <2> QED
    BY <1>0, <1>1, <2>1, <2>2, OtherRequests
<1>22. ASSUME NEW r \in Requests, NEW j \in JIDs, DeleteList(r, j) PROVE Watched'
  <2>1. UNCHANGED <<daemon, proc, starts, unmanaged, watch>> /\ req[r].pc \notin {"manage", "set"}
    BY <1>22 DEF DeleteList, Begins
  <2>2. PICK q : req' = [req EXCEPT ![r] = q]
    BY <1>22, Zenon DEF DeleteList
  <2> QED
    BY <1>0, <1>1, <2>1, <2>2, OtherRequests
<1>23. ASSUME NEW r \in Requests, NEW j \in JIDs, Dump(r, j) PROVE Watched'
  <2>1. PICK q \in PIDs : q = objs[jobs[j]].pid /\ proc[q] # Nil
    <3>1. objs[jobs[j]] \in JobRecord
      BY <1>0, <1>23 DEF Dump, Objects
    <3> QED
      BY <3>1, <1>23 DEF Dump, IsRunning, JobRecord
  <2>2. proc' = [proc EXCEPT ![q].zombie = TRUE] /\ req[r].pc = Nil /\ UNCHANGED <<daemon, starts, unmanaged, watch>>
    BY <2>1, <1>23 DEF Dump, Begins
  <2>3. proc'[q].zombie /\ \A p \in PIDs \ {q} : proc'[p] = proc[p]
    BY <1>0, <2>1, <2>2, ZombieFields, Zenon
  <2>4. PICK x : req' = [req EXCEPT ![r] = x]
    BY <1>23, Zenon DEF Dump
  <2>5. \A s \in Requests : req[s].pc \in {"manage", "set"} => req'[s] = req[s]
    BY <1>0, <2>2, <2>4, OtherRequests
  <2> QED
    BY <1>0, <2>2, <2>3, <2>5 DEF Watched, Running, Alive
<1>24. ASSUME NEW r \in Requests, NEW j \in JIDs, NEW pc \in {"start", "adopt"}, RunNew(r, j, pc) PROVE Watched'
  <2>1. UNCHANGED <<daemon, proc, starts, unmanaged, watch>> /\ req[r].pc \notin {"manage", "set"}
    BY <1>24 DEF RunNew, Begins
  <2>2. PICK q : req' = [req EXCEPT ![r] = q]
    BY <1>24, Zenon DEF RunNew
  <2> QED
    BY <1>0, <1>1, <2>1, <2>2, OtherRequests
<1>25. ASSUME NEW n \in Numbers, WatchExit(n) PROVE Watched'
  BY <1>0, <1>25 DEF Watched, Running, Alive, WatchExit, WatchAt, Processes, Clients, Watches
<1>26. ASSUME NEW n \in Numbers, WatchKill(n) PROVE Watched'
  <2>1. watch' = [watch EXCEPT ![n].pc = "code"] /\ UNCHANGED <<daemon, proc, starts, unmanaged, req>>
    BY <1>26 DEF WatchKill
  <2>2. watch'[n].pc = "code" /\ \A m \in Numbers \ {n} : watch'[m] = watch[m]
    BY <1>0, <2>1, WatchFields, Zenon DEF WatchPCs
  <2>3. \A p \in PIDs : proc[p] # Nil => proc[p].n \in Numbers
    BY <1>0 DEF Processes
  <2> QED
    BY <1>0, <2>1, <2>2, <2>3, <1>26 DEF WatchKill, WatchAt, Watched, Running, Alive
<1>27. ASSUME NEW n \in Numbers, Detach(n) PROVE Watched'
  <2>1. watch' = [watch EXCEPT ![n].pc = "close"] /\ UNCHANGED <<daemon, proc, starts, unmanaged, req>>
    BY <1>27 DEF Detach
  <2>2. watch'[n].pc = "close" /\ \A m \in Numbers \ {n} : watch'[m] = watch[m]
    BY <1>0, <2>1, WatchFields, Zenon DEF WatchPCs
  <2>3. \A p \in PIDs : proc[p] # Nil => proc[p].n \in Numbers
    BY <1>0 DEF Processes
  <2> QED
    BY <1>0, <2>1, <2>2, <2>3, <1>27 DEF Detach, WatchAt, Watched, Running, Alive
<1>28. ASSUME NEW n \in Numbers, Close(n) PROVE Watched'
  <2>1. watch' = [watch EXCEPT ![n].pc = "over"] /\ UNCHANGED <<proc, starts, unmanaged, req>>
    BY <1>28, Zenon DEF Close
  <2>2. watch'[n].pc = "over" /\ \A m \in Numbers \ {n} : watch'[m] = watch[m]
    BY <1>0, <2>1, WatchFields, Zenon DEF WatchPCs
  <2>3. \A p \in PIDs : proc[p] # Nil => proc[p].n \in Numbers
    BY <1>0 DEF Processes
  <2>4. Running /\ watch[n].pc = "close"
    BY <1>28, Zenon DEF Close, WatchAt
  <2>5. ASSUME NEW q \in PIDs, Alive(q)', (starts[proc[q].n].child)' PROVE Held(proc[q].n)'
    <3>1. Alive(q) /\ starts[proc[q].n].child /\ proc'[q] = proc[q] /\ proc[q].n \in Numbers
      BY <2>1, <2>3, <2>5 DEF Alive
    <3>2. Held(proc[q].n)
      BY <1>0, <2>4, <3>1 DEF Watched, Held
    <3> QED
      BY <2>1, <2>2, <2>4, <3>1, <3>2 DEF Held
  <2> QED
    BY <2>5 DEF Watched, Held
<1>29. CASE Stop
  BY <1>0, <1>29 DEF Watched, Running, Alive, Stop, Processes, Clients, Watches
<1>30. CASE Restart
  BY <1>0, <1>30 DEF Watched, Running, Alive, Restart, Processes, Clients, Watches
<1>31. CASE UNCHANGED vars
  BY <1>1, <1>31 DEF vars
<1> QED
  BY <1>2, <1>3, <1>4, <1>5, <1>6, <1>7, <1>8, <1>9, <1>10, <1>11, <1>12, <1>13, <1>14, <1>15,
     <1>16, <1>17, <1>18, <1>19, <1>20, <1>21, <1>22, <1>23, <1>24, <1>25, <1>26, <1>27, <1>28,
     <1>29, <1>30, <1>31, Zenon
  DEF Next, Handler, Request, Watcher

\* Every step keeps the channels of watched jobs open and apart.
LEMMA ChannelsStep == IInv /\ [Next]_vars => Channels'
<1> SUFFICES ASSUME IInv, [Next]_vars PROVE Channels'
  OBVIOUS
<1> USE LifecycleAssumption DEF Numbers
<1>0. Processes /\ Objects /\ Watches /\ Clients /\ Channels
  BY DEF IInv
<1>1. ASSUME UNCHANGED <<daemon, objs, closed, watch, overtaken>>
      PROVE  Channels'
  BY <1>0, <1>1, Zenon DEF Channels, ClosedOnce, Active
<1>2. ASSUME NEW p \in PIDs, Spawn(p) \/ Exit(p) \/ Reap(p) \/ ReapOther(p)
      PROVE  Channels'
  BY <1>1, <1>2 DEF Spawn, Starts, Exit, Alive, Reap, ReapOther
<1>3. ASSUME NEW n \in Numbers, WaitForPid(n)
      PROVE  Channels'
  BY <1>1, <1>3 DEF WaitForPid, Alive
<1>4. ASSUME NEW r \in Requests, NEW p \in PIDs, RunStart(r, p) \/ Adopt(r, p)
      PROVE  Channels'
  BY <1>1, <1>4 DEF RunStart, At, Starts, Has, Adopt
<1>5. ASSUME NEW r \in Requests, RunFails(r) \/ RestoreStart(r) \/ ManageCheck(r) \/
          ManageFails(r) \/ KillGet(r) \/ KillSignal(r) \/ Delete(r) \/ Done(r) \/ Awaited(r)
      PROVE  Channels'
  BY <1>1, <1>5, Zenon DEF RunFails, At, Return, RestoreStart, Starts, Has, ManageCheck, Goto,
    ManageFails, KillGet, KillSignal, Delete, Done, Awaited
<1>6. ASSUME NEW r \in Requests, NEW j \in JIDs, RestoreGet(r, j) \/ KillList(r, j) \/
          DeleteList(r, j) \/ Dump(r, j)
      PROVE  Channels'
  BY <1>1, <1>6 DEF RestoreGet, Begins, KillList, DeleteList, Dump, Alive, IsRunning
<1>7. ASSUME NEW r \in Requests, ManageSet(r) PROVE Channels'
  <2>1. PICK o \in 1..Len(objs), p \in PIDs \cup {Nil}, k \in Numbers :
            o = jobs[req[r].jid] /\ p = req[r].pid /\ k = req[r].n
    BY <1>0, <1>7 DEF Objects, Clients, ClientRecord, Processes, ManageSet, At
  <2>2. daemon' = daemon
    BY <1>7 DEF ManageSet
  <2>3. closed \in Seq(BOOLEAN) /\ Len(closed) \in Nat /\ Len(closed) + 1 \in Nat
    BY <1>0 DEF Objects
  <2>4. /\ Len(objs') = Len(objs) /\ objs'[o].done = Len(closed) + 1
        /\ \A q \in 1..Len(objs) \ {o} : objs'[q] = objs[q]
    BY <1>0, <2>1, <1>7, ManageSetFields
  <2>5. ~closed'[Len(closed) + 1] /\ \A c \in 1..Len(closed) : closed'[c] = closed[c]
    BY <2>3, <1>7 DEF ManageSet
  <2>6. PICK w : w.pc = "wait" /\ w.obj = o /\ watch' = [watch EXCEPT ![k] = w]
    <3>1. PICK w : w = [pc |-> "wait", jid |-> req[r].jid, pid |-> p, obj |-> o]
      BY Zenon
    <3> QED
      BY <2>1, <3>1, <1>7, Zenon DEF ManageSet
  <2>7. watch'[k] = w /\ \A n \in Numbers \ {k} : watch'[n] = watch[n]
    BY <1>0, <2>6 DEF Watches
  <2>8. CASE Watching(o)
    BY <1>0, <2>1, <2>2, <2>8, <1>7, Zenon DEF ManageSet, Channels, ClosedOnce
  <2>9. CASE ~Watching(o)
    <3>1. overtaken' = overtaken
      BY <2>1, <2>9, <1>7 DEF ManageSet
    <3>2. \A n \in Numbers \ {k} : Active(n)' =>
              Active(n) /\ watch'[n].obj = watch[n].obj /\ watch[n].obj # o /\ watch[n].obj \in 1..Len(objs)
      BY <1>0, <2>7, <2>9 DEF Active, Watching, Watches
    <3>3. \A q \in 1..Len(objs) : objs[q].done \in 0..Len(closed)
      <4>1. \A q \in 1..Len(objs) : objs[q] \in JobRecord /\ objs[q].done <= Len(closed)
        BY <1>0 DEF Objects
      <4> QED
        BY <2>3, <4>1 DEF JobRecord
    <3> SUFFICES ASSUME overtaken = {} PROVE Channels'
      BY <1>0, <2>2, <3>1, Zenon DEF Channels, ClosedOnce
    <3>4. \A n \in Numbers : Active(n) => objs[watch[n].obj].done # 0 /\ ~closed[objs[watch[n].obj].done]
      BY <1>0 DEF Channels
    <3>5. ASSUME NEW n \in Numbers, Active(n)'
          PROVE  objs'[watch'[n].obj].done # 0 /\ ~closed'[objs'[watch'[n].obj].done]
      <4>1. CASE n = k
        BY <2>3, <2>4, <2>5, <2>6, <2>7, <4>1
      <4>2. CASE n # k
        <5>1. /\ Active(n) /\ watch'[n].obj = watch[n].obj /\ watch[n].obj \in 1..Len(objs)
              /\ objs'[watch[n].obj] = objs[watch[n].obj]
          BY <2>4, <3>2, <3>5, <4>2
        <5>2. objs[watch[n].obj].done \in 1..Len(closed) /\ ~closed[objs[watch[n].obj].done]
          BY <2>3, <3>3, <3>4, <5>1
        <5> QED
          BY <2>3, <2>5, <5>1, <5>2
      <4> QED
        BY <4>1, <4>2
    <3>6. \A n, m \in Numbers : Active(n)' /\ Active(m)' /\ watch'[n].obj = watch'[m].obj => n = m
      BY <1>0, <2>6, <2>7, <3>2 DEF Channels
    <3>7. \A q, t \in 1..Len(objs') : objs'[q].done = objs'[t].done /\ objs'[q].done # 0 => q = t
      BY <1>0, <2>3, <2>4, <3>3 DEF Channels
    <3> QED
      BY <1>0, <2>2, <3>1, <3>5, <3>6, <3>7, Zenon DEF Channels, ClosedOnce
  <2> QED
    BY <2>8, <2>9
<1>8. ASSUME NEW r \in Requests, ManagePanics(r) PROVE Channels'
  BY <1>0, <1>8, Zenon DEF ManagePanics, Channels, ClosedOnce, Active
<1>9. ASSUME NEW r \in Requests, NEW j \in JIDs, NEW pc \in {"start", "adopt"}, RunNew(r, j, pc) PROVE Channels'
  <2>1. objs' = Append(objs, NewJob(j)) /\ UNCHANGED <<daemon, closed, watch, overtaken>>
    BY <1>9 DEF RunNew
  <2>2. objs \in Seq(JobRecord) /\ NewJob(j) \in JobRecord /\ NewJob(j).done = 0
    BY <1>0 DEF Objects, NewJob, JobRecord
  <2>3. /\ Len(objs) \in Nat /\ Len(objs') = Len(objs) + 1 /\ objs'[Len(objs) + 1].done = 0
        /\ \A o \in 1..Len(objs) : objs'[o] = objs[o]
    BY <2>1, <2>2
  <2>4. \A n \in Numbers : Active(n) => watch[n].obj \in 1..Len(objs)
    BY <1>0 DEF Active, Watches
  <2>5. \A n \in Numbers : Active(n)' <=> Active(n)
    BY <2>1 DEF Active
  <2> SUFFICES ASSUME overtaken = {} PROVE Channels'
    BY <1>0, <2>1, Zenon DEF Channels, ClosedOnce
  <2>6. \A n \in Numbers : Active(n)' => objs'[watch'[n].obj].done # 0 /\ ~closed'[objs'[watch'[n].obj].done]
    BY <1>0, <2>1, <2>3, <2>4, <2>5, Zenon DEF Channels
  <2>7. \A n, m \in Numbers : Active(n)' /\ Active(m)' /\ watch'[n].obj = watch'[m].obj => n = m
    BY <1>0, <2>1, <2>5, Zenon DEF Channels
  <2>8. \A q, t \in 1..Len(objs') : objs'[q].done = objs'[t].done /\ objs'[q].done # 0 => q = t
    BY <1>0, <2>3 DEF Channels
  <2> QED
    BY <1>0, <2>1, <2>6, <2>7, <2>8, Zenon DEF Channels, ClosedOnce
<1>10. ASSUME NEW n \in Numbers, WatchExit(n) PROVE Channels'
  <2>1. watch' = [watch EXCEPT ![n].pc = "detach"] /\ UNCHANGED <<daemon, objs, closed, overtaken>>
    BY <1>10 DEF WatchExit
  <2>2. /\ watch'[n].pc = "detach" /\ \A m \in Numbers : watch'[m].obj = watch[m].obj
        /\ \A m \in Numbers \ {n} : watch'[m] = watch[m]
    BY <1>0, <2>1, WatchFields, Zenon DEF WatchPCs
  <2>3. Active(n)
    BY <1>10 DEF WatchExit, WatchAt, Active
  <2>4. \A m \in Numbers : Active(m)' => Active(m)
    BY <2>2, <2>3 DEF Active
  <2> QED
    BY <1>0, <2>1, <2>2, <2>4, Zenon DEF Channels, ClosedOnce
<1>11. ASSUME NEW n \in Numbers, WatchKill(n) PROVE Channels'
  <2>1. watch' = [watch EXCEPT ![n].pc = "code"] /\ UNCHANGED <<daemon, objs, closed, overtaken>>
    BY <1>11 DEF WatchKill
  <2>2. /\ watch'[n].pc = "code" /\ \A m \in Numbers : watch'[m].obj = watch[m].obj
        /\ \A m \in Numbers \ {n} : watch'[m] = watch[m]
    BY <1>0, <2>1, WatchFields, Zenon DEF WatchPCs
  <2>3. Active(n)
    BY <1>11 DEF WatchKill, WatchAt, Active
  <2>4. \A m \in Numbers : Active(m)' => Active(m)
    BY <2>2, <2>3 DEF Active
  <2> QED
    BY <1>0, <2>1, <2>2, <2>4, Zenon DEF Channels, ClosedOnce
<1>12. ASSUME NEW n \in Numbers, Detach(n) PROVE Channels'
  <2>1. watch' = [watch EXCEPT ![n].pc = "close"] /\ UNCHANGED <<daemon, objs, closed, overtaken>>
    BY <1>12 DEF Detach
  <2>2. /\ watch'[n].pc = "close" /\ \A m \in Numbers : watch'[m].obj = watch[m].obj
        /\ \A m \in Numbers \ {n} : watch'[m] = watch[m]
    BY <1>0, <2>1, WatchFields, Zenon DEF WatchPCs
  <2>3. Active(n)
    BY <1>12 DEF Detach, WatchAt, Active
  <2>4. \A m \in Numbers : Active(m)' => Active(m)
    BY <2>2, <2>3 DEF Active
  <2> QED
    BY <1>0, <2>1, <2>2, <2>4, Zenon DEF Channels, ClosedOnce
<1>13. ASSUME NEW n \in Numbers, Close(n) PROVE Channels'
  <2>1. PICK c : c = objs[watch[n].obj].done
    OBVIOUS
  <2>2. /\ watch' = [watch EXCEPT ![n].pc = "over"] /\ UNCHANGED <<objs, overtaken>>
        /\ \/ ~closed[c] /\ closed' = [closed EXCEPT ![c] = TRUE] /\ daemon' = daemon
           \/ closed[c] /\ daemon' = "closed twice" /\ closed' = closed
    BY <2>1, <1>13, Zenon DEF Close
  <2>3. Active(n) /\ watch[n].obj \in 1..Len(objs)
    BY <1>0, <1>13, Zenon DEF Close, WatchAt, Active, Watches
  <2>4. /\ watch'[n].pc = "over" /\ \A m \in Numbers : watch'[m].obj = watch[m].obj
        /\ \A m \in Numbers \ {n} : watch'[m] = watch[m]
    BY <1>0, <2>2, WatchFields, Zenon DEF WatchPCs
  <2>5. \A m \in Numbers : Active(m)' => m # n /\ Active(m) /\ watch[m].obj \in 1..Len(objs)
    BY <1>0, <2>4 DEF Active, Watches
  <2>6. CASE overtaken # {}
    BY <2>2, <2>6, Zenon DEF Channels, ClosedOnce
  <2>7. CASE overtaken = {}
    <3>1. ~closed[c]
      BY <1>0, <2>1, <2>3, <2>7 DEF Channels
    <3>2. closed' = [closed EXCEPT ![c] = TRUE] /\ daemon' = daemon
      BY <2>2, <3>1, Zenon
    <3>3. ASSUME NEW m \in Numbers, Active(m)'
          PROVE  objs[watch[m].obj].done # 0 /\ ~closed'[objs[watch[m].obj].done]
      <4>1. Active(m) /\ m # n /\ watch[m].obj \in 1..Len(objs)
        BY <2>5, <3>3
      <4>2. objs[watch[m].obj].done # 0 /\ ~closed[objs[watch[m].obj].done]
        BY <1>0, <2>7, <4>1 DEF Channels
      <4>3. watch[m].obj # watch[n].obj
        BY <1>0, <2>3, <2>7, <4>1 DEF Channels
      <4>4. objs[watch[m].obj].done # c
        BY <1>0, <2>1, <2>3, <2>7, <4>1, <4>2, <4>3 DEF Channels
      <4>5. closed \in Seq(BOOLEAN) /\ objs[watch[m].obj].done \in 1..Len(closed)
        <5>1. objs[watch[m].obj] \in JobRecord /\ objs[watch[m].obj].done <= Len(closed) /\ closed \in Seq(BOOLEAN)
          BY <1>0, <4>1 DEF Objects
        <5> QED
          BY <4>2, <5>1 DEF JobRecord
      <4>6. closed'[objs[watch[m].obj].done] = closed[objs[watch[m].obj].done]
        BY <3>2, <4>4, <4>5, ClosedFields
      <4> QED
        BY <4>2, <4>6
    <3> QED
      BY <1>0, <2>2, <2>4, <2>5, <2>7, <3>2, <3>3, Zenon DEF Channels, ClosedOnce
  <2> QED
    BY <2>6, <2>7
<1>14. CASE Stop
  BY <1>0, <1>14, Zenon DEF Stop, Channels, ClosedOnce, Active
<1>15. CASE Restart
  <2>1. /\ daemon' = "restarted" /\ \A n \in Numbers : watch'[n] = NoWatch
        /\ objs' = [o \in DOMAIN objs |-> [objs[o] EXCEPT !.done = 0]]
    BY <1>15 DEF Restart
  <2>2. Len(objs') = Len(objs) /\ \A o \in 1..Len(objs) : objs'[o].done = 0
    BY <1>0, <2>1, RestartObjects
  <2>3. \A n \in Numbers : ~Active(n)'
    BY <2>1 DEF Active, NoWatch
  <2> QED
    BY <2>1, <2>2, <2>3 DEF Channels, ClosedOnce
<1>16. CASE UNCHANGED vars
  BY <1>1, <1>16 DEF vars
<1> QED
  BY <1>2, <1>3, <1>4, <1>5, <1>6, <1>7, <1>8, <1>9, <1>10, <1>11, <1>12, <1>13, <1>14, <1>15,
     <1>16, Zenon
  DEF Next, Handler, Request, Watcher

\* The invariant holds when the daemon starts.
LEMMA InvInit == Init => IInv
<1> SUFFICES ASSUME Init PROVE IInv
  OBVIOUS
<1> USE LifecycleAssumption DEF Init
<1>1. Processes /\ Watched
  BY DEF Processes, Watched, Alive
<1>2. Objects
  BY DEF Objects
<1>3. Watches
  BY DEF Watches, NoWatch, WatchRecord, WatchPCs, Numbers
<1>4. Clients
  BY DEF Clients, Idle, ClientRecord, ClientPCs
<1>5. Channels
  BY DEF Channels, ClosedOnce, Active, NoWatch
<1> QED
  BY <1>1, <1>2, <1>3, <1>4, <1>5 DEF IInv

\* The invariant holds in every state that the daemon and its jobs reach.
LEMMA Invariant == Spec => []IInv
<1>1. IInv /\ [Next]_vars => IInv'
  BY ProcessesStep, ObjectsStep, WatchesStep, ClientsStep, WatchedStep, ChannelsStep DEF IInv
<1> QED
  BY <1>1, InvInit, PTL DEF Spec

\* For every number of jobs, processes and requests: closing a channel done twice, which
\* would panic the daemon, takes a restore that manages a job whose former process is
\* still being cleaned up after (the goroutine of Manage).
THEOREM DoneClosedOnce == Spec => []ClosedOnce
<1>1. IInv => ClosedOnce
  BY DEF IInv, Channels
<1> QED
  BY <1>1, Invariant, PTL

\* For every number of jobs, processes and requests: a child of the daemon that is alive
\* is in the hands of its request or watched, unless its request failed at Manage.
THEOREM ChildrenWatched == Spec => []Watched
<1>1. IInv => Watched
  BY DEF IInv
<1> QED
  BY <1>1, Invariant, PTL
=============================================================================
