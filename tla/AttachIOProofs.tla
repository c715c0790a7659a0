--------------------------- MODULE AttachIOProofs ---------------------------
(***************************************************************************)
(* Proofs about AttachIO, for every number of masters, of chunks and of    *)
(* inputs, and every capacity of the channels: what an attached client is  *)
(* sent, what WaitFirstMaster promises, and under which key a slave is     *)
(* found.                                                                  *)
(***************************************************************************)
EXTENDS AttachIO, SequenceTheorems, TLAPS

TypeRequest ==
    /\ kind \in {"run", "restore"} /\ waitFirst \in BOOLEAN
    /\ req \in {"handler", "setcode", "unset", "setpid", "manage", "ok", "failed"}
    /\ cancelled \in BOOLEAN /\ server \in {"up", "stopping", "stopped"}
    /\ manager \in {"off", "on", "killing", "done"}

TypeProcess ==
    /\ proc \in {"none", "running", "killed", "exited"}
    /\ wrote \in 0..Chunks /\ copied \in 0..wrote /\ taken \in 0..copied /\ outOpen \in BOOLEAN
    /\ inq \in 0..Cap /\ inOpen \in BOOLEAN /\ stdin \in BOOLEAN

TypeCodes ==
    /\ waiter \in {"off", "on", "done"} /\ exit \in {"open", "value", "taken", "closed"}
    /\ bc \in [value : BOOLEAN, closed : BOOLEAN]
    /\ sub \in [Subscribers -> [reg : BOOLEAN, value : BOOLEAN, closed : BOOLEAN]]

TypeSlave ==
    /\ slave \in {"first", "loop", "code", "ended"}
    /\ exitRef \in {"placeholder", "process"} /\ slaveOn \in {"none", "placeholder", "process"}
    /\ key \in {"id", "pid"} /\ entries \in SUBSET {"id", "pid"} /\ attached \in SUBSET Masters

TypeMasters ==
    /\ master \in [Masters -> {"off", "offer", "attached", "gone"}]
    /\ queue \in [Masters -> Seq(0..Chunks)] /\ seen \in [Masters -> Seq(0..Chunks)]
    /\ typed \in [Masters -> 0..Inputs] /\ panicked \in BOOLEAN

Types == TypeRequest /\ TypeProcess /\ TypeCodes /\ TypeSlave /\ TypeMasters

\* There is no process before the handler has started it; out is closed when all that
\* the process wrote is in it, and the process is over.
Process ==
    /\ req = "handler" => proc = "none" /\ waiter = "off" /\ ~cancelled
    /\ ~outOpen => copied = wrote /\ proc = "exited"

\* Nobody has an exit code before the process is over.
Codes ==
    /\ exit = "open" <=> waiter # "done"
    /\ waiter = "done" => proc = "exited"
    /\ bc.value \/ bc.closed => exit \in {"taken", "closed"}
    /\ \A s \in Subscribers : sub[s].value \/ sub[s].closed => exit \in {"taken", "closed"}

\* A slave that has left its loop in time has taken all that was written.
Left == slave \in {"code", "ended"} /\ ~ctxDone => ~outOpen /\ taken = copied

\* Under which key the slave is found at every step of the request, and that nobody finds
\* it under its PID before it has the exit code of the process.
Lookup ==
    /\ req = "unset" /\ "id" \in entries => exitRef = "process"
    /\ "pid" \in entries \/ req = "setpid" => exitRef = "process"
    /\ \A m \in Masters : master[m] \in {"offer", "attached"} \/ m \in attached => exitRef = "process"
    /\ slaveOn = "placeholder" => slave = "code" /\ attached = {}
    /\ slave # "ended" =>
           /\ req \in {"handler", "setcode", "unset"} => "id" \in entries /\ key = "id"
           /\ req = "setpid" => key = "id"
           /\ req \in {"manage", "ok"} => "pid" \in entries

\* What a master was sent: chunks without a gap, up to the last one that the slave took as
\* long as the master is attached, then perhaps the code.
OutputOf(m) ==
    /\ master[m] = "attached" => m \in attached
    /\ master[m] \in {"off", "offer"} => Sent(m) = <<>>
    /\ \A i \in 1..Len(Sent(m)) :
           /\ Sent(m)[i] <= taken
           /\ Sent(m)[i] = ExitCode => i = Len(Sent(m)) /\ slave = "ended" /\ proc = "exited"
    /\ \A i \in 1..(Len(Sent(m)) - 1) : Sent(m)[i + 1] # ExitCode => Sent(m)[i + 1] = Sent(m)[i] + 1
    /\ master[m] = "attached" /\ slave # "ended" /\ Len(Sent(m)) > 0 => Sent(m)[Len(Sent(m))] = taken
    /\ Len(Sent(m)) > 1 /\ Sent(m)[Len(Sent(m))] = ExitCode /\ ~ctxDone => Sent(m)[Len(Sent(m)) - 1] = wrote

Output == \A m \in Masters : OutputOf(m)

\* The first master gets the first chunk.
First ==
    waitFirst => \/ taken = 0 /\ slave \in {"first", "ended"}
                 \/ \E m \in Masters :
                        \/ master[m] = "gone"
                        \/ master[m] = "attached" /\ (taken = 0 \/ (Sent(m) # <<>> /\ Sent(m)[1] = 1))

IInv == Types /\ Process /\ Codes /\ Left /\ Lookup /\ Output /\ First

-----------------------------------------------------------------------------
\* Receiving moves the head of the queue: what was sent stays.
LEMMA MoveHead ==
    ASSUME NEW S, NEW s \in Seq(S), NEW q \in Seq(S), q # <<>>
    PROVE  Append(s, Head(q)) \o Tail(q) = s \o q
<1>1. /\ Head(q) \in S /\ Tail(q) \in Seq(S) /\ Len(Tail(q)) = Len(q) - 1 /\ Len(q) \in Nat \ {0}
      /\ \A i \in 1..Len(Tail(q)) : Tail(q)[i] = q[i + 1]
  OBVIOUS
<1>2. /\ Append(s, Head(q)) \in Seq(S) /\ Len(Append(s, Head(q))) = Len(s) + 1 /\ Len(s) \in Nat
      /\ Append(s, Head(q))[Len(s) + 1] = q[1] /\ \A i \in 1..Len(s) : Append(s, Head(q))[i] = s[i]
  BY <1>1
<1> DEFINE a == Append(s, Head(q)) \o Tail(q)
           b == s \o q
<1>3. a \in Seq(S) /\ b \in Seq(S) /\ Len(a) = Len(s) + Len(q) /\ Len(b) = Len(s) + Len(q)
  BY <1>1, <1>2
<1>4. ASSUME NEW i \in 1..Len(a) PROVE a[i] = b[i]
  <2>1. CASE i <= Len(s)
    BY <1>1, <1>2, <1>3, <2>1
  <2>2. CASE i = Len(s) + 1
    BY <1>1, <1>2, <1>3, <2>2
  <2>3. CASE i > Len(s) + 1
    BY <1>1, <1>2, <1>3, <2>3
  <2> QED
    BY <1>2, <1>3, <2>1, <2>2, <2>3
<1> HIDE DEF a, b
<1>5. a = b
  BY <1>3, <1>4, SeqEqual
<1> QED
  BY <1>5 DEF a, b

\* Sending puts a message at the end of what was sent.
LEMMA SendLast ==
    ASSUME NEW S, NEW s \in Seq(S), NEW q \in Seq(S), NEW x \in S
    PROVE  s \o Append(q, x) = Append(s \o q, x)
<1> DEFINE a == s \o Append(q, x)
           b == Append(s \o q, x)
<1>1. a \in Seq(S) /\ b \in Seq(S) /\ Len(a) = Len(s) + Len(q) + 1 /\ Len(b) = Len(s) + Len(q) + 1
  OBVIOUS
<1>2. ASSUME NEW i \in 1..Len(a) PROVE a[i] = b[i]
  OBVIOUS
<1> HIDE DEF a, b
<1>3. a = b
  BY <1>1, <1>2, SeqEqual
<1> QED
  BY <1>3 DEF a, b

\* A broadcast keeps the record of a subscriber's channel.
LEMMA SubscriberFields ==
    ASSUME NEW x \in [reg : BOOLEAN, value : BOOLEAN, closed : BOOLEAN]
    PROVE  /\ [x EXCEPT !.value = x.reg] \in [reg : BOOLEAN, value : BOOLEAN, closed : BOOLEAN]
           /\ [x EXCEPT !.closed = x.reg] \in [reg : BOOLEAN, value : BOOLEAN, closed : BOOLEAN]
  OBVIOUS

\* Sending keeps the types of the queues.
LEMMA SendTypes ==
    ASSUME NEW x \in 0..Chunks, queue \in [Masters -> Seq(0..Chunks)], SendAll(x)
    PROVE  queue' \in [Masters -> Seq(0..Chunks)]
<1> DEFINE S == 0..Chunks
<1>1. x \in S /\ queue \in [Masters -> Seq(S)]
  OBVIOUS
<1> HIDE DEF S
<1>2. \A m \in Masters : Append(queue[m], x) \in Seq(S) /\ queue[m] \in Seq(S)
  BY <1>1
<1>3. queue' \in [Masters -> Seq(S)]
  BY <1>2 DEF SendAll
<1> QED
  BY <1>3 DEF S

\* Every step keeps the types of the request's state.
LEMMA TypeRequestStep == IInv /\ [Next]_vars => TypeRequest'
<1> SUFFICES ASSUME IInv, [Next]_vars PROVE TypeRequest'
  OBVIOUS
<1> USE AttachAssumption DEF request, process, codes, slaveVars, masterVars
<1>0. TypeRequest
  BY DEF IInv, Types
<1>1. ASSUME UNCHANGED <<kind, waitFirst, req, cancelled, server, manager>>
      PROVE  TypeRequest'
  BY <1>0, <1>1 DEF TypeRequest
<1>2. CASE ProcWrites \/ ProcExits \/ CopyOut \/ CopyIn \/ Wait \/ Broadcast \/ FirstMaster \/
          Serve \/ Leave \/ Tell
  BY <1>1, <1>2 DEF ProcWrites, ProcExits, CopyOut, CopyIn, Wait, Broadcast, FirstMaster, Take,
    Serve, SendAll, Reachable, Leave, Tell
<1>3. ASSUME NEW m \in Masters, Attach(m) \/ GiveUp(m) \/ Type(m) \/ Receive(m) \/ Detach(m)
      PROVE  TypeRequest'
  BY <1>1, <1>3 DEF Attach, GiveUp, Type, Receive, Detach
<1>4. CASE Handler
  BY <1>0, <1>4, Zenon DEF TypeRequest, Handler
<1>5. CASE SetCode
  BY <1>0, <1>5 DEF TypeRequest, SetCode, Subscribe
<1>6. CASE UnsetId
  BY <1>0, <1>6 DEF TypeRequest, UnsetId
<1>7. CASE SetPID
  BY <1>0, <1>7 DEF TypeRequest, SetPID
<1>8. CASE Manage
  BY <1>0, <1>8, Zenon DEF TypeRequest, Manage, Subscribe
<1>9. CASE Managing
  BY <1>0, <1>9 DEF TypeRequest, Managing
<1>10. CASE Shutdown
  BY <1>0, <1>10 DEF TypeRequest, Shutdown
<1>11. CASE Stop
  BY <1>0, <1>11 DEF TypeRequest, Stop
<1>12. CASE UNCHANGED vars
  BY <1>1, <1>12 DEF vars
<1> QED
  BY <1>2, <1>3, <1>4, <1>5, <1>6, <1>7, <1>8, <1>9, <1>10, <1>11, <1>12
  DEF Next, Request, Goroutines, Slave, Master

\* Every step keeps the types of the process and of its channels.
LEMMA TypeProcessStep == IInv /\ [Next]_vars => TypeProcess'
<1> SUFFICES ASSUME IInv, [Next]_vars PROVE TypeProcess'
  OBVIOUS
<1> USE AttachAssumption DEF request, process, codes, slaveVars, masterVars
<1>0. TypeProcess
  BY DEF IInv, Types
<1>1. ASSUME UNCHANGED <<proc, wrote, copied, taken, outOpen, inq, inOpen, stdin>>
      PROVE  TypeProcess'
  BY <1>0, <1>1 DEF TypeProcess
<1>2. CASE SetCode \/ UnsetId \/ SetPID \/ Manage \/ Wait \/ Broadcast \/ Tell \/ Shutdown \/ Stop
  BY <1>1, <1>2 DEF SetCode, Subscribe, UnsetId, SetPID, Manage, Wait, Broadcast, Tell, SendAll,
    Reachable, Shutdown, Stop
<1>3. ASSUME NEW m \in Masters, Attach(m) \/ GiveUp(m) \/ Receive(m) \/ Detach(m)
      PROVE  TypeProcess'
  BY <1>1, <1>3 DEF Attach, GiveUp, Receive, Detach
<1>4. CASE Handler
  BY <1>0, <1>4, Zenon DEF TypeProcess, Handler
<1>5. CASE ProcWrites
  BY <1>0, <1>5 DEF TypeProcess, ProcWrites
<1>6. CASE ProcExits
  BY <1>0, <1>6 DEF TypeProcess, ProcExits
<1>7. CASE CopyOut
  <2>1. UNCHANGED <<proc, wrote, taken, inq, inOpen, stdin>>
    BY <1>7 DEF CopyOut
  <2>2. copied' \in 0..wrote /\ taken \in 0..copied'
    <3>1. copied' = copied \/ (copied < wrote /\ copied' = copied + 1)
      BY <1>7, Zenon DEF CopyOut
    <3> QED
      BY <1>0, <3>1 DEF TypeProcess
  <2>3. outOpen' \in BOOLEAN
    BY <1>0, <1>7, Zenon DEF CopyOut, TypeProcess
  <2> QED
    BY <1>0, <2>1, <2>2, <2>3 DEF TypeProcess
<1>8. CASE CopyIn
  <2>1. UNCHANGED <<proc, wrote, copied, taken, outOpen, inOpen>>
    BY <1>8 DEF CopyIn
  <2>2. inq' \in 0..Cap
    BY <1>0, <1>8 DEF CopyIn, TypeProcess
  <2>3. stdin' \in BOOLEAN
    BY <1>0, <1>8, Zenon DEF CopyIn, TypeProcess
  <2> QED
    BY <1>0, <2>1, <2>2, <2>3 DEF TypeProcess
<1>9. CASE FirstMaster
  BY <1>0, <1>9, Zenon DEF TypeProcess, FirstMaster, Take
<1>10. CASE Serve
  BY <1>0, <1>10 DEF TypeProcess, Serve, Take, SendAll, Reachable
<1>11. CASE Leave
  BY <1>0, <1>11, Zenon DEF TypeProcess, Leave
<1>12. CASE Managing
  BY <1>0, <1>12 DEF TypeProcess, Managing
<1>13. ASSUME NEW m \in Masters, Type(m) PROVE TypeProcess'
  BY <1>0, <1>13 DEF TypeProcess, Type
<1>14. CASE UNCHANGED vars
  BY <1>1, <1>14 DEF vars
<1> QED
  BY <1>2, <1>3, <1>4, <1>5, <1>6, <1>7, <1>8, <1>9, <1>10, <1>11, <1>12, <1>13, <1>14
  DEF Next, Request, Goroutines, Slave, Master

\* Every step keeps the types of the channels of the exit code.
LEMMA TypeCodesStep == IInv /\ [Next]_vars => TypeCodes'
<1> SUFFICES ASSUME IInv, [Next]_vars PROVE TypeCodes'
  OBVIOUS
<1> USE AttachAssumption DEF request, process, codes, slaveVars, masterVars
<1>0. TypeCodes
  BY DEF IInv, Types
<1>1. ASSUME UNCHANGED <<waiter, exit, bc, sub>>
      PROVE  TypeCodes'
  BY <1>0, <1>1 DEF TypeCodes
<1>2. CASE UnsetId \/ SetPID \/ ProcWrites \/ ProcExits \/ CopyOut \/ CopyIn \/ FirstMaster \/
          Serve \/ Leave \/ Tell \/ Managing \/ Shutdown \/ Stop
  BY <1>1, <1>2, Zenon DEF UnsetId, SetPID, ProcWrites, ProcExits, CopyOut, CopyIn, FirstMaster, Take,
    Serve, SendAll, Reachable, Leave, Tell, Managing, Shutdown, Stop
<1>3. ASSUME NEW m \in Masters, Attach(m) \/ GiveUp(m) \/ Type(m) \/ Receive(m) \/ Detach(m)
      PROVE  TypeCodes'
  BY <1>1, <1>3 DEF Attach, GiveUp, Type, Receive, Detach
<1>4. CASE Handler
  BY <1>0, <1>4 DEF TypeCodes, Handler
<1>5. CASE SetCode
  BY <1>0, <1>5, Zenon DEF TypeCodes, SetCode, Subscribe
<1>6. CASE Manage
  BY <1>0, <1>6, Zenon DEF TypeCodes, Manage, Subscribe
<1>7. CASE Wait
  BY <1>0, <1>7 DEF TypeCodes, Wait
<1>8. CASE Broadcast
  <2> DEFINE S == [reg : BOOLEAN, value : BOOLEAN, closed : BOOLEAN]
  <2>1. exit' \in {"open", "value", "taken", "closed"} /\ waiter' = waiter
    BY <1>8 DEF Broadcast
  <2>2. bc' \in [value : BOOLEAN, closed : BOOLEAN]
    BY <1>0, <1>8, Zenon DEF Broadcast, TypeCodes
  <2>3. \A s \in Subscribers : [sub[s] EXCEPT !.value = sub[s].reg] \in S /\ [sub[s] EXCEPT !.closed = sub[s].reg] \in S
    BY <1>0, SubscriberFields DEF TypeCodes
  <2>4. sub' \in [Subscribers -> S]
    <3> DEFINE V(s) == [sub[s] EXCEPT !.value = sub[s].reg]
               C(s) == [sub[s] EXCEPT !.closed = sub[s].reg]
    <3>1. \/ sub' = [s \in Subscribers |-> V(s)]
          \/ sub' = [s \in Subscribers |-> C(s)]
      BY <1>8, Zenon DEF Broadcast
    <3>2. \A s \in Subscribers : V(s) \in S /\ C(s) \in S
      BY <2>3
    <3> HIDE DEF V, C, S
    <3> QED
      BY <3>1, <3>2
  <2> QED
    BY <1>0, <2>1, <2>2, <2>4 DEF TypeCodes
<1>9. CASE UNCHANGED vars
  BY <1>1, <1>9 DEF vars
<1> QED
  BY <1>2, <1>3, <1>4, <1>5, <1>6, <1>7, <1>8, <1>9
  DEF Next, Request, Goroutines, Slave, Master

\* Every step keeps the types of the slave's state.
LEMMA TypeSlaveStep == IInv /\ [Next]_vars => TypeSlave'
<1> SUFFICES ASSUME IInv, [Next]_vars PROVE TypeSlave'
  OBVIOUS
<1> USE AttachAssumption DEF request, process, codes, slaveVars, masterVars
<1>0. TypeSlave
  BY DEF IInv, Types
<1>1. ASSUME UNCHANGED <<slave, exitRef, slaveOn, key, entries, attached>>
      PROVE  TypeSlave'
  BY <1>0, <1>1 DEF TypeSlave
<1>2. CASE Handler \/ Manage \/ ProcWrites \/ ProcExits \/ CopyOut \/ CopyIn \/ Wait \/
          Broadcast \/ Managing \/ Shutdown \/ Stop
  BY <1>1, <1>2 DEF Handler, Manage, Subscribe, ProcWrites, ProcExits, CopyOut, CopyIn, Wait,
    Broadcast, Managing, Shutdown, Stop
<1>3. ASSUME NEW m \in Masters, Attach(m) \/ GiveUp(m) \/ Type(m) \/ Receive(m) \/ Detach(m)
      PROVE  TypeSlave'
  BY <1>1, <1>3 DEF Attach, GiveUp, Type, Receive, Detach
<1>4. CASE SetCode
  BY <1>0, <1>4 DEF TypeSlave, SetCode, Subscribe
<1>5. CASE UnsetId
  BY <1>0, <1>5 DEF TypeSlave, UnsetId
<1>6. CASE SetPID
  BY <1>0, <1>6 DEF TypeSlave, SetPID
<1>7. CASE FirstMaster
  BY <1>0, <1>7, Zenon DEF TypeSlave, FirstMaster, Take
<1>8. CASE Serve
  BY <1>0, <1>8 DEF TypeSlave, Serve, Take, SendAll, Reachable
<1>9. CASE Leave
  BY <1>0, <1>9 DEF TypeSlave, Leave
<1>10. CASE Tell
  BY <1>0, <1>10 DEF TypeSlave, Tell, SendAll, Reachable
<1>11. CASE UNCHANGED vars
  BY <1>1, <1>11 DEF vars
<1> QED
  BY <1>2, <1>3, <1>4, <1>5, <1>6, <1>7, <1>8, <1>9, <1>10, <1>11
  DEF Next, Request, Goroutines, Slave, Master

\* Every step keeps the types of the masters' state.
LEMMA TypeMastersStep == IInv /\ [Next]_vars => TypeMasters'
<1> SUFFICES ASSUME IInv, [Next]_vars PROVE TypeMasters'
  OBVIOUS
<1> USE AttachAssumption DEF request, process, codes, slaveVars, masterVars
<1>0. TypeMasters /\ TypeProcess
  BY DEF IInv, Types
<1>1. ASSUME UNCHANGED <<master, queue, seen, typed, panicked>>
      PROVE  TypeMasters'
  BY <1>0, <1>1 DEF TypeMasters
<1>2. CASE Handler \/ SetCode \/ UnsetId \/ SetPID \/ Manage \/ ProcWrites \/ ProcExits \/
          CopyOut \/ CopyIn \/ Wait \/ Broadcast \/ Leave \/ Managing \/ Shutdown \/ Stop
  BY <1>1, <1>2, Zenon DEF Handler, SetCode, Subscribe, UnsetId, SetPID, Manage, ProcWrites, ProcExits,
    CopyOut, CopyIn, Wait, Broadcast, Leave, Managing, Shutdown, Stop
<1>3. CASE FirstMaster
  BY <1>0, <1>3, Zenon DEF TypeMasters, FirstMaster, Take
<1>4. CASE Serve
  <2>1. UNCHANGED <<seen, typed, panicked>> /\ master' \in [Masters -> {"off", "offer", "attached", "gone"}]
    BY <1>0, <1>4, Zenon DEF Serve, Take, TypeMasters
  <2>2. CASE queue' = queue
    BY <1>0, <2>1, <2>2 DEF TypeMasters
  <2>3. CASE taken < copied /\ SendAll(taken + 1)
    <3>1. taken + 1 \in 0..Chunks
      BY <1>0, <2>3 DEF TypeProcess
    <3>2. queue' \in [Masters -> Seq(0..Chunks)]
      BY <1>0, <2>3, <3>1, SendTypes DEF TypeMasters
    <3> QED
      BY <1>0, <2>1, <3>2 DEF TypeMasters
  <2> QED
    BY <2>2, <2>3, <1>4 DEF Serve
<1>5. CASE Tell
  <2>1. UNCHANGED <<master, seen, typed, panicked>> /\ SendAll(ExitCode) /\ ExitCode \in 0..Chunks
    BY <1>5 DEF Tell, ExitCode
  <2>2. queue' \in [Masters -> Seq(0..Chunks)]
    BY <1>0, <2>1, SendTypes DEF TypeMasters
  <2> QED
    BY <1>0, <2>1, <2>2 DEF TypeMasters
<1>6. ASSUME NEW m \in Masters, Attach(m) PROVE TypeMasters'
  BY <1>0, <1>6 DEF TypeMasters, Attach
<1>7. ASSUME NEW m \in Masters, GiveUp(m) PROVE TypeMasters'
  BY <1>0, <1>7 DEF TypeMasters, GiveUp
<1>8. ASSUME NEW m \in Masters, Type(m) PROVE TypeMasters'
  <2>1. UNCHANGED <<master, queue, seen>> /\ typed' \in [Masters -> 0..Inputs]
    BY <1>0, <1>8 DEF Type, TypeMasters
  <2>2. panicked' \in BOOLEAN
    BY <1>0, <1>8, Zenon DEF Type, TypeMasters
  <2> QED
    BY <1>0, <2>1, <2>2 DEF TypeMasters
<1>9. ASSUME NEW m \in Masters, Receive(m) PROVE TypeMasters'
  BY <1>0, <1>9 DEF TypeMasters, Receive
<1>10. ASSUME NEW m \in Masters, Detach(m) PROVE TypeMasters'
  BY <1>0, <1>10 DEF TypeMasters, Detach
<1>11. CASE UNCHANGED vars
  BY <1>1, <1>11 DEF vars
<1> QED
  BY <1>2, <1>3, <1>4, <1>5, <1>6, <1>7, <1>8, <1>9, <1>10, <1>11
  DEF Next, Request, Goroutines, Slave, Master

\* Every step keeps the process apart from its request and its output.
LEMMA ProcessStep == IInv /\ [Next]_vars => Process'
<1> SUFFICES ASSUME IInv, [Next]_vars PROVE Process'
  OBVIOUS
<1> USE AttachAssumption DEF request, process, codes, slaveVars, masterVars
<1>0. Types /\ Process
  BY DEF IInv
<1>1. ASSUME UNCHANGED <<req, proc, waiter, cancelled, outOpen, copied, wrote>>
      PROVE  Process'
  BY <1>0, <1>1 DEF Process
<1>2. CASE CopyIn \/ Broadcast \/ FirstMaster \/ Serve \/ Leave \/ Tell \/ Shutdown \/ Stop
  BY <1>1, <1>2 DEF CopyIn, Broadcast, FirstMaster, Take, Serve, SendAll, Reachable, Leave, Tell,
    Shutdown, Stop
<1>3. ASSUME NEW m \in Masters, Attach(m) \/ GiveUp(m) \/ Type(m) \/ Receive(m) \/ Detach(m)
      PROVE  Process'
  BY <1>1, <1>3 DEF Attach, GiveUp, Type, Receive, Detach
<1>4. CASE Handler
  BY <1>0, <1>4 DEF Process, Handler
<1>5. CASE SetCode
  BY <1>0, <1>5 DEF Process, SetCode, Subscribe
<1>6. CASE UnsetId
  BY <1>0, <1>6 DEF Process, UnsetId
<1>7. CASE SetPID
  BY <1>0, <1>7 DEF Process, SetPID
<1>8. CASE Manage
  BY <1>0, <1>8 DEF Process, Manage, Subscribe
<1>9. CASE ProcWrites
  BY <1>0, <1>9 DEF Process, ProcWrites
<1>10. CASE ProcExits
  BY <1>0, <1>10 DEF Process, ProcExits
<1>11. CASE CopyOut
  BY <1>0, <1>11, Zenon DEF Process, CopyOut
<1>12. CASE Wait
  BY <1>0, <1>12 DEF Process, Wait
<1>13. CASE Managing
  BY <1>0, <1>13 DEF Process, Managing
<1>14. CASE UNCHANGED vars
  BY <1>1, <1>14 DEF vars
<1> QED
  BY <1>2, <1>3, <1>4, <1>5, <1>6, <1>7, <1>8, <1>9, <1>10, <1>11, <1>12, <1>13, <1>14
  DEF Next, Request, Goroutines, Slave, Master

\* Every step keeps the exit code with the end of the process.
LEMMA CodesStep == IInv /\ [Next]_vars => Codes'
<1> SUFFICES ASSUME IInv, [Next]_vars PROVE Codes'
  OBVIOUS
<1> USE AttachAssumption DEF request, process, codes, slaveVars, masterVars
<1>0. Types /\ Process /\ Codes
  BY DEF IInv
<1>1. ASSUME UNCHANGED <<exit, waiter, proc, bc, sub>>
      PROVE  Codes'
  BY <1>0, <1>1 DEF Codes
<1>2. CASE UnsetId \/ SetPID \/ ProcWrites \/ CopyOut \/ CopyIn \/ FirstMaster \/ Serve \/
          Leave \/ Tell \/ Shutdown \/ Stop
  BY <1>1, <1>2, Zenon DEF UnsetId, SetPID, ProcWrites, CopyOut, CopyIn, FirstMaster, Take, Serve,
    SendAll, Reachable, Leave, Tell, Shutdown, Stop
<1>3. ASSUME NEW m \in Masters, Attach(m) \/ GiveUp(m) \/ Type(m) \/ Receive(m) \/ Detach(m)
      PROVE  Codes'
  BY <1>1, <1>3 DEF Attach, GiveUp, Type, Receive, Detach
<1>4. CASE Handler
  BY <1>0, <1>4 DEF Codes, Handler, Process
<1>5. CASE SetCode
  BY <1>0, <1>5 DEF Codes, SetCode, Subscribe
<1>6. CASE Manage
  BY <1>0, <1>6 DEF Codes, Manage, Subscribe
<1>7. CASE ProcExits
  BY <1>0, <1>7 DEF Codes, ProcExits
<1>8. CASE Wait
  BY <1>0, <1>8 DEF Codes, Wait
<1>9. CASE Broadcast
  BY <1>0, <1>9 DEF Codes, Broadcast
<1>10. CASE Managing
  BY <1>0, <1>10 DEF Codes, Managing
<1>11. CASE UNCHANGED vars
  BY <1>1, <1>11 DEF vars
<1> QED
  BY <1>2, <1>3, <1>4, <1>5, <1>6, <1>7, <1>8, <1>9, <1>10, <1>11
  DEF Next, Request, Goroutines, Slave, Master

\* Every step keeps what a slave has left behind.
LEMMA LeftStep == IInv /\ [Next]_vars => Left'
<1> SUFFICES ASSUME IInv, [Next]_vars PROVE Left'
  OBVIOUS
<1> USE AttachAssumption DEF request, process, codes, slaveVars, masterVars
<1>0. Types /\ Process /\ Left
  BY DEF IInv
<1>1. ASSUME UNCHANGED <<slave, cancelled, server, outOpen, taken, copied>>
      PROVE  Left'
  BY <1>0, <1>1 DEF Left, ctxDone
<1>2. CASE SetCode \/ UnsetId \/ SetPID \/ ProcWrites \/ ProcExits \/ CopyIn \/ Wait \/
          Broadcast \/ Managing
  BY <1>1, <1>2 DEF SetCode, Subscribe, UnsetId, SetPID, ProcWrites, ProcExits, CopyIn, Wait,
    Broadcast, Managing
<1>3. ASSUME NEW m \in Masters, Attach(m) \/ GiveUp(m) \/ Type(m) \/ Receive(m) \/ Detach(m)
      PROVE  Left'
  BY <1>1, <1>3 DEF Attach, GiveUp, Type, Receive, Detach
<1>4. CASE Handler
  BY <1>0, <1>4 DEF Left, ctxDone, Handler, Process
<1>5. CASE Manage
  BY <1>0, <1>5 DEF Left, ctxDone, Manage, Subscribe
<1>6. CASE CopyOut
  BY <1>0, <1>6 DEF Left, ctxDone, CopyOut
<1>7. CASE FirstMaster
  BY <1>0, <1>7 DEF Left, ctxDone, FirstMaster, Take
<1>8. CASE Serve
  BY <1>0, <1>8 DEF Left, ctxDone, Serve, Take, SendAll, Reachable
<1>9. CASE Leave
  BY <1>0, <1>9 DEF Left, ctxDone, Leave
<1>10. CASE Tell
  BY <1>0, <1>10 DEF Left, ctxDone, Tell, SendAll, Reachable
<1>11. CASE Shutdown
  BY <1>0, <1>11 DEF Left, ctxDone, Shutdown
<1>12. CASE Stop
  BY <1>0, <1>12 DEF Left, ctxDone, Stop
<1>13. CASE UNCHANGED vars
  BY <1>1, <1>13 DEF vars
<1> QED
  BY <1>2, <1>3, <1>4, <1>5, <1>6, <1>7, <1>8, <1>9, <1>10, <1>11, <1>12, <1>13
  DEF Next, Request, Goroutines, Slave, Master

\* Every step keeps the slave's keys.
LEMMA LookupStep == IInv /\ [Next]_vars => Lookup'
<1> SUFFICES ASSUME IInv, [Next]_vars PROVE Lookup'
  OBVIOUS
<1> USE AttachAssumption DEF request, process, codes, slaveVars, masterVars
<1>0. Types /\ Lookup
  BY DEF IInv
<1>1. ASSUME UNCHANGED <<req, entries, exitRef, master, attached, slaveOn, slave, key>>
      PROVE  Lookup'
  BY <1>0, <1>1 DEF Lookup
<1>2. CASE ProcWrites \/ ProcExits \/ CopyOut \/ CopyIn \/ Wait \/ Broadcast \/ Managing \/
          Shutdown \/ Stop
  BY <1>1, <1>2 DEF ProcWrites, ProcExits, CopyOut, CopyIn, Wait, Broadcast, Managing, Shutdown,
    Stop
<1>3. ASSUME NEW m \in Masters, Type(m)
      PROVE  Lookup'
  BY <1>1, <1>3 DEF Type
<1>4. CASE Handler
  BY <1>0, <1>4 DEF Lookup, Handler, Types, TypeSlave, TypeMasters
<1>5. CASE SetCode
  BY <1>0, <1>5 DEF Lookup, SetCode, Subscribe, Types, TypeSlave, TypeMasters
<1>6. CASE UnsetId
  BY <1>0, <1>6 DEF Lookup, UnsetId, Types, TypeSlave, TypeMasters
<1>7. CASE SetPID
  BY <1>0, <1>7 DEF Lookup, SetPID, Types, TypeSlave, TypeMasters
<1>8. CASE Manage
  BY <1>0, <1>8 DEF Lookup, Manage, Subscribe, Types, TypeSlave, TypeMasters
<1>9. CASE FirstMaster
  BY <1>0, <1>9 DEF Lookup, FirstMaster, Take, Types, TypeSlave, TypeMasters
<1>10. CASE Serve
  BY <1>0, <1>10 DEF Lookup, Serve, Take, SendAll, Reachable, Types, TypeSlave, TypeMasters
<1>11. CASE Leave
  BY <1>0, <1>11 DEF Lookup, Leave, Types, TypeSlave, TypeMasters
<1>12. CASE Tell
  BY <1>0, <1>12 DEF Lookup, Tell, SendAll, Reachable, Types, TypeSlave, TypeMasters
<1>13. ASSUME NEW m \in Masters, Attach(m) PROVE Lookup'
  BY <1>0, <1>13 DEF Lookup, Attach, Types, TypeSlave, TypeMasters
<1>14. ASSUME NEW m \in Masters, GiveUp(m) PROVE Lookup'
  BY <1>0, <1>14 DEF Lookup, GiveUp, Types, TypeSlave, TypeMasters
<1>15. ASSUME NEW m \in Masters, Receive(m) PROVE Lookup'
  BY <1>0, <1>15 DEF Lookup, Receive, Types, TypeSlave, TypeMasters
<1>16. ASSUME NEW m \in Masters, Detach(m) PROVE Lookup'
  BY <1>0, <1>16 DEF Lookup, Detach, Types, TypeSlave, TypeMasters
<1>17. CASE UNCHANGED vars
  BY <1>1, <1>17 DEF vars
<1> QED
  BY <1>2, <1>3, <1>4, <1>5, <1>6, <1>7, <1>8, <1>9, <1>10, <1>11, <1>12, <1>13, <1>14, <1>15,
     <1>16, <1>17
  DEF Next, Request, Goroutines, Slave, Master

\* What was sent to a master is a sequence of chunks and codes.
LEMMA SentType ==
    ASSUME TypeMasters, NEW k \in Masters
    PROVE  Sent(k) \in Seq(0..Chunks)
<1> DEFINE S == 0..Chunks
<1>1. seen[k] \in Seq(S) /\ queue[k] \in Seq(S)
  BY DEF TypeMasters
<1> HIDE DEF S
<1>2. Sent(k) \in Seq(S)
  BY <1>1 DEF Sent
<1> QED
  BY <1>2 DEF S

\* A master that receives a message has been sent what it had been sent.
LEMMA SentReceive ==
    ASSUME TypeMasters, NEW m \in Masters, Receive(m), NEW k \in Masters
    PROVE  Sent(k)' = Sent(k)
<1> DEFINE S == 0..Chunks
<1>1. seen \in [Masters -> Seq(S)] /\ queue \in [Masters -> Seq(S)] /\ queue[m] # <<>>
  BY DEF TypeMasters, Receive
<1>2. seen' = [seen EXCEPT ![m] = Append(@, Head(queue[m]))] /\ queue' = [queue EXCEPT ![m] = Tail(@)]
  BY DEF Receive
<1> HIDE DEF S
<1>3. CASE k = m
  <2>1. Sent(m)' = Append(seen[m], Head(queue[m])) \o Tail(queue[m])
    BY <1>1, <1>2 DEF Sent
  <2>2. seen[m] \in Seq(S) /\ queue[m] \in Seq(S)
    BY <1>1
  <2>3. Append(seen[m], Head(queue[m])) \o Tail(queue[m]) = seen[m] \o queue[m]
    BY <1>1, <2>2, MoveHead
  <2> QED
    BY <1>3, <2>1, <2>3, Zenon DEF Sent
<1>4. CASE k # m
  BY <1>1, <1>2, <1>4 DEF Sent
<1> QED
  BY <1>3, <1>4

\* A message for all is the last one of what was sent to every master that is attached.
LEMMA SentAll ==
    ASSUME TypeMasters, NEW x \in 0..Chunks, SendAll(x), seen' = seen, NEW k \in Masters
    PROVE  Sent(k)' = IF k \in Reachable THEN Append(Sent(k), x) ELSE Sent(k)
<1> DEFINE S == 0..Chunks
<1>1. seen[k] \in Seq(S) /\ queue[k] \in Seq(S) /\ x \in S
  BY DEF TypeMasters
<1>2. queue'[k] = IF k \in Reachable THEN Append(queue[k], x) ELSE queue[k]
  BY DEF SendAll
<1> HIDE DEF S
<1>3. seen[k] \o Append(queue[k], x) = Append(seen[k] \o queue[k], x)
  <2>1. PICK a \in Seq(S), b \in Seq(S) : a = seen[k] /\ b = queue[k]
    BY <1>1
  <2>2. a \o Append(b, x) = Append(a \o b, x)
    BY <1>1, SendLast
  <2> QED
    BY <2>1, <2>2
<1> QED
  BY <1>2, <1>3, Zenon DEF Sent

\* Every step keeps what a master was sent: a chunk is sent to all that are attached, and
\* the code when there is no more output.
LEMMA OutputStep == IInv /\ [Next]_vars => \A k \in Masters : OutputOf(k)'
<1> SUFFICES ASSUME IInv, [Next]_vars, NEW k \in Masters PROVE OutputOf(k)'
  OBVIOUS
<1> USE AttachAssumption DEF request, process, codes, slaveVars, masterVars
<1>0. Types /\ Process /\ Codes /\ Left /\ OutputOf(k)
  BY DEF IInv, Output
<1>1. ASSUME UNCHANGED <<queue, seen, master, attached, taken, slave, proc, wrote, cancelled,
                      server>>
      PROVE  OutputOf(k)'
  BY <1>0, <1>1, Zenon DEF OutputOf, ctxDone, Sent
<1>2. CASE SetCode \/ UnsetId \/ SetPID \/ CopyOut \/ CopyIn \/ Wait \/ Broadcast
  BY <1>1, <1>2 DEF SetCode, Subscribe, UnsetId, SetPID, CopyOut, CopyIn, Wait, Broadcast
<1>3. ASSUME NEW m \in Masters, Type(m)
      PROVE  OutputOf(k)'
  BY <1>1, <1>3 DEF Type
<1>4. CASE Handler
  <2>1. Sent(k)' = Sent(k)
    BY <1>4 DEF Handler, Sent
  <2> QED
    BY <1>0, <2>1, <1>4 DEF Handler, OutputOf, ctxDone, Process
<1>5. CASE Manage
  <2>1. Sent(k)' = Sent(k)
    BY <1>5 DEF Manage, Sent
  <2> QED
    BY <1>0, <2>1, <1>5 DEF Manage, OutputOf, ctxDone
<1>6. CASE ProcWrites
  <2>1. Sent(k)' = Sent(k)
    BY <1>6 DEF ProcWrites, Sent
  <2> QED
    BY <1>0, <2>1, <1>6 DEF ProcWrites, OutputOf, ctxDone
<1>7. CASE ProcExits
  <2>1. Sent(k)' = Sent(k)
    BY <1>7 DEF ProcExits, Sent
  <2> QED
    BY <1>0, <2>1, <1>7 DEF ProcExits, OutputOf, ctxDone
<1>8. CASE FirstMaster
  <2>1. Sent(k)' = Sent(k)
    BY <1>8 DEF FirstMaster, Sent, Take
  <2> QED
    BY <1>0, <2>1, <1>8 DEF FirstMaster, OutputOf, ctxDone, Take, Types, TypeMasters
<1>9. CASE Serve
  <2>1. UNCHANGED <<slave, proc, wrote, cancelled, server, seen>> /\ slave = "loop"
    BY <1>9 DEF Serve
  <2>2. CASE \E m \in Masters : Take(m) /\ UNCHANGED <<taken, queue>>
    <3>1. Sent(k)' = Sent(k)
      BY <2>1, <2>2 DEF Sent
    <3> QED
      BY <1>0, <2>1, <2>2, <3>1 DEF OutputOf, ctxDone, Take, Types, TypeMasters
  <2>3. CASE taken < copied /\ taken' = taken + 1 /\ SendAll(taken + 1) /\ attached' = Reachable /\ master' = master
    <3>1. taken \in Nat /\ taken + 1 \in 0..Chunks
      BY <1>0, <2>3 DEF Types, TypeProcess
    <3>2. Sent(k)' = IF k \in Reachable THEN Append(Sent(k), taken + 1) ELSE Sent(k)
      BY <1>0, <2>1, <2>3, <3>1, SentAll DEF Types
    <3>3. PICK s \in Seq(0..Chunks) : s = Sent(k)
      BY <1>0, SentType DEF Types
    <3>4. \A i \in 1..Len(s) : s[i] \in Nat /\ s[i] <= taken /\ s[i] # ExitCode
      BY <1>0, <2>1, <3>3 DEF OutputOf
    <3>5. \A i \in 1..(Len(s) - 1) : s[i + 1] = s[i] + 1
      BY <1>0, <3>3, <3>4 DEF OutputOf
    <3>6. CASE k \in Reachable
      <4>1. master[k] = "attached"
        BY <3>6 DEF Reachable
      <4>2. Len(s) > 0 => s[Len(s)] = taken
        BY <1>0, <2>1, <3>3, <4>1 DEF OutputOf
      <4>3. PICK t : t = Append(s, taken + 1)
        BY Zenon
      <4>4. /\ Len(t) = Len(s) + 1 /\ Len(s) \in Nat /\ t[Len(s) + 1] = taken + 1
            /\ \A i \in 1..Len(s) : t[i] = s[i]
        BY <4>3
      <4>5. ASSUME NEW i \in 1..Len(t) PROVE t[i] <= taken + 1 /\ t[i] # ExitCode
        <5>1. CASE i = Len(s) + 1
          BY <3>1, <4>4, <5>1 DEF ExitCode
        <5>2. CASE i \in 1..Len(s)
          <6>1. t[i] = s[i] /\ s[i] \in Nat /\ s[i] <= taken /\ s[i] # ExitCode
            BY <3>4, <4>4, <5>2
          <6> QED
            BY <3>1, <6>1
        <5> QED
          BY <4>4, <4>5, <5>1, <5>2
      <4>6. ASSUME NEW i \in 1..(Len(t) - 1) PROVE t[i + 1] = t[i] + 1
        <5>1. CASE i = Len(s)
          BY <4>2, <4>4, <4>6, <5>1
        <5>2. CASE i < Len(s)
          BY <3>5, <4>4, <4>6, <5>2
        <5> QED
          BY <4>4, <4>6, <5>1, <5>2
      <4>7. Sent(k)' = t /\ master'[k] = "attached" /\ k \in attached' /\ taken' = taken + 1
        BY <2>3, <3>2, <3>3, <3>6, <4>1, <4>3
      <4> QED
        BY <2>1, <4>4, <4>5, <4>6, <4>7 DEF OutputOf, ctxDone
    <3>7. CASE k \notin Reachable
      <4>1. master[k] # "attached" /\ Sent(k)' = s /\ Sent(k) = s /\ master' = master /\ taken' = taken + 1
        BY <1>0, <2>3, <3>2, <3>3, <3>7 DEF OutputOf, Reachable
      <4>2. Len(s) \in Nat /\ \A i \in 1..Len(s) : s[i] <= taken + 1
        BY <3>1, <3>4
      <4>3. Len(s) > 0 => s[Len(s)] # ExitCode
        BY <3>4, <4>2
      <4> QED
        BY <1>0, <2>1, <3>4, <3>5, <4>1, <4>2, <4>3 DEF OutputOf, ctxDone
    <3> QED
      BY <3>6, <3>7
  <2> QED
    BY <2>2, <2>3, <1>9 DEF Serve
<1>10. CASE Leave
  <2>1. Sent(k)' = Sent(k)
    BY <1>10 DEF Leave, Sent
  <2> QED
    BY <1>0, <2>1, <1>10 DEF Leave, OutputOf, ctxDone
<1>11. CASE Tell
  <2>1. /\ UNCHANGED <<master, attached, taken, proc, wrote, cancelled, server, seen>>
        /\ slave = "code" /\ slave' = "ended" /\ SendAll(ExitCode) /\ ExitCode \in 0..Chunks
    BY <1>11 DEF Tell, ExitCode
  <2>2. proc = "exited"
    <3>1. "slave" \in Subscribers
      BY DEF Subscribers
    <3> QED
      BY <1>0, <3>1, <1>11 DEF Tell, Codes
  <2>3. Sent(k)' = IF k \in Reachable THEN Append(Sent(k), ExitCode) ELSE Sent(k)
    BY <1>0, <2>1, SentAll DEF Types
  <2>4. PICK s \in Seq(0..Chunks) : s = Sent(k)
    BY <1>0, SentType DEF Types
  <2>5. taken \in Nat /\ Len(s) \in Nat
    BY <1>0 DEF Types, TypeProcess
  <2>6. \A i \in 1..Len(s) : s[i] \in Nat /\ s[i] <= taken /\ s[i] # ExitCode
    BY <1>0, <2>1, <2>4 DEF OutputOf
  <2>7. \A i \in 1..(Len(s) - 1) : s[i + 1] = s[i] + 1
    BY <1>0, <2>4, <2>6 DEF OutputOf
  <2>8. CASE k \in Reachable
    <3>1. master[k] = "attached" /\ k \in attached
      BY <2>8 DEF Reachable
    <3>2. Len(s) > 0 => s[Len(s)] = taken
      BY <1>0, <2>1, <2>4, <3>1 DEF OutputOf
    <3>3. ~ctxDone => taken = wrote
      BY <1>0, <2>1 DEF Left, Process
    <3>4. PICK t : t = Append(s, ExitCode)
      BY Zenon
    <3>5. Len(t) = Len(s) + 1 /\ t[Len(s) + 1] = ExitCode /\ \A i \in 1..Len(s) : t[i] = s[i]
      BY <2>1, <3>4
    <3>6. \A i \in 1..Len(t) : t[i] <= taken /\ (t[i] = ExitCode => i = Len(t))
      BY <2>5, <2>6, <3>5 DEF ExitCode
    <3>7. \A i \in 1..(Len(t) - 1) : t[i + 1] # ExitCode => t[i + 1] = t[i] + 1
      BY <2>5, <2>7, <3>5
    <3>8. Len(t) > 1 /\ ~ctxDone => t[Len(t) - 1] = wrote
      BY <2>5, <3>2, <3>3, <3>5
    <3>9. Sent(k)' = t /\ (ctxDone' <=> ctxDone)
      BY <2>1, <2>3, <2>4, <2>8, <3>4 DEF ctxDone
    <3> QED
      BY <2>1, <2>2, <3>1, <3>6, <3>7, <3>8, <3>9 DEF OutputOf
  <2>9. CASE k \notin Reachable
    <3>1. Sent(k)' = Sent(k)
      BY <2>3, <2>9
    <3> QED
      BY <1>0, <2>1, <2>2, <3>1 DEF OutputOf, ctxDone
  <2> QED
    BY <2>8, <2>9
<1>12. CASE Managing
  <2>1. Sent(k)' = Sent(k)
    BY <1>12 DEF Managing, Sent
  <2> QED
    BY <1>0, <2>1, <1>12 DEF Managing, OutputOf, ctxDone
<1>13. CASE Shutdown
  <2>1. Sent(k)' = Sent(k)
    BY <1>13 DEF Shutdown, Sent
  <2> QED
    BY <1>0, <2>1, <1>13 DEF Shutdown, OutputOf, ctxDone
<1>14. CASE Stop
  <2>1. Sent(k)' = Sent(k)
    BY <1>14 DEF Stop, Sent
  <2> QED
    BY <1>0, <2>1, <1>14 DEF Stop, OutputOf, ctxDone
<1>15. ASSUME NEW m \in Masters, Attach(m) PROVE OutputOf(k)'
  <2>1. Sent(k)' = Sent(k)
    BY <1>15 DEF Attach, Sent
  <2> QED
    BY <1>0, <2>1, <1>15 DEF Attach, OutputOf, ctxDone, Types, TypeMasters
<1>16. ASSUME NEW m \in Masters, GiveUp(m) PROVE OutputOf(k)'
  <2>1. Sent(k)' = Sent(k)
    BY <1>16 DEF GiveUp, Sent
  <2> QED
    BY <1>0, <2>1, <1>16 DEF GiveUp, OutputOf, ctxDone, Types, TypeMasters
<1>17. ASSUME NEW m \in Masters, Receive(m) PROVE OutputOf(k)'
  <2>1. Sent(k)' = Sent(k)
    BY <1>0, <1>17, SentReceive DEF Types
  <2>2. /\ UNCHANGED <<attached, taken, slave, proc, wrote, cancelled, server>>
        /\ master'[k] = master[k] \/ (master[k] = "attached" /\ master'[k] = "gone")
    BY <1>0, <1>17 DEF Receive, Types, TypeMasters
  <2> QED
    BY <1>0, <2>1, <2>2, Zenon DEF OutputOf, ctxDone
<1>18. ASSUME NEW m \in Masters, Detach(m) PROVE OutputOf(k)'
  <2>1. Sent(k)' = Sent(k)
    BY <1>18 DEF Detach, Sent
  <2> QED
    BY <1>0, <2>1, <1>18 DEF Detach, OutputOf, ctxDone, Types, TypeMasters
<1>19. CASE UNCHANGED vars
  BY <1>1, <1>19 DEF vars
<1> QED
  BY <1>2, <1>3, <1>4, <1>5, <1>6, <1>7, <1>8, <1>9, <1>10, <1>11, <1>12, <1>13, <1>14, <1>15,
     <1>16, <1>17, <1>18, <1>19
  DEF Next, Request, Goroutines, Slave, Master

\* Every step keeps the first chunk for the first master.
LEMMA FirstStep == IInv /\ [Next]_vars => First'
<1> SUFFICES ASSUME IInv, [Next]_vars PROVE First'
  OBVIOUS
<1> USE AttachAssumption DEF request, process, codes, slaveVars, masterVars
<1>0. Types /\ Output /\ First
  BY DEF IInv
<1>1. ASSUME UNCHANGED <<waitFirst, taken, slave, master, queue, seen>>
      PROVE  First'
  BY <1>0, <1>1, Zenon DEF First, Sent
<1>2. CASE Handler \/ SetCode \/ UnsetId \/ SetPID \/ Manage \/ ProcWrites \/ ProcExits \/
          CopyOut \/ CopyIn \/ Wait \/ Broadcast \/ Managing \/ Shutdown \/ Stop
  BY <1>1, <1>2, Zenon DEF Handler, SetCode, Subscribe, UnsetId, SetPID, Manage, ProcWrites, ProcExits,
    CopyOut, CopyIn, Wait, Broadcast, Managing, Shutdown, Stop
<1>3. ASSUME NEW m \in Masters, Type(m)
      PROVE  First'
  BY <1>1, <1>3, Zenon DEF Type
<1>4. CASE FirstMaster
  <2>1. \A k \in Masters : Sent(k)' = Sent(k)
    BY <1>4 DEF FirstMaster, Sent
  <2>2. UNCHANGED <<waitFirst, taken>> /\ slave = "first"
    BY <1>4 DEF FirstMaster
  <2>3. CASE slave' = "ended" /\ master' = master
    BY <1>0, <2>1, <2>2, <2>3 DEF First
  <2>4. CASE \E m \in Masters : Take(m)
    <3>1. PICK m \in Masters : master[m] = "offer" /\ master' = [master EXCEPT ![m] = "attached"]
      BY <2>4, Zenon DEF Take
    <3>2. master'[m] = "attached" /\ \A k \in Masters \ {m} : master'[k] = master[k]
      BY <1>0, <3>1 DEF Types, TypeMasters
    <3> QED
      BY <1>0, <2>1, <2>2, <3>1, <3>2 DEF First
  <2> QED
    BY <2>3, <2>4, <1>4 DEF FirstMaster
<1>5. CASE Serve
  <2>1. UNCHANGED <<waitFirst, slave, seen>> /\ slave = "loop"
    BY <1>5 DEF Serve
  <2>2. CASE \E m \in Masters : Take(m) /\ UNCHANGED <<taken, queue>>
    <3>1. PICK m \in Masters : master[m] = "offer" /\ master' = [master EXCEPT ![m] = "attached"]
      BY <2>2, Zenon DEF Take
    <3>2. master'[m] = "attached" /\ \A k \in Masters \ {m} : master'[k] = master[k]
      BY <1>0, <3>1 DEF Types, TypeMasters
    <3>3. \A k \in Masters : Sent(k)' = Sent(k)
      BY <2>1, <2>2 DEF Sent
    <3> QED
      BY <1>0, <2>1, <2>2, <3>1, <3>2, <3>3 DEF First
  <2>3. CASE taken < copied /\ taken' = taken + 1 /\ SendAll(taken + 1) /\ attached' = Reachable /\ master' = master
    <3>1. taken \in Nat /\ taken + 1 \in 0..Chunks
      BY <1>0, <2>3 DEF Types, TypeProcess
    <3>2. SUFFICES ASSUME waitFirst, \A k \in Masters : master[k] # "gone" PROVE First'
      BY <2>1, <2>3 DEF First
    <3>3. PICK m \in Masters : master[m] = "attached" /\ (taken = 0 \/ (Sent(m) # <<>> /\ Sent(m)[1] = 1))
      BY <1>0, <2>1, <3>2 DEF First
    <3>4. m \in Reachable
      BY <1>0, <3>3 DEF Reachable, Output, OutputOf
    <3>5. PICK s \in Seq(0..Chunks) : s = Sent(m)
      BY <1>0, SentType DEF Types
    <3>6. Sent(m)' = Append(s, taken + 1)
      BY <1>0, <2>1, <2>3, <3>1, <3>4, <3>5, SentAll DEF Types
    <3>7. taken = 0 => s = <<>>
      <4>1. \A i \in 1..Len(s) : s[i] \in Nat /\ s[i] <= taken /\ s[i] # ExitCode
        BY <1>0, <2>1, <3>5 DEF Output, OutputOf
      <4>2. taken = 0 => Len(s) = 0
        BY <4>1 DEF ExitCode
      <4> QED
        BY <4>2
    <3>8. Append(s, taken + 1) # <<>> /\ Append(s, taken + 1)[1] = 1
      <4>1. CASE taken = 0
        BY <3>7, <4>1
      <4>2. CASE s # <<>> /\ s[1] = 1
        BY <3>1, <4>2
      <4> QED
        BY <3>3, <3>5, <4>1, <4>2
    <3> QED
      BY <2>3, <3>3, <3>6, <3>8 DEF First
  <2> QED
    BY <2>2, <2>3, <1>5 DEF Serve
<1>6. CASE Leave
  <2>1. \A k \in Masters : Sent(k)' = Sent(k)
    BY <1>6 DEF Leave, Sent
  <2> QED
    BY <1>0, <2>1, <1>6 DEF First, Types, TypeMasters, Leave
<1>7. CASE Tell
  <2>1. /\ UNCHANGED <<waitFirst, taken, master, seen>> /\ slave = "code"
        /\ SendAll(ExitCode) /\ ExitCode \in 0..Chunks
    BY <1>7 DEF Tell, ExitCode
  <2>2. ASSUME NEW k \in Masters, Sent(k) # <<>>, Sent(k)[1] = 1 PROVE Sent(k)' # <<>> /\ Sent(k)'[1] = 1
    <3>1. Sent(k)' = IF k \in Reachable THEN Append(Sent(k), ExitCode) ELSE Sent(k)
      BY <1>0, <2>1, SentAll DEF Types
    <3>2. PICK s \in Seq(0..Chunks) : s = Sent(k)
      BY <1>0, SentType DEF Types
    <3>3. s # <<>> => Append(s, ExitCode) # <<>> /\ Append(s, ExitCode)[1] = s[1]
      BY <2>1
    <3> QED
      BY <2>2, <3>1, <3>2, <3>3
  <2> QED
    BY <1>0, <2>1, <2>2 DEF First
<1>8. ASSUME NEW m \in Masters, Attach(m) PROVE First'
  <2>1. \A k \in Masters : Sent(k)' = Sent(k)
    BY <1>8 DEF Attach, Sent
  <2> QED
    BY <1>0, <2>1, <1>8 DEF First, Types, TypeMasters, Attach
<1>9. ASSUME NEW m \in Masters, GiveUp(m) PROVE First'
  <2>1. \A k \in Masters : Sent(k)' = Sent(k)
    BY <1>9 DEF GiveUp, Sent
  <2> QED
    BY <1>0, <2>1, <1>9 DEF First, Types, TypeMasters, GiveUp
<1>10. ASSUME NEW m \in Masters, Receive(m) PROVE First'
  <2>1. \A k \in Masters : Sent(k)' = Sent(k)
    BY <1>0, <1>10, SentReceive DEF Types
  <2>2. /\ UNCHANGED <<waitFirst, taken, slave>>
        /\ \A k \in Masters : master'[k] = master[k] \/ (master[k] = "attached" /\ master'[k] = "gone")
    BY <1>0, <1>10 DEF Receive, Types, TypeMasters
  <2> QED
    BY <1>0, <2>1, <2>2 DEF First
<1>11. ASSUME NEW m \in Masters, Detach(m) PROVE First'
  <2>1. \A k \in Masters : Sent(k)' = Sent(k)
    BY <1>11 DEF Detach, Sent
  <2> QED
    BY <1>0, <2>1, <1>11 DEF First, Types, TypeMasters, Detach
<1>12. CASE UNCHANGED vars
  BY <1>1, <1>12 DEF vars
<1> QED
  BY <1>2, <1>3, <1>4, <1>5, <1>6, <1>7, <1>8, <1>9, <1>10, <1>11, <1>12
  DEF Next, Request, Goroutines, Slave, Master

\* The invariant holds when SetupIO has made the slave.
LEMMA InvInit == Init => IInv
<1> SUFFICES ASSUME Init PROVE IInv
  OBVIOUS
<1> USE AttachAssumption DEF Init
<1>1. TypeRequest /\ TypeCodes /\ TypeSlave
  BY Zenon DEF TypeRequest, TypeCodes, TypeSlave
<1>5. TypeProcess
  <2>1. outOpen \in BOOLEAN /\ inOpen \in BOOLEAN /\ stdin \in BOOLEAN /\ proc = "none"
    BY Zenon
  <2>2. wrote \in 0..Chunks /\ copied \in 0..wrote /\ taken \in 0..copied /\ inq \in 0..Cap
    OBVIOUS
  <2> QED
    BY <2>1, <2>2, Zenon DEF TypeProcess
<1>2. TypeMasters
  <2>1. <<>> \in Seq(0..Chunks) /\ 0 \in 0..Inputs
    OBVIOUS
  <2> QED
    BY <2>1, Zenon DEF TypeMasters
<1>3. Process /\ Codes /\ Left /\ Lookup /\ First
  BY DEF Process, Codes, Left, Lookup, First
<1>4. ASSUME NEW m \in Masters PROVE OutputOf(m)
  <2>1. Sent(m) = <<>>
    BY DEF Sent
  <2> QED
    BY <2>1 DEF OutputOf
<1> QED
  BY <1>1, <1>2, <1>3, <1>4, <1>5 DEF IInv, Types, Output

\* The invariant holds in every state of an attachable job.
LEMMA Invariant == Spec => []IInv
<1>1. IInv /\ [Next]_vars => IInv'
  BY TypeRequestStep, TypeProcessStep, TypeCodesStep, TypeSlaveStep, TypeMastersStep, ProcessStep,
     CodesStep, LeftStep, LookupStep, OutputStep, FirstStep DEF IInv, Types, Output
<1> QED
  BY <1>1, InvInit, PTL DEF Spec

\* For every number of clients, of chunks of output and of inputs: a client that attaches
\* gets consecutive chunks, and the exit code last, after all the output (the slave's
\* goroutine in pkg/io/grpc.go).
THEOREM ClientsGetOutputBeforeCode == Spec => []OutputBeforeCode
<1>1. ASSUME IInv PROVE OutputBeforeCode
  <2> SUFFICES ASSUME NEW m \in Masters, NEW n, n = Len(Sent(m)) - (IF Told(m) THEN 1 ELSE 0)
               PROVE  /\ \A i \in 1..(n - 1) : Sent(m)[i + 1] = Sent(m)[i] + 1
                      /\ Told(m) => /\ Sent(m)[n + 1] = ExitCode /\ proc = "exited"
                                    /\ (n > 0 /\ ~ctxDone) => Sent(m)[n] = wrote
    BY DEF OutputBeforeCode
  <2>1. PICK s \in Seq(0..Chunks) : s = Sent(m)
    BY <1>1, SentType DEF IInv, Types
  <2>2. Len(s) \in Nat
    OBVIOUS
  <2>3. OutputOf(m)
    BY <1>1 DEF IInv, Output
  <2>4. /\ \A i \in 1..Len(s) : s[i] = ExitCode => i = Len(s) /\ proc = "exited"
        /\ \A i \in 1..(Len(s) - 1) : s[i + 1] # ExitCode => s[i + 1] = s[i] + 1
        /\ Len(s) > 1 /\ s[Len(s)] = ExitCode /\ ~ctxDone => s[Len(s) - 1] = wrote
    BY <2>1, <2>3 DEF OutputOf
  <2>5. CASE Told(m)
    <3>1. Len(s) > 0 /\ s[Len(s)] = ExitCode /\ proc = "exited" /\ n = Len(s) - 1
      BY <2>1, <2>2, <2>4, <2>5 DEF Told
    <3> QED
      BY <2>1, <2>2, <2>4, <3>1
  <2>6. CASE ~Told(m)
    <3>1. n = Len(s) /\ \A i \in 1..Len(s) : s[i] # ExitCode
      BY <2>1, <2>2, <2>6 DEF Told
    <3> QED
      BY <2>1, <2>2, <2>4, <2>6, <3>1
  <2> QED
    BY <2>5, <2>6
<1> QED
  BY <1>1, Invariant, PTL

\* For every number of clients: with WaitFirstMaster the first client that attaches gets
\* the output from its first chunk on.
THEOREM FirstClientGetsAll == Spec => []FirstMasterGetsAll
<1>1. ASSUME IInv PROVE FirstMasterGetsAll
  <2> SUFFICES ASSUME waitFirst, taken > 0
               PROVE  \E m \in Masters : master[m] = "gone" \/ (Sent(m) # <<>> /\ Head(Sent(m)) = 1)
    BY DEF FirstMasterGetsAll
  <2>1. PICK m \in Masters : master[m] = "gone" \/ (Sent(m) # <<>> /\ Sent(m)[1] = 1)
    BY <1>1 DEF IInv, Types, TypeProcess, First
  <2>2. PICK s \in Seq(0..Chunks) : s = Sent(m)
    BY <1>1, SentType DEF IInv, Types
  <2>3. s # <<>> => Head(s) = s[1]
    OBVIOUS
  <2> QED
    BY <2>1, <2>2, <2>3
<1> QED
  BY <1>1, Invariant, PTL

\* For every number of clients: a job that was started is found by Attach under its PID as
\* long as its slave serves, and a slave that waits for the placeholder of its exit code
\* has no client that would wait with it.
THEOREM JobsAreFound == Spec => []SlaveFound
<1>1. IInv => SlaveFound
  BY DEF IInv, Types, TypeRequest, TypeProcess, TypeCodes, TypeSlave, TypeMasters, TypeOK, Lookup,
     SlaveFound, NoMasterOnPlaceholder, ServedIsFound
<1> QED
  BY <1>1, Invariant, PTL
=============================================================================
