----------------------- MODULE DumpPipelineProofs -----------------------
(***************************************************************************)
(* Proofs about a dump (module DumpPipeline), for any set of requests and  *)
(* any options.                                                            *)
(***************************************************************************)
EXTENDS DumpPipeline, TLAPS


\* The handlers before CRIU is started, and after it is gone.
Before == {"start", "fs", "fill", "save", "prepare"}
After == {"defer", "compress", "rmdir", "managed", "await", "done", "blocked"}

\* The lists of callbacks that the adapters of a dump can include.
Lists == {s \in Seq(Callbacks) : Len(s) =< 4}

RqRecord ==
    [opt : Options, pc : Pcs, err : BOOLEAN, cbs : Lists, ev : Events, idx : Nat,
     criuErr : BOOLEAN, dumped : BOOLEAN]

CzRecord ==
    [at : {"no", "create", "tar", "close", "ok", "error"},
     who : {"none", "hook", "defer", "goroutine"}, data : Copies, failed : BOOLEAN]

Types ==
    /\ attached \in BOOLEAN
    /\ images \in [Requests -> Copies] /\ objects \in [Requests -> Copies]
    /\ criu \in [Requests -> CriuPhases]
    /\ sent \in [Requests -> Events \cup {"none", "success", "failure"}]
    /\ cz \in [Requests -> CzRecord]
    /\ faults \in [Requests -> SUBSET {"state", "flush", "pack", "reap", "cut", "streamer"}]
    /\ rq \in [Requests -> RqRecord]

\* The phase of CRIU that has sent an event, or been asked to dump.
PhaseOf(e) ==
    CASE e = "initialize-dump" -> "pre-dump"
      [] e = "pre-dump" -> "seize"
      [] e = "query-ext-files" -> "dump"
      [] e = "post-dump" -> "finish"
      [] OTHER -> "off"

\* Where the handler and CRIU can be at the same time, and which message follows which.
Control(r) ==
    /\ rq[r].pc \in Before \cup After => criu[r] = "off"
    /\ rq[r].pc \in Before => rq[r].ev = "initialize-dump"
    /\ rq[r].pc \in Before \cup {"recv"} => ~rq[r].err
    /\ rq[r].pc = "recv" => rq[r].ev # "finalize-dump"
    /\ rq[r].pc = "hook" /\ rq[r].ev # "finalize-dump" => ~rq[r].err
    /\ rq[r].pc # "recv" => sent[r] = "none"
    /\ rq[r].pc \in {"hook", "cleanup"} => criu[r] # "reply"
    /\ sent[r] \in Events =>
           <<rq[r].ev, sent[r]>> \in {<<"initialize-dump", "pre-dump">>,
                                      <<"pre-dump", "query-ext-files">>,
                                      <<"query-ext-files", "post-dump">>}
    /\ sent[r] = "success" => rq[r].ev = "post-dump"
    /\ criu[r] # "off" =>
           /\ rq[r].pc = "hook" /\ rq[r].ev = "initialize-dump" => criu[r] = "idle"
           /\ rq[r].pc = "hook" /\ rq[r].ev \notin {"initialize-dump", "finalize-dump"}
              => criu[r] = PhaseOf(rq[r].ev)
           /\ rq[r].pc = "recv" /\ sent[r] = "none"
              => criu[r] = PhaseOf(rq[r].ev) \/ (criu[r] = "reply" /\ rq[r].ev = "post-dump")
           /\ sent[r] # "none" => sent[r] \in Events /\ criu[r] = PhaseOf(sent[r])

\* The tarball is made in the post-dump hook.
HookPacks(o) == PacksNow(o) /\ ~o.leave

Includes(q, cb) == \E i \in 1..Len(q.cbs) : q.cbs[i] = cb

\* The callbacks that the adapters have included.
Included(r) ==
    /\ rq[r].pc \in {"start", "fs"} => rq[r].cbs = <<>>
    /\ rq[r].pc = "fill" => rq[r].cbs = IF HookPacks(rq[r].opt) THEN <<"compress">> ELSE <<>>
    /\ rq[r].pc \in {"save", "prepare", "hook", "recv"} =>
           /\ attached => Includes(rq[r], "gpu")
           /\ HookPacks(rq[r].opt) <=> Includes(rq[r], "compress")
    /\ rq[r].pc = "hook" => rq[r].idx \in 0..Len(rq[r].cbs)

\* The callback cb comes before the current one.
Passed(q, cb) == \E i \in 1..Len(q.cbs) : i > q.idx /\ q.cbs[i] = cb

\* The callback cb, or one that comes after it, is the current one.
Ahead(q, cb) == \E i \in 1..Len(q.cbs) : i =< q.idx /\ q.cbs[i] = cb

\* A copy that holds what a checkpoint needs: the GPU's files if a controller is attached.
Complete(withGPU, copy) ==
    copy \subseteq Parts /\ "pages" \in copy /\ (withGPU => "gpu" \in copy)

GpuSaved(r) == attached => "gpu" \in images[r]

\* The image is whole: packed if the hook packs it, else in the directory.
Ready(r) ==
    IF HookPacks(rq[r].opt) THEN cz[r].at = "ok"
    ELSE cz[r].at = "no" /\ Complete(attached, images[r])

\* What the images directory holds at each stage of the dump.
Contents(r) ==
    /\ rq[r].pc \in {"start", "fs"} => images[r] = Absent
    /\ rq[r].pc \in {"fill", "save", "prepare", "hook", "recv"} /\ cz[r].at = "no"
       => images[r] \subseteq Parts
    /\ rq[r].pc = "hook" /\ rq[r].ev = "pre-dump" /\ Passed(rq[r], "gpu") => "gpu" \in images[r]
    /\ rq[r].pc = "recv" /\ rq[r].ev = "pre-dump" => GpuSaved(r)
    /\ rq[r].pc \in {"hook", "recv"} /\ rq[r].ev = "query-ext-files" => GpuSaved(r)
    /\ sent[r] = "post-dump" => "pages" \in images[r]
    /\ rq[r].pc = "hook" /\ rq[r].ev = "post-dump" /\ cz[r].at = "no"
       => Complete(attached, images[r])
    /\ rq[r].pc = "recv" /\ rq[r].ev = "post-dump" => Ready(r)
    /\ rq[r].pc = "hook" /\ rq[r].ev = "finalize-dump" /\ ~rq[r].err => Ready(r)
    /\ rq[r].pc \in {"cleanup", "defer"} /\ ~rq[r].err => Ready(r)

\* Who runs compress, and when.
Packer(r) ==
    /\ rq[r].pc \in Before => cz[r].at = "no"
    /\ rq[r].pc \in {"hook", "recv"} /\ rq[r].ev \notin {"post-dump", "finalize-dump"}
       => cz[r].at = "no"
    /\ rq[r].pc \in {"hook", "recv", "cleanup", "defer"} /\ cz[r].at # "no" => cz[r].who = "hook"
    /\ cz[r].at \in {"create", "tar", "close"} /\ cz[r].who = "hook" =>
           /\ rq[r].pc = "hook" /\ rq[r].ev = "post-dump"
           /\ rq[r].idx > 0 /\ rq[r].cbs[rq[r].idx] = "compress"
    /\ cz[r].at \in {"create", "tar", "close"} /\ cz[r].who = "defer" => rq[r].pc = "compress"
    /\ rq[r].pc = "compress" => cz[r].at # "no" /\ cz[r].who = "defer"
    /\ cz[r].at # "no" =>
           /\ cz[r].who # "none"
           /\ cz[r].who = "hook" => HookPacks(rq[r].opt)
           /\ cz[r].who = "defer" => PacksNow(rq[r].opt) /\ rq[r].opt.leave
           /\ cz[r].who = "goroutine" => Async(rq[r].opt) /\ (rq[r].opt.stream \/ Packs(rq[r].opt))
    /\ rq[r].pc = "hook" /\ rq[r].ev = "post-dump" /\ Passed(rq[r], "compress")
       => cz[r].at = "ok"

\* What a tarball that the handler waits for holds.
Tarball(r) ==
    PacksNow(rq[r].opt) =>
        /\ cz[r].at \in {"create", "tar"} /\ ~rq[r].err => Complete(attached, images[r])
        /\ cz[r].at = "close" /\ ~cz[r].failed /\ ~rq[r].err =>
               /\ images[r] = Absent
               /\ \/ "flush" \in faults[r]
                  \/ rq[r].opt.remote /\ Complete(attached, cz[r].data)
                  \/ ~rq[r].opt.remote /\ Complete(attached, objects[r])
        /\ cz[r].at = "ok" /\ (~rq[r].err \/ killer = r) =>
               /\ images[r] = Absent
               /\ "flush" \in faults[r] \/ Complete(attached, objects[r])

\* Where the image of a dump that succeeded is.
Kept(r) ==
    IF rq[r].opt.stream
    THEN "streamer" \in faults[r]
         \/ Complete(attached, IF rq[r].opt.remote THEN objects[r] ELSE images[r])
    ELSE IF Packs(rq[r].opt) THEN cz[r].at = "ok" \/ "pack" \in faults[r]
    ELSE Complete(attached, images[r])

\* What a handler that returns leaves behind.
Results(r) ==
    /\ rq[r].pc \in {"rmdir", "managed", "await", "done"} /\ ~rq[r].err /\ ~Async(rq[r].opt)
       => Kept(r)
    /\ rq[r].pc \in {"managed", "await", "done"} /\ images[r] # Absent =>
           ~rq[r].err /\ ~(rq[r].opt.remote /\ ~Async(rq[r].opt))
    /\ r \in checkpoints => rq[r].pc \in {"await", "done"} /\ ~rq[r].err

\* A request whose CRIU has killed the process.
Killed(r) ==
    killer = r =>
        /\ ~rq[r].opt.leave
        /\ rq[r].pc \notin Before /\ criu[r] \in {"reply", "off"}
        /\ rq[r].pc = "recv" =>
               /\ rq[r].ev = "post-dump"
               /\ criu[r] = "reply" \/ sent[r] = "success" \/ "cut" \in faults[r]
        /\ rq[r].pc = "hook" => rq[r].ev = "finalize-dump"
        /\ rq[r].pc = "hook" /\ "cut" \notin faults[r] => ~rq[r].criuErr
        /\ ~rq[r].opt.stream /\ faults[r] \cap {"cut", "reap"} = {} => ~rq[r].err
        /\ PacksNow(rq[r].opt) => cz[r].at = "ok"
        /\ ~Packs(rq[r].opt) /\ ~rq[r].opt.stream /\ faults[r] \cap {"cut", "reap"} = {}
           => Complete(attached, images[r])

\* Who holds the process and the GPU controller.
Holds(r) ==
    /\ tracer = r => criu[r] \in {"dump", "finish"}
    /\ gpuLock = r =>
           /\ rq[r].pc \notin Before
           /\ Includes(rq[r], "gpu")
           /\ rq[r].pc = "hook" /\ rq[r].ev = "finalize-dump"
              => Ahead(rq[r], "gpu")
           /\ rq[r].pc \in After \cup {"cleanup"} => rq[r].ev = "initialize-dump" /\ rq[r].err

Request(r) ==
    /\ Control(r) /\ Included(r) /\ Contents(r) /\ Packer(r) /\ Tarball(r) /\ Results(r)
    /\ Killed(r) /\ Holds(r)

IInv == Types /\ \A r \in Requests : Request(r)

\* A callback that is called has a position.
LEMMA CallIsPositive == ASSUME NEW i, NEW n, i \in 1..n PROVE i > 0
  OBVIOUS

\* A request that has just come has no callbacks and no error.
LEMMA NewRequest ==
    ASSUME NEW o \in Options, NEW q,
           q = [opt |-> o, pc |-> "start", err |-> FALSE, cbs |-> <<>>,
                ev |-> "initialize-dump", idx |-> 0, criuErr |-> FALSE, dumped |-> FALSE]
    PROVE  /\ q \in RqRecord /\ q.pc = "start" /\ q.cbs = <<>> /\ ~q.err
           /\ q.ev = "initialize-dump"
<1>1. <<>> \in Lists /\ 0 \in Nat
  BY DEF Lists
<1>2. "start" \in Pcs /\ "initialize-dump" \in Events
  BY Zenon DEF Pcs, Events
<1>3. q \in RqRecord
  BY <1>1, <1>2 DEF RqRecord
<1> QED
  BY <1>3

\* Whether an image is whole depends on the request's own state only.
LEMMA SameReady ==
    ASSUME NEW k, rq'[k] = rq[k], images'[k] = images[k], cz'[k] = cz[k], attached' = attached
    PROVE  (Ready(k)' <=> Ready(k)) /\ (GpuSaved(k)' <=> GpuSaved(k))
  BY DEF Ready, GpuSaved

\* A set of numbers up to 4 that is not empty has a greatest element.
LEMMA Greatest ==
    ASSUME NEW S \in SUBSET (0..4), S # {}
    PROVE  Max(S) \in S /\ \A i \in S : i =< Max(S)
<1>1. \A i \in S : i \in {0, 1, 2, 3, 4}
  OBVIOUS
<1>2. \E x \in S : \A y \in S : x >= y
  <2>1. CASE 4 \in S
    BY <1>1, <2>1
  <2>2. CASE 4 \notin S /\ 3 \in S
    BY <1>1, <2>2
  <2>3. CASE 4 \notin S /\ 3 \notin S /\ 2 \in S
    BY <1>1, <2>3
  <2>4. CASE 4 \notin S /\ 3 \notin S /\ 2 \notin S /\ 1 \in S
    BY <1>1, <2>4
  <2>5. CASE \A i \in {1, 2, 3, 4} : i \notin S
    <3>1. \A i \in S : i = 0
      BY <1>1, <2>5, Zenon
    <3>2. 0 \in S
      BY <3>1, Zenon
    <3>3. \A y \in S : 0 >= y
      BY <3>1
    <3> QED
      BY <3>2, <3>3, Zenon
  <2> QED
    BY <2>1, <2>2, <2>3, <2>4, <2>5
<1>3. Max(S) \in S /\ \A y \in S : Max(S) >= y
  BY <1>2, Zenon DEF Max
<1> QED
  BY <1>3

\* LastHook is one of the first n callbacks that has the hook, and none after it has.
LEMMA LastHookIs ==
    ASSUME NEW cbs \in Lists, NEW e, NEW n \in 0..Len(cbs)
    PROVE  /\ LastHook(cbs, e, n) \in 0..n
           /\ LastHook(cbs, e, n) > 0 => <<cbs[LastHook(cbs, e, n)], e>> \in Hooks
           /\ \A i \in 1..n : <<cbs[i], e>> \in Hooks => i =< LastHook(cbs, e, n)
<1> DEFINE S == {0} \cup {i \in 1..n : <<cbs[i], e>> \in Hooks}
<1>0. n \in 0..4
  BY DEF Lists
<1>1. n \in Nat /\ S \in SUBSET (0..n)
  BY <1>0
<1>6. S \in SUBSET (0..4) /\ S # {}
  BY <1>0
<1>2. \A i \in 1..n : <<cbs[i], e>> \in Hooks => i \in S
  OBVIOUS
<1>3. \A i \in S : i > 0 => <<cbs[i], e>> \in Hooks
  OBVIOUS
<1>4. LastHook(cbs, e, n) = Max(S)
  BY DEF LastHook
<1> HIDE DEF S
<1>5. Max(S) \in S /\ \A i \in S : i =< Max(S)
  BY <1>6, Greatest
<1>7. PICK m \in 0..n : m = Max(S)
  BY <1>1, <1>5, Zenon
<1>8. (m > 0 => <<cbs[m], e>> \in Hooks) /\ \A i \in 1..n : <<cbs[i], e>> \in Hooks => i =< m
  BY <1>2, <1>3, <1>5, <1>7, Zenon
<1> QED
  BY <1>4, <1>7, <1>8, Zenon

\* The record of another step of the same request: what no step changes.
Same(p, q) == p.opt = q.opt /\ p.dumped = q.dumped /\ p.cbs = q.cbs

\* The callback whose hook is called next, among the first n.
Calls(p, n) ==
    /\ p.idx \in 0..n
    /\ p.idx > 0 => <<p.cbs[p.idx], p.ev>> \in Hooks
    /\ \A i \in 1..n : <<p.cbs[i], p.ev>> \in Hooks => i =< p.idx

\* A step that only moves the handler.
LEMMA GoFields ==
    ASSUME Types, NEW r \in Requests, NEW l \in Pcs, Go(r, l)
    PROVE  /\ rq' \in [Requests -> RqRecord] /\ \A s \in Requests : s # r => rq'[s] = rq[s]
           /\ Same(rq'[r], rq[r]) /\ rq'[r].pc = l /\ rq'[r].err = rq[r].err
           /\ rq'[r].ev = rq[r].ev /\ rq'[r].idx = rq[r].idx /\ rq'[r].criuErr = rq[r].criuErr
<1>1. PICK q \in RqRecord : q = rq[r]
  BY DEF Types
<1>2. PICK x : x = [q EXCEPT !.pc = l]
  BY Zenon
<1>3. /\ x \in RqRecord /\ x.pc = l /\ x.opt = q.opt /\ x.dumped = q.dumped /\ x.cbs = q.cbs
      /\ x.err = q.err /\ x.ev = q.ev /\ x.idx = q.idx /\ x.criuErr = q.criuErr
  BY <1>2 DEF RqRecord
<1>4. rq' = [rq EXCEPT ![r] = x]
  BY <1>1, <1>2 DEF Go
<1> QED
  BY <1>1, <1>3, <1>4 DEF Types, Same

\* A step that fails: the handler moves, with an error.
LEMMA FailFields ==
    ASSUME Types, NEW r \in Requests, NEW l \in Pcs, Fail(r, l)
    PROVE  /\ rq' \in [Requests -> RqRecord] /\ \A s \in Requests : s # r => rq'[s] = rq[s]
           /\ Same(rq'[r], rq[r]) /\ rq'[r].pc = l /\ rq'[r].err
           /\ rq'[r].ev = rq[r].ev /\ rq'[r].idx = rq[r].idx /\ rq'[r].criuErr = rq[r].criuErr
<1>1. PICK q \in RqRecord : q = rq[r]
  BY DEF Types
<1>2. PICK x : x = [q EXCEPT !.pc = l, !.err = TRUE]
  OBVIOUS
<1>3. /\ x \in RqRecord /\ x.pc = l /\ x.opt = q.opt /\ x.dumped = q.dumped /\ x.cbs = q.cbs
      /\ x.err = TRUE /\ x.ev = q.ev /\ x.idx = q.idx /\ x.criuErr = q.criuErr
  BY <1>2, Zenon DEF RqRecord
<1>4. rq' = [rq EXCEPT ![r] = x]
  BY <1>1, <1>2, Zenon DEF Fail
<1> QED
  BY <1>1, <1>3, <1>4 DEF Types, Same

\* An adapter includes its callbacks.
LEMMA IncludeFields ==
    ASSUME Types, NEW r \in Requests, NEW l \in Pcs, NEW c, rq[r].cbs \o c \in Lists,
           Include(r, c, l)
    PROVE  /\ rq' \in [Requests -> RqRecord] /\ \A s \in Requests : s # r => rq'[s] = rq[s]
           /\ rq'[r].opt = rq[r].opt /\ rq'[r].dumped = rq[r].dumped
           /\ rq'[r].cbs = rq[r].cbs \o c
           /\ rq'[r].pc = l /\ rq'[r].err = rq[r].err
           /\ rq'[r].ev = rq[r].ev /\ rq'[r].idx = rq[r].idx /\ rq'[r].criuErr = rq[r].criuErr
<1>1. PICK q \in RqRecord : q = rq[r]
  BY DEF Types
<1>2. PICK d : d = q.cbs \o c
  BY Zenon
<1>4. d \in Lists
  BY <1>1, <1>2
<1>5. PICK x : x = [q EXCEPT !.cbs = d, !.pc = l]
  OBVIOUS
<1>6. /\ x \in RqRecord /\ x.pc = l /\ x.opt = q.opt /\ x.dumped = q.dumped /\ x.cbs = d
      /\ x.err = q.err /\ x.ev = q.ev /\ x.idx = q.idx /\ x.criuErr = q.criuErr
  BY <1>4, <1>5, Zenon DEF RqRecord
<1>7. rq' = [rq EXCEPT ![r] = x]
  BY <1>1, <1>2, <1>5, Zenon DEF Include
<1> QED
  BY <1>1, <1>2, <1>6, <1>7 DEF Types

\* NotifyCallbackMulti begins with the last callback that has the hook.
LEMMA NotifyFields ==
    ASSUME NEW q \in RqRecord, NEW e \in Events
    PROVE  /\ Notify(q, e) \in RqRecord /\ Same(Notify(q, e), q)
           /\ Notify(q, e).pc = "hook" /\ Notify(q, e).ev = e
           /\ Notify(q, e).err = q.err /\ Notify(q, e).criuErr = q.criuErr
           /\ Calls(Notify(q, e), Len(q.cbs))
<1>1. q.cbs \in Lists
  BY DEF RqRecord
<1>2. PICK k : k = LastHook(q.cbs, e, Len(q.cbs))
  OBVIOUS
<1>3. /\ k \in 0..Len(q.cbs) /\ k \in Nat /\ (k > 0 => <<q.cbs[k], e>> \in Hooks)
      /\ \A i \in 1..Len(q.cbs) : <<q.cbs[i], e>> \in Hooks => i =< k
  BY <1>1, <1>2, LastHookIs
<1>4. PICK x : x = [q EXCEPT !.pc = "hook", !.ev = e, !.idx = k]
  OBVIOUS
<1>5. /\ x \in RqRecord /\ x.pc = "hook" /\ x.opt = q.opt /\ x.dumped = q.dumped /\ x.cbs = q.cbs
      /\ x.err = q.err /\ x.ev = e /\ x.idx = k /\ x.criuErr = q.criuErr
  BY <1>3, <1>4, Zenon DEF RqRecord, Pcs
<1>6. x = Notify(q, e)
  BY <1>2, <1>4 DEF Notify
<1> QED
  BY <1>3, <1>5, <1>6 DEF Same, Calls

\* FinalizeDump is called with the error of the request loop.
LEMMA FinalizeFields ==
    ASSUME NEW q \in RqRecord, NEW failed \in BOOLEAN
    PROVE  /\ Finalize(q, failed) \in RqRecord /\ Same(Finalize(q, failed), q)
           /\ Finalize(q, failed).pc = "hook" /\ Finalize(q, failed).ev = "finalize-dump"
           /\ Finalize(q, failed).err = (q.err \/ failed)
           /\ Finalize(q, failed).criuErr = failed
           /\ Calls(Finalize(q, failed), Len(q.cbs))
<1>1. PICK n : n = Notify(q, "finalize-dump")
  OBVIOUS
<1>2. /\ n \in RqRecord /\ Same(n, q) /\ n.pc = "hook" /\ n.ev = "finalize-dump"
      /\ n.err = q.err /\ Calls(n, Len(q.cbs))
  BY <1>1, NotifyFields, Zenon DEF Events
<1>3. PICK e : e = (q.err \/ failed)
  OBVIOUS
<1>4. e \in BOOLEAN
  BY <1>3
<1>5. PICK x : x = [n EXCEPT !.criuErr = failed, !.err = e]
  OBVIOUS
<1>6. /\ x \in RqRecord /\ x.pc = n.pc /\ x.opt = n.opt /\ x.dumped = n.dumped /\ x.cbs = n.cbs
      /\ x.err = e /\ x.ev = n.ev /\ x.idx = n.idx /\ x.criuErr = failed
  BY <1>2, <1>4, <1>5, Zenon DEF RqRecord
<1>7. x = Finalize(q, failed)
  BY <1>1, <1>3, <1>5 DEF Finalize
<1>8. Calls(x, Len(q.cbs))
  BY <1>2, <1>6 DEF Calls
<1> QED
  BY <1>2, <1>3, <1>6, <1>7, <1>8 DEF Same

\* A callback that returned nil: the one with the hook that was included before it is next.
LEMMA ReturnsFields ==
    ASSUME NEW q \in RqRecord, q.idx \in 1..Len(q.cbs)
    PROVE  /\ Returns(q) \in RqRecord /\ Same(Returns(q), q)
           /\ Returns(q).pc = q.pc /\ Returns(q).ev = q.ev
           /\ Returns(q).err = q.err /\ Returns(q).criuErr = q.criuErr
           /\ Calls(Returns(q), q.idx - 1)
<1>1. q.cbs \in Lists /\ q.idx - 1 \in 0..Len(q.cbs)
  BY DEF RqRecord, Lists
<1>2. PICK k : k = LastHook(q.cbs, q.ev, q.idx - 1)
  OBVIOUS
<1>3. /\ k \in 0..(q.idx - 1) /\ k \in Nat /\ (k > 0 => <<q.cbs[k], q.ev>> \in Hooks)
      /\ \A i \in 1..(q.idx - 1) : <<q.cbs[i], q.ev>> \in Hooks => i =< k
  BY <1>1, <1>2, LastHookIs
<1>4. PICK x : x = [q EXCEPT !.idx = k]
  BY Zenon
<1>5. /\ x \in RqRecord /\ x.pc = q.pc /\ x.opt = q.opt /\ x.dumped = q.dumped /\ x.cbs = q.cbs
      /\ x.err = q.err /\ x.ev = q.ev /\ x.idx = k /\ x.criuErr = q.criuErr
  BY <1>3, <1>4 DEF RqRecord
<1>6. x = Returns(q)
  BY <1>2, <1>4 DEF Returns
<1> QED
  BY <1>3, <1>5, <1>6 DEF Same, Calls

\* A callback that returned an error.
LEMMA RaisesFields ==
    ASSUME NEW q \in RqRecord
    PROVE  /\ Raises(q) \in RqRecord /\ Same(Raises(q), q) /\ Raises(q).err
           /\ q.ev \in {"initialize-dump", "finalize-dump"} =>
                  /\ Raises(q).pc = "cleanup" /\ Raises(q).ev = q.ev
                  /\ Raises(q).criuErr = q.criuErr
           /\ q.ev \notin {"initialize-dump", "finalize-dump"} =>
                  /\ Raises(q).pc = "hook" /\ Raises(q).ev = "finalize-dump"
                  /\ Raises(q).criuErr /\ Calls(Raises(q), Len(q.cbs))
<1>1. CASE q.ev \in {"initialize-dump", "finalize-dump"}
  <2>1. PICK x : x = [q EXCEPT !.pc = "cleanup", !.err = TRUE]
    OBVIOUS
  <2>2. /\ x \in RqRecord /\ x.pc = "cleanup" /\ x.opt = q.opt /\ x.dumped = q.dumped
        /\ x.cbs = q.cbs /\ x.err = TRUE /\ x.ev = q.ev /\ x.criuErr = q.criuErr
    BY <2>1, Zenon DEF RqRecord, Pcs
  <2>3. x = Raises(q)
    BY <1>1, <2>1 DEF Raises
  <2> QED
    BY <1>1, <2>2, <2>3 DEF Same
<1>2. CASE q.ev \notin {"initialize-dump", "finalize-dump"}
  <2>1. Raises(q) = Finalize(q, TRUE)
    BY <1>2 DEF Raises
  <2>2. /\ Finalize(q, TRUE) \in RqRecord /\ Same(Finalize(q, TRUE), q)
        /\ Finalize(q, TRUE).pc = "hook" /\ Finalize(q, TRUE).ev = "finalize-dump"
        /\ Finalize(q, TRUE).err = (q.err \/ TRUE) /\ Finalize(q, TRUE).criuErr = TRUE
        /\ Calls(Finalize(q, TRUE), Len(q.cbs))
    BY FinalizeFields, Zenon
  <2> QED
    BY <1>2, <2>1, <2>2, Zenon
<1> QED
  BY <1>1, <1>2

\* dumpErr is set once the dump of the GPU has been started.
LEMMA DumpedFields ==
    ASSUME NEW q \in RqRecord
    PROVE  /\ [q EXCEPT !.dumped = TRUE] \in RqRecord
           /\ [q EXCEPT !.dumped = TRUE].opt = q.opt /\ [q EXCEPT !.dumped = TRUE].cbs = q.cbs
           /\ [q EXCEPT !.dumped = TRUE].pc = q.pc /\ [q EXCEPT !.dumped = TRUE].ev = q.ev
           /\ [q EXCEPT !.dumped = TRUE].err = q.err /\ [q EXCEPT !.dumped = TRUE].idx = q.idx
           /\ [q EXCEPT !.dumped = TRUE].criuErr = q.criuErr
  BY Zenon DEF RqRecord

\* A callback that is called is one of those included, and has the hook.
LEMMA CalledFacts ==
    ASSUME NEW r \in Requests, Included(r), NEW cb, NEW e, Called(r, cb, e)
    PROVE  /\ rq[r].pc = "hook" /\ rq[r].ev = e
           /\ rq[r].idx \in 1..Len(rq[r].cbs) /\ rq[r].cbs[rq[r].idx] = cb
  BY DEF Called, At, Included

\* Copies that steps make.
LEMMA CopiesAre ==
    /\ Absent \in Copies /\ Torn \in Copies /\ {} \in Copies
    /\ \A c \in SUBSET Parts : \A p \in Parts : c \cup {p} \in Copies
  BY DEF Copies, Absent, Torn

\* A copy that is written is written for one request.
LEMMA CopyFields ==
    ASSUME NEW f \in [Requests -> Copies], NEW r \in Requests, NEW c \in Copies
    PROVE  /\ [f EXCEPT ![r] = c] \in [Requests -> Copies] /\ [f EXCEPT ![r] = c][r] = c
           /\ \A s \in Requests : s # r => [f EXCEPT ![r] = c][s] = f[s]
  OBVIOUS

\* A streamer that fails leaves torn shards of its own image.
LEMMA TearFields ==
    ASSUME Types, NEW r \in Requests, TearShards(r)
    PROVE  /\ images' \in [Requests -> Copies] /\ objects' \in [Requests -> Copies]
           /\ \A s \in Requests : s # r => images'[s] = images[s] /\ objects'[s] = objects[s]
  BY CopiesAre DEF Types, TearShards

\* A streamer that succeeds has sent its own image.
LEMMA StreamFields ==
    ASSUME Types, NEW r \in Requests, objects' = [objects EXCEPT ![r] = images[r]]
    PROVE  /\ objects' \in [Requests -> Copies]
           /\ \A s \in Requests : s # r => objects'[s] = objects[s]
  BY DEF Types

\* A fault is noted for the request it happens to.
LEMMA FaultFields ==
    ASSUME Types, NEW r \in Requests, NEW f \in {"state", "flush", "pack", "reap", "cut", "streamer"},
           faults' = [faults EXCEPT ![r] = faults[r] \cup {f}]
    PROVE  /\ faults' \in [Requests -> SUBSET {"state", "flush", "pack", "reap", "cut", "streamer"}]
           /\ f \in faults'[r]
           /\ \A s \in Requests : s # r => faults'[s] = faults[s]
  BY DEF Types

\* compress is started: from a deferred function, or in a goroutine.
LEMMA StartFields ==
    ASSUME Types, NEW r \in Requests, NEW w \in {"none", "hook", "defer", "goroutine"}, Start(r, w)
    PROVE  /\ cz' \in [Requests -> CzRecord] /\ \A s \in Requests : s # r => cz'[s] = cz[s]
           /\ cz'[r].at = "create" /\ cz'[r].who = w /\ cz'[r].data = cz[r].data
           /\ cz'[r].failed = cz[r].failed
<1>1. PICK z \in CzRecord : z = cz[r]
  BY DEF Types
<1>2. PICK x : x = [z EXCEPT !.at = "create", !.who = w]
  OBVIOUS
<1>3. x \in CzRecord /\ x.at = "create" /\ x.who = w /\ x.data = z.data /\ x.failed = z.failed
  BY <1>2, Zenon DEF CzRecord
<1>4. cz' = [cz EXCEPT ![r] = x]
  BY <1>1, <1>2, Zenon DEF Start
<1> QED
  BY <1>1, <1>3, <1>4 DEF Types

\* compress reaches its next step.
LEMMA CzFields ==
    ASSUME Types, NEW r \in Requests, NEW a \in {"no", "create", "tar", "close", "ok", "error"},
           cz' = [cz EXCEPT ![r].at = a]
    PROVE  /\ cz' \in [Requests -> CzRecord] /\ \A s \in Requests : s # r => cz'[s] = cz[s]
           /\ cz'[r].at = a /\ cz'[r].who = cz[r].who /\ cz'[r].data = cz[r].data
           /\ cz'[r].failed = cz[r].failed
<1>1. PICK z \in CzRecord : z = cz[r]
  BY DEF Types
<1>2. PICK x : x = [z EXCEPT !.at = a]
  BY Zenon
<1>3. x \in CzRecord /\ x.at = a /\ x.who = z.who /\ x.data = z.data /\ x.failed = z.failed
  BY <1>2 DEF CzRecord
<1>4. cz' = [cz EXCEPT ![r] = x]
  BY <1>1, <1>2
<1> QED
  BY <1>1, <1>3, <1>4 DEF Types


\* The callback that DumpFilesystem includes.
HookList(o) == IF HookPacks(o) THEN <<"compress">> ELSE <<>>

\* HookList is the sequence that DumpFilesystem appends to the callbacks.
LEMMA HookListIs ==
    ASSUME NEW o
    PROVE  /\ HookList(o) \in Seq(Callbacks) /\ <<>> \o HookList(o) = HookList(o)
           /\ HookList(o) = IF Packs(o) /\ ~Async(o) /\ ~o.leave THEN <<"compress">> ELSE <<>>
<1>1. HookList(o) \in Seq(Callbacks)
  <2>1. <<"compress">> \in Seq(Callbacks) /\ <<>> \in Seq(Callbacks)
    BY DEF Callbacks
  <2> QED
    BY <2>1, Zenon DEF HookList
<1>2. <<>> \o HookList(o) = HookList(o)
  BY <1>1
<1>3. HookPacks(o) <=> Packs(o) /\ ~Async(o) /\ ~o.leave
  BY Zenon DEF HookPacks, PacksNow
<1> QED
  BY <1>1, <1>2, <1>3, Zenon DEF HookList

\* Whether an element occurs in a sequence.
Occurs(x, s) == \E i \in 1..Len(s) : s[i] = x

\* What occurs in two sequences that are put together.
LEMMA OccursConcat ==
    ASSUME NEW S, NEW s \in Seq(S), NEW t \in Seq(S), NEW x
    PROVE  s \o t \in Seq(S) /\ (Occurs(x, s \o t) <=> Occurs(x, s) \/ Occurs(x, t))
<1> DEFINE u == s \o t
<1>1. /\ u \in Seq(S) /\ Len(u) = Len(s) + Len(t) /\ Len(s) \in Nat /\ Len(t) \in Nat
      /\ \A i \in 1..Len(s) + Len(t) : u[i] = IF i =< Len(s) THEN s[i] ELSE t[i - Len(s)]
  OBVIOUS
<1> HIDE DEF u
<1>2. ASSUME NEW i \in 1..Len(s) PROVE i \in 1..Len(u) /\ u[i] = s[i]
  BY <1>1
<1>3. ASSUME NEW i \in 1..Len(t) PROVE Len(s) + i \in 1..Len(u) /\ u[Len(s) + i] = t[i]
  <2>1. Len(s) + i \in 1..Len(s) + Len(t) /\ ~(Len(s) + i =< Len(s)) /\ Len(s) + i - Len(s) = i
    BY <1>1
  <2> QED
    BY <1>1, <2>1
<1>4. ASSUME NEW i \in 1..Len(u)
      PROVE  (i \in 1..Len(s) /\ u[i] = s[i]) \/ (i - Len(s) \in 1..Len(t) /\ u[i] = t[i - Len(s)])
  BY <1>1
<1>5. Occurs(x, u) <=> Occurs(x, s) \/ Occurs(x, t)
  BY <1>2, <1>3, <1>4, Zenon DEF Occurs
<1> QED
  BY <1>1, <1>5 DEF u

\* What occurs in a sequence of one element.
LEMMA OccursOne ==
    ASSUME NEW S, NEW a \in S, NEW x
    PROVE  <<a>> \in Seq(S) /\ (Occurs(x, <<a>>) <=> x = a)
  BY DEF Occurs

\* What occurs in a sequence of two elements.
LEMMA OccursTwo ==
    ASSUME NEW S, NEW a \in S, NEW b \in S, NEW x
    PROVE  <<a, b>> \in Seq(S) /\ (Occurs(x, <<a, b>>) <=> x = a \/ x = b)
<1>1. /\ <<a, b>> \in Seq(S) /\ Len(<<a, b>>) = 2 /\ <<a, b>>[1] = a /\ <<a, b>>[2] = b
      /\ \A i : i \in 1..2 <=> i = 1 \/ i = 2
  OBVIOUS
<1> QED
  BY <1>1, Zenon DEF Occurs

\* The callbacks of a dump: those of DumpFilesystem, the external files, and the GPU's.
LEMMA FillListIs ==
    ASSUME NEW o
    PROVE  LET c == <<"external-files">> \o GPUCallbacks
               d == HookList(o) \o c
           IN  /\ d \in Lists
               /\ attached => Occurs("gpu", d)
               /\ HookPacks(o) <=> Occurs("compress", d)
<1> DEFINE c == <<"external-files">> \o GPUCallbacks
           d == HookList(o) \o c
           mounts == "gpu external mounts"
<1>1. /\ "compress" \in Callbacks /\ "external-files" \in Callbacks /\ "gpu" \in Callbacks
      /\ mounts \in Callbacks
      /\ "compress" # "external-files" /\ "compress" # "gpu" /\ "compress" # mounts
  BY DEF Callbacks
<1>2. <<>> \in Seq(Callbacks) /\ \A x : ~Occurs(x, <<>>)
  BY DEF Occurs
<1>3. /\ <<"gpu", mounts>> \in Seq(Callbacks) /\ Occurs("gpu", <<"gpu", mounts>>)
      /\ ~Occurs("compress", <<"gpu", mounts>>)
  <2>1. <<"gpu", mounts>> \in Seq(Callbacks) /\ Occurs("gpu", <<"gpu", mounts>>)
    BY <1>1, OccursTwo, Zenon
  <2>2. \A x : Occurs(x, <<"gpu", mounts>>) <=> x = "gpu" \/ x = mounts
    BY <1>1, OccursTwo, Zenon
  <2> QED
    BY <1>1, <2>1, <2>2, Zenon
<1>4. /\ GPUCallbacks \in Seq(Callbacks) /\ (attached => Occurs("gpu", GPUCallbacks))
      /\ ~Occurs("compress", GPUCallbacks)
  BY <1>2, <1>3, Zenon DEF GPUCallbacks
<1>5. <<"external-files">> \in Seq(Callbacks) /\ ~Occurs("compress", <<"external-files">>)
  BY <1>1, OccursOne, Zenon
<1>6. c \in Seq(Callbacks) /\ (attached => Occurs("gpu", c)) /\ ~Occurs("compress", c)
  BY <1>4, <1>5, OccursConcat, Zenon
<1>7. HookList(o) \in Seq(Callbacks) /\ (HookPacks(o) <=> Occurs("compress", HookList(o)))
  <2>1. Occurs("compress", <<"compress">>)
    BY <1>1, OccursOne, Zenon
  <2> QED
    BY <1>2, <2>1, HookListIs, Zenon DEF HookList
<1>8. /\ d \in Seq(Callbacks) /\ (attached => Occurs("gpu", d))
      /\ (HookPacks(o) <=> Occurs("compress", d))
  BY <1>6, <1>7, OccursConcat, ZenonT(60)
<1>9. Len(d) =< 4
  <2>1. GPUCallbacks \in {<<"gpu", mounts>>, <<>>}
    BY Zenon DEF GPUCallbacks
  <2>2. HookList(o) \in {<<"compress">>, <<>>}
    BY Zenon DEF HookList
  <2>3. Len(<<"gpu", mounts>>) = 2 /\ Len(<<"compress">>) = 1 /\ Len(<<>>) = 0
        /\ Len(<<"external-files">>) = 1
    OBVIOUS
  <2>4. ASSUME NEW s \in Seq(Callbacks), NEW t \in Seq(Callbacks)
        PROVE  Len(s \o t) = Len(s) + Len(t)
    OBVIOUS
  <2>5. Len(d) = Len(HookList(o)) + (Len(<<"external-files">>) + Len(GPUCallbacks))
    BY <1>4, <1>5, <1>6, <1>7, <2>4, Zenon
  <2>6. Len(GPUCallbacks) \in {0, 2} /\ Len(HookList(o)) \in {0, 1}
    BY <2>1, <2>2, <2>3, Zenon
  <2>7. \A m \in {0, 1}, n \in {0, 2} : m + (1 + n) =< 4
    OBVIOUS
  <2> QED
    BY <2>3, <2>5, <2>6, <2>7, Zenon
<1> QED
  BY <1>8, <1>9 DEF Lists


\* The outcomes of a step for the record of its request: only the handler moves, it fails,
\* a callback returns nil or an error, NotifyCallbackMulti or FinalizeDump is called.
Updated(r) == rq' \in [Requests -> RqRecord] /\ \A s \in Requests : s # r => rq'[s] = rq[s]

Moved(r, l) ==
    /\ rq'[r].opt = rq[r].opt /\ rq'[r].cbs = rq[r].cbs /\ rq'[r].ev = rq[r].ev
    /\ rq'[r].pc = l /\ rq'[r].err = rq[r].err

Failed(r, l) ==
    /\ rq'[r].opt = rq[r].opt /\ rq'[r].cbs = rq[r].cbs /\ rq'[r].ev = rq[r].ev
    /\ rq'[r].pc = l /\ rq'[r].err

Notifies(r, e) ==
    /\ rq'[r].opt = rq[r].opt
    /\ rq'[r].pc = "hook" /\ rq'[r].ev = e /\ rq'[r].cbs = rq[r].cbs
    /\ rq'[r].err = rq[r].err /\ Calls(rq'[r], Len(rq[r].cbs))

Finalizes(r, failed) ==
    /\ rq'[r].opt = rq[r].opt
    /\ rq'[r].pc = "hook" /\ rq'[r].ev = "finalize-dump" /\ rq'[r].cbs = rq[r].cbs
    /\ rq'[r].err = (rq[r].err \/ failed) /\ rq'[r].criuErr = failed
    /\ Calls(rq'[r], Len(rq[r].cbs))

Returned(r) ==
    /\ rq'[r].opt = rq[r].opt
    /\ rq'[r].pc = "hook" /\ rq'[r].ev = rq[r].ev /\ rq'[r].cbs = rq[r].cbs
    /\ rq'[r].err = rq[r].err /\ rq'[r].criuErr = rq[r].criuErr
    /\ Calls(rq'[r], rq[r].idx - 1)

Raised(r) ==
    /\ rq'[r].opt = rq[r].opt /\ rq'[r].err /\ rq'[r].cbs = rq[r].cbs
    /\ rq[r].ev \in {"initialize-dump", "finalize-dump"} =>
           rq'[r].pc = "cleanup" /\ rq'[r].ev = rq[r].ev
    /\ rq[r].ev \notin {"initialize-dump", "finalize-dump"} =>
           /\ rq'[r].pc = "hook" /\ rq'[r].ev = "finalize-dump"
           /\ Calls(rq'[r], Len(rq[r].cbs))

\* Go moves the handler.
LEMMA GoStep ==
    ASSUME Types, NEW r \in Requests, NEW l \in Pcs, Go(r, l) PROVE Updated(r) /\ Moved(r, l)
  BY GoFields DEF Updated, Moved, Same

\* Fail moves the handler, with an error.
LEMMA FailStep ==
    ASSUME Types, NEW r \in Requests, NEW l \in Pcs, Fail(r, l) PROVE Updated(r) /\ Failed(r, l)
  BY FailFields DEF Updated, Failed, Same

\* A record is replaced.
LEMMA Replaced ==
    ASSUME Types, NEW r \in Requests, NEW x \in RqRecord, x.opt = rq[r].opt,
           rq' = [rq EXCEPT ![r] = x]
    PROVE  Updated(r) /\ rq'[r] = x
  BY DEF Types, Updated

\* NotifyCallbackMulti is called.
LEMMA NotifyStep ==
    ASSUME Types, NEW r \in Requests, NEW e \in Events, rq' = [rq EXCEPT ![r] = Notify(rq[r], e)]
    PROVE  Updated(r) /\ Notifies(r, e)
<1>1. PICK q \in RqRecord : q = rq[r]
  BY DEF Types
<1>2. PICK x : x = Notify(q, e)
  OBVIOUS
<1>3. /\ x \in RqRecord /\ Same(x, q) /\ x.pc = "hook" /\ x.ev = e /\ x.err = q.err
      /\ x.criuErr = q.criuErr /\ Calls(x, Len(q.cbs))
  BY <1>2, NotifyFields
<1>4. Updated(r) /\ rq'[r] = x
  BY <1>1, <1>2, <1>3, Replaced, Zenon DEF Same
<1> QED
  BY <1>1, <1>3, <1>4 DEF Notifies, Same

\* FinalizeDump is called.
LEMMA FinalizeStep ==
    ASSUME Types, NEW r \in Requests, NEW failed \in BOOLEAN,
           rq' = [rq EXCEPT ![r] = Finalize(rq[r], failed)]
    PROVE  Updated(r) /\ Finalizes(r, failed)
<1>1. PICK q \in RqRecord : q = rq[r]
  BY DEF Types
<1>2. PICK x : x = Finalize(q, failed)
  OBVIOUS
<1>3. /\ x \in RqRecord /\ Same(x, q) /\ x.pc = "hook" /\ x.ev = "finalize-dump"
      /\ x.err = (q.err \/ failed) /\ x.criuErr = failed /\ Calls(x, Len(q.cbs))
  BY <1>2, FinalizeFields
<1>4. Updated(r) /\ rq'[r] = x
  BY <1>1, <1>2, <1>3, Replaced, Zenon DEF Same
<1> QED
  BY <1>1, <1>3, <1>4 DEF Finalizes, Same

\* A callback returns nil; its hook may have set dumpErr.
LEMMA ReturnsStep ==
    ASSUME Types, NEW r \in Requests, rq[r].idx \in 1..Len(rq[r].cbs), rq[r].pc = "hook",
           NEW q \in RqRecord, q.opt = rq[r].opt, q.cbs = rq[r].cbs, q.pc = rq[r].pc,
           q.ev = rq[r].ev, q.err = rq[r].err, q.idx = rq[r].idx, q.criuErr = rq[r].criuErr,
           rq' = [rq EXCEPT ![r] = Returns(q)]
    PROVE  Updated(r) /\ Returned(r)
<1>1. PICK x : x = Returns(q)
  OBVIOUS
<1>2. /\ x \in RqRecord /\ Same(x, q) /\ x.pc = q.pc /\ x.ev = q.ev /\ x.err = q.err
      /\ x.criuErr = q.criuErr /\ Calls(x, q.idx - 1)
  BY <1>1, ReturnsFields
<1>3. Updated(r) /\ rq'[r] = x
  BY <1>1, <1>2, Replaced, Zenon DEF Same
<1> QED
  BY <1>2, <1>3 DEF Returned, Same

\* A callback returns an error.
LEMMA RaisesStep ==
    ASSUME Types, NEW r \in Requests,
           NEW q \in RqRecord, q.opt = rq[r].opt, q.cbs = rq[r].cbs, q.ev = rq[r].ev,
           rq' = [rq EXCEPT ![r] = Raises(q)]
    PROVE  Updated(r) /\ Raised(r)
<1>1. PICK x : x = Raises(q)
  OBVIOUS
<1>2. /\ x \in RqRecord /\ Same(x, q) /\ x.err
      /\ q.ev \in {"initialize-dump", "finalize-dump"} => x.pc = "cleanup" /\ x.ev = q.ev
      /\ q.ev \notin {"initialize-dump", "finalize-dump"} =>
             x.pc = "hook" /\ x.ev = "finalize-dump" /\ Calls(x, Len(q.cbs))
  BY <1>1, RaisesFields, Zenon
<1>3. x \in RqRecord /\ x.opt = rq[r].opt /\ rq' = [rq EXCEPT ![r] = x]
  BY <1>1, <1>2, Zenon DEF Same
<1>4. Updated(r) /\ rq'[r] = x
  BY <1>3, Replaced, Zenon
<1> QED
  BY <1>2, <1>4 DEF Raised, Same

\* A callback returns nil or an error.
LEMMA HookStep ==
    ASSUME Types, NEW r \in Requests, rq[r].idx \in 1..Len(rq[r].cbs), rq[r].pc = "hook"
    PROVE  /\ rq' = [rq EXCEPT ![r] = Returns(rq[r])] => Updated(r) /\ Returned(r)
           /\ rq' = [rq EXCEPT ![r] = Raises(rq[r])] => Updated(r) /\ Raised(r)
<1>1. rq[r] \in RqRecord
  BY DEF Types
<1> QED
  BY <1>1, ReturnsStep, RaisesStep

\* The callbacks that a list includes are the same after a step that keeps the list.
LEMMA SameIncludes ==
    ASSUME NEW p, NEW q, p.cbs = q.cbs PROVE \A cb : Includes(p, cb) <=> Includes(q, cb)
  BY DEF Includes

\* After the last call every callback has been passed.
LEMMA AllPassed ==
    ASSUME NEW q, q.idx = 0 PROVE \A cb : ~Ahead(q, cb) /\ (Includes(q, cb) => Passed(q, cb))
  BY DEF Includes, Passed, Ahead

\* A callback that returns is passed, with those that do not have the hook.
LEMMA ReturnedIs ==
    ASSUME Types, NEW r \in Requests, rq[r].idx \in 1..Len(rq[r].cbs), Returned(r)
    PROVE  /\ rq'[r].opt = rq[r].opt /\ rq'[r].pc = "hook"
           /\ rq'[r].ev = rq[r].ev /\ rq'[r].err = rq[r].err
           /\ rq'[r].criuErr = rq[r].criuErr
           /\ rq'[r].idx \in 0..Len(rq[r].cbs) /\ rq'[r].cbs = rq[r].cbs
           /\ \A cb : <<cb, rq[r].ev>> \in Hooks /\ Passed(rq'[r], cb)
                      => Passed(rq[r], cb) \/ cb = rq[r].cbs[rq[r].idx]
           /\ \A cb : Includes(rq'[r], cb) <=> Includes(rq[r], cb)
<1>1. /\ rq'[r].opt = rq[r].opt /\ rq'[r].pc = "hook"
      /\ rq'[r].ev = rq[r].ev /\ rq'[r].err = rq[r].err
      /\ rq'[r].criuErr = rq[r].criuErr /\ rq'[r].cbs = rq[r].cbs /\ rq'[r].idx \in 0..Len(rq[r].cbs)
      /\ \A i \in 1..(rq[r].idx - 1) : <<rq[r].cbs[i], rq[r].ev>> \in Hooks => i =< rq'[r].idx
  BY DEF Returned, Calls
<1>2. ASSUME NEW cb, <<cb, rq[r].ev>> \in Hooks, Passed(rq'[r], cb)
      PROVE  Passed(rq[r], cb) \/ cb = rq[r].cbs[rq[r].idx]
  <2>1. PICK i \in 1..Len(rq[r].cbs) : i > rq'[r].idx /\ rq[r].cbs[i] = cb
    BY <1>1, <1>2 DEF Passed
  <2>2. CASE i > rq[r].idx
    BY <2>1, <2>2 DEF Passed
  <2>3. CASE i = rq[r].idx
    BY <2>1, <2>3
  <2>4. CASE i < rq[r].idx
    BY <1>1, <1>2, <2>1, <2>4
  <2> QED
    BY <2>2, <2>3, <2>4
<1>3. \A cb : Includes(rq'[r], cb) <=> Includes(rq[r], cb)
  BY <1>1, SameIncludes
<1> QED
  BY <1>1, <1>2, <1>3

\* NotifyCallbackMulti begins before every callback that has the hook.
LEMMA NotifiesIs ==
    ASSUME Types, NEW r \in Requests, NEW e, Notifies(r, e)
    PROVE  /\ rq'[r].opt = rq[r].opt /\ rq'[r].pc = "hook"
           /\ rq'[r].ev = e /\ rq'[r].err = rq[r].err
           /\ rq'[r].idx \in 0..Len(rq[r].cbs) /\ rq'[r].cbs = rq[r].cbs
           /\ \A cb : <<cb, e>> \in Hooks => ~Passed(rq'[r], cb)
           /\ \A cb : Includes(rq'[r], cb) <=> Includes(rq[r], cb)
<1>1. /\ rq'[r].opt = rq[r].opt /\ rq'[r].pc = "hook"
      /\ rq'[r].ev = e /\ rq'[r].err = rq[r].err
      /\ rq'[r].idx \in 0..Len(rq[r].cbs) /\ rq'[r].cbs = rq[r].cbs
      /\ \A i \in 1..Len(rq[r].cbs) : <<rq[r].cbs[i], e>> \in Hooks => i =< rq'[r].idx
  BY DEF Notifies, Calls
<1>2. ASSUME NEW cb, <<cb, e>> \in Hooks, Passed(rq'[r], cb) PROVE FALSE
  <2>1. PICK i \in 1..Len(rq[r].cbs) : i > rq'[r].idx /\ rq[r].cbs[i] = cb
    BY <1>1, <1>2 DEF Passed
  <2> QED
    BY <1>1, <1>2, <2>1
<1>3. \A cb : Includes(rq'[r], cb) <=> Includes(rq[r], cb)
  BY <1>1, SameIncludes
<1> QED
  BY <1>1, <1>2, <1>3

\* FinalizeDump begins before the callback of the GPU.
LEMMA FinalIs ==
    ASSUME Types, NEW r \in Requests, rq'[r].cbs = rq[r].cbs, rq'[r].ev = "finalize-dump",
           Calls(rq'[r], Len(rq[r].cbs))
    PROVE  /\ rq'[r].idx \in 0..Len(rq[r].cbs)
           /\ Includes(rq[r], "gpu") => Ahead(rq'[r], "gpu")
           /\ \A cb : Includes(rq'[r], cb) <=> Includes(rq[r], cb)
<1>1. /\ rq'[r].idx \in 0..Len(rq[r].cbs)
      /\ \A i \in 1..Len(rq[r].cbs) :
             <<rq[r].cbs[i], "finalize-dump">> \in Hooks => i =< rq'[r].idx
  BY DEF Calls
<1>2. <<"gpu", "finalize-dump">> \in Hooks
  BY DEF Hooks
<1>3. ASSUME Includes(rq[r], "gpu") PROVE Ahead(rq'[r], "gpu")
  <2>1. PICK i \in 1..Len(rq[r].cbs) : rq[r].cbs[i] = "gpu"
    BY <1>3 DEF Includes
  <2> QED
    BY <1>1, <1>2, <2>1 DEF Ahead
<1>4. \A cb : Includes(rq'[r], cb) <=> Includes(rq[r], cb)
  BY SameIncludes
<1> QED
  BY <1>1, <1>3, <1>4

\* After an error CRIU is cleaned up, or FinalizeDump called.
LEMMA RaisedIs ==
    ASSUME Types, NEW r \in Requests, Raised(r)
    PROVE  /\ rq'[r].opt = rq[r].opt /\ rq'[r].err /\ rq'[r].cbs = rq[r].cbs
           /\ rq[r].ev \in {"initialize-dump", "finalize-dump"} =>
                  rq'[r].pc = "cleanup" /\ rq'[r].ev = rq[r].ev
           /\ rq[r].ev \notin {"initialize-dump", "finalize-dump"} =>
                  /\ rq'[r].pc = "hook" /\ rq'[r].ev = "finalize-dump"
                  /\ rq'[r].idx \in 0..Len(rq[r].cbs)
                  /\ Includes(rq[r], "gpu") => Ahead(rq'[r], "gpu")
           /\ \A cb : Includes(rq'[r], cb) <=> Includes(rq[r], cb)
<1>1. \A cb : Includes(rq'[r], cb) <=> Includes(rq[r], cb)
  BY SameIncludes DEF Raised
<1> QED
  BY <1>1, FinalIs DEF Raised

\* FinalizeDump is called with the error of the request loop.
LEMMA FinalizesIs ==
    ASSUME Types, NEW r \in Requests, NEW failed, Finalizes(r, failed)
    PROVE  /\ rq'[r].opt = rq[r].opt /\ rq'[r].pc = "hook"
           /\ rq'[r].ev = "finalize-dump" /\ rq'[r].cbs = rq[r].cbs
           /\ rq'[r].err = (rq[r].err \/ failed) /\ rq'[r].criuErr = failed
           /\ rq'[r].idx \in 0..Len(rq[r].cbs)
           /\ Includes(rq[r], "gpu") => Ahead(rq'[r], "gpu")
           /\ \A cb : Includes(rq'[r], cb) <=> Includes(rq[r], cb)
<1>1. /\ rq'[r].opt = rq[r].opt /\ rq'[r].pc = "hook"
      /\ rq'[r].ev = "finalize-dump" /\ rq'[r].cbs = rq[r].cbs
      /\ rq'[r].err = (rq[r].err \/ failed) /\ rq'[r].criuErr = failed
      /\ Calls(rq'[r], Len(rq[r].cbs))
  BY DEF Finalizes
<1> QED
  BY <1>1, FinalIs, Zenon

\* The fields that tell where a handler and its compress are.
LEMMA FieldTypes ==
    ASSUME Types, NEW r \in Requests
    PROVE  /\ rq[r].pc \in Pcs /\ rq[r].ev \in Events
           /\ cz[r].at \in {"no", "create", "tar", "close", "ok", "error"}
           /\ cz[r].who \in {"none", "hook", "defer", "goroutine"} /\ cz[r].data \in Copies
<1>1. rq[r] \in RqRecord /\ cz[r] \in CzRecord
  BY DEF Types
<1>2. rq[r].pc \in Pcs /\ rq[r].ev \in Events
  BY <1>1 DEF RqRecord
<1> QED
  BY <1>1, <1>2 DEF CzRecord


\* A step of a request's handler, its compress, its CRIU, or its caller.
Step(r) == Handler(r) \/ Compress(r) \/ CRIU(r) \/ Cancel(r)

\* What a step of one request leaves to the others.
Untouched(k) ==
    /\ rq'[k] = rq[k] /\ images'[k] = images[k] /\ objects'[k] = objects[k]
    /\ criu'[k] = criu[k] /\ sent'[k] = sent[k] /\ cz'[k] = cz[k] /\ faults'[k] = faults[k]
    /\ attached' = attached
    /\ tracer' = k => tracer = k
    /\ killer' = k => killer = k
    /\ gpuLock' = k => gpuLock = k
    /\ k \in checkpoints' => k \in checkpoints

\* What a step of a request is to show.
Keeps(r) == Types' /\ (\A k \in Requests \ {r} : Untouched(k)) /\ Request(r)'

\* What the invariant says of a request that a step leaves alone stays true.
LEMMA UntouchedKept ==
    ASSUME NEW k \in Requests, Request(k), Untouched(k) PROVE Request(k)'
<1> USE DEF Untouched
<1>1. Control(k)'
  BY Zenon DEF Request, Control
<1>2. Included(k)'
  BY Zenon DEF Request, Included, Includes
<1>3. Contents(k)'
  <2>1. Contents(k)
    BY Zenon DEF Request
  <2>2. /\ rq'[k] = rq[k] /\ images'[k] = images[k] /\ sent'[k] = sent[k] /\ cz'[k] = cz[k]
        /\ attached' = attached
    OBVIOUS
  <2>3. (Ready(k)' <=> Ready(k)) /\ (GpuSaved(k)' <=> GpuSaved(k))
    BY <2>2, SameReady, Zenon
  <2> QED
    BY <2>1, <2>2, <2>3, ZenonT(60) DEF Contents
<1>4. Packer(k)'
  BY Zenon DEF Request, Packer, Passed
<1>5. Tarball(k)'
  BY DEF Request, Tarball
<1>6. Results(k)'
  BY DEF Request, Results, Kept
<1>7. Killed(k)'
  BY ZenonT(60) DEF Request, Killed
<1>8. Holds(k)'
  BY DEF Request, Holds, Includes
<1> QED
  BY <1>1, <1>2, <1>3, <1>4, <1>5, <1>6, <1>7, <1>8, Zenon DEF Request

\* What the kinds of options have to do with each other.
LEMMA OptionsAre ==
    ASSUME NEW o
    PROVE  /\ o.stream => ~Packs(o)
           /\ ~Packs(o) /\ ~o.stream => ~o.remote
           /\ HookPacks(o) <=> PacksNow(o) /\ ~o.leave
           /\ PacksNow(o) <=> Packs(o) /\ ~Async(o)
           /\ Async(o) => o.remote
           /\ Direct(o) <=> o.remote /\ ~Async(o)
  BY Zenon DEF Packs, HookPacks, PacksNow, Async, Direct

\* Control(r) stays true while the variables it is about keep their values.
LEMMA ControlFrame ==
    ASSUME NEW r \in Requests, Control(r), UNCHANGED <<rq, criu, sent>>
    PROVE  Control(r)'
  BY DEF Control, Before, After

\* Included(r) stays true while the variables it is about keep their values.
LEMMA IncludedFrame ==
    ASSUME NEW r \in Requests, Included(r), UNCHANGED <<rq, attached>>
    PROVE  Included(r)'
  BY DEF Included

\* Packer(r) stays true while the variables it is about keep their values.
LEMMA PackerFrame ==
    ASSUME NEW r \in Requests, Packer(r), UNCHANGED <<rq, cz>>
    PROVE  Packer(r)'
  BY DEF Packer, Before

\* Holds(r) stays true while the variables it is about keep their values.
LEMMA HoldsFrame ==
    ASSUME NEW r \in Requests, Holds(r), UNCHANGED <<rq, criu, tracer, gpuLock>>
    PROVE  Holds(r)'
  BY DEF Holds, Before, After

\* Contents(r) stays true while the variables it is about keep their values.
LEMMA ContentsFrame ==
    ASSUME NEW r \in Requests, Contents(r), UNCHANGED <<rq, images, sent, cz, attached>>
    PROVE  Contents(r)'
  BY ZenonT(60) DEF Contents, GpuSaved, Ready

\* Tarball(r) stays true while the variables it is about keep their values.
LEMMA TarballFrame ==
    ASSUME NEW r \in Requests, Tarball(r), UNCHANGED <<rq, cz, images, objects, faults, killer,
            attached>>
    PROVE  Tarball(r)'
  BY DEF Tarball

\* Results(r) stays true while the variables it is about keep their values.
LEMMA ResultsFrame ==
    ASSUME NEW r \in Requests, Results(r), UNCHANGED <<rq, cz, images, objects, faults,
            checkpoints, attached>>
    PROVE  Results(r)'
  BY DEF Results, Kept

\* Killed(r) stays true while the variables it is about keep their values.
LEMMA KilledFrame ==
    ASSUME NEW r \in Requests, Killed(r), UNCHANGED <<rq, cz, images, faults, criu, sent, killer,
            attached>>
    PROVE  Killed(r)'
  BY DEF Killed, Before

\* Enter keeps the invariant.
LEMMA EnterKeeps ==
    ASSUME IInv, NEW r \in Requests, Enter(r) PROVE Keeps(r)
<1>0. /\ Types /\ Included(r) /\ Control(r) /\ Contents(r) /\ Packer(r)
      /\ Tarball(r) /\ Results(r) /\ Killed(r) /\ Holds(r)
  BY DEF IInv, Request
<1> USE <1>0
<1>1. /\ rq[r].pc = "start" /\ Updated(r)
      /\ rq'[r].opt = rq[r].opt /\ rq'[r].cbs = rq[r].cbs /\ rq'[r].ev = rq[r].ev
      /\ \/ rq'[r].pc = "fs" /\ rq'[r].err = rq[r].err
         \/ rq'[r].pc = "done" /\ rq'[r].err
      /\ UNCHANGED <<tracer, killer, attached, gpuLock, images, objects, checkpoints, criu,
                     sent, cz, faults>>
  <2>1. "fs" \in Pcs /\ "done" \in Pcs
    BY DEF Pcs
  <2>2. /\ Fail(r, "done") => Updated(r) /\ Failed(r, "done")
        /\ Go(r, "fs") => Updated(r) /\ Moved(r, "fs")
    BY <2>1, GoStep, FailStep
  <2>3. UNCHANGED <<world, gpus, store, checkpoints, wire, cz, faults>>
    BY Zenon DEF Enter
  <2>4. UNCHANGED <<tracer, killer, attached, gpuLock, images, objects, checkpoints, criu, sent,
                    cz, faults>>
    BY <2>3 DEF world, gpus, store, wire
  <2> QED
    BY <2>4, <2>2, Zenon DEF Enter, At, Moved, Failed
<1>2. Types'
  BY <1>1 DEF Types, Updated
<1>3. \A k \in Requests \ {r} : Untouched(k)
  BY <1>1, DumpAssumption, Zenon DEF Untouched, Types, Updated
<1>4. Control(r)'
  BY <1>1, Zenon DEF Control, Before, After
<1>5. Included(r)'
  BY <1>1 DEF Included
<1>6. Packer(r)'
  BY <1>1, Zenon DEF Packer, Before
<1>7. Holds(r)'
  BY <1>1, DumpAssumption DEF Holds, Before, After, Includes
<1>8. Contents(r)'
  BY <1>1, Zenon DEF Contents, GpuSaved, Ready
<1>9. Tarball(r)'
  BY <1>1, Zenon DEF Tarball
<1>10. Results(r)'
  <2>1. /\ rq[r].pc \in {"start", "fs"} /\ checkpoints' = checkpoints
        /\ rq'[r].pc \in {"fs", "fill"} \/ (rq'[r].err /\ images' = images)
    BY <1>1, Zenon
  <2>2. images[r] = Absent
    BY <2>1, Zenon DEF Contents
  <2> QED
    BY <2>1, <2>2, Zenon DEF Results
<1>11. Killed(r)'
  BY <1>1, Zenon DEF Killed, Before
<1> QED
  BY <1>2, <1>3, <1>4, <1>5, <1>6, <1>7, <1>8, <1>9, <1>10, <1>11, ZenonT(60) DEF Keeps, Request

\* DumpFilesystem keeps the invariant.
LEMMA DumpFilesystemKeeps ==
    ASSUME IInv, NEW r \in Requests, DumpFilesystem(r) PROVE Keeps(r)
<1>0. /\ Types /\ Included(r) /\ Control(r) /\ Contents(r) /\ Packer(r)
      /\ Tarball(r) /\ Results(r) /\ Killed(r) /\ Holds(r)
  BY DEF IInv, Request
<1> USE <1>0
<1>1. /\ rq[r].pc = "fs" /\ ~rq[r].opt.stream
      /\ rq' \in [Requests -> RqRecord] /\ \A s \in Requests : s # r => rq'[s] = rq[s]
      /\ rq'[r].opt = rq[r].opt /\ rq'[r].ev = rq[r].ev
      /\ \/ /\ images' = [images EXCEPT ![r] = {}] /\ rq'[r].pc = "fill"
            /\ rq'[r].err = rq[r].err /\ rq'[r].cbs = HookList(rq[r].opt)
         \/ images' = images /\ rq'[r].pc = "managed" /\ rq'[r].err
      /\ UNCHANGED <<tracer, killer, attached, gpuLock, objects, checkpoints, criu, sent,
                     cz, faults>>
  <2>1. /\ rq[r].pc = "fs" /\ ~rq[r].opt.stream /\ rq[r].cbs = <<>>
        /\ UNCHANGED <<world, gpus, objects, checkpoints, wire, cz, faults>>
    BY Zenon DEF DumpFilesystem, Opt, At, Included
  <2>same. UNCHANGED <<tracer, killer, attached, gpuLock, objects, checkpoints, criu, sent, cz,
                       faults>>
    BY <2>1, Zenon DEF world, gpus, store, wire
  <2>2. \/ images' = [images EXCEPT ![r] = {}] /\ Include(r, HookList(rq[r].opt), "fill")
        \/ Fail(r, "managed") /\ images' = images
    BY HookListIs, Zenon DEF DumpFilesystem, Opt
  <2>3. CASE images' = [images EXCEPT ![r] = {}] /\ Include(r, HookList(rq[r].opt), "fill")
    <3>0. rq[r].cbs \o HookList(rq[r].opt) \in Lists /\ "fill" \in Pcs
      <4>1. HookList(rq[r].opt) \in {<<"compress">>, <<>>}
        BY HookListIs, Zenon
      <4>2. Len(<<"compress">>) =< 4 /\ Len(<<>>) =< 4
        OBVIOUS
      <4>3. rq[r].cbs \o HookList(rq[r].opt) = HookList(rq[r].opt)
        BY <2>1, HookListIs, Zenon
      <4>4. HookList(rq[r].opt) \in Lists
        BY <4>1, <4>2, HookListIs, Zenon DEF Lists
      <4> QED
        BY <4>3, <4>4, Zenon DEF Pcs
    <3>1. /\ rq' \in [Requests -> RqRecord] /\ \A s \in Requests : s # r => rq'[s] = rq[s]
          /\ rq'[r].opt = rq[r].opt /\ rq'[r].cbs = rq[r].cbs \o HookList(rq[r].opt)
          /\ rq'[r].pc = "fill" /\ rq'[r].err = rq[r].err /\ rq'[r].ev = rq[r].ev
      <4> DEFINE c == HookList(rq[r].opt)
      <4>1. rq[r].cbs \o c \in Lists /\ "fill" \in Pcs /\ Include(r, c, "fill")
        BY <2>3, <3>0, ZenonT(60)
      <4> HIDE DEF c
      <4>2. /\ rq' \in [Requests -> RqRecord] /\ \A s \in Requests : s # r => rq'[s] = rq[s]
            /\ rq'[r].opt = rq[r].opt /\ rq'[r].cbs = rq[r].cbs \o c
            /\ rq'[r].pc = "fill" /\ rq'[r].err = rq[r].err /\ rq'[r].ev = rq[r].ev
        BY <4>1, IncludeFields
      <4> QED
        BY <4>2, Zenon DEF c
    <3>2. rq'[r].cbs = HookList(rq[r].opt)
      BY <2>1, <3>1, HookListIs, Zenon
    <3> QED
      BY <2>1, <2>same, <2>3, <3>1, <3>2, Zenon
  <2>4. CASE Fail(r, "managed") /\ images' = images
    <3>1. /\ rq' \in [Requests -> RqRecord] /\ \A s \in Requests : s # r => rq'[s] = rq[s]
          /\ rq'[r].opt = rq[r].opt /\ rq'[r].pc = "managed" /\ rq'[r].err
          /\ rq'[r].ev = rq[r].ev
      BY <2>4, FailFields, Zenon DEF Pcs, Same
    <3> QED
      BY <2>1, <2>same, <2>4, <3>1, Zenon
  <2> QED
    BY <2>2, <2>3, <2>4
<1>2. Types'
  <2>1. images' = images \/ images' = [images EXCEPT ![r] = {}]
    BY <1>1, Zenon
  <2>2. images' \in [Requests -> Copies]
    <3>1. images \in [Requests -> Copies]
      BY DEF Types
    <3> QED
      BY <3>1, <2>1, <1>1, CopiesAre, Zenon
  <2>3. rq' \in [Requests -> RqRecord] /\ UNCHANGED <<attached, objects, criu, sent, cz>>
    BY <1>1, Zenon DEF Updated
  <2>4. faults' \in [Requests -> SUBSET {"state", "flush", "pack", "reap", "cut", "streamer"}]
    BY <1>1 DEF Types
  <2> QED
    BY <2>2, <2>3, <2>4 DEF Types
<1>3. \A k \in Requests \ {r} : Untouched(k)
  BY <1>1, DumpAssumption DEF Untouched, Types, Updated
<1>4. Control(r)'
  BY <1>1, Zenon DEF Control, Before, After
<1>5. Included(r)'
  BY <1>1, Zenon DEF Included, HookList
<1>6. Packer(r)'
  BY <1>1, Zenon DEF Packer, Before
<1>7. Holds(r)'
  BY <1>1, DumpAssumption, Zenon DEF Holds, Before, After
<1>8. Contents(r)'
  <2>1. /\ rq'[r].pc \in {"fill", "managed"} /\ sent'[r] = "none"
        /\ rq'[r].pc = "fill" => images'[r] = {}
    BY <1>1, Zenon DEF Types, Control
  <2> QED
    BY <2>1, Zenon DEF Contents
<1>9. Tarball(r)'
  <2>1. cz'[r].at = "no"
    BY <1>1, Zenon DEF Packer, Before
  <2> QED
    BY <2>1, Zenon DEF Tarball
<1>10. Results(r)'
  <2>1. /\ rq[r].pc \in {"start", "fs"} /\ checkpoints' = checkpoints
        /\ rq'[r].pc \in {"fs", "fill"} \/ (rq'[r].err /\ images' = images)
    BY <1>1 DEF Types
  <2>2. images[r] = Absent
    BY <2>1 DEF Contents
  <2> QED
    BY <2>1, <2>2, Zenon DEF Results
<1>11. Killed(r)'
  BY <1>1, ZenonT(60) DEF Killed, Before, Types
<1> QED
  BY <1>2, <1>3, <1>4, <1>5, <1>6, <1>7, <1>8, <1>9, <1>10, <1>11, Zenon DEF Keeps, Request

\* StreamDumpFilesystem keeps the invariant.
LEMMA StreamDumpFilesystemKeeps ==
    ASSUME IInv, NEW r \in Requests, StreamDumpFilesystem(r) PROVE Keeps(r)
<1>0. /\ Types /\ Included(r) /\ Control(r) /\ Contents(r) /\ Packer(r)
      /\ Tarball(r) /\ Results(r) /\ Killed(r) /\ Holds(r)
  BY DEF IInv, Request
<1> USE <1>0
<1>1. /\ rq[r].pc = "fs" /\ rq[r].opt.stream /\ Updated(r)
      /\ rq'[r].opt = rq[r].opt /\ rq'[r].cbs = rq[r].cbs /\ rq'[r].ev = rq[r].ev
      /\ \/ images' = [images EXCEPT ![r] = {}] /\ rq'[r].pc = "fill" /\ rq'[r].err = rq[r].err
         \/ rq'[r].pc = "managed" /\ rq'[r].err /\ images' = images
      /\ UNCHANGED <<tracer, killer, attached, gpuLock, objects, checkpoints, criu, sent,
                     cz, faults>>
  <2>1. "fill" \in Pcs /\ "managed" \in Pcs
    BY DEF Pcs
  <2>2. /\ Fail(r, "managed") => Updated(r) /\ Failed(r, "managed")
        /\ Go(r, "fill") => Updated(r) /\ Moved(r, "fill")
    BY <2>1, GoStep, FailStep
  <2>3. UNCHANGED <<world, gpus, objects, checkpoints, wire, cz, faults>>
    BY Zenon DEF StreamDumpFilesystem, Opt
  <2>4. UNCHANGED <<tracer, killer, attached, gpuLock, objects, checkpoints, criu, sent, cz,
                    faults>>
    BY <2>3 DEF world, gpus, store, wire
  <2> QED
    BY <2>4, <2>2, Zenon DEF StreamDumpFilesystem, Opt, At, Moved, Failed
<1>2. Types'
  <2>1. images' = images \/ images' = [images EXCEPT ![r] = {}]
    BY <1>1
  <2>2. images' \in [Requests -> Copies]
    <3>1. images \in [Requests -> Copies]
      BY DEF Types
    <3> QED
      BY <3>1, <2>1, <1>1, CopiesAre, Zenon
  <2>3. rq' \in [Requests -> RqRecord] /\ UNCHANGED <<attached, objects, criu, sent, cz>>
    BY <1>1, Zenon DEF Updated
  <2>4. faults' \in [Requests -> SUBSET {"state", "flush", "pack", "reap", "cut", "streamer"}]
    BY <1>1 DEF Types
  <2> QED
    BY <2>2, <2>3, <2>4 DEF Types
<1>3. \A k \in Requests \ {r} : Untouched(k)
  BY <1>1, DumpAssumption DEF Untouched, Types, Updated
<1>4. Control(r)'
  BY <1>1, Zenon DEF Control, Before, After
<1>5. Included(r)'
  BY <1>1, Zenon DEF Included, HookPacks, PacksNow, Packs
<1>6. Packer(r)'
  BY <1>1, Zenon DEF Packer, Before
<1>7. Holds(r)'
  BY <1>1, DumpAssumption, Zenon DEF Holds, Before, After, Includes
<1>8. Contents(r)'
  <2>1. /\ rq'[r].pc \in {"fill", "managed"} /\ sent'[r] = "none"
        /\ rq'[r].pc = "fill" => images'[r] = {}
    BY <1>1, Zenon DEF Types, Control
  <2> QED
    BY <2>1, Zenon DEF Contents
<1>9. Tarball(r)'
  <2>1. cz'[r].at = "no"
    BY <1>1, ZenonT(60) DEF Packer, Before
  <2> QED
    BY <2>1 DEF Tarball
<1>10. Results(r)'
  <2>1. /\ rq[r].pc \in {"start", "fs"} /\ checkpoints' = checkpoints
        /\ rq'[r].pc \in {"fs", "fill"} \/ (rq'[r].err /\ images' = images)
    BY <1>1
  <2>2. images[r] = Absent
    BY <2>1 DEF Contents
  <2> QED
    BY <2>1, <2>2 DEF Results
<1>11. Killed(r)'
  BY <1>1, ZenonT(60) DEF Killed, Before, Types
<1> QED
  BY <1>2, <1>3, <1>4, <1>5, <1>6, <1>7, <1>8, <1>9, <1>10, <1>11 DEF Keeps, Request

\* FillProcessStateForDump keeps the invariant.
LEMMA FillProcessStateForDumpKeeps ==
    ASSUME IInv, NEW r \in Requests, FillProcessStateForDump(r) PROVE Keeps(r)
<1>0. /\ Types /\ Included(r) /\ Control(r) /\ Contents(r) /\ Packer(r)
      /\ Tarball(r) /\ Results(r) /\ Killed(r) /\ Holds(r)
  BY DEF IInv, Request
<1> USE <1>0
<1>1. /\ rq[r].pc = "fill"
      /\ rq' \in [Requests -> RqRecord] /\ \A s \in Requests : s # r => rq'[s] = rq[s]
      /\ rq'[r].opt = rq[r].opt /\ rq'[r].ev = rq[r].ev
      /\ \/ /\ rq'[r].pc = "save" /\ rq'[r].err = rq[r].err
            /\ attached => Includes(rq'[r], "gpu")
            /\ HookPacks(rq[r].opt) <=> Includes(rq'[r], "compress")
         \/ rq'[r].pc = "defer" /\ rq'[r].err
      /\ UNCHANGED <<tracer, killer, attached, gpuLock, images, objects, checkpoints, criu,
                     sent, cz, faults>>
  <2> DEFINE c == <<"external-files">> \o GPUCallbacks
             d == HookList(rq[r].opt) \o c
  <2>1. /\ rq[r].pc = "fill" /\ rq[r].cbs = HookList(rq[r].opt)
        /\ UNCHANGED <<world, gpus, store, checkpoints, wire, cz, faults>>
    BY Zenon DEF FillProcessStateForDump, Opt, At, Included, HookList
  <2>same. UNCHANGED <<tracer, killer, attached, gpuLock, images, objects, checkpoints, criu, sent,
                       cz, faults>>
    BY <2>1 DEF world, gpus, store, wire
  <2>2. Include(r, c, "save") \/ Fail(r, "defer")
    BY Zenon DEF FillProcessStateForDump, Opt
  <2>3. /\ d \in Lists
        /\ attached => Occurs("gpu", d)
        /\ HookPacks(rq[r].opt) <=> Occurs("compress", d)
    BY FillListIs, Zenon
  <2>4. d = HookList(rq[r].opt) \o c
    OBVIOUS
  <2> HIDE DEF c, d
  <2>5. CASE Include(r, c, "save")
    <3>1. /\ rq' \in [Requests -> RqRecord] /\ \A s \in Requests : s # r => rq'[s] = rq[s]
          /\ rq'[r].opt = rq[r].opt /\ rq'[r].cbs = rq[r].cbs \o c
          /\ rq'[r].pc = "save" /\ rq'[r].err = rq[r].err /\ rq'[r].ev = rq[r].ev
      BY <2>1, <2>3, <2>4, <2>5, IncludeFields, Zenon DEF Pcs
    <3>2. rq'[r].cbs = d
      BY <2>1, <2>4, <3>1, Zenon
    <3> QED
      BY <2>1, <2>same, <2>3, <3>1, <3>2, Zenon DEF Includes, Occurs
  <2>6. CASE Fail(r, "defer")
    <3>1. /\ rq' \in [Requests -> RqRecord] /\ \A s \in Requests : s # r => rq'[s] = rq[s]
          /\ rq'[r].opt = rq[r].opt /\ rq'[r].pc = "defer" /\ rq'[r].err
          /\ rq'[r].ev = rq[r].ev
      BY <2>6, FailFields, Zenon DEF Pcs, Same
    <3> QED
      BY <2>1, <2>same, <3>1, Zenon
  <2> QED
    BY <2>2, <2>5, <2>6, Zenon
<1>2. Types'
  BY <1>1 DEF Types, Updated
<1>3. \A k \in Requests \ {r} : Untouched(k)
  BY <1>1, DumpAssumption DEF Untouched, Types, Updated
<1>4. Control(r)'
  BY <1>1, Zenon DEF Control, Before, After
<1>5. Included(r)'
  BY <1>1, Zenon DEF Included
<1>6. Packer(r)'
  BY <1>1, Zenon DEF Packer, Before
<1>7. Holds(r)'
  BY <1>1, DumpAssumption, Zenon DEF Holds, Before, After
<1>8. Contents(r)'
  BY <1>1, Zenon DEF Contents, GpuSaved, Ready
<1>9. Tarball(r)'
  BY <1>1, Zenon DEF Tarball
<1>10. Results(r)'
  BY <1>1, Zenon DEF Results, Kept
<1>11. Killed(r)'
  BY <1>1, ZenonT(60) DEF Killed, Before
<1> QED
  BY <1>2, <1>3, <1>4, <1>5, <1>6, <1>7, <1>8, <1>9, <1>10, <1>11 DEF Keeps, Request

\* SaveProcessStateForDump keeps the invariant.
LEMMA SaveProcessStateForDumpKeeps ==
    ASSUME IInv, NEW r \in Requests, SaveProcessStateForDump(r) PROVE Keeps(r)
<1>0. /\ Types /\ Included(r) /\ Control(r) /\ Contents(r) /\ Packer(r)
      /\ Tarball(r) /\ Results(r) /\ Killed(r) /\ Holds(r)
  BY DEF IInv, Request
<1> USE <1>0
<1>1. /\ rq[r].pc = "save" /\ Updated(r)
      /\ rq'[r].opt = rq[r].opt /\ rq'[r].cbs = rq[r].cbs /\ rq'[r].ev = rq[r].ev
      /\ rq'[r].pc = "prepare" /\ rq'[r].err = rq[r].err
      /\ \/ images' = [images EXCEPT ![r] = images[r] \cup {"state"}] /\ faults' = faults
         \/ faults' = [faults EXCEPT ![r] = faults[r] \cup {"state"}] /\ images' = images
      /\ UNCHANGED <<tracer, killer, attached, gpuLock, objects, checkpoints, criu, sent,
                     cz>>
  <2>1. "prepare" \in Pcs
    BY DEF Pcs
  <2>2. Go(r, "prepare") => Updated(r) /\ Moved(r, "prepare")
    BY <2>1, GoStep
  <2>3. UNCHANGED <<world, gpus, objects, checkpoints, wire, cz>>
    BY Zenon DEF SaveProcessStateForDump
  <2>4. UNCHANGED <<tracer, killer, attached, gpuLock, objects, checkpoints, criu, sent, cz>>
    BY <2>3 DEF world, gpus, store, wire
  <2> QED
    BY <2>4, <2>2, Zenon DEF SaveProcessStateForDump, At, Moved
<1>2. Types'
  <2>1. images[r] \cup {"state"} \in Copies
    <3>1. rq[r].pc = "save"
      BY <1>1
    <3>2. images[r] \subseteq Parts
      BY <3>1, Zenon DEF Contents, Packer, Before
    <3> QED
      BY <3>2, CopiesAre, ZenonT(60) DEF Parts
  <2>2. images' \in [Requests -> Copies]
    <3>1. images \in [Requests -> Copies]
      BY DEF Types
    <3> QED
      BY <3>1, <2>1, <1>1, Zenon
  <2>3. rq' \in [Requests -> RqRecord] /\ UNCHANGED <<attached, objects, criu, sent, cz>>
    BY <1>1, Zenon DEF Updated
  <2>4. faults' \in [Requests -> SUBSET {"state", "flush", "pack", "reap", "cut", "streamer"}]
    BY <1>1, FaultFields, Zenon DEF Types
  <2> QED
    BY <2>2, <2>3, <2>4 DEF Types
<1>3. \A k \in Requests \ {r} : Untouched(k)
  BY <1>1, DumpAssumption DEF Untouched, Types, Updated
<1>4. Control(r)'
  BY <1>1, Zenon DEF Control, Before, After
<1>5. Included(r)'
  BY <1>1, ZenonT(60) DEF Included, Includes
<1>6. Packer(r)'
  BY <1>1, Zenon DEF Packer, Before
<1>7. Holds(r)'
  BY <1>1, DumpAssumption, Zenon DEF Holds, Before, After, Includes
<1>8. Contents(r)'
  <2>1. /\ rq[r].pc = "save" /\ rq'[r].pc = "prepare" /\ sent'[r] = "none" /\ cz' = cz
        /\ images'[r] = images[r] \/ images'[r] = images[r] \cup {"state"}
    BY <1>1, Zenon DEF Types, Control
  <2>2. images[r] \subseteq Parts
    BY <2>1, Zenon DEF Contents, Packer, Before
  <2> QED
    BY <2>1, <2>2, Zenon DEF Contents, Parts
<1>9. Tarball(r)'
  <2>1. cz'[r].at = "no"
    BY <1>1, Zenon DEF Packer, Before
  <2> QED
    BY <2>1 DEF Tarball
<1>10. Results(r)'
  BY <1>1, Zenon DEF Results, Kept, Types
<1>11. Killed(r)'
  BY <1>1, ZenonT(60) DEF Killed, Before, Types
<1> QED
  BY <1>2, <1>3, <1>4, <1>5, <1>6, <1>7, <1>8, <1>9, <1>10, <1>11 DEF Keeps, Request

\* Prepare keeps the invariant.
LEMMA PrepareKeeps ==
    ASSUME IInv, NEW r \in Requests, Prepare(r) PROVE Keeps(r)
<1>0. /\ Types /\ Included(r) /\ Control(r) /\ Contents(r) /\ Packer(r)
      /\ Tarball(r) /\ Results(r) /\ Killed(r) /\ Holds(r)
  BY DEF IInv, Request
<1> USE <1>0
<1>1. /\ rq[r].pc = "prepare" /\ Updated(r)
      /\ \/ criu' = [criu EXCEPT ![r] = "idle"] /\ Notifies(r, "initialize-dump")
         \/ /\ rq'[r].pc = "defer" /\ rq'[r].err
            /\ rq'[r].opt = rq[r].opt /\ rq'[r].cbs = rq[r].cbs /\ rq'[r].ev = rq[r].ev
            /\ criu' = criu
      /\ UNCHANGED <<tracer, killer, attached, gpuLock, images, objects, checkpoints, sent,
                     cz, faults>>
  <2>1. /\ rq[r].pc = "prepare"
        /\ \/ /\ criu' = [criu EXCEPT ![r] = "idle"]
              /\ rq' = [rq EXCEPT ![r] = Notify(rq[r], "initialize-dump")]
           \/ Fail(r, "defer") /\ criu' = criu
        /\ UNCHANGED <<world, gpus, store, checkpoints, sent, cz, faults>>
    BY Zenon DEF Prepare, At
  <2>2. "initialize-dump" \in Events /\ "defer" \in Pcs
    BY DEF Events, Pcs
  <2>3. UNCHANGED <<tracer, killer, attached, gpuLock, images, objects, checkpoints, sent, cz,
                    faults>>
    BY <2>1 DEF world, gpus, store, wire
  <2> QED
    BY <2>3, <2>1, <2>2, NotifyStep, FailStep, Zenon DEF Failed
<1>2. Types'
  BY <1>1 DEF Types, Updated, CriuPhases
<1>3. \A k \in Requests \ {r} : Untouched(k)
  BY <1>1, DumpAssumption, Zenon DEF Untouched, Types, Updated
<1>4. Control(r)'
  BY <1>1, NotifiesIs DEF Control, Before, After, Types, PhaseOf, Events
<1>5. Included(r)'
  BY <1>1, NotifiesIs, Zenon DEF Included
<1>6. Packer(r)'
  <2>1. cz[r].at = "no" /\ cz' = cz
    BY <1>1, Zenon DEF Packer, Before
  <2>2. \/ rq'[r].pc = "hook" /\ rq'[r].ev = "initialize-dump"
        \/ rq'[r].pc = "defer" /\ rq'[r].err
    BY <1>1, NotifiesIs, Zenon
  <2> QED
    BY <2>1, <2>2, Zenon DEF Packer, Before
<1>7. Holds(r)'
  BY <1>1, NotifiesIs, DumpAssumption, Zenon DEF Holds, Before, After, Types, Control
<1>8. Contents(r)'
  <2>1. /\ cz[r].at = "no" /\ images[r] \subseteq Parts
        /\ UNCHANGED <<attached, images, sent, cz>>
    BY <1>1, Zenon DEF Packer, Before, Contents
  <2>2. \/ rq'[r].pc = "hook" /\ rq'[r].ev = "initialize-dump"
        \/ rq'[r].pc = "defer" /\ rq'[r].err
    BY <1>1, NotifiesIs, Zenon
  <2> QED
    BY <2>1, <2>2, Zenon DEF Contents
<1>9. Tarball(r)'
  BY <1>1, NotifiesIs, Zenon DEF Tarball
<1>10. Results(r)'
  BY <1>1, NotifiesIs, Zenon DEF Results, Kept
<1>11. Killed(r)'
  BY <1>1, NotifiesIs, ZenonT(60) DEF Killed, Before, Types
<1> QED
  BY <1>2, <1>3, <1>4, <1>5, <1>6, <1>7, <1>8, <1>9, <1>10, <1>11 DEF Keeps, Request

\* Notified keeps the invariant.
LEMMA NotifiedKeeps ==
    ASSUME IInv, NEW r \in Requests, Notified(r) PROVE Keeps(r)
<1>0. /\ Types /\ Included(r) /\ Control(r) /\ Contents(r) /\ Packer(r)
      /\ Tarball(r) /\ Results(r) /\ Killed(r) /\ Holds(r)
  BY DEF IInv, Request
<1> USE <1>0
<1>1. /\ rq[r].pc = "hook" /\ rq[r].idx = 0 /\ Updated(r)
      /\ rq'[r].opt = rq[r].opt /\ rq'[r].cbs = rq[r].cbs /\ rq'[r].ev = rq[r].ev
      /\ rq[r].ev = "finalize-dump" => rq'[r].pc = "cleanup" /\ rq'[r].err = rq[r].err
      /\ rq[r].ev # "finalize-dump" => rq'[r].pc = "recv" /\ rq'[r].err = rq[r].err
      /\ criu' = [criu EXCEPT ![r] = IF rq[r].ev = "initialize-dump" /\ criu[r] = "idle"
                                     THEN "pre-dump" ELSE criu[r]]
      /\ UNCHANGED <<tracer, killer, attached, gpuLock, images, objects, checkpoints, sent,
                     cz, faults>>
  <2>1. "cleanup" \in Pcs /\ "recv" \in Pcs
    BY DEF Pcs
  <2>2. /\ Go(r, "cleanup") => Updated(r) /\ Moved(r, "cleanup")
        /\ Go(r, "recv") => Updated(r) /\ Moved(r, "recv")
    BY <2>1, GoStep
  <2>3. UNCHANGED <<world, gpus, store, checkpoints, sent, cz, faults>>
    BY Zenon DEF Notified
  <2>4. UNCHANGED <<tracer, killer, attached, gpuLock, images, objects, checkpoints, sent, cz,
                    faults>>
    BY <2>3 DEF world, gpus, store, wire
  <2> QED
    BY <2>4, <2>2, Zenon DEF Notified, At, Moved
<1>2. Types'
  BY <1>1, Zenon DEF Types, Updated, CriuPhases
<1>3. \A k \in Requests \ {r} : Untouched(k)
  BY <1>1, DumpAssumption, Zenon DEF Untouched, Types, Updated
<1>4. Control(r)'
  BY <1>1 DEF Control, Before, After, Types, PhaseOf, Events
<1>5. Included(r)'
  BY <1>1, ZenonT(60) DEF Included, Includes
<1>6. Packer(r)'
  <2>1. /\ rq[r].pc = "hook" /\ rq[r].idx = 0 /\ cz' = cz
        /\ rq'[r].opt = rq[r].opt /\ rq'[r].ev = rq[r].ev
        /\ rq'[r].pc = "recv" \/ rq'[r].pc = "cleanup"
    BY <1>1, Zenon
  <2>2. ~(rq[r].idx > 0)
    BY <2>1
  <2>3. ~(cz[r].at \in {"create", "tar", "close"} /\ cz[r].who = "hook")
    BY <2>2, Zenon DEF Packer
  <2> QED
    BY <2>1, <2>3, Zenon DEF Packer, Before
<1>7. Holds(r)'
  BY <1>1, AllPassed, DumpAssumption, Zenon DEF Holds, Before, After, Types, Includes
<1>8. Contents(r)'
  <2>1. /\ rq[r].pc = "hook" /\ rq[r].idx = 0 /\ UNCHANGED <<attached, images, sent, cz>>
        /\ rq'[r].opt = rq[r].opt /\ rq'[r].ev = rq[r].ev /\ rq'[r].err = rq[r].err
        /\ rq'[r].pc = IF rq[r].ev = "finalize-dump" THEN "cleanup" ELSE "recv"
        /\ sent[r] = "none"
    BY <1>1, Zenon DEF Control
  <2>2. rq[r].ev = "pre-dump" => GpuSaved(r)
    BY <2>1, AllPassed, Zenon DEF Included, Contents, GpuSaved
  <2>3. rq[r].ev = "post-dump" => Ready(r)
    BY <2>1, AllPassed, Zenon DEF Included, Contents, Packer, Ready
  <2> QED
    BY <2>1, <2>2, <2>3, Zenon DEF Contents, GpuSaved, Ready
<1>9. Tarball(r)'
  BY <1>1, Zenon DEF Tarball
<1>10. Results(r)'
  BY <1>1, Zenon DEF Results, Kept
<1>11. Killed(r)'
  BY <1>1, ZenonT(60) DEF Killed, Before, Types
<1> QED
  BY <1>2, <1>3, <1>4, <1>5, <1>6, <1>7, <1>8, <1>9, <1>10, <1>11 DEF Keeps, Request

\* Receive keeps the invariant.
LEMMA ReceiveKeeps ==
    ASSUME IInv, NEW r \in Requests, Receive(r) PROVE Keeps(r)
<1>0. /\ Types /\ Included(r) /\ Control(r) /\ Contents(r) /\ Packer(r)
      /\ Tarball(r) /\ Results(r) /\ Killed(r) /\ Holds(r)
  BY DEF IInv, Request
<1> USE <1>0
<1>1. /\ rq[r].pc = "recv" /\ (sent[r] # "none" \/ criu[r] = "off") /\ Updated(r)
      /\ sent[r] \in Events => Notifies(r, sent[r])
      /\ sent[r] \notin Events /\ sent[r] = "success" => Finalizes(r, FALSE)
      /\ sent[r] \notin Events /\ sent[r] # "success" => Finalizes(r, TRUE)
      /\ sent' = [sent EXCEPT ![r] = "none"]
      /\ UNCHANGED <<tracer, killer, attached, gpuLock, images, objects, checkpoints, criu,
                     cz, faults>>
  <2>1. /\ rq[r].pc = "recv" /\ (sent[r] # "none" \/ criu[r] = "off")
        /\ sent' = [sent EXCEPT ![r] = "none"]
        /\ UNCHANGED <<world, gpus, store, checkpoints, criu, cz, faults>>
    BY Zenon DEF Receive, At
  <2>same. UNCHANGED <<tracer, killer, attached, gpuLock, images, objects, checkpoints, criu, cz,
                       faults>>
    BY <2>1, Zenon DEF world, gpus, store, wire
  <2>2. CASE sent[r] \in Events
    <3>1. rq' = [rq EXCEPT ![r] = Notify(rq[r], sent[r])]
      BY <2>2, Zenon DEF Receive
    <3> QED
      BY <2>1, <2>same, <2>2, <3>1, NotifyStep, Zenon
  <2>3. CASE sent[r] \notin Events /\ sent[r] = "success"
    <3>1. rq' = [rq EXCEPT ![r] = Finalize(rq[r], FALSE)]
      <4>1. (sent[r] # "success") = FALSE
        BY <2>3
      <4>2. rq' = [rq EXCEPT ![r] = Finalize(rq[r], sent[r] # "success")]
        BY <2>3, Zenon DEF Receive
      <4> QED
        BY <4>1, <4>2, Zenon
    <3> QED
      BY <2>1, <2>same, <2>3, <3>1, FinalizeStep, Zenon
  <2>4. CASE sent[r] \notin Events /\ sent[r] # "success"
    <3>1. rq' = [rq EXCEPT ![r] = Finalize(rq[r], TRUE)]
      <4>1. (sent[r] # "success") = TRUE
        BY <2>4
      <4>2. rq' = [rq EXCEPT ![r] = Finalize(rq[r], sent[r] # "success")]
        BY <2>4, Zenon DEF Receive
      <4> QED
        BY <4>1, <4>2, Zenon
    <3> QED
      BY <2>1, <2>same, <2>4, <3>1, FinalizeStep, Zenon
  <2> QED
    BY <2>2, <2>3, <2>4, Zenon
<1>2. Types'
  BY <1>1 DEF Types, Updated
<1>3. \A k \in Requests \ {r} : Untouched(k)
  <2>1. /\ Updated(r) /\ sent' = [sent EXCEPT ![r] = "none"]
        /\ UNCHANGED <<images, objects, attached, gpuLock, tracer, killer, checkpoints, criu, cz, faults>>
    BY <1>1, Zenon
  <2> QED
    BY <2>1 DEF Untouched, Types, Updated
<1>4. Control(r)'
  <2>1. /\ rq[r].pc = "recv" /\ (sent[r] # "none" \/ criu[r] = "off")
        /\ sent'[r] = "none" /\ UNCHANGED <<images, objects, attached, gpuLock, tracer, killer, checkpoints, criu, cz, faults>>
    <3>1. /\ rq[r].pc = "recv" /\ (sent[r] # "none" \/ criu[r] = "off")
          /\ sent' = [sent EXCEPT ![r] = "none"]
          /\ UNCHANGED <<images, objects, attached, gpuLock, tracer, killer, checkpoints, criu, cz, faults>>
      BY <1>1, Zenon
    <3> QED
      BY <3>1 DEF Types
  <2>2. CASE sent[r] \in Events
    <3>1. Notifies(r, sent[r])
      BY <2>2, <1>1, Zenon
    <3> QED
      BY <2>1, <2>2, <3>1, NotifiesIs DEF Control, Before, After, PhaseOf, Events
  <2>3. CASE sent[r] \notin Events /\ sent[r] = "success"
    <3>1. Finalizes(r, FALSE)
      BY <2>3, <1>1, Zenon
    <3> QED
      BY <2>1, <2>3, <3>1, FinalizesIs, Zenon DEF Control, Before, After, PhaseOf, Events
  <2>4. CASE sent[r] \notin Events /\ sent[r] # "success"
    <3>1. Finalizes(r, TRUE)
      BY <2>4, <1>1, Zenon
    <3> QED
      BY <2>1, <2>4, <3>1, FinalizesIs, Zenon DEF Control, Before, After, PhaseOf, Events
  <2> QED
    BY <2>2, <2>3, <2>4
<1>5. Included(r)'
  BY <1>1, NotifiesIs, FinalizesIs, Zenon DEF Included
<1>6. Packer(r)'
  <2>1. /\ rq[r].pc = "recv" /\ (sent[r] # "none" \/ criu[r] = "off")
        /\ sent'[r] = "none" /\ UNCHANGED <<images, objects, attached, gpuLock, tracer, killer, checkpoints, criu, cz, faults>>
    <3>1. /\ rq[r].pc = "recv" /\ (sent[r] # "none" \/ criu[r] = "off")
          /\ sent' = [sent EXCEPT ![r] = "none"]
          /\ UNCHANGED <<images, objects, attached, gpuLock, tracer, killer, checkpoints, criu, cz, faults>>
      BY <1>1, Zenon
    <3> QED
      BY <3>1 DEF Types
  <2>2. CASE sent[r] \in Events
    <3>1. Notifies(r, sent[r])
      BY <2>2, <1>1, Zenon
    <3>2. /\ rq[r].ev \in {"initialize-dump", "pre-dump", "query-ext-files"}
          /\ sent[r] \in {"pre-dump", "query-ext-files", "post-dump"}
      BY <2>2, Zenon DEF Control
    <3>3. cz[r].at = "no"
      BY <2>1, <3>2, Zenon DEF Packer
    <3>4. <<"compress", "post-dump">> \in Hooks
      BY DEF Hooks
    <3>5. /\ rq'[r].pc = "hook" /\ rq'[r].ev = sent[r]
          /\ ~(rq'[r].ev = "post-dump" /\ Passed(rq'[r], "compress"))
      BY <3>1, <3>4, NotifiesIs, Zenon
    <3> QED
      BY <2>1, <3>2, <3>3, <3>5, Zenon DEF Packer, Before
  <2>3. CASE sent[r] \notin Events /\ sent[r] = "success"
    <3>1. Finalizes(r, FALSE)
      BY <2>3, <1>1, Zenon
    <3> QED
      BY <2>1, <2>3, <3>1, FinalizesIs, Zenon DEF Packer, Control, Before, Events
  <2>4. CASE sent[r] \notin Events /\ sent[r] # "success"
    <3>1. Finalizes(r, TRUE)
      BY <2>4, <1>1, Zenon
    <3> QED
      BY <2>1, <2>4, <3>1, FinalizesIs, ZenonT(60) DEF Packer, Control, Before, Events
  <2> QED
    BY <2>2, <2>3, <2>4
<1>7. Holds(r)'
  <2>1. /\ rq[r].pc = "recv" /\ (sent[r] # "none" \/ criu[r] = "off")
        /\ sent'[r] = "none" /\ UNCHANGED <<images, objects, attached, gpuLock, tracer, killer, checkpoints, criu, cz, faults>>
    <3>1. /\ rq[r].pc = "recv" /\ (sent[r] # "none" \/ criu[r] = "off")
          /\ sent' = [sent EXCEPT ![r] = "none"]
          /\ UNCHANGED <<images, objects, attached, gpuLock, tracer, killer, checkpoints, criu, cz, faults>>
      BY <1>1, Zenon
    <3> QED
      BY <3>1 DEF Types
  <2>2. CASE sent[r] \in Events
    <3>1. Notifies(r, sent[r])
      BY <2>2, <1>1, Zenon
    <3> QED
      BY <2>1, <2>2, <3>1, NotifiesIs, Zenon DEF Holds, Control, Before, After, Events
  <2>3. CASE sent[r] \notin Events /\ sent[r] = "success"
    <3>1. Finalizes(r, FALSE)
      BY <2>3, <1>1, Zenon
    <3> QED
      BY <2>1, <2>3, <3>1, FinalizesIs, Zenon DEF Holds, Control, Before, After, Events
  <2>4. CASE sent[r] \notin Events /\ sent[r] # "success"
    <3>1. Finalizes(r, TRUE)
      BY <2>4, <1>1, Zenon
    <3> QED
      BY <2>1, <2>4, <3>1, FinalizesIs, Zenon DEF Holds, Control, Before, After, Events
  <2> QED
    BY <2>2, <2>3, <2>4
<1>8. Contents(r)'
  <2>1. /\ rq[r].pc = "recv" /\ (sent[r] # "none" \/ criu[r] = "off")
        /\ sent'[r] = "none" /\ UNCHANGED <<images, objects, attached, gpuLock, tracer, killer, checkpoints, criu, cz, faults>>
    <3>1. /\ rq[r].pc = "recv" /\ (sent[r] # "none" \/ criu[r] = "off")
          /\ sent' = [sent EXCEPT ![r] = "none"]
          /\ UNCHANGED <<images, objects, attached, gpuLock, tracer, killer, checkpoints, criu, cz, faults>>
      BY <1>1, Zenon
    <3> QED
      BY <3>1 DEF Types
  <2>2. CASE sent[r] \in Events
    <3>1. Notifies(r, sent[r])
      BY <2>2, <1>1, Zenon
    <3>2. /\ rq[r].ev \in {"initialize-dump", "pre-dump", "query-ext-files"}
          /\ sent[r] \in {"pre-dump", "query-ext-files", "post-dump"}
          /\ sent[r] = "query-ext-files" => rq[r].ev = "pre-dump"
          /\ sent[r] = "post-dump" => rq[r].ev = "query-ext-files"
      BY <2>2, Zenon DEF Control
    <3>3. cz[r].at = "no" /\ images[r] \subseteq Parts
      BY <2>1, <3>2, Zenon DEF Packer, Contents
    <3>4. <<"gpu", "pre-dump">> \in Hooks
      BY DEF Hooks
    <3>5. /\ rq'[r].pc = "hook" /\ rq'[r].ev = sent[r]
          /\ ~(rq'[r].ev = "pre-dump" /\ Passed(rq'[r], "gpu"))
      BY <3>1, <3>4, NotifiesIs, Zenon
    <3>6. rq'[r].ev \in {"query-ext-files", "post-dump"} => GpuSaved(r)
      BY <2>1, <3>2, <3>5, Zenon DEF Contents
    <3>7. rq'[r].ev = "post-dump" => Complete(attached, images[r])
      BY <2>1, <3>3, <3>5, <3>6, Zenon DEF Contents, GpuSaved, Complete
    <3> QED
      BY <2>1, <3>2, <3>3, <3>5, <3>6, <3>7, Zenon DEF Contents, GpuSaved
  <2>3. CASE sent[r] \notin Events /\ sent[r] = "success"
    <3>1. Finalizes(r, FALSE)
      BY <2>3, <1>1, Zenon
    <3> QED
      BY <2>1, <2>3, <3>1, FinalizesIs, Zenon DEF Contents, GpuSaved, Ready, Control, Events
  <2>4. CASE sent[r] \notin Events /\ sent[r] # "success"
    <3>1. Finalizes(r, TRUE)
      BY <2>4, <1>1, Zenon
    <3> QED
      BY <2>1, <2>4, <3>1, FinalizesIs, Zenon DEF Contents, GpuSaved, Ready, Control, Events
  <2> QED
    BY <2>2, <2>3, <2>4
<1>9. Tarball(r)'
  <2>1. /\ rq[r].pc = "recv" /\ (sent[r] # "none" \/ criu[r] = "off")
        /\ sent'[r] = "none" /\ UNCHANGED <<images, objects, attached, gpuLock, tracer, killer, checkpoints, criu, cz, faults>>
    <3>1. /\ rq[r].pc = "recv" /\ (sent[r] # "none" \/ criu[r] = "off")
          /\ sent' = [sent EXCEPT ![r] = "none"]
          /\ UNCHANGED <<images, objects, attached, gpuLock, tracer, killer, checkpoints, criu, cz, faults>>
      BY <1>1, Zenon
    <3> QED
      BY <3>1 DEF Types
  <2>2. CASE sent[r] \in Events
    <3>1. Notifies(r, sent[r])
      BY <2>2, <1>1, Zenon
    <3> QED
      BY <2>1, <2>2, <3>1, NotifiesIs, Zenon DEF Tarball, Events
  <2>3. CASE sent[r] \notin Events /\ sent[r] = "success"
    <3>1. Finalizes(r, FALSE)
      BY <2>3, <1>1, Zenon
    <3> QED
      BY <2>1, <2>3, <3>1, FinalizesIs, Zenon DEF Tarball, Events
  <2>4. CASE sent[r] \notin Events /\ sent[r] # "success"
    <3>1. Finalizes(r, TRUE)
      BY <2>4, <1>1, Zenon
    <3> QED
      BY <2>1, <2>4, <3>1, FinalizesIs, Zenon DEF Tarball, Events
  <2> QED
    BY <2>2, <2>3, <2>4, Zenon
<1>10. Results(r)'
  <2>1. /\ rq[r].pc = "recv" /\ (sent[r] # "none" \/ criu[r] = "off")
        /\ sent'[r] = "none" /\ UNCHANGED <<images, objects, attached, gpuLock, tracer, killer, checkpoints, criu, cz, faults>>
    <3>1. /\ rq[r].pc = "recv" /\ (sent[r] # "none" \/ criu[r] = "off")
          /\ sent' = [sent EXCEPT ![r] = "none"]
          /\ UNCHANGED <<images, objects, attached, gpuLock, tracer, killer, checkpoints, criu, cz, faults>>
      BY <1>1, Zenon
    <3> QED
      BY <3>1 DEF Types
  <2>2. CASE sent[r] \in Events
    <3>1. Notifies(r, sent[r])
      BY <2>2, <1>1, Zenon
    <3> QED
      BY <2>1, <2>2, <3>1, NotifiesIs, Zenon DEF Results, Kept, Events
  <2>3. CASE sent[r] \notin Events /\ sent[r] = "success"
    <3>1. Finalizes(r, FALSE)
      BY <2>3, <1>1, Zenon
    <3> QED
      BY <2>1, <2>3, <3>1, FinalizesIs, Zenon DEF Results, Kept, Events
  <2>4. CASE sent[r] \notin Events /\ sent[r] # "success"
    <3>1. Finalizes(r, TRUE)
      BY <2>4, <1>1, Zenon
    <3> QED
      BY <2>1, <2>4, <3>1, FinalizesIs, Zenon DEF Results, Kept, Events
  <2> QED
    BY <2>2, <2>3, <2>4
<1>11. Killed(r)'
  <2>1. /\ rq[r].pc = "recv" /\ (sent[r] # "none" \/ criu[r] = "off")
        /\ sent'[r] = "none" /\ UNCHANGED <<images, objects, attached, gpuLock, tracer, killer, checkpoints, criu, cz, faults>>
    <3>1. /\ rq[r].pc = "recv" /\ (sent[r] # "none" \/ criu[r] = "off")
          /\ sent' = [sent EXCEPT ![r] = "none"]
          /\ UNCHANGED <<images, objects, attached, gpuLock, tracer, killer, checkpoints, criu, cz, faults>>
      BY <1>1, Zenon
    <3> QED
      BY <3>1 DEF Types
  <2>2. CASE sent[r] \in Events
    <3>1. Notifies(r, sent[r])
      BY <2>2, <1>1, Zenon
    <3> QED
      BY <2>1, <2>2, <3>1, NotifiesIs, Zenon DEF Killed, Before, Control, Events
  <2>3. CASE sent[r] \notin Events /\ sent[r] = "success"
    <3>1. Finalizes(r, FALSE)
      BY <2>3, <1>1, Zenon
    <3> QED
      BY <2>1, <2>3, <3>1, FinalizesIs, Zenon DEF Killed, Before, Control, Events
  <2>4. CASE sent[r] \notin Events /\ sent[r] # "success"
    <3>1. Finalizes(r, TRUE)
      BY <2>4, <1>1, Zenon
    <3> QED
      BY <2>1, <2>4, <3>1, FinalizesIs, ZenonT(60) DEF Killed, Before, Control, Events
  <2> QED
    BY <2>2, <2>3, <2>4
<1> QED
  BY <1>2, <1>3, <1>4, <1>5, <1>6, <1>7, <1>8, <1>9, <1>10, <1>11 DEF Keeps, Request

\* Cleanup keeps the invariant.
LEMMA CleanupKeeps ==
    ASSUME IInv, NEW r \in Requests, Cleanup(r) PROVE Keeps(r)
<1>0. /\ Types /\ Included(r) /\ Control(r) /\ Contents(r) /\ Packer(r)
      /\ Tarball(r) /\ Results(r) /\ Killed(r) /\ Holds(r)
  BY DEF IInv, Request
<1> USE <1>0
<1>1. /\ rq[r].pc = "cleanup" /\ Updated(r)
      /\ rq'[r].opt = rq[r].opt /\ rq'[r].cbs = rq[r].cbs /\ rq'[r].ev = rq[r].ev
      /\ criu' = [criu EXCEPT ![r] = "off"] /\ sent' = [sent EXCEPT ![r] = "none"]
      /\ tracer' = IF tracer = r THEN None ELSE tracer
      /\ \/ rq'[r].pc = "defer" /\ rq'[r].err = rq[r].err /\ faults' = faults
         \/ /\ rq'[r].pc = "defer" /\ rq'[r].err
            /\ faults' = [faults EXCEPT ![r] = faults[r] \cup {"reap"}]
      /\ UNCHANGED <<killer, attached, gpuLock, images, objects, checkpoints, cz>>
  <2>1. "defer" \in Pcs
    BY DEF Pcs
  <2>2. /\ Fail(r, "defer") => Updated(r) /\ Failed(r, "defer")
        /\ Go(r, "defer") => Updated(r) /\ Moved(r, "defer")
    BY <2>1, GoStep, FailStep
  <2>3. UNCHANGED <<killer, gpus, store, checkpoints, cz>>
    BY Zenon DEF Cleanup
  <2>4. UNCHANGED <<killer, attached, gpuLock, images, objects, checkpoints, cz>>
    BY <2>3 DEF world, gpus, store, wire
  <2> QED
    BY <2>4, <2>2, Zenon DEF Cleanup, At, Moved, Failed
<1>2. Types'
  BY <1>1 DEF Types, Updated, CriuPhases
<1>3. \A k \in Requests \ {r} : Untouched(k)
  BY <1>1, DumpAssumption DEF Untouched, Types, Updated
<1>4. Control(r)'
  BY <1>1, Zenon DEF Control, Before, After, Types
<1>5. Included(r)'
  BY <1>1, Zenon DEF Included
<1>6. Packer(r)'
  BY <1>1, Zenon DEF Packer, Before
<1>7. Holds(r)'
  BY <1>1, DumpAssumption, ZenonT(60) DEF Holds, Before, After, Types, Includes
<1>8. Contents(r)'
  BY <1>1, Zenon DEF Contents, GpuSaved, Ready, Types
<1>9. Tarball(r)'
  BY <1>1, ZenonT(60) DEF Tarball, Types
<1>10. Results(r)'
  BY <1>1, Zenon DEF Results, Kept, Types
<1>11. Killed(r)'
  <2>1. /\ rq[r].pc = "cleanup" /\ rq'[r].pc = "defer" /\ rq'[r].opt = rq[r].opt
        /\ criu'[r] = "off" /\ UNCHANGED <<killer, attached, images, cz>>
    BY <1>1, Zenon DEF Types
  <2>2. /\ faults'[r] \cap {"cut", "reap"} = {} => faults[r] \cap {"cut", "reap"} = {}
        /\ rq'[r].err /\ "reap" \notin faults'[r] => rq[r].err
    BY <1>1, ZenonT(60) DEF Types
  <2> QED
    BY <2>1, <2>2, Zenon DEF Killed, Before
<1> QED
  BY <1>2, <1>3, <1>4, <1>5, <1>6, <1>7, <1>8, <1>9, <1>10, <1>11 DEF Keeps, Request

\* QueryExtFiles keeps the invariant.
LEMMA QueryExtFilesKeeps ==
    ASSUME IInv, NEW r \in Requests, QueryExtFiles(r) PROVE Keeps(r)
<1>0. /\ Types /\ Included(r) /\ Control(r) /\ Contents(r) /\ Packer(r)
      /\ Tarball(r) /\ Results(r) /\ Killed(r) /\ Holds(r)
  BY DEF IInv, Request
<1> USE <1>0
<1>1. /\ rq[r].pc = "hook" /\ rq[r].ev = "query-ext-files"
      /\ rq[r].idx \in 1..Len(rq[r].cbs)
      /\ Updated(r) /\ (Returned(r) \/ Raised(r))
      /\ UNCHANGED <<tracer, killer, attached, gpuLock, images, objects, checkpoints, criu,
                     sent, cz, faults>>
  <2>1. PICK cb : Called(r, cb, "query-ext-files")
    BY Zenon DEF QueryExtFiles
  <2>2. /\ rq[r].pc = "hook" /\ rq[r].ev = "query-ext-files"
        /\ rq[r].idx \in 1..Len(rq[r].cbs)
    BY <2>1, CalledFacts, Zenon
  <2>3. /\ rq' = [rq EXCEPT ![r] = Returns(rq[r])] \/ rq' = [rq EXCEPT ![r] = Raises(rq[r])]
        /\ UNCHANGED <<world, gpus, store, checkpoints, wire, cz, faults>>
    BY Zenon DEF QueryExtFiles
  <2>4. UNCHANGED <<tracer, killer, attached, gpuLock, images, objects, checkpoints, criu, sent,
                    cz, faults>>
    BY <2>3 DEF world, gpus, store, wire
  <2> QED
    BY <2>4, <2>2, <2>3, HookStep, Zenon
<1>2. Types'
  BY <1>1 DEF Types, Updated
<1>3. \A k \in Requests \ {r} : Untouched(k)
  BY <1>1, DumpAssumption DEF Untouched, Types, Updated
<1>4. Control(r)'
  BY <1>1, ReturnedIs, RaisedIs, Zenon DEF Control, Before, After
<1>5. Included(r)'
  BY <1>1, ReturnedIs, RaisedIs, Zenon DEF Included
<1>6. Packer(r)'
  BY <1>1, ReturnedIs, RaisedIs, Zenon DEF Packer, Before
<1>7. Holds(r)'
  BY <1>1, ReturnedIs, RaisedIs, DumpAssumption, Zenon DEF Holds, Before, After
<1>8. Contents(r)'
  BY <1>1, ReturnedIs, RaisedIs, Zenon DEF Contents, GpuSaved, Ready
<1>9. Tarball(r)'
  BY <1>1, ReturnedIs, RaisedIs, Zenon DEF Tarball
<1>10. Results(r)'
  BY <1>1, ReturnedIs, RaisedIs, Zenon DEF Results, Kept
<1>11. Killed(r)'
  BY <1>1, ReturnedIs, RaisedIs, ZenonT(60) DEF Killed, Before
<1> QED
  BY <1>2, <1>3, <1>4, <1>5, <1>6, <1>7, <1>8, <1>9, <1>10, <1>11 DEF Keeps, Request

\* GPUInitializeDump keeps the invariant.
LEMMA GPUInitializeDumpKeeps ==
    ASSUME IInv, NEW r \in Requests, GPUInitializeDump(r) PROVE Keeps(r)
<1>0. /\ Types /\ Included(r) /\ Control(r) /\ Contents(r) /\ Packer(r)
      /\ Tarball(r) /\ Results(r) /\ Killed(r) /\ Holds(r)
  BY DEF IInv, Request
<1> USE <1>0
<1>1. /\ rq[r].pc = "hook" /\ rq[r].ev = "initialize-dump"
      /\ rq[r].idx \in 1..Len(rq[r].cbs) /\ rq[r].cbs[rq[r].idx] = "gpu"
      /\ gpuLock' \in {gpuLock, r}
      /\ Updated(r) /\ (Returned(r) \/ Raised(r))
      /\ UNCHANGED <<tracer, killer, attached, images, objects, checkpoints, criu, sent,
                     cz, faults>>
  <2>1. /\ rq[r].pc = "hook" /\ rq[r].ev = "initialize-dump"
        /\ rq[r].idx \in 1..Len(rq[r].cbs) /\ rq[r].cbs[rq[r].idx] = "gpu"
    BY CalledFacts, Zenon DEF GPUInitializeDump
  <2>2. /\ rq' = [rq EXCEPT ![r] = Returns(rq[r])] \/ rq' = [rq EXCEPT ![r] = Raises(rq[r])]
        /\ gpuLock' \in {gpuLock, r}
        /\ UNCHANGED <<world, attached, store, checkpoints, wire, cz, faults>>
    BY Zenon DEF GPUInitializeDump
  <2>3. UNCHANGED <<tracer, killer, attached, images, objects, checkpoints, criu, sent, cz,
                    faults>>
    BY <2>2 DEF world, gpus, store, wire
  <2> QED
    BY <2>3, <2>1, <2>2, HookStep, Zenon
<1>2. Types'
  BY <1>1, Zenon DEF Types, Updated
<1>3. \A k \in Requests \ {r} : Untouched(k)
  BY <1>1, DumpAssumption, Zenon DEF Untouched, Types, Updated
<1>4. Control(r)'
  BY <1>1, ReturnedIs, RaisedIs, Zenon DEF Control, Before, After
<1>5. Included(r)'
  BY <1>1, ReturnedIs, RaisedIs, Zenon DEF Included
<1>6. Packer(r)'
  BY <1>1, ReturnedIs, RaisedIs, Zenon DEF Packer, Before
<1>7. Holds(r)'
  <2>1. Includes(rq[r], "gpu")
    BY <1>1, Zenon DEF Includes
  <2> QED
    BY <2>1, <1>1, ReturnedIs, RaisedIs, Zenon DEF Holds, Before, After, Control
<1>8. Contents(r)'
  BY <1>1, ReturnedIs, RaisedIs, Zenon DEF Contents, GpuSaved, Ready
<1>9. Tarball(r)'
  BY <1>1, ReturnedIs, RaisedIs, Zenon DEF Tarball
<1>10. Results(r)'
  BY <1>1, ReturnedIs, RaisedIs, Zenon DEF Results, Kept
<1>11. Killed(r)'
  BY <1>1, ReturnedIs, RaisedIs, ZenonT(60) DEF Killed, Before
<1> QED
  BY <1>2, <1>3, <1>4, <1>5, <1>6, <1>7, <1>8, <1>9, <1>10, <1>11 DEF Keeps, Request

\* GPUPreDump keeps the invariant.
LEMMA GPUPreDumpKeeps ==
    ASSUME IInv, NEW r \in Requests, GPUPreDump(r) PROVE Keeps(r)
<1>0. /\ Types /\ Included(r) /\ Control(r) /\ Contents(r) /\ Packer(r)
      /\ Tarball(r) /\ Results(r) /\ Killed(r) /\ Holds(r)
  BY DEF IInv, Request
<1> USE <1>0
<1>1. /\ Called(r, "gpu", "pre-dump")
      /\ Updated(r)
      /\ \/ images' = [images EXCEPT ![r] = images[r] \cup {"gpu"}] /\ Returned(r)
         \/ Raised(r) /\ images' = images
      /\ UNCHANGED <<tracer, killer, attached, gpuLock, objects, checkpoints, criu, sent,
                     cz, faults>>
  <2>1. /\ Called(r, "gpu", "pre-dump")
        /\ UNCHANGED <<world, gpus, objects, checkpoints, wire, cz, faults>>
    BY DEF GPUPreDump
  <2>2. PICK p \in RqRecord : p = rq[r]
    BY DEF Types
  <2>3. PICK q : q = [p EXCEPT !.dumped = TRUE]
    BY Zenon
  <2>4. /\ q \in RqRecord /\ q.opt = p.opt /\ q.cbs = p.cbs /\ q.pc = p.pc /\ q.ev = p.ev
        /\ q.err = p.err /\ q.idx = p.idx /\ q.criuErr = p.criuErr
    BY <2>3, DumpedFields
  <2>5. p.pc = "hook" /\ p.ev = "pre-dump" /\ p.idx \in 1..Len(p.cbs)
    BY <2>1, <2>2, CalledFacts, Zenon
  <2>6. \/ /\ images' = [images EXCEPT ![r] = images[r] \cup {"gpu"}]
           /\ rq' = [rq EXCEPT ![r] = Returns(q)]
        \/ rq' = [rq EXCEPT ![r] = Raises(q)] /\ images' = images
    BY <2>2, <2>3, Zenon DEF GPUPreDump
  <2>7. /\ rq' = [rq EXCEPT ![r] = Returns(q)] => Updated(r) /\ Returned(r)
        /\ rq' = [rq EXCEPT ![r] = Raises(q)] => Updated(r) /\ Raised(r)
    BY <2>2, <2>4, <2>5, ReturnsStep, RaisesStep, Zenon
  <2>8. UNCHANGED <<tracer, killer, attached, gpuLock, objects, checkpoints, criu, sent, cz,
                    faults>>
    BY <2>1 DEF world, gpus, store, wire
  <2> QED
    BY <2>8, <2>1, <2>6, <2>7, Zenon
<1>2. Types'
  <2>1. images[r] \cup {"gpu"} \in Copies
    <3>1. rq[r].pc = "hook" /\ rq[r].ev = "pre-dump"
      BY <1>1, CalledFacts, Zenon
    <3>2. images[r] \subseteq Parts
      BY <3>1, Zenon DEF Contents, Packer
    <3> QED
      BY <3>2, CopiesAre, Zenon DEF Parts
  <2>2. images' \in [Requests -> Copies]
    <3>1. images \in [Requests -> Copies]
      BY DEF Types
    <3> QED
      BY <3>1, <2>1, <1>1
  <2>3. rq' \in [Requests -> RqRecord] /\ UNCHANGED <<attached, objects, criu, sent, cz>>
    BY <1>1 DEF Updated
  <2>4. faults' \in [Requests -> SUBSET {"state", "flush", "pack", "reap", "cut", "streamer"}]
    BY <1>1 DEF Types
  <2> QED
    BY <2>2, <2>3, <2>4 DEF Types
<1>3. \A k \in Requests \ {r} : Untouched(k)
  BY <1>1, CalledFacts, DumpAssumption, ZenonT(60) DEF Untouched, Types, Updated
<1>4. Control(r)'
  BY <1>1, ReturnedIs, RaisedIs, CalledFacts, ZenonT(60) DEF Control, Before, After
<1>5. Included(r)'
  BY <1>1, ReturnedIs, RaisedIs, CalledFacts, Zenon DEF Included
<1>6. Packer(r)'
  <2>1. /\ rq[r].pc = "hook" /\ rq[r].ev = "pre-dump" /\ rq[r].idx \in 1..Len(rq[r].cbs) /\ cz' = cz
        /\ Returned(r) \/ Raised(r)
    BY <1>1, CalledFacts, Zenon
  <2>2. cz[r].at = "no"
    BY <2>1, Zenon DEF Packer
  <2>3. /\ rq'[r].pc = "hook" /\ rq'[r].ev \in {"pre-dump", "finalize-dump"}
        /\ rq'[r].opt = rq[r].opt
    BY <2>1, ReturnedIs, RaisedIs, Zenon
  <2> QED
    BY <2>1, <2>2, <2>3, Zenon DEF Packer, Before
<1>7. Holds(r)'
  <2>1. /\ rq[r].pc = "hook" /\ rq[r].ev = "pre-dump" /\ rq[r].idx \in 1..Len(rq[r].cbs)
        /\ UNCHANGED <<gpuLock, tracer, criu>>
    BY <1>1, CalledFacts, Zenon
  <2>2. CASE Returned(r)
    BY <2>1, <2>2, ReturnedIs, Zenon DEF Holds, Before, After
  <2>3. CASE Raised(r)
    BY <2>1, <2>3, RaisedIs, Zenon DEF Holds, Before, After
  <2> QED
    BY <2>2, <2>3, <1>1, Zenon
<1>8. Contents(r)'
  <2>1. /\ rq[r].pc = "hook" /\ rq[r].ev = "pre-dump" /\ rq[r].idx \in 1..Len(rq[r].cbs)
        /\ rq[r].cbs[rq[r].idx] = "gpu" /\ UNCHANGED <<attached, sent, cz>>
    BY <1>1, CalledFacts, Zenon
  <2>2. cz[r].at = "no" /\ images[r] \subseteq Parts /\ sent[r] = "none"
    BY <2>1, Zenon DEF Contents, Packer, Control
  <2>3. CASE images' = [images EXCEPT ![r] = images[r] \cup {"gpu"}] /\ Returned(r)
    <3>1. images'[r] = images[r] \cup {"gpu"}
      BY <2>3 DEF Types
    <3>2. images'[r] \subseteq Parts /\ "gpu" \in images'[r]
      BY <2>2, <3>1, Zenon DEF Parts
    <3>3. rq'[r].pc = "hook" /\ rq'[r].ev = "pre-dump"
      BY <2>1, <2>3, ReturnedIs, Zenon
    <3> QED
      BY <2>1, <2>2, <3>2, <3>3, Zenon DEF Contents
  <2>4. CASE Raised(r) /\ images' = images
    <3>1. rq'[r].pc = "hook" /\ rq'[r].ev = "finalize-dump" /\ rq'[r].err
      BY <2>1, <2>4, RaisedIs, Zenon
    <3> QED
      BY <2>1, <2>2, <2>4, <3>1, ZenonT(60) DEF Contents
  <2> QED
    BY <2>3, <2>4, <1>1
<1>9. Tarball(r)'
  <2>1. cz'[r].at = "no"
    <3>1. rq[r].pc = "hook" /\ rq[r].ev = "pre-dump" /\ cz' = cz
      BY <1>1, CalledFacts, Zenon
    <3> QED
      BY <3>1, Zenon DEF Packer
  <2> QED
    BY <2>1 DEF Tarball
<1>10. Results(r)'
  BY <1>1, ReturnedIs, RaisedIs, CalledFacts, Zenon DEF Results, Kept, Types
<1>11. Killed(r)'
  <2>1. rq[r].pc = "hook" /\ rq[r].ev = "pre-dump" /\ killer' = killer
    BY <1>1, CalledFacts, Zenon
  <2>2. killer # r
    BY <2>1, ZenonT(60) DEF Killed
  <2> QED
    BY <2>1, <2>2, Zenon DEF Killed
<1> QED
  BY <1>2, <1>3, <1>4, <1>5, <1>6, <1>7, <1>8, <1>9, <1>10, <1>11 DEF Keeps, Request

\* GPUFinalizeDump keeps the invariant.
LEMMA GPUFinalizeDumpKeeps ==
    ASSUME IInv, NEW r \in Requests, GPUFinalizeDump(r) PROVE Keeps(r)
<1>0. /\ Types /\ Included(r) /\ Control(r) /\ Contents(r) /\ Packer(r)
      /\ Tarball(r) /\ Results(r) /\ Killed(r) /\ Holds(r)
  BY DEF IInv, Request
<1> USE <1>0
<1>1. /\ rq[r].pc = "hook" /\ rq[r].ev = "finalize-dump"
      /\ rq[r].idx \in 1..Len(rq[r].cbs) /\ gpuLock' = None
      /\ Updated(r) /\ (Returned(r) \/ (Raised(r) /\ (rq[r].opt.leave \/ rq[r].criuErr)))
      /\ UNCHANGED <<tracer, killer, attached, images, objects, checkpoints, criu, sent,
                     cz, faults>>
  <2>1. /\ rq[r].pc = "hook" /\ rq[r].ev = "finalize-dump"
        /\ rq[r].idx \in 1..Len(rq[r].cbs)
    BY CalledFacts, Zenon DEF GPUFinalizeDump, Opt
  <2>2. /\ \/ rq' = [rq EXCEPT ![r] = Returns(rq[r])]
           \/ rq' = [rq EXCEPT ![r] = Raises(rq[r])] /\ (rq[r].opt.leave \/ rq[r].criuErr)
        /\ gpuLock' = None
        /\ UNCHANGED <<world, attached, store, checkpoints, wire, cz, faults>>
    BY Zenon DEF GPUFinalizeDump, Opt
  <2>3. UNCHANGED <<tracer, killer, attached, images, objects, checkpoints, criu, sent, cz,
                    faults>>
    BY <2>2 DEF world, gpus, store, wire
  <2> QED
    BY <2>3, <2>1, <2>2, HookStep, Zenon
<1>2. Types'
  BY <1>1, Zenon DEF Types, Updated
<1>3. \A k \in Requests \ {r} : Untouched(k)
  BY <1>1, DumpAssumption DEF Untouched, Types, Updated
<1>4. Control(r)'
  BY <1>1, ReturnedIs, RaisedIs, Zenon DEF Control, Before, After
<1>5. Included(r)'
  BY <1>1, ReturnedIs, RaisedIs, Zenon DEF Included
<1>6. Packer(r)'
  BY <1>1, ReturnedIs, RaisedIs, Zenon DEF Packer, Before
<1>7. Holds(r)'
  BY <1>1, ReturnedIs, RaisedIs, DumpAssumption, Zenon DEF Holds, Before, After
<1>8. Contents(r)'
  BY <1>1, ReturnedIs, RaisedIs, Zenon DEF Contents, GpuSaved, Ready
<1>9. Tarball(r)'
  BY <1>1, ReturnedIs, RaisedIs, Zenon DEF Tarball
<1>10. Results(r)'
  BY <1>1, ReturnedIs, RaisedIs, Zenon DEF Results, Kept
<1>11. Killed(r)'
  BY <1>1, ReturnedIs, RaisedIs, ZenonT(60) DEF Killed, Before
<1> QED
  BY <1>2, <1>3, <1>4, <1>5, <1>6, <1>7, <1>8, <1>9, <1>10, <1>11 DEF Keeps, Request

\* CompressPostDump keeps the invariant.
LEMMA CompressPostDumpKeeps ==
    ASSUME IInv, NEW r \in Requests, CompressPostDump(r) PROVE Keeps(r)
<1>0. /\ Types /\ Included(r) /\ Control(r) /\ Contents(r) /\ Packer(r)
      /\ Tarball(r) /\ Results(r) /\ Killed(r) /\ Holds(r)
  BY DEF IInv, Request
<1> USE <1>0
<1>1. /\ Called(r, "compress", "post-dump")
      /\ \/ /\ cz[r].at = "no" /\ rq' = rq
            /\ cz' \in [Requests -> CzRecord] /\ \A s \in Requests : s # r => cz'[s] = cz[s]
            /\ cz'[r].at = "create" /\ cz'[r].who = "hook"
         \/ cz[r].at = "ok" /\ Updated(r) /\ Returned(r) /\ cz' = cz
         \/ cz[r].at = "error" /\ Updated(r) /\ Raised(r) /\ cz' = cz
      /\ UNCHANGED <<tracer, killer, attached, gpuLock, images, objects, checkpoints, criu,
                     sent, faults>>
  <2>1. /\ Called(r, "compress", "post-dump")
        /\ UNCHANGED <<world, gpus, store, checkpoints, wire, faults>>
    BY DEF CompressPostDump
  <2>same. UNCHANGED <<tracer, killer, attached, gpuLock, images, objects, checkpoints, criu, sent,
                       faults>>
    BY <2>1 DEF world, gpus, store, wire
  <2>2. CASE cz[r].at = "ok" /\ rq' = [rq EXCEPT ![r] = Returns(@)] /\ UNCHANGED cz
    BY <2>1, <2>same, <2>2, CalledFacts, HookStep, Zenon
  <2>3. CASE cz[r].at = "error" /\ rq' = [rq EXCEPT ![r] = Raises(@)] /\ UNCHANGED cz
    BY <2>1, <2>same, <2>3, CalledFacts, HookStep, Zenon
  <2>4. CASE /\ cz[r].at = "no"
             /\ cz' = [cz EXCEPT ![r] = [@ EXCEPT !.at = "create", !.who = "hook"]]
             /\ UNCHANGED rq
    <3>1. Start(r, "hook")
      BY <2>4, Zenon DEF Start
    <3>2. /\ cz' \in [Requests -> CzRecord] /\ \A s \in Requests : s # r => cz'[s] = cz[s]
          /\ cz'[r].at = "create" /\ cz'[r].who = "hook"
      BY <3>1, StartFields, Zenon
    <3> QED
      BY <2>1, <2>same, <2>4, <3>2, Zenon
  <2> QED
    BY <2>2, <2>3, <2>4, Zenon DEF CompressPostDump
<1>2. Types'
  BY <1>1, CalledFacts, ZenonT(60) DEF Types, Updated
<1>3. \A k \in Requests \ {r} : Untouched(k)
  BY <1>1, CalledFacts, DumpAssumption, Zenon DEF Untouched, Types, Updated
<1>4. Control(r)'
  BY <1>1, ReturnedIs, RaisedIs, CalledFacts, ZenonT(60) DEF Control, Before, After
<1>5. Included(r)'
  BY <1>1, ReturnedIs, RaisedIs, CalledFacts, ZenonT(60) DEF Included
<1>6. Packer(r)'
  <2>1. /\ rq[r].pc = "hook" /\ rq[r].ev = "post-dump"
        /\ rq[r].idx \in 1..Len(rq[r].cbs) /\ rq[r].cbs[rq[r].idx] = "compress"
        /\ UNCHANGED <<images, objects, attached, gpuLock, tracer, killer, checkpoints, criu, sent, faults>>
    BY <1>1, CalledFacts, Zenon
  <2>2. CASE cz[r].at = "no" /\ rq' = rq /\ cz'[r].at = "create" /\ cz'[r].who = "hook"
    <3>1. Includes(rq[r], "compress")
      BY <2>1, Zenon DEF Includes
    <3>2. HookPacks(rq[r].opt)
      BY <2>1, <3>1, Zenon DEF Included
    <3>3. ~Passed(rq[r], "compress")
      BY <2>1, <2>2, Zenon DEF Packer
    <3>4. rq[r].idx > 0
      BY <2>1, CallIsPositive, Zenon
    <3> QED
      BY <2>1, <2>2, <3>2, <3>3, <3>4, Zenon DEF Packer, Before
  <2>3. CASE cz[r].at = "ok" /\ Returned(r) /\ cz' = cz
    BY <2>1, <2>3, ReturnedIs, Zenon DEF Packer, Before, Included, Hooks
  <2>4. CASE cz[r].at = "error" /\ Raised(r) /\ cz' = cz
    BY <2>1, <2>4, RaisedIs, Zenon DEF Packer, Before, Included, Hooks
  <2> QED
    BY <2>2, <2>3, <2>4, <1>1
<1>7. Holds(r)'
  <2>1. /\ rq[r].pc = "hook" /\ rq[r].ev = "post-dump" /\ rq[r].idx \in 1..Len(rq[r].cbs)
        /\ UNCHANGED <<gpuLock, tracer, criu>>
    BY <1>1, CalledFacts, Zenon
  <2>2. CASE rq' = rq
    BY <2>1, <2>2, Zenon DEF Holds
  <2>3. CASE Returned(r)
    BY <2>1, <2>3, ReturnedIs, Zenon DEF Holds, Before, After
  <2>4. CASE Raised(r)
    BY <2>1, <2>4, RaisedIs, Zenon DEF Holds, Before, After
  <2> QED
    BY <2>2, <2>3, <2>4, <1>1, Zenon
<1>8. Contents(r)'
  <2>1. /\ rq[r].pc = "hook" /\ rq[r].ev = "post-dump"
        /\ rq[r].idx \in 1..Len(rq[r].cbs) /\ rq[r].cbs[rq[r].idx] = "compress"
        /\ UNCHANGED <<images, objects, attached, gpuLock, tracer, killer, checkpoints, criu, sent, faults>>
    BY <1>1, CalledFacts, Zenon
  <2>2. CASE cz[r].at = "no" /\ rq' = rq /\ cz'[r].at = "create" /\ cz'[r].who = "hook"
    BY <2>1, <2>2, Zenon DEF Contents, Packer, GpuSaved, Ready, Includes
  <2>3. CASE cz[r].at = "ok" /\ Returned(r) /\ cz' = cz
    BY <2>1, <2>3, ReturnedIs, Zenon DEF Contents, Packer, GpuSaved, Ready
  <2>4. CASE cz[r].at = "error" /\ Raised(r) /\ cz' = cz
    BY <2>1, <2>4, RaisedIs, Zenon DEF Contents, Packer, GpuSaved, Ready
  <2> QED
    BY <2>2, <2>3, <2>4, <1>1, Zenon
<1>9. Tarball(r)'
  <2>1. /\ rq[r].pc = "hook" /\ rq[r].ev = "post-dump"
        /\ rq[r].idx \in 1..Len(rq[r].cbs) /\ rq[r].cbs[rq[r].idx] = "compress"
        /\ UNCHANGED <<images, objects, attached, gpuLock, tracer, killer, checkpoints, criu, sent, faults>>
    BY <1>1, CalledFacts, Zenon
  <2>2. CASE cz[r].at = "no" /\ rq' = rq /\ cz'[r].at = "create" /\ cz'[r].who = "hook"
    BY <2>1, <2>2, Zenon DEF Tarball, Contents, Includes
  <2>3. CASE cz[r].at = "ok" /\ Returned(r) /\ cz' = cz
    BY <2>1, <2>3, ReturnedIs, Zenon DEF Tarball, Contents
  <2>4. CASE cz[r].at = "error" /\ Raised(r) /\ cz' = cz
    BY <2>1, <2>4, RaisedIs, Zenon DEF Tarball, Contents
  <2> QED
    BY <2>2, <2>3, <2>4, <1>1, ZenonT(60)
<1>10. Results(r)'
  <2>1. /\ rq[r].pc = "hook" /\ rq[r].ev = "post-dump"
        /\ rq[r].idx \in 1..Len(rq[r].cbs) /\ rq[r].cbs[rq[r].idx] = "compress"
        /\ UNCHANGED <<images, objects, attached, gpuLock, tracer, killer, checkpoints, criu, sent, faults>>
    BY <1>1, CalledFacts, Zenon
  <2>2. CASE cz[r].at = "no" /\ rq' = rq /\ cz'[r].at = "create" /\ cz'[r].who = "hook"
    BY <2>1, <2>2, Zenon DEF Results, Kept, Includes
  <2>3. CASE cz[r].at = "ok" /\ Returned(r) /\ cz' = cz
    BY <2>1, <2>3, ReturnedIs, Zenon DEF Results, Kept
  <2>4. CASE cz[r].at = "error" /\ Raised(r) /\ cz' = cz
    BY <2>1, <2>4, RaisedIs, Zenon DEF Results, Kept
  <2> QED
    BY <2>2, <2>3, <2>4, <1>1, Zenon
<1>11. Killed(r)'
  <2>1. /\ rq[r].pc = "hook" /\ rq[r].ev = "post-dump"
        /\ rq[r].idx \in 1..Len(rq[r].cbs) /\ rq[r].cbs[rq[r].idx] = "compress"
        /\ UNCHANGED <<images, objects, attached, gpuLock, tracer, killer, checkpoints, criu, sent, faults>>
    BY <1>1, CalledFacts, Zenon
  <2>2. CASE cz[r].at = "no" /\ rq' = rq /\ cz'[r].at = "create" /\ cz'[r].who = "hook"
    BY <2>1, <2>2, Zenon DEF Killed, Before, Includes
  <2>3. CASE cz[r].at = "ok" /\ Returned(r) /\ cz' = cz
    BY <2>1, <2>3, ReturnedIs, Zenon DEF Killed, Before
  <2>4. CASE cz[r].at = "error" /\ Raised(r) /\ cz' = cz
    BY <2>1, <2>4, RaisedIs, ZenonT(60) DEF Killed, Before
  <2> QED
    BY <2>2, <2>3, <2>4, <1>1, ZenonT(60)
<1> QED
  BY <1>2, <1>3, <1>4, <1>5, <1>6, <1>7, <1>8, <1>9, <1>10, <1>11 DEF Keeps, Request

\* DeferFilesystem keeps the invariant.
LEMMA DeferFilesystemKeeps ==
    ASSUME IInv, NEW r \in Requests, DeferFilesystem(r) PROVE Keeps(r)
<1>0. /\ Types /\ Included(r) /\ Control(r) /\ Contents(r) /\ Packer(r)
      /\ Tarball(r) /\ Results(r) /\ Killed(r) /\ Holds(r)
  BY DEF IInv, Request
<1> USE <1>0
<1>1. /\ rq[r].pc = "defer" /\ ~rq[r].opt.stream /\ Updated(r)
      /\ rq'[r].opt = rq[r].opt /\ rq'[r].cbs = rq[r].cbs /\ rq'[r].ev = rq[r].ev
      /\ rq'[r].err = rq[r].err
      /\ \/ /\ Packs(rq[r].opt) /\ Async(rq[r].opt) /\ Start(r, "goroutine")
            /\ rq'[r].pc = "rmdir"
         \/ /\ PacksNow(rq[r].opt) /\ rq[r].opt.leave /\ Start(r, "defer")
            /\ rq'[r].pc = "compress"
         \/ (Packs(rq[r].opt) => HookPacks(rq[r].opt)) /\ rq'[r].pc = "rmdir" /\ cz' = cz
      /\ UNCHANGED <<tracer, killer, attached, gpuLock, images, objects, checkpoints, criu,
                     sent, faults>>
  <2>1. "rmdir" \in Pcs /\ "compress" \in Pcs
    BY DEF Pcs
  <2>2. /\ Go(r, "compress") => Updated(r) /\ Moved(r, "compress")
        /\ Go(r, "rmdir") => Updated(r) /\ Moved(r, "rmdir")
    BY <2>1, GoStep
  <2>3. UNCHANGED <<world, gpus, store, checkpoints, wire, faults>>
    BY Zenon DEF DeferFilesystem, Opt
  <2>4. UNCHANGED <<tracer, killer, attached, gpuLock, images, objects, checkpoints, criu, sent,
                    faults>>
    BY <2>3 DEF world, gpus, store, wire
  <2> QED
    BY <2>4, <2>2, Zenon DEF DeferFilesystem, Opt, At, PacksNow, HookPacks, Moved
<1>2. Types'
  BY <1>1, StartFields, Zenon DEF Types, Updated
<1>3. \A k \in Requests \ {r} : Untouched(k)
  <2> TAKE k \in Requests \ {r}
  <2>1. cz'[k] = cz[k]
    BY <1>1, StartFields, Zenon
  <2> QED
    BY <1>1, <2>1, Zenon DEF Untouched, Updated
<1>4. Control(r)'
  BY <1>1, StartFields, Zenon DEF Control, Before, After
<1>5. Included(r)'
  BY <1>1, StartFields, Zenon DEF Included
<1>6. Packer(r)'
  BY <1>1, StartFields, Zenon DEF Packer, Before
<1>7. Holds(r)'
  BY <1>1, StartFields, DumpAssumption, Zenon DEF Holds, Before, After, Includes
<1>8. Contents(r)'
  BY <1>1, StartFields, Zenon DEF Contents, GpuSaved, Ready
<1>9. Tarball(r)'
  <2>1. /\ rq[r].pc = "defer" /\ rq'[r].opt = rq[r].opt /\ rq'[r].err = rq[r].err
        /\ UNCHANGED <<images, objects, faults, killer, attached>>
    BY <1>1, Zenon
  <2>2. CASE Async(rq[r].opt)
    BY <2>1, <2>2, OptionsAre, Zenon DEF Tarball
  <2>3. CASE rq[r].opt.leave /\ Start(r, "defer")
    <3>1. cz'[r].at = "create"
      BY <2>3, StartFields
    <3>2. ~rq[r].err => Complete(attached, images[r])
      BY <2>1, <2>3, OptionsAre, Zenon DEF Contents, Ready
    <3> QED
      BY <2>1, <3>1, <3>2, ZenonT(60) DEF Tarball
  <2>4. CASE cz' = cz
    BY <2>1, <2>4, Zenon DEF Tarball
  <2> QED
    BY <2>2, <2>3, <2>4, <1>1, Zenon
<1>10. Results(r)'
  <2>1. /\ rq[r].pc = "defer" /\ ~rq[r].opt.stream /\ rq'[r].opt = rq[r].opt
        /\ rq'[r].err = rq[r].err /\ rq'[r].pc \in {"rmdir", "compress"}
        /\ UNCHANGED <<images, objects, faults, checkpoints, attached>>
    BY <1>1, Zenon
  <2>2. r \notin checkpoints
    BY <2>1, Zenon DEF Results
  <2>3. CASE Async(rq[r].opt)
    BY <2>1, <2>2, <2>3, Zenon DEF Results
  <2>4. CASE rq'[r].pc = "compress"
    BY <2>1, <2>2, <2>4, Zenon DEF Results
  <2>5. CASE (Packs(rq[r].opt) => HookPacks(rq[r].opt)) /\ cz' = cz
    BY <2>1, <2>2, <2>5, OptionsAre, Zenon DEF Results, Kept, Contents, Ready
  <2> QED
    BY <2>3, <2>4, <2>5, <1>1, Zenon
<1>11. Killed(r)'
  <2>1. /\ rq[r].pc = "defer" /\ ~rq[r].opt.stream /\ rq'[r].opt = rq[r].opt
        /\ rq'[r].err = rq[r].err /\ rq'[r].pc \in {"rmdir", "compress"}
        /\ UNCHANGED <<images, faults, criu, sent, killer, attached>>
    BY <1>1, Zenon
  <2>2. killer = r /\ PacksNow(rq[r].opt) => cz' = cz
    BY <1>1, OptionsAre, ZenonT(60) DEF Killed
  <2> QED
    BY <2>1, <2>2, Zenon DEF Killed, Before
<1> QED
  BY <1>2, <1>3, <1>4, <1>5, <1>6, <1>7, <1>8, <1>9, <1>10, <1>11 DEF Keeps, Request

\* DeferWaitForIO keeps the invariant.
LEMMA DeferWaitForIOKeeps ==
    ASSUME IInv, NEW r \in Requests, DeferWaitForIO(r) PROVE Keeps(r)
<1>0. /\ Types /\ Included(r) /\ Control(r) /\ Contents(r) /\ Packer(r)
      /\ Tarball(r) /\ Results(r) /\ Killed(r) /\ Holds(r)
  BY DEF IInv, Request
<1> USE <1>0
<1>1. /\ rq[r].pc = "defer" /\ rq[r].opt.stream /\ Updated(r)
      /\ rq'[r].opt = rq[r].opt /\ rq'[r].cbs = rq[r].cbs /\ rq'[r].ev = rq[r].ev
      /\ \/ /\ objects' = IF Direct(rq[r].opt) THEN [objects EXCEPT ![r] = images[r]]
                        ELSE objects
            /\ rq'[r].pc = "rmdir" /\ rq'[r].err = rq[r].err
            /\ images' = images /\ faults' = faults
            /\ (Async(rq[r].opt) /\ Start(r, "goroutine")) \/ cz' = cz
         \/ /\ TearShards(r) /\ rq'[r].pc \in {"rmdir", "blocked"} /\ rq'[r].err
            /\ cz' = cz /\ faults' = faults
         \/ /\ TearShards(r) /\ rq'[r].pc = "rmdir" /\ rq'[r].err = rq[r].err
            /\ (Async(rq[r].opt) /\ Start(r, "goroutine")) \/ cz' = cz
            /\ faults' = [faults EXCEPT ![r] = faults[r] \cup {"streamer"}]
      /\ UNCHANGED <<tracer, killer, attached, gpuLock, checkpoints, criu, sent>>
  <2>1. "rmdir" \in Pcs /\ "blocked" \in Pcs
    BY DEF Pcs
  <2>2. /\ Fail(r, "blocked") => Updated(r) /\ Failed(r, "blocked")
        /\ Fail(r, "rmdir") => Updated(r) /\ Failed(r, "rmdir")
        /\ Go(r, "rmdir") => Updated(r) /\ Moved(r, "rmdir")
    BY <2>1, GoStep, FailStep
  <2>3. UNCHANGED <<world, gpus, checkpoints, wire>>
    BY Zenon DEF DeferWaitForIO, Opt
  <2>4. UNCHANGED <<tracer, killer, attached, gpuLock, checkpoints, criu, sent>>
    BY <2>3, Zenon DEF world, gpus, store, wire
  <2> QED
    BY <2>4, <2>2, Zenon DEF DeferWaitForIO, Opt, At, Streamed, Moved, Failed
<1>2. Types'
  <2>1. cz' \in [Requests -> CzRecord]
    BY <1>1, StartFields, Zenon DEF Types
  <2>2. images' \in [Requests -> Copies] /\ objects' \in [Requests -> Copies]
    BY <1>1, TearFields, StreamFields, Zenon DEF Types
  <2>3. faults' \in [Requests -> SUBSET {"state", "flush", "pack", "reap", "cut", "streamer"}]
    BY <1>1, FaultFields, Zenon DEF Types
  <2> QED
    BY <1>1, <2>1, <2>2, <2>3, Zenon DEF Types, Updated
<1>3. \A k \in Requests \ {r} : Untouched(k)
  <2> TAKE k \in Requests \ {r}
  <2>1. cz'[k] = cz[k]
    BY <1>1, StartFields, Zenon
  <2>2. images'[k] = images[k] /\ objects'[k] = objects[k]
    BY <1>1, TearFields, StreamFields, Zenon
  <2>3. faults'[k] = faults[k]
    BY <1>1, FaultFields, Zenon
  <2> QED
    BY <1>1, <2>1, <2>2, <2>3, Zenon DEF Untouched, Updated
<1>4. Control(r)'
  BY <1>1, StartFields, Zenon DEF Control, Before, After, TearShards
<1>5. Included(r)'
  BY <1>1, StartFields, Zenon DEF Included, TearShards
<1>6. Packer(r)'
  BY <1>1, StartFields, Zenon DEF Packer, Before, TearShards
<1>7. Holds(r)'
  <2>1. /\ rq[r].pc = "defer" /\ rq'[r].pc \in {"rmdir", "blocked"}
        /\ rq'[r].cbs = rq[r].cbs /\ rq'[r].ev = rq[r].ev /\ (rq[r].err => rq'[r].err)
        /\ UNCHANGED <<tracer, gpuLock, criu>>
    BY <1>1, Zenon
  <2> QED
    BY <2>1, Zenon DEF Holds, Before, After, Includes
<1>8. Contents(r)'
  <2>1. /\ rq'[r].pc \in {"rmdir", "blocked"} /\ sent'[r] = "none"
    BY <1>1, Zenon DEF Control
  <2> QED
    BY <2>1, Zenon DEF Contents
<1>9. Tarball(r)'
  <2>1. rq[r].opt.stream /\ rq'[r].opt = rq[r].opt
    BY <1>1, Zenon
  <2> QED
    BY <2>1, OptionsAre, Zenon DEF Tarball
<1>10. Results(r)'
  <2>1. /\ rq[r].pc = "defer" /\ rq[r].opt.stream /\ rq'[r].opt = rq[r].opt
        /\ rq'[r].pc \in {"rmdir", "blocked"} /\ UNCHANGED <<checkpoints, attached>>
    BY <1>1, Zenon
  <2>2. r \notin checkpoints
    BY <2>1, Zenon DEF Results
  <2>3. CASE /\ objects' = IF Direct(rq[r].opt) THEN [objects EXCEPT ![r] = images[r]] ELSE objects
             /\ rq'[r].err = rq[r].err /\ images' = images /\ faults' = faults
    <3>1. /\ objects'[r] = IF Direct(rq[r].opt) THEN images[r] ELSE objects[r]
          /\ rq'[r].err = rq[r].err /\ images'[r] = images[r]
      BY <2>3, Zenon DEF Types
    <3>2. ~rq[r].err => Complete(attached, images[r])
      BY <2>1, OptionsAre, Zenon DEF Contents, Ready
    <3> QED
      BY <2>1, <2>2, <3>1, <3>2, OptionsAre, Zenon DEF Results, Kept
  <2>4. CASE rq'[r].err
    BY <2>1, <2>2, <2>4, Zenon DEF Results
  <2>5. CASE faults' = [faults EXCEPT ![r] = faults[r] \cup {"streamer"}]
    <3>1. "streamer" \in faults'[r]
      BY <2>5 DEF Types
    <3> QED
      BY <2>1, <2>2, <3>1, Zenon DEF Results, Kept
  <2> QED
    BY <2>3, <2>4, <2>5, <1>1, Zenon
<1>11. Killed(r)'
  <2>1. /\ rq[r].opt.stream /\ rq'[r].opt = rq[r].opt /\ rq'[r].pc \in {"rmdir", "blocked"}
        /\ UNCHANGED <<criu, sent, killer, attached>>
    BY <1>1, ZenonT(60)
  <2> QED
    BY <2>1, OptionsAre, Zenon DEF Killed, Before
<1> QED
  BY <1>2, <1>3, <1>4, <1>5, <1>6, <1>7, <1>8, <1>9, <1>10, <1>11 DEF Keeps, Request

\* Compressed keeps the invariant.
LEMMA CompressedKeeps ==
    ASSUME IInv, NEW r \in Requests, Compressed(r) PROVE Keeps(r)
<1>0. /\ Types /\ Included(r) /\ Control(r) /\ Contents(r) /\ Packer(r)
      /\ Tarball(r) /\ Results(r) /\ Killed(r) /\ Holds(r)
  BY DEF IInv, Request
<1> USE <1>0
<1>1. /\ rq[r].pc = "compress" /\ cz[r].at \in {"ok", "error"} /\ Updated(r)
      /\ rq'[r].opt = rq[r].opt /\ rq'[r].cbs = rq[r].cbs /\ rq'[r].ev = rq[r].ev
      /\ rq'[r].pc = "rmdir" /\ rq'[r].err = rq[r].err
      /\ faults' = [faults EXCEPT ![r] = IF cz[r].at = "error" THEN faults[r] \cup {"pack"}
                                         ELSE faults[r]]
      /\ UNCHANGED <<tracer, killer, attached, gpuLock, images, objects, checkpoints, criu,
                     sent, cz>>
  <2>1. "rmdir" \in Pcs
    BY DEF Pcs
  <2>2. Go(r, "rmdir") => Updated(r) /\ Moved(r, "rmdir")
    BY <2>1, GoStep
  <2>3. UNCHANGED <<world, gpus, store, checkpoints, wire, cz>>
    BY Zenon DEF Compressed
  <2>4. UNCHANGED <<tracer, killer, attached, gpuLock, images, objects, checkpoints, criu, sent,
                    cz>>
    BY <2>3 DEF world, gpus, store, wire
  <2> QED
    BY <2>4, <2>2, Zenon DEF Compressed, At, Moved
<1>2. Types'
  BY <1>1 DEF Types, Updated
<1>3. \A k \in Requests \ {r} : Untouched(k)
  BY <1>1, DumpAssumption DEF Untouched, Types, Updated
<1>4. Control(r)'
  BY <1>1, Zenon DEF Control, Before, After
<1>5. Included(r)'
  BY <1>1, Zenon DEF Included
<1>6. Packer(r)'
  BY <1>1, Zenon DEF Packer, Before
<1>7. Holds(r)'
  BY <1>1, DumpAssumption, Zenon DEF Holds, Before, After, Includes
<1>8. Contents(r)'
  BY <1>1, Zenon DEF Contents, GpuSaved, Ready
<1>9. Tarball(r)'
  BY <1>1, Zenon DEF Tarball, Types
<1>10. Results(r)'
  <2>1. /\ rq[r].pc = "compress" /\ rq'[r].pc = "rmdir" /\ rq'[r].opt = rq[r].opt /\ rq'[r].err = rq[r].err
        /\ cz[r].at = "ok" \/ "pack" \in faults'[r]
        /\ UNCHANGED <<cz, images, objects, checkpoints, attached>>
    BY <1>1, Zenon DEF Types
  <2>2. PacksNow(rq[r].opt) /\ r \notin checkpoints
    BY <2>1, Zenon DEF Packer, Results
  <2> QED
    BY <2>1, <2>2, OptionsAre, Zenon DEF Results, Kept
<1>11. Killed(r)'
  BY <1>1, ZenonT(60) DEF Killed, Before, Types
<1> QED
  BY <1>2, <1>3, <1>4, <1>5, <1>6, <1>7, <1>8, <1>9, <1>10, <1>11 DEF Keeps, Request

\* RemoveImages keeps the invariant.
LEMMA RemoveImagesKeeps ==
    ASSUME IInv, NEW r \in Requests, RemoveImages(r) PROVE Keeps(r)
<1>0. /\ Types /\ Included(r) /\ Control(r) /\ Contents(r) /\ Packer(r)
      /\ Tarball(r) /\ Results(r) /\ Killed(r) /\ Holds(r)
  BY DEF IInv, Request
<1> USE <1>0
<1>1. /\ rq[r].pc = "rmdir" /\ Updated(r)
      /\ rq'[r].opt = rq[r].opt /\ rq'[r].cbs = rq[r].cbs /\ rq'[r].ev = rq[r].ev
      /\ rq'[r].pc = "managed" /\ rq'[r].err = rq[r].err
      /\ images' = IF rq[r].err \/ (rq[r].opt.remote /\ ~Async(rq[r].opt))
                   THEN [images EXCEPT ![r] = Absent] ELSE images
      /\ UNCHANGED <<tracer, killer, attached, gpuLock, objects, checkpoints, criu, sent,
                     cz, faults>>
  <2>1. "managed" \in Pcs
    BY DEF Pcs
  <2>2. Go(r, "managed") => Updated(r) /\ Moved(r, "managed")
    BY <2>1, GoStep
  <2>3. UNCHANGED <<world, gpus, objects, checkpoints, wire, cz, faults>>
    BY Zenon DEF RemoveImages, Opt
  <2>4. UNCHANGED <<tracer, killer, attached, gpuLock, objects, checkpoints, criu, sent, cz,
                    faults>>
    BY <2>3 DEF world, gpus, store, wire
  <2> QED
    BY <2>4, <2>2, Zenon DEF RemoveImages, Opt, At, Moved
<1>2. Types'
  BY <1>1, CopiesAre DEF Types, Updated
<1>3. \A k \in Requests \ {r} : Untouched(k)
  BY <1>1, DumpAssumption DEF Untouched, Types, Updated
<1>4. Control(r)'
  BY <1>1, Zenon DEF Control, Before, After
<1>5. Included(r)'
  BY <1>1, Zenon DEF Included
<1>6. Packer(r)'
  BY <1>1, Zenon DEF Packer, Before
<1>7. Holds(r)'
  BY <1>1, DumpAssumption, Zenon DEF Holds, Before, After, Includes
<1>8. Contents(r)'
  <2>1. /\ rq'[r].pc = "managed" /\ sent'[r] = "none"
    BY <1>1, Zenon DEF Control
  <2> QED
    BY <2>1, Zenon DEF Contents
<1>9. Tarball(r)'
  <2>1. /\ rq[r].pc = "rmdir" /\ rq'[r].opt = rq[r].opt /\ rq'[r].err = rq[r].err
        /\ images'[r] = images[r] \/ images'[r] = Absent
        /\ UNCHANGED <<cz, objects, faults, killer, attached>>
    BY <1>1, Zenon DEF Types
  <2>2. PacksNow(rq[r].opt) => cz[r].at \notin {"create", "tar", "close"}
    BY <2>1, FieldTypes, OptionsAre, Zenon DEF Packer
  <2> QED
    BY <2>1, <2>2, Zenon DEF Tarball
<1>10. Results(r)'
  <2>1. /\ rq[r].pc = "rmdir" /\ rq'[r].pc = "managed" /\ rq'[r].opt = rq[r].opt /\ rq'[r].err = rq[r].err
        /\ images'[r] = IF rq[r].err \/ (rq[r].opt.remote /\ ~Async(rq[r].opt)) THEN Absent ELSE images[r]
        /\ UNCHANGED <<cz, objects, faults, checkpoints, attached>>
    BY <1>1, Zenon DEF Types
  <2> QED
    BY <2>1, OptionsAre, Zenon DEF Results, Kept
<1>11. Killed(r)'
  <2>1. /\ rq[r].pc = "rmdir" /\ rq'[r].pc = "managed" /\ rq'[r].opt = rq[r].opt /\ rq'[r].err = rq[r].err
        /\ images'[r] = IF rq[r].err \/ (rq[r].opt.remote /\ ~Async(rq[r].opt)) THEN Absent ELSE images[r]
        /\ UNCHANGED <<cz, faults, criu, sent, killer, attached>>
    BY <1>1, ZenonT(60) DEF Types
  <2> QED
    BY <2>1, OptionsAre, Zenon DEF Killed, Before
<1> QED
  BY <1>2, <1>3, <1>4, <1>5, <1>6, <1>7, <1>8, <1>9, <1>10, <1>11 DEF Keeps, Request

\* ManageDump keeps the invariant.
LEMMA ManageDumpKeeps ==
    ASSUME IInv, NEW r \in Requests, ManageDump(r) PROVE Keeps(r)
<1>0. /\ Types /\ Included(r) /\ Control(r) /\ Contents(r) /\ Packer(r)
      /\ Tarball(r) /\ Results(r) /\ Killed(r) /\ Holds(r)
  BY DEF IInv, Request
<1> USE <1>0
<1>1. /\ rq[r].pc = "managed" /\ Updated(r)
      /\ rq'[r].opt = rq[r].opt /\ rq'[r].cbs = rq[r].cbs /\ rq'[r].ev = rq[r].ev
      /\ \/ /\ checkpoints' = checkpoints \cup {r} /\ ~rq[r].err
            /\ rq'[r].pc \in {"await", "done"} /\ rq'[r].err = rq[r].err
         \/ checkpoints' = checkpoints /\ rq'[r].pc = "done" /\ rq'[r].err = rq[r].err
      /\ UNCHANGED <<tracer, killer, attached, gpuLock, images, objects, criu, sent, cz,
                     faults>>
  <2>1. "await" \in Pcs /\ "done" \in Pcs
    BY DEF Pcs
  <2>2. /\ Go(r, "await") => Updated(r) /\ Moved(r, "await")
        /\ Go(r, "done") => Updated(r) /\ Moved(r, "done")
    BY <2>1, GoStep
  <2>3. UNCHANGED <<world, gpus, store, wire, cz, faults>>
    BY Zenon DEF ManageDump
  <2>4. UNCHANGED <<tracer, killer, attached, gpuLock, images, objects, criu, sent, cz, faults>>
    BY <2>3 DEF world, gpus, store, wire
  <2> QED
    BY <2>4, <2>2, Zenon DEF ManageDump, At, Moved
<1>2. Types'
  BY <1>1, ZenonT(60) DEF Types, Updated
<1>3. \A k \in Requests \ {r} : Untouched(k)
  BY <1>1, DumpAssumption DEF Untouched, Types, Updated
<1>4. Control(r)'
  BY <1>1, Zenon DEF Control, Before, After
<1>5. Included(r)'
  BY <1>1, Zenon DEF Included
<1>6. Packer(r)'
  BY <1>1, Zenon DEF Packer, Before
<1>7. Holds(r)'
  BY <1>1, DumpAssumption, Zenon DEF Holds, Before, After, Includes
<1>8. Contents(r)'
  BY <1>1, Zenon DEF Contents, GpuSaved, Ready
<1>9. Tarball(r)'
  BY <1>1, Zenon DEF Tarball
<1>10. Results(r)'
  BY <1>1, Zenon DEF Results, Kept
<1>11. Killed(r)'
  BY <1>1, ZenonT(60) DEF Killed, Before
<1> QED
  BY <1>2, <1>3, <1>4, <1>5, <1>6, <1>7, <1>8, <1>9, <1>10, <1>11 DEF Keeps, Request

\* JobDone keeps the invariant.
LEMMA JobDoneKeeps ==
    ASSUME IInv, NEW r \in Requests, JobDone(r) PROVE Keeps(r)
<1>0. /\ Types /\ Included(r) /\ Control(r) /\ Contents(r) /\ Packer(r)
      /\ Tarball(r) /\ Results(r) /\ Killed(r) /\ Holds(r)
  BY DEF IInv, Request
<1> USE <1>0
<1>1. /\ rq[r].pc = "await" /\ Updated(r)
      /\ rq'[r].opt = rq[r].opt /\ rq'[r].cbs = rq[r].cbs /\ rq'[r].ev = rq[r].ev
      /\ rq'[r].pc = "done" /\ rq'[r].err = rq[r].err
      /\ UNCHANGED <<tracer, killer, attached, gpuLock, images, objects, checkpoints, criu,
                     sent, cz, faults>>
  <2>1. "done" \in Pcs
    BY DEF Pcs
  <2>2. Go(r, "done") => Updated(r) /\ Moved(r, "done")
    BY <2>1, GoStep
  <2>3. UNCHANGED <<world, gpus, store, checkpoints, wire, cz, faults>>
    BY Zenon DEF JobDone
  <2>4. UNCHANGED <<tracer, killer, attached, gpuLock, images, objects, checkpoints, criu, sent,
                    cz, faults>>
    BY <2>3 DEF world, gpus, store, wire
  <2> QED
    BY <2>4, <2>2, Zenon DEF JobDone, At, Moved
<1>2. Types'
  BY <1>1, Zenon DEF Types, Updated
<1>3. \A k \in Requests \ {r} : Untouched(k)
  BY <1>1, DumpAssumption DEF Untouched, Types, Updated
<1>4. Control(r)'
  BY <1>1, Zenon DEF Control, Before, After
<1>5. Included(r)'
  BY <1>1, Zenon DEF Included
<1>6. Packer(r)'
  BY <1>1, Zenon DEF Packer, Before
<1>7. Holds(r)'
  BY <1>1, DumpAssumption, Zenon DEF Holds, Before, After, Includes
<1>8. Contents(r)'
  BY <1>1, Zenon DEF Contents, GpuSaved, Ready
<1>9. Tarball(r)'
  BY <1>1, Zenon DEF Tarball
<1>10. Results(r)'
  BY <1>1, Zenon DEF Results, Kept
<1>11. Killed(r)'
  BY <1>1, Zenon DEF Killed, Before
<1> QED
  BY <1>2, <1>3, <1>4, <1>5, <1>6, <1>7, <1>8, <1>9, <1>10, <1>11 DEF Keeps, Request

\* CompressCreate keeps the invariant.
LEMMA CompressCreateKeeps ==
    ASSUME IInv, NEW r \in Requests, CompressCreate(r) PROVE Keeps(r)
<1>0. /\ Types /\ Included(r) /\ Control(r) /\ Contents(r) /\ Packer(r)
      /\ Tarball(r) /\ Results(r) /\ Killed(r) /\ Holds(r)
  BY DEF IInv, Request
<1> USE <1>0
<1>1. /\ cz[r].at = "create" /\ ~rq[r].opt.stream
      /\ cz' \in [Requests -> CzRecord] /\ \A s \in Requests : s # r => cz'[s] = cz[s]
      /\ cz'[r].who = cz[r].who /\ cz'[r].at \in {"tar", "error"}
      /\ objects' = objects \/ objects' = [objects EXCEPT ![r] = Torn]
      /\ UNCHANGED <<tracer, killer, attached, gpuLock, images, checkpoints, criu, sent,
                     faults, rq>>
  <2>1. /\ cz[r].at = "create" /\ ~rq[r].opt.stream
        /\ UNCHANGED <<world, gpus, images, checkpoints, wire, faults, rq>>
        /\ objects' = objects \/ objects' = [objects EXCEPT ![r] = Torn]
    BY Zenon DEF CompressCreate, Opt
  <2>2. PICK a \in {"tar", "error"} : cz' = [cz EXCEPT ![r].at = a]
    BY Zenon DEF CompressCreate, Opt
  <2>3. /\ cz' \in [Requests -> CzRecord] /\ \A s \in Requests : s # r => cz'[s] = cz[s]
        /\ cz'[r].who = cz[r].who /\ cz'[r].at = a
    BY <2>2, CzFields, Zenon
  <2>4. UNCHANGED <<tracer, killer, attached, gpuLock, images, checkpoints, criu, sent, faults,
                    rq>>
    BY <2>1, Zenon DEF world, gpus, store, wire
  <2> QED
    BY <2>4, <2>1, <2>3, Zenon
<1>2. Control(r)' /\ Included(r)' /\ Holds(r)'
  BY <1>1, ControlFrame, IncludedFrame, HoldsFrame, Zenon
<1>3. Types'
  BY <1>1, CopiesAre, ZenonT(60) DEF Types
<1>4. \A k \in Requests \ {r} : Untouched(k)
  BY <1>1, DumpAssumption DEF Untouched, Types
<1>5. Packer(r)'
  BY <1>1, Zenon DEF Packer, Before
<1>6. Contents(r)'
  BY <1>1, ZenonT(60) DEF Contents, GpuSaved, Ready
<1>7. Tarball(r)'
  BY <1>1 DEF Tarball, Types
<1>8. Results(r)'
  <2>1. /\ cz[r].at = "create" /\ UNCHANGED <<rq, images, checkpoints, attached>>
    BY <1>1 DEF Types
  <2>2. rq[r].pc \in {"rmdir", "managed", "await", "done"} => Async(rq[r].opt)
    BY <2>1, FieldTypes, Zenon DEF Packer
  <2> QED
    BY <2>1, <2>2, Zenon DEF Results
<1>9. Killed(r)'
  BY <1>1, Zenon DEF Killed, Before
<1> QED
  BY <1>2, <1>3, <1>4, <1>5, <1>6, <1>7, <1>8, <1>9, ZenonT(60) DEF Keeps, Request

\* CompressTar keeps the invariant.
LEMMA CompressTarKeeps ==
    ASSUME IInv, NEW r \in Requests, CompressTar(r) PROVE Keeps(r)
<1>0. /\ Types /\ Included(r) /\ Control(r) /\ Contents(r) /\ Packer(r)
      /\ Tarball(r) /\ Results(r) /\ Killed(r) /\ Holds(r)
  BY DEF IInv, Request
<1> USE <1>0
<1>1. /\ cz[r].at = "tar"
      /\ cz' \in [Requests -> CzRecord] /\ \A s \in Requests : s # r => cz'[s] = cz[s]
      /\ cz'[r].who = cz[r].who /\ cz'[r].at = "close"
      /\ images' = [images EXCEPT ![r] = Absent]
      /\ \/ /\ cz'[r].data = images[r] /\ faults' = faults
            /\ objects' = IF rq[r].opt.remote THEN objects
                          ELSE [objects EXCEPT ![r] = images[r]]
         \/ /\ faults' = [faults EXCEPT ![r] = faults[r] \cup {"flush"}]
            /\ objects' = objects
         \/ /\ cz'[r].failed /\ faults' = faults
            /\ objects' = objects \/ objects' = [objects EXCEPT ![r] = Absent]
      /\ UNCHANGED <<tracer, killer, attached, gpuLock, checkpoints, criu, sent, rq>>
  <2>1. /\ cz[r].at = "tar" /\ images' = [images EXCEPT ![r] = Absent]
        /\ UNCHANGED <<world, gpus, checkpoints, wire, rq>>
    BY DEF CompressTar, Opt
  <2>same. UNCHANGED <<tracer, killer, attached, gpuLock, checkpoints, criu, sent, rq>>
    BY <2>1, Zenon DEF world, gpus, store, wire
  <2>2. PICK z \in CzRecord : z = cz[r]
    BY DEF Types
  <2>3. images[r] \in Copies /\ Torn \in Copies
    BY DEF Types, Copies, Torn
  <2>4. CASE /\ cz' = [cz EXCEPT ![r].at = "close", ![r].data = images[r]]
             /\ objects' = IF rq[r].opt.remote THEN objects
                           ELSE [objects EXCEPT ![r] = images[r]]
             /\ UNCHANGED faults
    <3>1. PICK x : x = [z EXCEPT !.at = "close", !.data = images[r]]
      OBVIOUS
    <3>2. x \in CzRecord /\ x.at = "close" /\ x.who = z.who /\ x.data = images[r]
      BY <2>3, <3>1, Zenon DEF CzRecord
    <3>3. cz' = [cz EXCEPT ![r] = x]
      BY <2>2, <2>4, <3>1, Zenon
    <3>4. /\ cz' \in [Requests -> CzRecord] /\ \A s \in Requests : s # r => cz'[s] = cz[s]
          /\ cz'[r] = x
      BY <3>2, <3>3 DEF Types
    <3> QED
      BY <2>1, <2>same, <2>2, <2>4, <3>2, <3>4, ZenonT(60)
  <2>5. CASE /\ cz' = [cz EXCEPT ![r].at = "close", ![r].data = Torn]
             /\ faults' = [faults EXCEPT ![r] = @ \cup {"flush"}]
             /\ UNCHANGED objects
    <3>1. PICK x : x = [z EXCEPT !.at = "close", !.data = Torn]
      OBVIOUS
    <3>2. x \in CzRecord /\ x.at = "close" /\ x.who = z.who
      BY <2>3, <3>1, Zenon DEF CzRecord
    <3>3. cz' = [cz EXCEPT ![r] = x]
      BY <2>2, <2>5, <3>1, Zenon
    <3>4. /\ cz' \in [Requests -> CzRecord] /\ \A s \in Requests : s # r => cz'[s] = cz[s]
          /\ cz'[r] = x
      BY <3>2, <3>3 DEF Types
    <3> QED
      BY <2>1, <2>same, <2>2, <2>5, <3>2, <3>4, Zenon
  <2>6. CASE /\ cz' = [cz EXCEPT ![r].at = "close", ![r].data = Torn, ![r].failed = TRUE]
             /\ objects' \in {objects, [objects EXCEPT ![r] = Absent]}
             /\ UNCHANGED faults
    <3>1. PICK x : x = [z EXCEPT !.at = "close", !.data = Torn, !.failed = TRUE]
      OBVIOUS
    <3>2. x \in CzRecord /\ x.at = "close" /\ x.who = z.who /\ x.failed = TRUE
      BY <2>3, <3>1, Zenon DEF CzRecord
    <3>3. cz' = [cz EXCEPT ![r] = x]
      BY <2>2, <2>6, <3>1, ZenonT(60)
    <3>4. /\ cz' \in [Requests -> CzRecord] /\ \A s \in Requests : s # r => cz'[s] = cz[s]
          /\ cz'[r] = x
      BY <3>2, <3>3 DEF Types
    <3> QED
      BY <2>1, <2>same, <2>2, <2>6, <3>2, <3>4, Zenon
  <2> QED
    BY <2>4, <2>5, <2>6, Zenon DEF CompressTar, Opt
<1>2. Control(r)' /\ Included(r)' /\ Holds(r)'
  BY <1>1, ControlFrame, IncludedFrame, HoldsFrame, Zenon
<1>3. Types'
  <2>1. images' \in [Requests -> Copies]
    BY <1>1, CopiesAre, CopyFields, Zenon DEF Types
  <2>2. images[r] \in Copies
    BY DEF Types
  <2>3. objects' \in [Requests -> Copies]
    <3>1. objects \in [Requests -> Copies] /\ Absent \in Copies
      BY CopiesAre, Zenon DEF Types
    <3>2. \/ objects' = objects \/ objects' = [objects EXCEPT ![r] = images[r]]
          \/ objects' = [objects EXCEPT ![r] = Absent]
      BY <1>1, Zenon
    <3> QED
      BY <2>2, <3>1, <3>2, CopyFields, ZenonT(60)
  <2>4. faults' \in [Requests -> SUBSET {"state", "flush", "pack", "reap", "cut", "streamer"}]
    BY <1>1, FaultFields, Zenon DEF Types
  <2> QED
    BY <1>1, <2>1, <2>3, <2>4, Zenon DEF Types
<1>4. \A k \in Requests \ {r} : Untouched(k)
  BY <1>1, DumpAssumption DEF Untouched, Types
<1>5. Packer(r)'
  BY <1>1, Zenon DEF Packer, Before
<1>6. Contents(r)'
  <2>1. /\ cz[r].at = "tar" /\ cz'[r].at = "close" /\ UNCHANGED <<rq, sent, attached>>
    BY <1>1 DEF Types
  <2>2. \/ rq[r].pc = "hook" /\ rq[r].ev = "post-dump"
        \/ rq[r].pc \in {"compress", "rmdir", "managed", "await", "done", "blocked"}
    BY <2>1, FieldTypes, Zenon DEF Packer, Before, Pcs
  <2> QED
    BY <2>1, <2>2, ZenonT(60) DEF Contents, Control
<1>7. Tarball(r)'
  <2>1. /\ cz[r].at = "tar" /\ cz'[r].at = "close" /\ UNCHANGED <<rq, attached>>
        /\ images'[r] = Absent
    BY <1>1, CopiesAre, CopyFields, ZenonT(60) DEF Types
  <2>2. \/ /\ cz'[r].data = images[r]
           /\ ~rq[r].opt.remote => objects'[r] = images[r]
        \/ "flush" \in faults'[r]
        \/ cz'[r].failed
    <3>1. /\ images[r] \in Copies /\ objects \in [Requests -> Copies]
          /\ "flush" \in {"state", "flush", "pack", "reap", "cut", "streamer"}
      BY Zenon DEF Types
    <3>2. CASE /\ cz'[r].data = images[r]
               /\ objects' = IF rq[r].opt.remote THEN objects
                             ELSE [objects EXCEPT ![r] = images[r]]
      BY <3>1, <3>2, CopyFields, Zenon
    <3>3. CASE faults' = [faults EXCEPT ![r] = faults[r] \cup {"flush"}]
      BY <3>1, <3>3, FaultFields, Zenon
    <3> QED
      BY <1>1, <3>2, <3>3, Zenon
  <2> QED
    BY <2>1, <2>2, Zenon DEF Tarball
<1>8. Results(r)'
  <2>1. /\ cz[r].at = "tar" /\ images'[r] = Absent /\ UNCHANGED <<rq, checkpoints, attached>>
    BY <1>1 DEF Types
  <2>2. rq[r].pc \in {"rmdir", "managed", "await", "done"} => Async(rq[r].opt)
    BY <2>1, FieldTypes, Zenon DEF Packer
  <2> QED
    BY <2>1, <2>2, ZenonT(60) DEF Results
<1>9. Killed(r)'
  <2>1. /\ cz[r].at = "tar" /\ UNCHANGED <<rq, criu, sent, killer, attached>>
        /\ faults[r] \subseteq faults'[r]
    BY <1>1 DEF Types
  <2>2. PacksNow(rq[r].opt) \/ (Async(rq[r].opt) /\ (Packs(rq[r].opt) \/ rq[r].opt.stream))
    BY <2>1, FieldTypes, OptionsAre, ZenonT(60) DEF Packer
  <2> QED
    BY <2>1, <2>2, OptionsAre, ZenonT(60) DEF Killed
<1> QED
  BY <1>2, <1>3, <1>4, <1>5, <1>6, <1>7, <1>8, <1>9 DEF Keeps, Request

\* CompressClose keeps the invariant.
LEMMA CompressCloseKeeps ==
    ASSUME IInv, NEW r \in Requests, CompressClose(r) PROVE Keeps(r)
<1>0. /\ Types /\ Included(r) /\ Control(r) /\ Contents(r) /\ Packer(r)
      /\ Tarball(r) /\ Results(r) /\ Killed(r) /\ Holds(r)
  BY DEF IInv, Request
<1> USE <1>0
<1>1. /\ cz[r].at = "close"
      /\ cz' \in [Requests -> CzRecord] /\ \A s \in Requests : s # r => cz'[s] = cz[s]
      /\ cz'[r].who = cz[r].who /\ cz'[r].at \in {"ok", "error"}
      /\ cz'[r].at = "ok" =>
             /\ ~cz[r].failed
             /\ objects' = IF rq[r].opt.remote THEN [objects EXCEPT ![r] = cz[r].data]
                           ELSE objects
      /\ objects' = objects \/ objects' = [objects EXCEPT ![r] = cz[r].data]
      /\ UNCHANGED <<tracer, killer, attached, gpuLock, images, checkpoints, criu, sent,
                     faults, rq>>
  <2>1. /\ cz[r].at = "close"
        /\ UNCHANGED <<world, gpus, images, checkpoints, wire, faults, rq>>
    BY DEF CompressClose, Opt
  <2>2. PICK a \in {"ok", "error"} :
            /\ cz' = [cz EXCEPT ![r].at = a]
            /\ a = "ok" => /\ ~cz[r].failed
                           /\ objects' = IF rq[r].opt.remote THEN [objects EXCEPT ![r] = cz[r].data]
                                         ELSE objects
            /\ objects' = objects \/ objects' = [objects EXCEPT ![r] = cz[r].data]
    BY Zenon DEF CompressClose, Opt
  <2>3. /\ cz' \in [Requests -> CzRecord] /\ \A s \in Requests : s # r => cz'[s] = cz[s]
        /\ cz'[r].who = cz[r].who /\ cz'[r].at = a
    BY <2>2, CzFields, Zenon
  <2>4. UNCHANGED <<tracer, killer, attached, gpuLock, images, checkpoints, criu, sent, faults,
                    rq>>
    BY <2>1, Zenon DEF world, gpus, store, wire
  <2> QED
    BY <2>4, <2>1, <2>2, <2>3, Zenon
<1>2. Control(r)' /\ Included(r)' /\ Holds(r)'
  BY <1>1, ControlFrame, IncludedFrame, HoldsFrame, Zenon
<1>3. Types'
  BY <1>1, ZenonT(60) DEF Types, CzRecord
<1>4. \A k \in Requests \ {r} : Untouched(k)
  BY <1>1, DumpAssumption DEF Untouched, Types
<1>5. Packer(r)'
  BY <1>1, Zenon DEF Packer, Before
<1>6. Contents(r)'
  BY <1>1, ZenonT(60) DEF Contents, GpuSaved, Ready
<1>7. Tarball(r)'
  <2>1. /\ cz[r].at = "close" /\ cz'[r].at \in {"ok", "error"}
        /\ UNCHANGED <<rq, images, faults, killer, attached>>
    BY <1>1, Zenon
  <2>2. CASE cz'[r].at = "ok"
    <3>1. /\ ~cz[r].failed
          /\ objects'[r] = IF rq[r].opt.remote THEN cz[r].data ELSE objects[r]
      BY <2>2, <1>1 DEF Types
    <3>2. PacksNow(rq[r].opt) => killer # r
      BY <2>1, Zenon DEF Killed
    <3> QED
      BY <2>1, <2>2, <3>1, <3>2, ZenonT(60) DEF Tarball
  <2>3. CASE cz'[r].at = "error"
    BY <2>3, Zenon DEF Tarball
  <2> QED
    BY <2>1, <2>2, <2>3, Zenon
<1>8. Results(r)'
  <2>1. /\ cz[r].at = "close" /\ UNCHANGED <<rq, images, checkpoints, attached>>
    BY <1>1 DEF Types
  <2>2. rq[r].pc \in {"rmdir", "managed", "await", "done"} => Async(rq[r].opt)
    BY <2>1, FieldTypes, Zenon DEF Packer
  <2> QED
    BY <2>1, <2>2, ZenonT(60) DEF Results
<1>9. Killed(r)'
  BY <1>1, ZenonT(60) DEF Killed, Before
<1> QED
  BY <1>2, <1>3, <1>4, <1>5, <1>6, <1>7, <1>8, <1>9 DEF Keeps, Request

\* StreamUpload keeps the invariant.
LEMMA StreamUploadKeeps ==
    ASSUME IInv, NEW r \in Requests, StreamUpload(r) PROVE Keeps(r)
<1>0. /\ Types /\ Included(r) /\ Control(r) /\ Contents(r) /\ Packer(r)
      /\ Tarball(r) /\ Results(r) /\ Killed(r) /\ Holds(r)
  BY DEF IInv, Request
<1> USE <1>0
<1>1. /\ cz[r].at = "create" /\ rq[r].opt.stream
      /\ cz' \in [Requests -> CzRecord] /\ \A s \in Requests : s # r => cz'[s] = cz[s]
      /\ cz'[r].who = cz[r].who /\ cz'[r].at = "ok"
      /\ \E copy \in {images[r], Torn, Absent} : objects' = [objects EXCEPT ![r] = copy]
      /\ images' = [images EXCEPT ![r] = Absent]
      /\ UNCHANGED <<tracer, killer, attached, gpuLock, checkpoints, criu, sent, faults,
                     rq>>
  <2>1. /\ cz[r].at = "create" /\ rq[r].opt.stream
        /\ \E copy \in {images[r], Torn, Absent} : objects' = [objects EXCEPT ![r] = copy]
        /\ images' = [images EXCEPT ![r] = Absent]
        /\ UNCHANGED <<world, gpus, checkpoints, wire, faults, rq>>
    BY Zenon DEF StreamUpload, Opt
  <2>2. cz' = [cz EXCEPT ![r].at = "ok"]
    BY Zenon DEF StreamUpload, Opt
  <2>3. /\ cz' \in [Requests -> CzRecord] /\ \A s \in Requests : s # r => cz'[s] = cz[s]
        /\ cz'[r].who = cz[r].who /\ cz'[r].at = "ok"
    BY <2>2, CzFields, Zenon
  <2>4. UNCHANGED <<tracer, killer, attached, gpuLock, checkpoints, criu, sent, faults, rq>>
    BY <2>1, Zenon DEF world, gpus, store, wire
  <2> QED
    BY <2>4, <2>1, <2>3, Zenon
<1>2. Control(r)' /\ Included(r)' /\ Holds(r)'
  BY <1>1, ControlFrame, IncludedFrame, HoldsFrame, ZenonT(60)
<1>3. Types'
  BY <1>1, CopiesAre DEF Types
<1>4. \A k \in Requests \ {r} : Untouched(k)
  BY <1>1, DumpAssumption DEF Untouched, Types
<1>5. Packer(r)'
  BY <1>1, Zenon DEF Packer, Before
<1>6. Contents(r)'
  <2>1. /\ cz[r].at = "create" /\ cz'[r].at = "ok" /\ UNCHANGED <<rq, sent, attached>> /\ rq[r].opt.stream
    BY <1>1 DEF Types
  <2>2. rq[r].pc \in {"rmdir", "managed", "await", "done", "blocked"}
    BY <2>1, OptionsAre, FieldTypes, Zenon DEF Packer, Before, Pcs
  <2> QED
    BY <2>1, <2>2, ZenonT(60) DEF Contents, Control
<1>7. Tarball(r)'
  <2>1. rq[r].opt.stream /\ rq'[r].opt = rq[r].opt
    BY <1>1 DEF Types
  <2> QED
    BY <2>1, OptionsAre, Zenon DEF Tarball
<1>8. Results(r)'
  <2>1. /\ cz[r].at = "create" /\ images'[r] = Absent /\ UNCHANGED <<rq, checkpoints, attached>>
    BY <1>1 DEF Types
  <2>2. rq[r].pc \in {"rmdir", "managed", "await", "done"} => Async(rq[r].opt)
    BY <2>1, FieldTypes, ZenonT(60) DEF Packer
  <2> QED
    BY <2>1, <2>2, Zenon DEF Results
<1>9. Killed(r)'
  BY <1>1 DEF Killed, Before, Types
<1> QED
  BY <1>2, <1>3, <1>4, <1>5, <1>6, <1>7, <1>8, <1>9 DEF Keeps, Request

\* CriuPreDump keeps the invariant.
LEMMA CriuPreDumpKeeps ==
    ASSUME IInv, NEW r \in Requests, CriuPreDump(r) PROVE Keeps(r)
<1>0. /\ Types /\ Included(r) /\ Control(r) /\ Contents(r) /\ Packer(r)
      /\ Tarball(r) /\ Results(r) /\ Killed(r) /\ Holds(r)
  BY DEF IInv, Request
<1> USE <1>0
<1>1. /\ rq[r].pc = "recv" /\ sent[r] = "none" /\ criu[r] = "pre-dump"
      /\ sent' = [sent EXCEPT ![r] = "pre-dump"] /\ criu' = [criu EXCEPT ![r] = "seize"]
      /\ UNCHANGED <<rq, images, objects, cz, faults, attached, tracer, killer, gpuLock,
                      checkpoints>>
  BY Zenon DEF CriuPreDump, CriuTurn, At, Say, world, gpus, store, wire
<1>2. Included(r)' /\ Packer(r)' /\ Tarball(r)' /\ Results(r)'
  BY <1>1, IncludedFrame, PackerFrame, TarballFrame, ResultsFrame, Zenon
<1>3. Types'
  BY <1>1, ZenonT(60) DEF Types, CriuPhases, Events
<1>4. \A k \in Requests \ {r} : Untouched(k)
  BY <1>1, DumpAssumption DEF Untouched, Types
<1>5. Control(r)'
  BY <1>1, ZenonT(60) DEF Control, Before, After, Types, PhaseOf, Events
<1>6. Holds(r)'
  BY <1>1, DumpAssumption DEF Holds, Before, After, Types
<1>7. Contents(r)'
  BY <1>1, Zenon DEF Contents, GpuSaved, Ready, Types
<1>8. Killed(r)'
  BY <1>1, Zenon DEF Killed, Before, Types
<1> QED
  BY <1>2, <1>3, <1>4, <1>5, <1>6, <1>7, <1>8, ZenonT(60) DEF Keeps, Request

\* CriuSeize keeps the invariant.
LEMMA CriuSeizeKeeps ==
    ASSUME IInv, NEW r \in Requests, CriuSeize(r) PROVE Keeps(r)
<1>0. /\ Types /\ Included(r) /\ Control(r) /\ Contents(r) /\ Packer(r)
      /\ Tarball(r) /\ Results(r) /\ Killed(r) /\ Holds(r)
  BY DEF IInv, Request
<1> USE <1>0
<1>1. /\ rq[r].pc = "recv" /\ sent[r] = "none" /\ criu[r] = "seize"
      /\ sent' = [sent EXCEPT ![r] = "query-ext-files"] /\ criu' = [criu EXCEPT ![r] = "dump"]
      /\ tracer' = r
      /\ UNCHANGED <<rq, images, objects, cz, faults, attached, killer, gpuLock, checkpoints>>
  BY Zenon DEF CriuSeize, CriuTurn, At, Say, world, gpus, store, wire
<1>2. Included(r)' /\ Packer(r)' /\ Tarball(r)' /\ Results(r)'
  BY <1>1, IncludedFrame, PackerFrame, TarballFrame, ResultsFrame, Zenon
<1>3. Types'
  BY <1>1, Zenon DEF Types, CriuPhases, Events
<1>4. \A k \in Requests \ {r} : Untouched(k)
  BY <1>1, DumpAssumption DEF Untouched, Types
<1>5. Control(r)'
  BY <1>1, ZenonT(60) DEF Control, Before, After, Types, PhaseOf, Events
<1>6. Holds(r)'
  BY <1>1, DumpAssumption DEF Holds, Before, After, Types
<1>7. Contents(r)'
  BY <1>1, Zenon DEF Contents, GpuSaved, Ready, Types
<1>8. Killed(r)'
  BY <1>1, Zenon DEF Killed, Before, Types
<1> QED
  BY <1>2, <1>3, <1>4, <1>5, <1>6, <1>7, <1>8, Zenon DEF Keeps, Request

\* CriuDump keeps the invariant.
LEMMA CriuDumpKeeps ==
    ASSUME IInv, NEW r \in Requests, CriuDump(r) PROVE Keeps(r)
<1>0. /\ Types /\ Included(r) /\ Control(r) /\ Contents(r) /\ Packer(r)
      /\ Tarball(r) /\ Results(r) /\ Killed(r) /\ Holds(r)
  BY DEF IInv, Request
<1> USE <1>0
<1>1. /\ rq[r].pc = "recv" /\ sent[r] = "none" /\ criu[r] = "dump"
      /\ sent' = [sent EXCEPT ![r] = "post-dump"] /\ criu' = [criu EXCEPT ![r] = "finish"]
      /\ images' = [images EXCEPT ![r] = images[r] \cup {"pages"}]
      /\ UNCHANGED <<rq, objects, cz, faults, attached, tracer, killer, gpuLock, checkpoints>>
  BY Zenon DEF CriuDump, CriuTurn, At, Say, world, gpus, store, wire
<1>2. Included(r)' /\ Packer(r)'
  BY <1>1, IncludedFrame, PackerFrame, Zenon
<1>3. Types'
  BY <1>1, CopiesAre, ZenonT(60) DEF Types, Contents, Packer, Control, PhaseOf, Parts, CriuPhases, Events
<1>4. \A k \in Requests \ {r} : Untouched(k)
  BY <1>1, DumpAssumption DEF Untouched, Types
<1>5. Control(r)'
  BY <1>1, ZenonT(60) DEF Control, Before, After, Types, PhaseOf, Events
<1>6. Holds(r)'
  BY <1>1, DumpAssumption DEF Holds, Before, After, Types
<1>7. Contents(r)'
  <2>1. /\ rq[r].pc = "recv" /\ criu[r] = "dump" /\ sent[r] = "none" /\ sent'[r] = "post-dump"
        /\ images'[r] = images[r] \cup {"pages"} /\ UNCHANGED <<rq, cz, attached>>
    BY <1>1 DEF Types
  <2>2. rq[r].ev = "query-ext-files" /\ cz[r].at = "no" /\ images[r] \subseteq Parts
    BY <2>1 DEF Control, PhaseOf, Packer, Contents
  <2> QED
    BY <2>1, <2>2, Zenon DEF Contents, GpuSaved, Parts
<1>8. Tarball(r)'
  <2>1. cz'[r].at = "no"
    BY <1>1 DEF Packer, Control, PhaseOf
  <2> QED
    BY <2>1 DEF Tarball
<1>9. Results(r)'
  BY <1>1, Zenon DEF Results, Kept, Types
<1>10. Killed(r)'
  BY <1>1, Zenon DEF Killed, Before, Types
<1> QED
  BY <1>2, <1>3, <1>4, <1>5, <1>6, <1>7, <1>8, <1>9, <1>10, ZenonT(60) DEF Keeps, Request

\* CriuFinish keeps the invariant.
LEMMA CriuFinishKeeps ==
    ASSUME IInv, NEW r \in Requests, CriuFinish(r) PROVE Keeps(r)
<1>0. /\ Types /\ Included(r) /\ Control(r) /\ Contents(r) /\ Packer(r)
      /\ Tarball(r) /\ Results(r) /\ Killed(r) /\ Holds(r)
  BY DEF IInv, Request
<1> USE <1>0
<1>1. /\ rq[r].pc = "recv" /\ sent[r] = "none" /\ criu[r] = "finish"
      /\ sent' = [sent EXCEPT ![r] = "none"] /\ criu' = [criu EXCEPT ![r] = "reply"]
      /\ tracer' = None /\ killer' = IF rq[r].opt.leave THEN killer ELSE r
      /\ UNCHANGED <<rq, images, objects, cz, faults, attached, gpuLock, checkpoints>>
  BY Zenon DEF CriuFinish, CriuTurn, At, Say, world, gpus, store, wire, Opt
<1>2. Included(r)' /\ Packer(r)' /\ Results(r)'
  BY <1>1, IncludedFrame, PackerFrame, ResultsFrame, Zenon
<1>3. Types'
  BY <1>1, ZenonT(60) DEF Types, CriuPhases
<1>4. \A k \in Requests \ {r} : Untouched(k)
  BY <1>1, DumpAssumption DEF Untouched, Types
<1>5. Control(r)'
  BY <1>1 DEF Control, Before, After, Types, PhaseOf, Events
<1>6. Holds(r)'
  BY <1>1, DumpAssumption DEF Holds, Before, After, Types
<1>7. Contents(r)'
  BY <1>1, Zenon DEF Contents, GpuSaved, Ready, Types
<1>8. Tarball(r)'
  <2>1. /\ rq[r].pc = "recv" /\ UNCHANGED <<rq, cz, images, objects, faults, attached>>
    BY <1>1, Zenon
  <2>2. ~rq[r].err
    BY <2>1, Zenon DEF Control
  <2> QED
    BY <2>1, <2>2, Zenon DEF Tarball
<1>9. Killed(r)'
  <2>1. /\ rq[r].pc = "recv" /\ criu[r] = "finish" /\ sent[r] = "none" /\ criu'[r] = "reply"
        /\ UNCHANGED <<rq, cz, images, faults, attached>>
        /\ killer' = r => killer = r \/ ~rq[r].opt.leave
    BY <1>1 DEF Types
  <2>2. ~rq[r].err /\ rq[r].ev = "post-dump"
    BY <2>1 DEF Control, PhaseOf
  <2> QED
    BY <2>1, <2>2, OptionsAre, ZenonT(60) DEF Killed, Before, Contents, Ready
<1> QED
  BY <1>2, <1>3, <1>4, <1>5, <1>6, <1>7, <1>8, <1>9, ZenonT(60) DEF Keeps, Request

\* CriuReply keeps the invariant.
LEMMA CriuReplyKeeps ==
    ASSUME IInv, NEW r \in Requests, CriuReply(r) PROVE Keeps(r)
<1>0. /\ Types /\ Included(r) /\ Control(r) /\ Contents(r) /\ Packer(r)
      /\ Tarball(r) /\ Results(r) /\ Killed(r) /\ Holds(r)
  BY DEF IInv, Request
<1> USE <1>0
<1>1. /\ rq[r].pc = "recv" /\ sent[r] = "none" /\ criu[r] = "reply"
      /\ sent' = [sent EXCEPT ![r] = "success"] /\ criu' = [criu EXCEPT ![r] = "off"]
      /\ UNCHANGED <<rq, images, objects, cz, faults, attached, tracer, killer, gpuLock,
                      checkpoints>>
  BY Zenon DEF CriuReply, CriuTurn, At, Say, world, gpus, store, wire
<1>2. Included(r)' /\ Packer(r)' /\ Tarball(r)' /\ Results(r)'
  BY <1>1, IncludedFrame, PackerFrame, TarballFrame, ResultsFrame, ZenonT(60)
<1>3. Types'
  BY <1>1, Zenon DEF Types, CriuPhases
<1>4. \A k \in Requests \ {r} : Untouched(k)
  BY <1>1, DumpAssumption DEF Untouched, Types
<1>5. Control(r)'
  BY <1>1, ZenonT(60) DEF Control, Before, After, Types, PhaseOf, Events
<1>6. Holds(r)'
  BY <1>1, DumpAssumption DEF Holds, Before, After, Types
<1>7. Contents(r)'
  BY <1>1, Zenon DEF Contents, GpuSaved, Ready, Types
<1>8. Killed(r)'
  BY <1>1, ZenonT(60) DEF Killed, Before, Types
<1> QED
  BY <1>2, <1>3, <1>4, <1>5, <1>6, <1>7, <1>8 DEF Keeps, Request

\* CriuFail keeps the invariant.
LEMMA CriuFailKeeps ==
    ASSUME IInv, NEW r \in Requests, CriuFail(r) PROVE Keeps(r)
<1>0. /\ Types /\ Included(r) /\ Control(r) /\ Contents(r) /\ Packer(r)
      /\ Tarball(r) /\ Results(r) /\ Killed(r) /\ Holds(r)
  BY DEF IInv, Request
<1> USE <1>0
<1>1. /\ rq[r].pc = "recv" /\ sent[r] = "none" /\ criu[r] \in {"pre-dump", "seize", "dump", "finish"}
      /\ sent' = [sent EXCEPT ![r] = "failure"] /\ criu' = [criu EXCEPT ![r] = "off"]
      /\ tracer' = IF tracer = r THEN None ELSE tracer
      /\ UNCHANGED <<rq, images, objects, cz, faults, attached, killer, gpuLock, checkpoints>>
  BY Zenon DEF CriuFail, CriuTurn, At, Say, Release, world, gpus, store, wire
<1>2. Included(r)' /\ Packer(r)' /\ Tarball(r)' /\ Results(r)'
  BY <1>1, IncludedFrame, PackerFrame, TarballFrame, ResultsFrame, Zenon
<1>3. Types'
  BY <1>1, ZenonT(60) DEF Types, CriuPhases
<1>4. \A k \in Requests \ {r} : Untouched(k)
  BY <1>1, DumpAssumption DEF Untouched, Types
<1>5. Control(r)'
  BY <1>1, ZenonT(60) DEF Control, Before, After, Types, PhaseOf, Events
<1>6. Holds(r)'
  BY <1>1, DumpAssumption DEF Holds, Before, After, Types
<1>7. Contents(r)'
  BY <1>1, Zenon DEF Contents, GpuSaved, Ready, Types
<1>8. Killed(r)'
  BY <1>1, Zenon DEF Killed, Before, Types
<1> QED
  BY <1>2, <1>3, <1>4, <1>5, <1>6, <1>7, <1>8 DEF Keeps, Request

\* Cancel keeps the invariant.
LEMMA CancelKeeps ==
    ASSUME IInv, NEW r \in Requests, Cancel(r) PROVE Keeps(r)
<1>0. /\ Types /\ Included(r) /\ Control(r) /\ Contents(r) /\ Packer(r)
      /\ Tarball(r) /\ Results(r) /\ Killed(r) /\ Holds(r)
  BY DEF IInv, Request
<1> USE <1>0
<1>1. /\ criu[r] # "off" /\ criu' = [criu EXCEPT ![r] = "off"]
      /\ tracer' = IF tracer = r THEN None ELSE tracer
      /\ faults' = IF criu[r] = "reply" THEN [faults EXCEPT ![r] = faults[r] \cup {"cut"}]
                  ELSE faults
      /\ UNCHANGED <<rq, images, objects, sent, cz, attached, killer, gpuLock, checkpoints>>
  BY DEF Cancel, Release, world, gpus, store, wire
<1>2. Included(r)' /\ Packer(r)' /\ Contents(r)'
  BY <1>1, IncludedFrame, PackerFrame, ContentsFrame, Zenon
<1>3. Types'
  BY <1>1, ZenonT(60) DEF Types, CriuPhases
<1>4. \A k \in Requests \ {r} : Untouched(k)
  BY <1>1, DumpAssumption DEF Untouched, Types
<1>5. Control(r)'
  BY <1>1, Zenon DEF Control, Before, After, Types
<1>6. Holds(r)'
  BY <1>1, DumpAssumption, Zenon DEF Holds, Before, After, Types
<1>7. Tarball(r)'
  BY <1>1, Zenon DEF Tarball, Types
<1>8. Results(r)'
  BY <1>1, Zenon DEF Results, Kept, Types
<1>9. Killed(r)'
  BY <1>1, Zenon DEF Killed, Before, Types
<1> QED
  BY <1>2, <1>3, <1>4, <1>5, <1>6, <1>7, <1>8, <1>9, ZenonT(60) DEF Keeps, Request


\* The invariant holds when no request has come yet.
LEMMA InvInit == Init => IInv
<1> SUFFICES ASSUME Init PROVE IInv
  OBVIOUS
<1>1. ASSUME NEW r \in Requests
      PROVE  /\ rq[r] \in RqRecord /\ rq[r].pc = "start" /\ rq[r].cbs = <<>> /\ ~rq[r].err
             /\ rq[r].ev = "initialize-dump"
  <2>1. PICK o \in Options :
            rq[r] = [opt |-> o, pc |-> "start", err |-> FALSE, cbs |-> <<>>,
                     ev |-> "initialize-dump", idx |-> 0, criuErr |-> FALSE, dumped |-> FALSE]
    BY <1>1, Zenon DEF Init
  <2> QED
    BY <2>1, NewRequest, Zenon
<1>2. Absent \in Copies
  BY CopiesAre
<1>3. [at |-> "no", who |-> "none", data |-> Absent, failed |-> FALSE] \in CzRecord
  BY <1>2 DEF CzRecord
<1>4. rq \in [Requests -> RqRecord]
  BY <1>1, Zenon DEF Init
<1>5. Types
  BY <1>2, <1>3, <1>4, Zenon DEF Init, Types, CriuPhases
<1>6. ASSUME NEW r \in Requests PROVE Request(r)
  <2> USE DEF Init, Before, After
  <2>1. Control(r) /\ Included(r)
    BY <1>1, <1>6, Zenon DEF Control, Included, Events
  <2>2. Contents(r) /\ Packer(r) /\ Tarball(r)
    BY <1>1, <1>6, Zenon DEF Contents, Packer, Tarball, Events
  <2>3. Results(r) /\ Killed(r) /\ Holds(r)
    BY <1>1, <1>6, DumpAssumption, ZenonT(60) DEF Results, Killed, Holds
  <2> QED
    BY <2>1, <2>2, <2>3, Zenon DEF Request
<1> QED
  BY <1>5, <1>6 DEF IInv

\* Every step of a handler, of a tarball or of CRIU keeps the invariant.
LEMMA StepKeeps ==
    ASSUME IInv, NEW r \in Requests, Step(r) PROVE IInv'
<1>1. Keeps(r)
  <2>1. CASE Handler(r)
    BY <2>1, EnterKeeps, DumpFilesystemKeeps, StreamDumpFilesystemKeeps,
       FillProcessStateForDumpKeeps, SaveProcessStateForDumpKeeps, PrepareKeeps, NotifiedKeeps,
       ReceiveKeeps, CleanupKeeps, QueryExtFilesKeeps, GPUInitializeDumpKeeps, GPUPreDumpKeeps,
       GPUFinalizeDumpKeeps, CompressPostDumpKeeps, DeferFilesystemKeeps, DeferWaitForIOKeeps,
       CompressedKeeps, RemoveImagesKeeps, ManageDumpKeeps, JobDoneKeeps, Zenon DEF Handler
  <2>2. CASE Compress(r)
    BY <2>2, CompressCreateKeeps, CompressTarKeeps, CompressCloseKeeps, StreamUploadKeeps DEF Compress
  <2>3. CASE CRIU(r)
    BY <2>3, CriuPreDumpKeeps, CriuSeizeKeeps, CriuDumpKeeps, CriuFinishKeeps, CriuReplyKeeps,
       CriuFailKeeps DEF CRIU
  <2> QED
    BY <2>1, <2>2, <2>3, CancelKeeps DEF Step
<1>2. ASSUME NEW k \in Requests \ {r} PROVE Request(k)'
  BY <1>1, <1>2, UntouchedKept DEF IInv, Keeps
<1>3. Request(r)' /\ Types'
  BY <1>1 DEF Keeps
<1> QED
  BY <1>2, <1>3 DEF IInv

\* The invariant holds in every state that any number of requests reach.
LEMMA Invariant == Spec => []IInv
<1>1. IInv /\ [Next]_vars => IInv'
  <2> SUFFICES ASSUME IInv, [Next]_vars PROVE IInv'
    OBVIOUS
  <2>1. CASE \E r \in Requests : Step(r)
    BY <2>1, StepKeeps
  <2>2. CASE Exit \/ UNCHANGED vars
    <3>1. UNCHANGED <<tracer, killer, gpus, store, checkpoints, wire, cz, faults, rq>>
      BY <2>2 DEF Exit, vars, world
    <3>2. ASSUME NEW k \in Requests PROVE Untouched(k)
      BY <3>1, Zenon DEF Untouched, gpus, store, wire
    <3>3. Types'
      BY <3>1 DEF IInv, Types, gpus, store, wire
    <3> QED
      BY <3>2, <3>3, UntouchedKept DEF IInv
  <2> QED
    BY <2>1, <2>2 DEF Next, Step, Finished
<1> QED
  BY <1>1, InvInit, PTL DEF Spec

\* The two ways to say that a copy is whole.
LEMMA WholeIs ==
    ASSUME NEW copy PROVE Whole(copy) <=> Complete(attached, copy)
<1>1. CASE attached
  BY <1>1 DEF Whole, Needed, Complete
<1>2. CASE ~attached
  BY <1>2 DEF Whole, Needed, Complete
<1> QED
  BY <1>1, <1>2

\* For any number of concurrent dumps of a process, with any options: CRIU kills the
\* process only for an image that exists, in the storage or in the directory
\* (the post-dump hook of DumpFilesystem runs before CRIU is answered).
THEOREM KilledProcessIsSaved == Spec => []KilledIsSaved
<1>1. IInv => KilledIsSaved
  <2> SUFFICES ASSUME IInv, NEW r \in Requests, killer = r
               PROVE  /\ PacksNow(rq[r].opt) /\ "flush" \notin faults[r] => Whole(objects[r])
                      /\ ~Packs(rq[r].opt) /\ ~rq[r].opt.stream /\ faults[r] \cap {"cut", "reap"} = {}
                         => Whole(images[r])
    BY Zenon DEF KilledIsSaved, Opt
  <2>1. Tarball(r) /\ Killed(r)
    BY ZenonT(60) DEF IInv, Request
  <2> QED
    BY <2>1, WholeIs, Zenon DEF Tarball, Killed
<1> QED
  BY <1>1, Invariant, PTL

\* For any number of concurrent dumps, with any options: a request answered without an
\* error, and a checkpoint that ManageDump records, has a whole image.
THEOREM SuccessfulDumpIsSaved == Spec => []SuccessIsSaved
<1>1. IInv => SuccessIsSaved
  <2> SUFFICES ASSUME IInv, NEW r \in Requests, ~Async(rq[r].opt),
                      faults[r] \cap {"flush", "pack", "streamer"} = {},
                      (At(r, "done") /\ ~rq[r].err) \/ r \in checkpoints
               PROVE  Saved(r)
    BY Zenon DEF SuccessIsSaved, Opt
  <2>1. Tarball(r) /\ Results(r)
    BY ZenonT(60) DEF IInv, Request
  <2>2. rq[r].pc \in {"await", "done"} /\ ~rq[r].err
    BY <2>1 DEF Results, At
  <2>3. Kept(r)
    BY <2>1, <2>2, Zenon DEF Results
  <2>4. Complete(attached, objects[r]) \/ Complete(attached, images[r])
    BY <2>1, <2>2, <2>3, OptionsAre, ZenonT(60) DEF Kept, Tarball
  <2> QED
    BY <2>4, WholeIs DEF Saved
<1> QED
  BY <1>1, Invariant, PTL

\* For any number of concurrent dumps, with any options: a handler that has returned
\* holds neither the process nor the GPU controller, and no directory but its result.
THEOREM HandlersLetGo == Spec => []HandsOff
<1>1. IInv => HandsOff
  <2> SUFFICES ASSUME IInv, NEW r \in Requests, rq[r].pc = "done"
               PROVE  /\ criu[r] = "off" /\ tracer # r
                      /\ gpuLock = r => rq[r].ev = "initialize-dump" /\ rq[r].err
                      /\ ~Async(rq[r].opt) /\ images[r] # Absent =>
                             ~rq[r].err /\ (TempDir(rq[r].opt) => "pack" \in faults[r])
    BY Zenon DEF HandsOff, At, Opt
  <2>1. Control(r) /\ Tarball(r) /\ Results(r) /\ Holds(r)
    BY Zenon DEF IInv, Request
  <2>2. criu[r] = "off" /\ tracer # r
    BY <2>1, ZenonT(60) DEF Control, Holds, After
  <2>3. gpuLock = r => rq[r].ev = "initialize-dump" /\ rq[r].err
    BY <2>1 DEF Holds, After
  <2>4. ASSUME ~Async(rq[r].opt), images[r] # Absent
        PROVE  ~rq[r].err /\ (TempDir(rq[r].opt) => "pack" \in faults[r])
    <3>1. ~rq[r].err /\ ~rq[r].opt.remote /\ Kept(r)
      BY <2>1, <2>4, Zenon DEF Results
    <3> QED
      BY <2>1, <2>4, <3>1, OptionsAre, Zenon DEF Kept, Tarball, TempDir
  <2> QED
    BY <2>2, <2>3, <2>4, Zenon
<1> QED
  BY <1>1, Invariant, PTL
=============================================================================
