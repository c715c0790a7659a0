------------------------ MODULE FilesAndEventsProofs ------------------------
(***************************************************************************)
(* Proofs about two components that share no state.                        *)
(*                                                                         *)
(* InheritFiles, for every number of open files: the descriptors that CRIU *)
(* is told of are the right ones, no file is inherited twice, and none     *)
(* that matters is left out.                                               *)
(*                                                                         *)
(* EventStream, for every number of containers of a pod: the stream's ends *)
(* are closed, a pod is thawed together and after its dumps, and what is   *)
(* published is right.                                                     *)
(***************************************************************************)
EXTENDS InheritFiles, EventStream, TLAPS

-----------------------------------------------------------------------------
(* InheritFiles.                                                           *)

\* What is inherited is known: opts.InheritFdMap has a key for every entry of
\* req.Criu.InheritFd.
Known == \A n \in 1..Len(inherit) : inherit[n].key \in known

\* The list of descriptors is right so far.
Good == RightDescriptor /\ KeysOnce /\ Known

\* The file is known to CRIU or its opening was seen to fail.
Accounted(f) == f.key \in known \cup missed

\* The GPU walk has accounted for the GPU's files before its place, and when it is
\* over for all of them; the process walk for the external files before its place.
Walked ==
    /\ stage = "shm" => files = <<>> /\ i = 1 /\ known = {}
    /\ stage = "gpu" => i = Len(files) + 1
    /\ mode.gpu /\ stage \in {"gpu", "process", "done"} =>
           \A n \in 1..Len(files) : files[n].gpu # "no" => Accounted(files[n])
    /\ stage = "process" =>
           \A n \in 1..Len(files) :
               n < i /\ files[n].external /\ (files[n].valid \/ files[n].tty) => Accounted(files[n])
    /\ stage = "done" => AllAccounted

FilesInv == FilesTypeOK /\ Good /\ Walked

-----------------------------------------------------------------------------
\* Inherit keeps the types, whatever it is given.
LEMMA InheritType ==
    ASSUME FilesTypeOK, NEW k \in Keys, NEW fd \in Nat, NEW file \in Keys \cup {Nil},
           NEW tty \in BOOLEAN, Inherit(k, fd, file, tty)
    PROVE  /\ known' \subseteq Keys /\ extra' \in Seq(Keys \cup {Nil})
           /\ inherit' \in Seq(Entries)
  <1>1. [fd |-> fd, key |-> k, tty |-> tty] \in Entries
    BY DEF Entries
  <1> QED
    BY <1>1 DEF FilesTypeOK, Inherit

\* A file that is not yet known is inherited once, and under the right number if
\* that is a terminal's, CRIU's own stdio or the next place of ExtraFiles.
LEMMA InheritGood ==
    ASSUME FilesTypeOK, Good, NEW k \in Keys, k \notin known, NEW fd \in Nat,
           NEW file \in Keys \cup {Nil}, NEW tty \in BOOLEAN, Inherit(k, fd, file, tty),
           tty \/ fd < 3 \/ (fd = NextFd /\ file = k)
    PROVE  Good'
  <1> DEFINE e == [fd |-> fd, key |-> k, tty |-> tty]
  <1>0. /\ inherit \in Seq(Entries) /\ extra \in Seq(Keys \cup {Nil}) /\ e \in Entries
        /\ inherit' = Append(inherit, e) /\ extra' = Append(extra, file)
        /\ known' = known \cup {k}
    BY DEF FilesTypeOK, Inherit, Entries
  <1>1. /\ Len(inherit') = Len(inherit) + 1 /\ inherit'[Len(inherit) + 1] = e
        /\ \A n \in 1..Len(inherit) : inherit'[n] = inherit[n]
        /\ Len(inherit) \in Nat
    BY <1>0
  <1>2. /\ Len(extra') = Len(extra) + 1 /\ extra'[Len(extra) + 1] = file
        /\ \A n \in 1..Len(extra) : extra'[n] = extra[n]
        /\ Len(extra) \in Nat
    BY <1>0
  <1>3. e.fd = fd /\ e.key = k /\ e.tty = tty
    OBVIOUS
  <1> HIDE DEF e
  <1>4. RightDescriptor'
    <2> SUFFICES ASSUME NEW n \in 1..Len(inherit'), ~inherit'[n].tty, inherit'[n].fd >= 3
                 PROVE  inherit'[n].fd - 2 \in 1..Len(extra')
                        /\ extra'[inherit'[n].fd - 2] = inherit'[n].key
      BY DEF RightDescriptor
    <2>1. CASE n \in 1..Len(inherit)
      <3>1. inherit'[n] = inherit[n] /\ inherit[n] \in Entries
        BY <1>0, <1>1, <2>1
      <3>2. inherit[n].fd - 2 \in 1..Len(extra) /\ extra[inherit[n].fd - 2] = inherit[n].key
        BY <3>1, <2>1 DEF Good, RightDescriptor
      <3> QED
        BY <3>1, <3>2, <1>2
    <2>2. CASE n = Len(inherit) + 1
      <3>1. inherit'[n] = e
        BY <2>2, <1>1
      <3>2. fd = 3 + Len(extra) /\ file = k
        BY <3>1, <1>3 DEF NextFd
      <3> QED
        BY <3>1, <3>2, <1>2, <1>3
    <2> QED
      BY <2>1, <2>2, <1>1
  <1>5. Known'
    BY <1>0, <1>1, <1>3 DEF Good, Known
  <1>6. KeysOnce'
    <2> SUFFICES ASSUME NEW m \in 1..Len(inherit'), NEW n \in 1..Len(inherit'),
                        inherit'[m].key = inherit'[n].key
                 PROVE  m = n
      BY DEF KeysOnce
    <2>1. \A j \in 1..Len(inherit) : inherit[j].key # k
      BY DEF Good, Known
    <2> QED
      BY <2>1, <1>1, <1>3 DEF Good, KeysOnce
  <1> QED
    BY <1>4, <1>5, <1>6 DEF Good

\* Where nothing is inherited the list stays right, though a key may become known
\* (a file that a container has mounted).
LEMMA QuietGood ==
    ASSUME Good, UNCHANGED <<extra, inherit>>, known \subseteq known'
    PROVE  Good'
  BY DEF Good, RightDescriptor, KeysOnce, Known

-----------------------------------------------------------------------------
\* Every step keeps the types.
LEMMA TypeStep == FilesTypeOK /\ [FilesNext]_fileVars => FilesTypeOK'
  <1> SUFFICES ASSUME FilesTypeOK, [FilesNext]_fileVars PROVE FilesTypeOK'
    OBVIOUS
  <1> USE InheritAssumption
  <1>0. \A f \in Files : f \in FileType
    OBVIOUS
  <1>1. ASSUME NEW f \in Files, Discovered(f) PROVE files' \in Seq(Files)
    BY <1>1 DEF Discovered, FilesTypeOK
  <1>2. ASSUME NEW f \in Files, Seen(f) PROVE files' \in Seq(Files)
    BY <1>1, <1>2 DEF Seen, FilesTypeOK
  <1>3. NextFd \in Nat
    BY DEF NextFd, FilesTypeOK
  <1>4. CASE InheritShm
    <2>1. ASSUME Inherit(ShmKey, NextFd, ShmKey, FALSE)
          PROVE  /\ known' \subseteq Keys /\ extra' \in Seq(Keys \cup {Nil})
                 /\ inherit' \in Seq(Entries)
      BY <2>1, <1>3, InheritType, Zenon
    <2> QED
      BY <1>4, <2>1, Zenon DEF InheritShm, FilesTypeOK
  <1>5. ASSUME NEW f \in Files, VisitGPU(f) PROVE FilesTypeOK'
    <2>1. f.key \in Keys
      BY <1>0 DEF FileType
    <2>2. ASSUME Inherit(f.key, NextFd, f.key, FALSE)
          PROVE  /\ known' \subseteq Keys /\ extra' \in Seq(Keys \cup {Nil})
                 /\ inherit' \in Seq(Entries)
      BY <2>1, <2>2, <1>3, InheritType, Zenon
    <2>3. files' \in Seq(Files)
      BY <1>1, <1>5 DEF VisitGPU
    <2>4. /\ known' \subseteq Keys /\ extra' \in Seq(Keys \cup {Nil})
          /\ inherit' \in Seq(Entries)
      <3>1. CASE known' \in {known, known \cup {f.key}} /\ UNCHANGED <<extra, inherit>>
        BY <3>1, <2>1 DEF FilesTypeOK
      <3> QED
        BY <1>5, <2>2, <3>1, Zenon DEF VisitGPU, InheritGPU, NotInherited
    <2> QED
      BY <1>5, <2>3, <2>4 DEF VisitGPU, FilesTypeOK
  <1>6. ASSUME NEW f \in Files, FailGPU(f) PROVE FilesTypeOK'
    BY <1>6, <1>1 DEF FailGPU, NotInherited, FilesTypeOK
  <1>7. CASE EndGPU
    BY <1>7 DEF EndGPU, FilesTypeOK
  <1>8. ASSUME NEW f \in Files, VisitProcess(f) PROVE FilesTypeOK'
    <2>1. f.key \in Keys /\ f.fd \in Nat /\ f.tty \in BOOLEAN
      BY <1>0 DEF FileType
    <2>2. ASSUME NEW fd \in Nat, NEW file \in Keys \cup {Nil}, NEW tty \in BOOLEAN,
                 Inherit(f.key, fd, file, tty)
          PROVE  /\ known' \subseteq Keys /\ extra' \in Seq(Keys \cup {Nil})
                 /\ inherit' \in Seq(Entries)
      BY <2>1, <2>2, InheritType
    <2>3. files' \in Seq(Files)
      BY <1>2, <1>8 DEF VisitProcess
    <2>4. /\ known' \subseteq Keys /\ extra' \in Seq(Keys \cup {Nil})
          /\ inherit' \in Seq(Entries)
      <3>1. CASE NotInherited
        BY <3>1 DEF NotInherited, FilesTypeOK
      <3>2. CASE Inherit(f.key, f.fd, Nil, TRUE)
        BY <3>2, <2>1, <2>2, Zenon
      <3>3. CASE Inherit(f.key, NextFd, f.key, FALSE)
        BY <3>3, <2>1, <2>2, <1>3, Zenon
      <3>4. CASE Inherit(f.key, f.fd, Nil, FALSE)
        BY <3>4, <2>1, <2>2, Zenon
      <3> QED
        BY <1>8, <3>1, <3>2, <3>3, <3>4, Zenon DEF VisitProcess, VisitExternal, VisitInternal, Skipped
    <2>5. visited' \subseteq Nat /\ walkErr' \in BOOLEAN /\ missed' \subseteq Keys
      BY <1>8, <2>1, Zenon DEF VisitProcess, VisitExternal, VisitInternal, Skipped, FilesTypeOK
    <2> QED
      BY <1>8, <2>3, <2>4, <2>5 DEF VisitProcess, FilesTypeOK
  <1>9. ASSUME NEW f \in Files, RefuseTTY(f) PROVE FilesTypeOK'
    BY <1>9, <1>2 DEF RefuseTTY, FilesTypeOK
  <1>10. CASE EndProcess
    BY <1>10 DEF EndProcess, FilesTypeOK
  <1>11. CASE UNCHANGED fileVars
    BY <1>11 DEF fileVars, FilesTypeOK
  <1> QED
    BY <1>4, <1>5, <1>6, <1>7, <1>8, <1>9, <1>10, <1>11 DEF FilesNext

\* Every step keeps the list of descriptors right.
LEMMA GoodStep == FilesInv /\ [FilesNext]_fileVars => Good'
  <1> SUFFICES ASSUME FilesTypeOK, Good, Walked, [FilesNext]_fileVars PROVE Good'
    BY DEF FilesInv
  <1> USE InheritAssumption
  <1>0. \A f \in Files : f.key \in Keys /\ f.fd \in Nat
    BY DEF FileType
  <1>1. NextFd \in Nat
    BY DEF NextFd, FilesTypeOK
  <1>2. ASSUME NEW k \in Keys, k \notin known, Inherit(k, NextFd, k, FALSE) PROVE Good'
    BY <1>1, <1>2, InheritGood, Zenon
  <1>3. ASSUME NotInherited PROVE Good'
    BY <1>3, QuietGood DEF NotInherited
  <1>4. CASE InheritShm
    <2>1. known = {}
      BY <1>4 DEF InheritShm, Walked
    <2>2. CASE UNCHANGED <<extra, inherit>>
      BY <2>1, <2>2, QuietGood
    <2>3. CASE Inherit(ShmKey, NextFd, ShmKey, FALSE)
      BY <2>1, <2>3, <1>2, Zenon
    <2> QED
      BY <1>4, <2>2, <2>3, Zenon DEF InheritShm
  <1>5. ASSUME NEW f \in Files, VisitGPU(f) PROVE Good'
    <2>1. CASE known' = known \cup {f.key} /\ UNCHANGED <<extra, inherit>>
      BY <2>1, QuietGood
    <2>2. CASE f.key \notin known /\ Inherit(f.key, NextFd, f.key, FALSE)
      BY <2>2, <1>0, <1>2, Zenon
    <2> QED
      BY <1>5, <1>3, <2>1, <2>2, Zenon DEF VisitGPU, InheritGPU
  <1>6. ASSUME NEW f \in Files, FailGPU(f) PROVE Good'
    BY <1>6, <1>3 DEF FailGPU
  <1>7. ASSUME NEW f \in Files, VisitProcess(f) PROVE Good'
    <2>1. ASSUME f.key \notin known, Inherit(f.key, f.fd, Nil, TRUE) PROVE Good'
      BY <2>1, <1>0, InheritGood, Zenon
    <2>2. ASSUME f.key \notin known, Inherit(f.key, NextFd, f.key, FALSE) PROVE Good'
      BY <2>2, <1>0, <1>2, Zenon
    <2>3. ASSUME f.key \notin known, Stdio(f), ~mode.serverless, Inherit(f.key, f.fd, Nil, FALSE)
          PROVE  Good'
      <3>1. f.fd < 3
        BY <2>3 DEF Stdio
      <3> QED
        BY <3>1, <2>3, <1>0, InheritGood, Zenon
    <2>4. CASE VisitExternal(f)
      BY <2>4, <2>1, <2>2, <1>3, Zenon DEF VisitExternal, Skipped
    <2>5. CASE VisitInternal(f)
      BY <2>5, <2>2, <2>3, <1>3, Zenon DEF VisitInternal, Skipped
    <2> QED
      BY <1>7, <2>4, <2>5 DEF VisitProcess
  <1>8. CASE UNCHANGED <<known, extra, inherit>>
    BY <1>8, <1>3 DEF NotInherited
  <1> QED
    BY <1>4, <1>5, <1>6, <1>7, <1>8 DEF FilesNext, fileVars, EndGPU, EndProcess, RefuseTTY

\* Every step keeps the walks' accounts.
LEMMA WalkedStep == FilesInv /\ [FilesNext]_fileVars => Walked'
  <1> SUFFICES ASSUME FilesTypeOK, Good, Walked, [FilesNext]_fileVars PROVE Walked'
    BY DEF FilesInv
  <1> USE InheritAssumption
  <1>0. files \in Seq(Files) /\ Len(files) \in Nat /\ i \in Nat \ {0}
        /\ \A n \in 1..Len(files) : files[n] \in FileType
    BY DEF FilesTypeOK
  <1>1. ASSUME NEW f \in Files, Discovered(f)
        PROVE  /\ Len(files') = Len(files) + 1 /\ i = Len(files) + 1 /\ files'[i] = f
               /\ \A n \in 1..Len(files) : files'[n] = files[n]
    BY <1>1, <1>0 DEF Discovered
  <1>2. CASE InheritShm
    <2>1. files' = <<>> /\ i' = 1 /\ stage' \in {"gpu", "failed"}
      BY <1>2, Zenon DEF InheritShm, Walked
    <2>2. Len(files') = 0
      BY <2>1
    <2> QED
      BY <2>1, <2>2 DEF Walked
  <1>3. ASSUME NEW f \in Files, VisitGPU(f) PROVE Walked'
    <2>1. known \subseteq known' /\ (f.gpu # "no" => f.key \in known')
      BY <1>3 DEF VisitGPU, InheritGPU, NotInherited, Inherit
    <2>2. /\ Len(files') = Len(files) + 1 /\ i = Len(files) + 1 /\ files'[i] = f
          /\ \A n \in 1..Len(files) : files'[n] = files[n]
      BY <1>3, <1>1 DEF VisitGPU
    <2>3. stage = "gpu" /\ stage' = "gpu" /\ mode' = mode /\ i' = i + 1 /\ missed' = missed
      BY <1>3 DEF VisitGPU
    <2>4. \A n \in 1..Len(files') : mode.gpu /\ files'[n].gpu # "no" => files'[n].key \in known' \cup missed'
      BY <2>1, <2>2, <2>3, <1>0 DEF Walked, Accounted
    <2> QED
      BY <2>2, <2>3, <2>4, <1>0 DEF Walked, Accounted
  <1>4. ASSUME NEW f \in Files, FailGPU(f) PROVE Walked'
    <2>1. CASE stage' = "failed"
      BY <2>1 DEF Walked
    <2>2. CASE stage' = "process" /\ i' = 1 /\ missed' = Keys
      <3>1. \A n \in 1..Len(files') : files'[n].key \in Keys
        BY <1>4, <1>1, <1>0 DEF FailGPU, FileType
      <3> QED
        BY <2>2, <3>1 DEF Walked, Accounted
    <2> QED
      BY <1>4, <2>1, <2>2 DEF FailGPU
  <1>5. CASE EndGPU
    BY <1>5, <1>0 DEF EndGPU, Walked, Accounted
  <1>6. ASSUME NEW f \in Files, VisitProcess(f) PROVE Walked'
    <2>0. stage = "process" /\ stage' = "process" /\ mode' = mode /\ i' = i + 1 /\ Seen(f)
      BY <1>6 DEF VisitProcess
    <2>1. known \subseteq known' /\ missed \subseteq missed'
      BY <1>6 DEF VisitProcess, VisitExternal, VisitInternal, Skipped, NotInherited, Inherit
    <2>2. f.external /\ (f.valid \/ f.tty) => f.key \in known' \cup missed'
      BY <1>6 DEF VisitProcess, VisitExternal, VisitInternal, Skipped, NotInherited, Inherit
    <2>3. /\ i \in 1..Len(files') /\ files'[i] = f
          /\ \A n \in 1..Len(files) : files'[n] = files[n]
      BY <2>0, <1>0, <1>1 DEF Seen
    <2>4. CASE UNCHANGED files
      BY <2>0, <2>1, <2>2, <2>3, <2>4, <1>0 DEF Walked, Accounted
    <2>5. CASE (~mode.gpu \/ missed = Keys) /\ Discovered(f)
      <3>1. /\ Len(files') = Len(files) + 1 /\ i = Len(files) + 1
            /\ \A n \in 1..Len(files') : files'[n] = IF n = i THEN f ELSE files[n]
        BY <2>5, <1>0, <1>1
      <3>2. \A n \in 1..Len(files') : files'[n].key \in Keys
        BY <3>1, <1>0 DEF FileType
      <3>3. mode.gpu => \A n \in 1..Len(files') : files'[n].key \in known' \cup missed'
        BY <3>2, <2>1, <2>5
      <3>4. \A n \in 1..Len(files) :
                files[n].external /\ (files[n].valid \/ files[n].tty) =>
                    files[n].key \in known' \cup missed'
        BY <3>1, <2>0, <2>1, <1>0 DEF Walked, Accounted
      <3>5. \A n \in 1..Len(files') :
                files'[n].external /\ (files'[n].valid \/ files'[n].tty) =>
                    files'[n].key \in known' \cup missed'
        BY <3>1, <3>4, <2>2, <1>0
      <3> QED
        BY <2>0, <3>3, <3>5 DEF Walked, Accounted
    <2> QED
      BY <2>0, <2>4, <2>5 DEF Seen
  <1>7. ASSUME NEW f \in Files, RefuseTTY(f) PROVE Walked'
    BY <1>7 DEF RefuseTTY, Walked
  <1>8. CASE EndProcess
    BY <1>8, <1>0 DEF EndProcess, Walked, AllAccounted, Accounted
  <1>9. CASE UNCHANGED fileVars
    BY <1>9 DEF fileVars, Walked, AllAccounted, Accounted
  <1> QED
    BY <1>2, <1>3, <1>4, <1>5, <1>6, <1>7, <1>8, <1>9 DEF FilesNext

-----------------------------------------------------------------------------
\* The invariant holds at first.
LEMMA FilesInvInit == FilesInit => FilesInv
  <1> SUFFICES ASSUME FilesInit PROVE FilesInv
    OBVIOUS
  <1>1. Len(files) = 0 /\ Len(inherit) = 0
    BY DEF FilesInit
  <1>2. FilesTypeOK
    <2>1. files \in Seq(Files) /\ extra \in Seq(Keys \cup {Nil}) /\ inherit \in Seq(Entries)
      BY DEF FilesInit
    <2>2. stage \in {"shm", "gpu", "process", "done", "failed"} /\ i \in Nat \ {0}
      BY DEF FilesInit
    <2>3. mode \in Modes /\ walkErr \in BOOLEAN
      BY Zenon DEF FilesInit
    <2>4. known \subseteq Keys /\ visited \subseteq Nat /\ missed \subseteq Keys
      BY DEF FilesInit
    <2> QED
      BY <2>1, <2>2, <2>3, <2>4, Zenon DEF FilesTypeOK
  <1>3. Good
    BY <1>1 DEF Good, RightDescriptor, KeysOnce, Known
  <1>4. Walked
    <2>1. files = <<>> /\ i = 1 /\ known = {} /\ stage \in {"shm", "process"}
      BY DEF FilesInit
    <2> QED
      BY <2>1, <1>1 DEF Walked
  <1> QED
    BY <1>2, <1>3, <1>4 DEF FilesInv

\* The invariant holds in every state.
LEMMA FilesInvariant == FilesSpec => []FilesInv
  <1>1. FilesInv /\ [FilesNext]_fileVars => FilesInv'
    BY TypeStep, GoodStep, WalkedStep DEF FilesInv
  <1> QED
    BY FilesInvInit, <1>1, PTL DEF FilesSpec

\* Every descriptor that the two InheritFilesForRestore adapters give to CRIU is
\* the place of that very file in ExtraFiles, however many files the process tree
\* had open.
THEOREM DescriptorsRight == FilesSpec => []RightDescriptor
  <1>1. FilesInv => RightDescriptor
    BY DEF FilesInv, Good
  <1> QED
    BY FilesInvariant, <1>1, PTL

\* No file is inherited twice, although both adapters walk the same files.
THEOREM InheritedOnce == FilesSpec => []KeysOnce
  <1>1. FilesInv => KeysOnce
    BY DEF FilesInv, Good
  <1> QED
    BY FilesInvariant, <1>1, PTL

\* When both adapters are done every external file and every file of the GPU is
\* known to CRIU, or its opening was seen to fail.
THEOREM NoneLeftOut == FilesSpec => []AllAccounted
  <1>1. FilesInv => AllAccounted
    BY DEF FilesInv, Walked, AllAccounted
  <1> QED
    BY FilesInvariant, <1>1, PTL

\* So the adapters of a restore give CRIU the right files, whatever files the process
\* has open and whichever of them cannot be opened again.
THEOREM RightFiles == FilesSpec => []FilesInherited
  BY DescriptorsRight, InheritedOnce, NoneLeftOut, PTL DEF FilesInherited

-----------------------------------------------------------------------------
(* EventStream.                                                            *)

StartPCs == {"idle", "read", "made", "running", "refused", "returned"}
HandlerPCs ==
    {"idle", "prepare", "secret", "build", "freeze", "freezing", "dumping", "thaw", "done"}

StreamTypes ==
    /\ conn \in BOOLEAN /\ connOpen \in BOOLEAN /\ open \subseteq Ends /\ kept \subseteq Ends
    /\ start \in [Ends -> StartPCs] /\ close \in {"no", "closing", "done"}

HandlerTypes ==
    /\ pc \in HandlerPCs /\ err \in BOOLEAN /\ mixed \in BOOLEAN /\ thawFails \in BOOLEAN
    /\ fpc \in [Containers -> {"off", "call", "test", "write", "done", "thawed"}]
    /\ dpc \in [Containers -> {"off", "call", "publish", "done"}]
    /\ DOMAIN errMap \subseteq Containers
    /\ frozen \subseteq Containers /\ gpuFrozen \subseteq Containers /\ dumped \subseteq Containers
    /\ pubs \subseteq Containers \X {"error", "success"}

Types == StreamTypes /\ HandlerTypes

\* What is open is held by a Start method that is under way, or by the stream; and
\* a stream that is closed holds nothing.
Held ==
    /\ \A e \in kept : start[e] = "running"
    /\ \A e \in open : start[e] = "made" \/ e \in kept
    /\ conn <=> close = "no"
    /\ kept # {} => conn
    /\ close = "done" => ~connOpen

\* Where the goroutines are, by where the handler is.
Phases ==
    /\ pc \in {"idle", "prepare", "secret", "build", "freeze"} =>
           \A c \in Containers : fpc[c] = "off" /\ dpc[c] = "off"
    /\ pc = "freezing" =>
           \A c \in Containers : fpc[c] \in {"call", "test", "write", "done"} /\ dpc[c] = "off"
    /\ pc = "dumping" =>
           \A c \in Containers : fpc[c] = "done" /\ dpc[c] \in {"call", "publish", "done"}
    /\ pc = "thaw" =>
           \A c \in Containers : fpc[c] \in {"done", "thawed"} /\ dpc[c] \in {"off", "done"}
    /\ pc = "done" =>
           \A c \in Containers : fpc[c] \in {"off", "thawed"} /\ dpc[c] \in {"off", "done"}

\* What is frozen has been through its Freeze, and not through an Unfreeze that
\* has succeeded.
FrozenBy ==
    \A c \in frozen \cup gpuFrozen :
        fpc[c] \notin {"off", "call"} /\ (fpc[c] = "thawed" => thawFails)

\* Nothing is dumped before the handler dumps, nothing published before the freezes
\* are over; and what was published is not dumped any more.
Results ==
    /\ pc \notin {"dumping", "thaw", "done"} => dumped = {} /\ pubs = {}
    /\ ~mixed => \A c \in Containers : fpc[c] = "write" => err
    /\ ~mixed => \A c \in DOMAIN errMap : errMap[c]
    /\ \A p \in pubs : dpc[p[1]] \in {"off", "done"}
    /\ PublishedRight

IInv == Types /\ Held /\ Phases /\ FrozenBy /\ Results

-----------------------------------------------------------------------------
\* The steps of the handler and its goroutines leave the stream alone.
LEMMA HandlerFrame ==
    ASSUME Next, ~Lifecycle
    PROVE  UNCHANGED ends
  BY Zenon DEF Next, Receive, CreateCheckpoint, GetImageSecret, BuildRequests, StartFreezing, FrozenAll,
         DumpedAll, Unfreeze, ConcurrentMapWrites, Stop, FreezeCall, FreezeTest, FreezeWrite,
         DumpCall, DumpPublish

\* The steps of the stream's life leave the handler alone.
LEMMA LifecycleFrame ==
    ASSUME Lifecycle
    PROVE  UNCHANGED <<pc, freezing, frozen, gpuFrozen, dpc, dumped, pubs, thawFails>>
  BY DEF Lifecycle

\* Every step of the stream's life keeps the types and what holds the open ends.
LEMMA LifecycleStep ==
    ASSUME StreamTypes, Held, Lifecycle
    PROVE  StreamTypes' /\ Held'
  <1> USE DEF StreamTypes, Held, StartPCs
  <1>1. ASSUME NEW e \in Ends, StartRead(e) PROVE StreamTypes' /\ Held'
    BY <1>1 DEF StartRead
  <1>2. ASSUME NEW e \in Ends, StartMake(e) PROVE StreamTypes' /\ Held'
    BY <1>2 DEF StartMake
  <1>3. ASSUME NEW e \in Ends, StartKeep(e) PROVE StreamTypes' /\ Held'
    BY <1>3 DEF StartKeep
  <1>4. CASE RunReturns
    BY <1>4 DEF RunReturns, Ends
  <1>5. CASE CloseTake
    BY <1>5, Zenon DEF CloseTake
  <1>6. CASE CloseConn
    BY <1>6, Zenon DEF CloseConn
  <1> QED
    BY <1>1, <1>2, <1>3, <1>4, <1>5, <1>6 DEF Lifecycle

\* So does every step of the program.
LEMMA StreamStep == StreamTypes /\ Held /\ [Next]_vars => StreamTypes' /\ Held'
  <1> SUFFICES ASSUME StreamTypes, Held, [Next]_vars PROVE StreamTypes' /\ Held'
    OBVIOUS
  <1>1. CASE Lifecycle
    BY <1>1, LifecycleStep
  <1>2. CASE UNCHANGED ends
    BY <1>2 DEF ends, StreamTypes, Held
  <1> QED
    BY <1>1, <1>2, HandlerFrame DEF vars

\* Each step keeps the goroutines where the handler has them.
LEMMA PhasesStep == HandlerTypes /\ Phases /\ [Next]_vars => Phases'
  <1> SUFFICES ASSUME HandlerTypes, Phases, [Next]_vars PROVE Phases'
    OBVIOUS
  <1> USE DEF HandlerTypes, Phases, HandlerPCs
  <1>1. CASE Lifecycle
    BY <1>1, LifecycleFrame DEF freezing
  <1>2. CASE UNCHANGED vars
    BY <1>2 DEF vars, ends, freezing
  <1>3. CASE Receive
    BY <1>3 DEF Receive, freezing
  <1>4. CASE CreateCheckpoint
    BY <1>4 DEF CreateCheckpoint, freezing
  <1>5. CASE GetImageSecret
    BY <1>5 DEF GetImageSecret, freezing
  <1>6. CASE BuildRequests
    BY <1>6 DEF BuildRequests, freezing
  <1>7. CASE StartFreezing
    BY <1>7 DEF StartFreezing, freezing
  <1>8. CASE FrozenAll
    BY <1>8 DEF FrozenAll, Publish, Status, freezing
  <1>9. CASE DumpedAll
    BY <1>9 DEF DumpedAll, freezing
  <1>10. CASE Unfreeze
    BY <1>10 DEF Unfreeze, DaemonUnfreeze, UnfreezeGPU, UnfreezeContainer, freezing
  <1>11. CASE ConcurrentMapWrites
    BY <1>11 DEF ConcurrentMapWrites, freezing
  <1>12. CASE Stop
    BY <1>12 DEF Stop, freezing
  <1>13. ASSUME NEW c \in Containers, FreezeCall(c) PROVE Phases'
    BY <1>13 DEF FreezeCall, Freeze, FreezeGPU, FreezeContainer, freezing
  <1>14. ASSUME NEW c \in Containers, FreezeTest(c) PROVE Phases'
    BY <1>14 DEF FreezeTest, freezing
  <1>15. ASSUME NEW c \in Containers, FreezeWrite(c) PROVE Phases'
    BY <1>15 DEF FreezeWrite, freezing
  <1>16. ASSUME NEW c \in Containers, DumpCall(c) PROVE Phases'
    BY <1>16 DEF DumpCall, freezing
  <1>17. ASSUME NEW c \in Containers, DumpPublish(c) PROVE Phases'
    BY <1>17 DEF DumpPublish, Publish, Status, freezing
  <1> QED
    BY <1>1, <1>2, <1>3, <1>4, <1>5, <1>6, <1>7, <1>8, <1>9, <1>10, <1>11, <1>12, <1>13,
       <1>14, <1>15, <1>16, <1>17, Zenon DEF Next

\* Each step keeps the account of what is frozen.
LEMMA FrozenStep == HandlerTypes /\ Phases /\ FrozenBy /\ [Next]_vars => FrozenBy'
  <1> SUFFICES ASSUME HandlerTypes, Phases, FrozenBy, [Next]_vars PROVE FrozenBy'
    OBVIOUS
  <1> USE DEF HandlerTypes, Phases, FrozenBy, HandlerPCs
  <1>1. CASE Lifecycle
    BY <1>1, LifecycleFrame DEF freezing
  <1>2. CASE UNCHANGED vars
    BY <1>2 DEF vars, ends, freezing
  <1>3. CASE Receive
    BY <1>3 DEF Receive, freezing
  <1>4. CASE CreateCheckpoint
    BY <1>4 DEF CreateCheckpoint, freezing
  <1>5. CASE GetImageSecret
    BY <1>5 DEF GetImageSecret, freezing
  <1>6. CASE BuildRequests
    BY <1>6 DEF BuildRequests, freezing
  <1>7. CASE StartFreezing
    BY <1>7 DEF StartFreezing, freezing
  <1>8. CASE FrozenAll
    BY <1>8 DEF FrozenAll, Publish, Status, freezing
  <1>9. CASE DumpedAll
    BY <1>9 DEF DumpedAll, freezing
  <1>10. CASE Unfreeze
    <2>1. CASE UNCHANGED <<fpc, frozen, gpuFrozen, thawFails>>
      BY <2>1
    <2>2. ASSUME NEW c \in Containers, NEW ok \in BOOLEAN, fpc[c] = "done", DaemonUnfreeze(c, ok),
                 thawFails' = (thawFails \/ ~ok), fpc' = [fpc EXCEPT ![c] = "thawed"]
          PROVE  FrozenBy'
      <3>1. /\ frozen' \subseteq frozen /\ gpuFrozen' \subseteq gpuFrozen
            /\ ok => c \notin frozen' \cup gpuFrozen'
        BY <2>2 DEF DaemonUnfreeze, UnfreezeGPU, UnfreezeContainer
      <3>2. ASSUME NEW d \in frozen' \cup gpuFrozen', d # c
            PROVE  fpc'[d] \notin {"off", "call"} /\ (fpc'[d] = "thawed" => thawFails')
        BY <2>2, <3>1, <3>2
      <3>3. ASSUME c \in frozen' \cup gpuFrozen'
            PROVE  fpc'[c] \notin {"off", "call"} /\ (fpc'[c] = "thawed" => thawFails')
        BY <2>2, <3>1, <3>3, Zenon
      <3> QED
        BY <3>2, <3>3
    <2> QED
      BY <1>10, <2>1, <2>2 DEF Unfreeze
  <1>11. CASE ConcurrentMapWrites
    BY <1>11 DEF ConcurrentMapWrites, freezing
  <1>12. CASE Stop
    BY <1>12 DEF Stop, freezing
  <1>13. ASSUME NEW c \in Containers, FreezeCall(c) PROVE FrozenBy'
    BY <1>13 DEF FreezeCall, Freeze, FreezeGPU, FreezeContainer, freezing
  <1>14. ASSUME NEW c \in Containers, FreezeTest(c) PROVE FrozenBy'
    BY <1>14 DEF FreezeTest, freezing
  <1>15. ASSUME NEW c \in Containers, FreezeWrite(c) PROVE FrozenBy'
    BY <1>15 DEF FreezeWrite, freezing
  <1>16. ASSUME NEW c \in Containers, DumpCall(c) PROVE FrozenBy'
    BY <1>16 DEF DumpCall, freezing
  <1>17. ASSUME NEW c \in Containers, DumpPublish(c) PROVE FrozenBy'
    BY <1>17 DEF DumpPublish, Publish, Status, freezing
  <1> QED
    BY <1>1, <1>2, <1>3, <1>4, <1>5, <1>6, <1>7, <1>8, <1>9, <1>10, <1>11, <1>12, <1>13,
       <1>14, <1>15, <1>16, <1>17 DEF Next

\* Each step keeps the account of what was dumped and published.
LEMMA ResultsStep == HandlerTypes /\ Phases /\ Results /\ [Next]_vars => Results'
  <1> SUFFICES ASSUME HandlerTypes, Phases, Results, [Next]_vars PROVE Results'
    OBVIOUS
  <1> USE DEF HandlerTypes, Phases, Results, PublishedRight, Status, HandlerPCs
  <1>1. CASE Lifecycle
    BY <1>1, LifecycleFrame DEF freezing
  <1>2. CASE UNCHANGED vars
    BY <1>2 DEF vars, ends, freezing
  <1>3. CASE Receive
    BY <1>3 DEF Receive, freezing
  <1>4. CASE CreateCheckpoint
    BY <1>4 DEF CreateCheckpoint, freezing
  <1>5. CASE GetImageSecret
    BY <1>5 DEF GetImageSecret, freezing
  <1>6. CASE BuildRequests
    BY <1>6 DEF BuildRequests, freezing
  <1>7. CASE StartFreezing
    BY <1>7 DEF StartFreezing, freezing
  <1>8. CASE FrozenAll
    BY <1>8 DEF FrozenAll, Publish, Status, freezing
  <1>9. CASE DumpedAll
    BY <1>9 DEF DumpedAll, freezing
  <1>10. CASE Unfreeze
    BY <1>10 DEF Unfreeze, DaemonUnfreeze, UnfreezeGPU, UnfreezeContainer, freezing
  <1>11. CASE ConcurrentMapWrites
    BY <1>11 DEF ConcurrentMapWrites, freezing
  <1>12. CASE Stop
    BY <1>12 DEF Stop, freezing
  <1>13. ASSUME NEW c \in Containers, FreezeCall(c) PROVE Results'
    BY <1>13 DEF FreezeCall, Freeze, FreezeGPU, FreezeContainer, freezing
  <1>14. ASSUME NEW c \in Containers, FreezeTest(c) PROVE Results'
    BY <1>14 DEF FreezeTest, freezing
  <1>15. ASSUME NEW c \in Containers, FreezeWrite(c) PROVE Results'
    BY <1>15 DEF FreezeWrite, freezing
  <1>16. ASSUME NEW c \in Containers, DumpCall(c) PROVE Results'
    BY <1>16 DEF DumpCall, freezing
  <1>17. ASSUME NEW c \in Containers, DumpPublish(c) PROVE Results'
    BY <1>17 DEF DumpPublish, Publish, Status, freezing
  <1> QED
    BY <1>1, <1>2, <1>3, <1>4, <1>5, <1>6, <1>7, <1>8, <1>9, <1>10, <1>11, <1>12, <1>13,
       <1>14, <1>15, <1>16, <1>17, Zenon DEF Next

\* Each step keeps the types of the handler's variables.
LEMMA HandlerTypesStep == HandlerTypes /\ [Next]_vars => HandlerTypes'
  <1> SUFFICES ASSUME HandlerTypes, [Next]_vars PROVE HandlerTypes'
    OBVIOUS
  <1> USE DEF HandlerTypes, HandlerPCs
  <1>1. CASE Lifecycle
    BY <1>1, LifecycleFrame DEF freezing
  <1>2. CASE UNCHANGED vars
    BY <1>2 DEF vars, ends, freezing
  <1>3. CASE Receive
    BY <1>3 DEF Receive, freezing
  <1>4. CASE CreateCheckpoint
    BY <1>4 DEF CreateCheckpoint, freezing
  <1>5. CASE GetImageSecret
    BY <1>5 DEF GetImageSecret, freezing
  <1>6. CASE BuildRequests
    BY <1>6 DEF BuildRequests, freezing
  <1>7. CASE StartFreezing
    BY <1>7 DEF StartFreezing, freezing
  <1>8. CASE FrozenAll
    BY <1>8 DEF FrozenAll, Publish, Status, freezing
  <1>9. CASE DumpedAll
    BY <1>9 DEF DumpedAll, freezing
  <1>10. CASE Unfreeze
    BY <1>10, Zenon DEF Unfreeze, DaemonUnfreeze, UnfreezeGPU, UnfreezeContainer, freezing
  <1>11. CASE ConcurrentMapWrites
    BY <1>11 DEF ConcurrentMapWrites, freezing
  <1>12. CASE Stop
    BY <1>12 DEF Stop, freezing
  <1>13. ASSUME NEW c \in Containers, FreezeCall(c) PROVE HandlerTypes'
    BY <1>13 DEF FreezeCall, Freeze, FreezeGPU, FreezeContainer, freezing
  <1>14. ASSUME NEW c \in Containers, FreezeTest(c) PROVE HandlerTypes'
    BY <1>14 DEF FreezeTest, freezing
  <1>15. ASSUME NEW c \in Containers, FreezeWrite(c) PROVE HandlerTypes'
    BY <1>15 DEF FreezeWrite, freezing
  <1>16. ASSUME NEW c \in Containers, DumpCall(c) PROVE HandlerTypes'
    BY <1>16 DEF DumpCall, freezing
  <1>17. ASSUME NEW c \in Containers, DumpPublish(c) PROVE HandlerTypes'
    BY <1>17 DEF DumpPublish, Publish, Status, freezing
  <1> QED
    BY <1>1, <1>2, <1>3, <1>4, <1>5, <1>6, <1>7, <1>8, <1>9, <1>10, <1>11, <1>12, <1>13,
       <1>14, <1>15, <1>16, <1>17, Zenon DEF Next

\* The initial state is as IInv says.
LEMMA InvInit == Init => IInv
  <1> SUFFICES ASSUME Init PROVE IInv
    OBVIOUS
  <1> USE DEF Init
  <1>1. StreamTypes
    BY DEF StreamTypes, StartPCs
  <1>2. HandlerTypes
    BY Zenon DEF HandlerTypes, HandlerPCs
  <1>3. Held /\ Phases /\ FrozenBy
    BY DEF Held, Phases, FrozenBy
  <1>4. Results
    BY DEF Results, PublishedRight
  <1> QED
    BY <1>1, <1>2, <1>3, <1>4 DEF IInv, Types

\* IInv is an invariant.
LEMMA Invariant == Spec => []IInv
  <1>1. IInv /\ [Next]_vars => IInv'
    BY StreamStep, HandlerTypesStep, PhasesStep, FrozenStep, ResultsStep DEF IInv, Types
  <1> QED
    BY InvInit, <1>1, PTL DEF Spec

-----------------------------------------------------------------------------
\* Whenever Close has returned and no Start method of the event stream is under
\* way, its connection, publisher and consumer are closed.
THEOREM StreamNeverLeaks == Spec => []NothingLeaks
  <1>1. IInv => NothingLeaks
    BY DEF IInv, Types, StreamTypes, Held, NothingLeaks
  <1> QED
    BY <1>1, Invariant, PTL

\* checkpointHandler thaws no container of a pod while another is being dumped.
THEOREM PodThawedTogether == Spec => []ThawedTogether
  <1>1. IInv => ThawedTogether
    BY DEF IInv, Types, HandlerTypes, HandlerPCs, Phases, ThawedTogether
  <1> QED
    BY <1>1, Invariant, PTL

\* When checkpointHandler is done and no Unfreeze has failed, no container of the
\* pod and no GPU is left frozen, whatever else has failed.
THEOREM PodThawedAfter == Spec => []ThawedAfter
  <1>1. IInv => ThawedAfter
    BY DEF IInv, Types, HandlerTypes, Phases, FrozenBy, ThawedAfter
  <1> QED
    BY <1>1, Invariant, PTL

\* What checkpointHandler publishes of a container is what became of its dump, as
\* long as no freezing goroutine has read another's err.
THEOREM StatusPublishedRight == Spec => []PublishedRight
  <1>1. IInv => PublishedRight
    BY DEF IInv, Results
  <1> QED
    BY <1>1, Invariant, PTL

\* So checkpointHandler keeps what a pod is promised, for every number of containers.
THEOREM PodKept == Spec => []PodSafe
  BY PodThawedTogether, PodThawedAfter, StatusPublishedRight, PTL DEF PodSafe
=============================================================================
