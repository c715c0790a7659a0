------------------------- MODULE StreamingFsProofs -------------------------
(***************************************************************************)
(* Proofs about StreamingFs, for every number of shards, whatever their    *)
(* lengths and the capacity of a pipe: what wait's answer says is true,    *)
(* nothing works on when it has returned, and the streaming filesystem     *)
(* implements Transfer.                                                    *)
(***************************************************************************)
EXTENDS StreamingFs, TLAPS

\* TypeOK, the flags apart from the rest.
Flags == ctxDone \in BOOLEAN /\ ended \in BOOLEAN /\ ready \in BOOLEAN /\ panicked \in BOOLEAN

Types ==
    /\ mode \in {"read", "write"} /\ store \in {"local", "s3", "cedana"}
    /\ pc \in {"list", "open", "select", "dial", "body", "io", "exit", "returned", "failed"}
    /\ opened \in 0..Streams /\ result \in {"none", "ok", "error"}
    /\ sh \in [Shards -> {"none", "copy", "fail", "close", "done"}]
    /\ n \in [Shards -> Nat] /\ failed \in SUBSET Shards
    /\ strm \in {"off", "starting", "listening", "draining", "finished", "dead"}
    /\ moved \in [Shards -> Nat] /\ stderr \in {"none", "printed", "read"}
    /\ scanner \in {"off", "on", "init", "done"}
    /\ up \in [Shards -> {"off", "never", "on", "closing", "ok", "failed"}]
    /\ got \in [Shards -> Nat] /\ obj \in [Shards -> Nat \cup {None}]
    /\ faults \in SUBSET Faults

Channel == ioErr \in [len : 0..Streams, err : BOOLEAN]

\* How far NewStreamingFs and wait have come.
Progress ==
    /\ ended <=> pc \in {"body", "io", "exit", "returned", "failed"}
    /\ result = "none" <=> pc \notin {"returned", "failed"}
    /\ result = "ok" => pc = "returned" /\ ~ioErr.err
    /\ pc \in {"exit", "returned"} => strm = "dead" /\ \A i \in Shards : sh[i] = "done"
    /\ pc = "returned" => scanner = "done"
    /\ pc \in {"list", "open"} => strm = "off"

\* A streamer that the request goes on with has said that it is ready.
Ready ==
    /\ strm \in {"off", "starting"} => stderr = "none"
    /\ scanner = "init" => stderr = "read" /\ ~ready
    /\ ready => stderr = "read"
    /\ pc = "dial" => ready \/ strm = "dead"
    /\ pc \in {"body", "io", "exit", "returned"} => ready
    /\ panicked => pc = "failed"

\* A streamer that is gone has moved everything, or something went wrong.
Moved ==
    /\ strm = "off" => pc \in {"list", "open", "failed"}
    /\ ctxDone => "cancel" \in faults
    /\ strm = "finished" \/ (strm = "dead" /\ faults = {} /\ pc \notin {"exit", "returned"})
           => \A i \in Shards : moved[i] = Size[i]

\* A chunk passes through the pipe once, in the direction of the mode.
Pipe(i) ==
    /\ mode = "read" => moved[i] <= n[i] /\ n[i] <= Size[i]
    /\ mode = "write" => n[i] <= moved[i] /\ moved[i] <= Size[i]
    /\ sh[i] = "none" <=> i > opened
    /\ sh[i] = "none" => n[i] = 0

\* A goroutine that is past its copying has copied everything there was, or has
\* sent its error.
Copied(i) ==
    /\ i \in failed => sh[i] \in {"fail", "close", "done"}
    /\ i \in failed /\ sh[i] # "fail" => ioErr.err
    /\ sh[i] = "fail" => i \in failed
    /\ sh[i] \in {"close", "done"} /\ i \notin failed =>
           IF mode = "read" THEN n[i] = Size[i]
           ELSE /\ n[i] = moved[i] /\ ended /\ strm \in {"off", "finished", "dead"}
                /\ faults = {} /\ pc # "failed" => moved[i] = Size[i]

\* What is stored of a shard is what was copied; a goroutine is done when its upload
\* is.
Stored(i) ==
    /\ sh[i] = "done" => up[i] \in {"off", "ok", "failed"} /\ (up[i] = "failed" => ioErr.err)
    /\ mode = "read" \/ store = "local" => up[i] = "off"
    /\ mode = "write" /\ store = "local" =>
           /\ sh[i] = "none" => obj[i] = None
           /\ sh[i] # "none" => obj[i] \in Nat
           /\ sh[i] = "copy" \/ (sh[i] # "none" /\ "flush" \notin faults) => obj[i] = n[i]
    /\ mode = "write" /\ store # "local" =>
           /\ got[i] <= n[i] /\ (up[i] = "off" => n[i] = 0)
           /\ IF up[i] = "ok" THEN obj[i] = n[i] ELSE obj[i] = None
           /\ up[i] \in {"closing", "ok"} => sh[i] \in {"close", "done"}

ShardInv == \A i \in Shards : Pipe(i) /\ Copied(i) /\ Stored(i)

IInv == TypeOK /\ Progress /\ Ready /\ Moved /\ ShardInv

-----------------------------------------------------------------------------
\* Every step keeps the flags Boolean.
LEMMA FlagsStep == IInv /\ [Next]_vars => Flags'
<1> SUFFICES ASSUME IInv, [Next]_vars PROVE Flags'
  OBVIOUS
<1> USE StreamsAssumption DEF request, goroutines, streamer, startup, storage
<1>0. TypeOK /\ Progress /\ Ready /\ Moved /\ ShardInv
  BY DEF IInv
<1>1. ASSUME UNCHANGED <<ctxDone, ended, ready, panicked>>
      PROVE  Flags'
  BY <1>0, <1>1 DEF TypeOK, Flags
<1>2. CASE Stop \/ IOWait \/ Join \/ StreamerInit \/ StreamerFinish \/ StreamerDies \/ Scan
  BY <1>1, <1>2 DEF Stop, IOWait, Join, StreamerInit, StreamerFinish, StreamerDies, Alive, Scan
<1>3. ASSUME NEW i \in Shards, StreamerMove(i) \/ CopyToFile(i) \/ EndOfPipe(i) \/
        CopyFromFile(i) \/ EndOfFile(i) \/ SendError(i) \/ Close(i) \/ Upload(i)
      PROVE  Flags'
  BY <1>1, <1>3 DEF StreamerMove, CopyToFile, WriteLocal, WriteS3, WriteCedana, EndOfPipe,
    OtherEndClosed, remote, CopyFromFile, EndOfFile, SendError, Send, Close, Upload
<1>4. CASE ListImages
  BY <1>0, <1>4, Zenon DEF TypeOK, Flags, ListImages, Fail
<1>5. CASE OpenShard
  BY <1>0, <1>5, Zenon DEF TypeOK, Flags, OpenShard, Fail, remote
<1>6. CASE StartStreamer
  BY <1>0, <1>6, Zenon DEF TypeOK, Flags, StartStreamer, Fail
<1>7. CASE Select
  BY <1>0, <1>7, Zenon DEF TypeOK, Flags, Select, Fail
<1>8. CASE Dial
  BY <1>0, <1>8, Zenon DEF TypeOK, Flags, Dial, Fail
<1>9. CASE Cancel
  BY <1>0, <1>9 DEF TypeOK, Flags, Cancel
<1>10. CASE MarkReady
  BY <1>0, <1>10, Zenon DEF TypeOK, Flags, MarkReady
<1>11. CASE UNCHANGED vars
  BY <1>1, <1>11 DEF vars
<1> QED
  BY <1>2, <1>3, <1>4, <1>5, <1>6, <1>7, <1>8, <1>9, <1>10, <1>11
  DEF Next, Request, Streamer, Watchers, Goroutine, Finished

\* Every step keeps the types of the rest.
LEMMA TypesStep == IInv /\ [Next]_vars => Types'
<1> SUFFICES ASSUME IInv, [Next]_vars PROVE Types'
  OBVIOUS
<1> USE StreamsAssumption DEF request, goroutines, streamer, startup, storage
<1>0. TypeOK /\ Progress /\ Ready /\ Moved /\ ShardInv
  BY DEF IInv
<1>1. CASE ListImages
  BY <1>0, <1>1 DEF TypeOK, Types, Faults, ListImages, Fail
<1>2. CASE OpenShard
  BY <1>0, <1>2 DEF TypeOK, Types, Faults, OpenShard, Fail, remote
<1>3. CASE StartStreamer
  BY <1>0, <1>3 DEF TypeOK, Types, Faults, StartStreamer, Fail
<1>4. CASE Select
  BY <1>0, <1>4 DEF TypeOK, Types, Faults, Select, Fail
<1>5. CASE Dial
  BY <1>0, <1>5 DEF TypeOK, Types, Faults, Dial, Fail
<1>6. CASE Stop
  BY <1>0, <1>6 DEF TypeOK, Types, Faults, Stop
<1>7. CASE IOWait
  BY <1>0, <1>7 DEF TypeOK, Types, Faults, IOWait
<1>8. CASE Join
  BY <1>0, <1>8 DEF TypeOK, Types, Faults, Join
<1>9. CASE StreamerInit
  BY <1>0, <1>9 DEF TypeOK, Types, Faults, StreamerInit
<1>10. ASSUME NEW i \in Shards, StreamerMove(i) PROVE Types'
  BY <1>0, <1>10 DEF TypeOK, Types, Faults, StreamerMove
<1>11. CASE StreamerFinish
  BY <1>0, <1>11 DEF TypeOK, Types, Faults, StreamerFinish
<1>12. CASE StreamerDies
  BY <1>0, <1>12 DEF TypeOK, Types, Faults, StreamerDies, Alive
<1>13. CASE Cancel
  BY <1>0, <1>13 DEF TypeOK, Types, Faults, Cancel
<1>14. CASE Scan
  BY <1>0, <1>14 DEF TypeOK, Types, Faults, Scan
<1>15. CASE MarkReady
  BY <1>0, <1>15 DEF TypeOK, Types, Faults, MarkReady
<1>16. ASSUME NEW i \in Shards, CopyToFile(i) PROVE Types'
  <2>1. CASE WriteLocal(i)
    <3>1. obj[i] \in Nat
      BY <1>0, <1>16, <2>1 DEF CopyToFile, WriteLocal, TypeOK, ShardInv, Stored
    <3> QED
      BY <1>0, <1>16, <2>1, <3>1 DEF TypeOK, Types, CopyToFile, WriteLocal
  <2>2. CASE WriteS3(i) \/ WriteCedana(i)
    BY <1>0, <1>16, <2>2 DEF TypeOK, Types, CopyToFile, WriteS3, WriteCedana
  <2> QED
    BY <1>0, <1>16, <2>1, <2>2 DEF CopyToFile
<1>17. ASSUME NEW i \in Shards, EndOfPipe(i) PROVE Types'
  <2>1. ~remote => obj[i] \in Nat
    BY <1>0, <1>17 DEF TypeOK, EndOfPipe, ShardInv, Stored, remote
  <2>2. obj' \in [Shards -> Nat \cup {None}]
    BY <1>0, <1>17, <2>1 DEF TypeOK, EndOfPipe
  <2>3. faults' \in SUBSET Faults
    BY <1>0, <1>17, Zenon DEF TypeOK, EndOfPipe, Faults
  <2>4. /\ sh' = [sh EXCEPT ![i] = "close"]
        /\ UNCHANGED <<request, n, failed, streamer, startup, up, got>>
    BY <1>0, <1>17 DEF EndOfPipe
  <2> QED
    BY <1>0, <2>2, <2>3, <2>4 DEF TypeOK, Types
<1>18. ASSUME NEW i \in Shards, CopyFromFile(i) PROVE Types'
  BY <1>0, <1>18 DEF TypeOK, Types, Faults, CopyFromFile, OtherEndClosed
<1>19. ASSUME NEW i \in Shards, EndOfFile(i) PROVE Types'
  BY <1>0, <1>19 DEF TypeOK, Types, Faults, EndOfFile
<1>20. ASSUME NEW i \in Shards, SendError(i) PROVE Types'
  BY <1>0, <1>20 DEF TypeOK, Types, Faults, SendError, Send
<1>21. ASSUME NEW i \in Shards, Close(i) PROVE Types'
  BY <1>0, <1>21 DEF TypeOK, Types, Faults, Close, Send
<1>22. ASSUME NEW i \in Shards, Upload(i) PROVE Types'
  BY <1>0, <1>22 DEF TypeOK, Types, Faults, Upload
<1>23. CASE UNCHANGED vars
  BY <1>0, <1>23 DEF TypeOK, Types, Faults, vars
<1> QED
  BY <1>1, <1>2, <1>3, <1>4, <1>5, <1>6, <1>7, <1>8, <1>9, <1>10, <1>11, <1>12, <1>13, <1>14, <1>15,
     <1>16, <1>17, <1>18, <1>19, <1>20, <1>21, <1>22, <1>23
  DEF Next, Request, Streamer, Watchers, Goroutine, Finished

\* Every step keeps the channel within its capacity.
LEMMA ChannelStep == IInv /\ [Next]_vars => Channel'
<1> SUFFICES ASSUME IInv, [Next]_vars PROVE Channel'
  OBVIOUS
<1> USE StreamsAssumption DEF request, goroutines, streamer, startup, storage
<1>0. TypeOK /\ Progress /\ Ready /\ Moved /\ ShardInv
  BY DEF IInv
<1>1. ASSUME UNCHANGED <<ioErr>>
      PROVE  Channel'
  BY <1>0, <1>1 DEF TypeOK, Channel
<1>2. CASE ListImages \/ OpenShard \/ StartStreamer \/ Select \/ Dial \/ Stop \/ IOWait \/ Join \/
        StreamerInit \/ StreamerFinish \/ StreamerDies \/ Cancel \/ Scan \/ MarkReady
  BY <1>1, <1>2 DEF ListImages, Fail, OpenShard, remote, StartStreamer, Select, Dial, Stop, IOWait,
    Join, StreamerInit, StreamerFinish, StreamerDies, Alive, Cancel, Scan, MarkReady
<1>3. ASSUME NEW i \in Shards, StreamerMove(i) \/ CopyToFile(i) \/ EndOfPipe(i) \/
        CopyFromFile(i) \/ EndOfFile(i) \/ Upload(i)
      PROVE  Channel'
  BY <1>1, <1>3 DEF StreamerMove, CopyToFile, WriteLocal, WriteS3, WriteCedana, EndOfPipe,
    OtherEndClosed, remote, CopyFromFile, EndOfFile, Upload
<1>4. ASSUME NEW i \in Shards, SendError(i) PROVE Channel'
  BY <1>0, <1>4 DEF TypeOK, Channel, SendError, Send
<1>5. ASSUME NEW i \in Shards, Close(i) PROVE Channel'
  <2>1. CASE UNCHANGED ioErr
    BY <1>0, <2>1 DEF TypeOK, Channel
  <2>2. CASE Send(up[i] = "failed")
    <3>1. (ioErr.err \/ up[i] = "failed") \in BOOLEAN
      BY Zenon
    <3> QED
      BY <1>0, <2>2, <3>1 DEF TypeOK, Channel, Send
  <2> QED
    BY <1>5, <2>1, <2>2 DEF Close
<1>6. CASE UNCHANGED vars
  BY <1>1, <1>6 DEF vars
<1> QED
  BY <1>2, <1>3, <1>4, <1>5, <1>6
  DEF Next, Request, Streamer, Watchers, Goroutine, Finished

\* Every step keeps what is known of the request.
LEMMA ProgressStep == IInv /\ [Next]_vars => Progress'
<1> SUFFICES ASSUME IInv, [Next]_vars PROVE Progress'
  OBVIOUS
<1> USE StreamsAssumption DEF request, goroutines, streamer, startup, storage
<1>0. TypeOK /\ Progress /\ Ready /\ Moved /\ ShardInv
  BY DEF IInv
<1>1. ASSUME UNCHANGED <<ended, pc, result, ioErr, strm, sh, scanner>>
      PROVE  Progress'
  BY <1>0, <1>1 DEF TypeOK, Progress
<1>2. CASE Cancel
  BY <1>1, <1>2 DEF Cancel
<1>3. ASSUME NEW i \in Shards, StreamerMove(i) \/ Upload(i)
      PROVE  Progress'
  BY <1>1, <1>3 DEF StreamerMove, Upload
<1>4. CASE ListImages
  BY <1>0, <1>4 DEF TypeOK, Progress, ListImages, Fail
<1>5. CASE OpenShard
  BY <1>0, <1>5 DEF TypeOK, Progress, OpenShard, Fail, remote
<1>6. CASE StartStreamer
  BY <1>0, <1>6 DEF TypeOK, Progress, StartStreamer, Fail
<1>7. CASE Select
  BY <1>0, <1>7 DEF TypeOK, Progress, Select, Fail
<1>8. CASE Dial
  BY <1>0, <1>8 DEF TypeOK, Progress, Dial, Fail
<1>9. CASE Stop
  BY <1>0, <1>9 DEF TypeOK, Progress, Stop
<1>10. CASE IOWait
  BY <1>0, <1>10 DEF TypeOK, Progress, IOWait
<1>11. CASE Join
  BY <1>0, <1>11 DEF TypeOK, Progress, Join
<1>12. CASE StreamerInit
  BY <1>0, <1>12 DEF TypeOK, Progress, StreamerInit
<1>13. CASE StreamerFinish
  BY <1>0, <1>13 DEF TypeOK, Progress, StreamerFinish
<1>14. CASE StreamerDies
  BY <1>0, <1>14 DEF TypeOK, Progress, StreamerDies, Alive
<1>15. CASE Scan
  BY <1>0, <1>15 DEF TypeOK, Progress, Scan
<1>16. CASE MarkReady
  BY <1>0, <1>16 DEF TypeOK, Progress, MarkReady
<1>17. ASSUME NEW i \in Shards, CopyToFile(i) PROVE Progress'
  BY <1>0, <1>17 DEF TypeOK, Progress, CopyToFile, WriteLocal, WriteS3, WriteCedana
<1>18. ASSUME NEW i \in Shards, EndOfPipe(i) PROVE Progress'
  BY <1>0, <1>18 DEF TypeOK, Progress, EndOfPipe, OtherEndClosed, remote
<1>19. ASSUME NEW i \in Shards, CopyFromFile(i) PROVE Progress'
  BY <1>0, <1>19 DEF TypeOK, Progress, CopyFromFile, OtherEndClosed
<1>20. ASSUME NEW i \in Shards, EndOfFile(i) PROVE Progress'
  BY <1>0, <1>20 DEF TypeOK, Progress, EndOfFile
<1>21. ASSUME NEW i \in Shards, SendError(i) PROVE Progress'
  BY <1>0, <1>21 DEF TypeOK, Progress, SendError, Send
<1>22. ASSUME NEW i \in Shards, Close(i) PROVE Progress'
  BY <1>0, <1>22 DEF TypeOK, Progress, Close, Send
<1>23. CASE UNCHANGED vars
  BY <1>1, <1>23 DEF vars
<1> QED
  BY <1>2, <1>3, <1>4, <1>5, <1>6, <1>7, <1>8, <1>9, <1>10, <1>11, <1>12, <1>13, <1>14, <1>15,
     <1>16, <1>17, <1>18, <1>19, <1>20, <1>21, <1>22, <1>23
  DEF Next, Request, Streamer, Watchers, Goroutine, Finished

\* Every step keeps the order in which the streamer and the request start.
LEMMA ReadyStep == IInv /\ [Next]_vars => Ready'
<1> SUFFICES ASSUME IInv, [Next]_vars PROVE Ready'
  OBVIOUS
<1> USE StreamsAssumption DEF request, goroutines, streamer, startup, storage
<1>0. TypeOK /\ Progress /\ Ready /\ Moved /\ ShardInv
  BY DEF IInv
<1>1. ASSUME UNCHANGED <<strm, stderr, scanner, ready, pc, panicked>>
      PROVE  Ready'
  BY <1>0, <1>1 DEF TypeOK, Progress, Ready
<1>2. CASE Cancel
  BY <1>1, <1>2 DEF Cancel
<1>3. ASSUME NEW i \in Shards, StreamerMove(i) \/ CopyToFile(i) \/ EndOfPipe(i) \/
        CopyFromFile(i) \/ EndOfFile(i) \/ SendError(i) \/ Close(i) \/ Upload(i)
      PROVE  Ready'
  BY <1>1, <1>3 DEF StreamerMove, CopyToFile, WriteLocal, WriteS3, WriteCedana, EndOfPipe,
    OtherEndClosed, remote, CopyFromFile, EndOfFile, SendError, Send, Close, Upload
<1>4. CASE ListImages
  BY <1>0, <1>4 DEF TypeOK, Progress, Ready, ListImages, Fail
<1>5. CASE OpenShard
  BY <1>0, <1>5 DEF TypeOK, Progress, Ready, OpenShard, Fail, remote
<1>6. CASE StartStreamer
  BY <1>0, <1>6 DEF TypeOK, Progress, Ready, StartStreamer, Fail
<1>7. CASE Select
  BY <1>0, <1>7 DEF TypeOK, Progress, Ready, Select, Fail
<1>8. CASE Dial
  BY <1>0, <1>8 DEF TypeOK, Progress, Ready, Dial, Fail
<1>9. CASE Stop
  BY <1>0, <1>9 DEF TypeOK, Progress, Ready, Stop
<1>10. CASE IOWait
  BY <1>0, <1>10 DEF TypeOK, Progress, Ready, IOWait
<1>11. CASE Join
  BY <1>0, <1>11 DEF TypeOK, Progress, Ready, Join
<1>12. CASE StreamerInit
  BY <1>0, <1>12 DEF TypeOK, Progress, Ready, StreamerInit
<1>13. CASE StreamerFinish
  BY <1>0, <1>13 DEF TypeOK, Progress, Ready, StreamerFinish
<1>14. CASE StreamerDies
  BY <1>0, <1>14 DEF TypeOK, Progress, Ready, StreamerDies, Alive
<1>15. CASE Scan
  BY <1>0, <1>15 DEF TypeOK, Progress, Ready, Scan
<1>16. CASE MarkReady
  BY <1>0, <1>16 DEF TypeOK, Progress, Ready, MarkReady
<1>17. CASE UNCHANGED vars
  BY <1>1, <1>17 DEF vars
<1> QED
  BY <1>2, <1>3, <1>4, <1>5, <1>6, <1>7, <1>8, <1>9, <1>10, <1>11, <1>12, <1>13, <1>14, <1>15,
     <1>16, <1>17
  DEF Next, Request, Streamer, Watchers, Goroutine, Finished

\* Every step keeps what a streamer that is gone has done.
LEMMA MovedStep == IInv /\ [Next]_vars => Moved'
<1> SUFFICES ASSUME IInv, [Next]_vars PROVE Moved'
  OBVIOUS
<1> USE StreamsAssumption DEF request, goroutines, streamer, startup, storage
<1>0. TypeOK /\ Progress /\ Ready /\ Moved /\ ShardInv
  BY DEF IInv
<1>1. ASSUME UNCHANGED <<strm, pc, ctxDone, faults, moved>>
      PROVE  Moved'
  BY <1>0, <1>1 DEF TypeOK, Progress, Moved
<1>2. CASE Scan \/ MarkReady
  BY <1>1, <1>2 DEF Scan, MarkReady
<1>3. ASSUME NEW i \in Shards, CopyToFile(i) \/ CopyFromFile(i) \/ EndOfFile(i) \/ SendError(i) \/
        Close(i) \/ Upload(i)
      PROVE  Moved'
  BY <1>1, <1>3 DEF CopyToFile, WriteLocal, WriteS3, WriteCedana, CopyFromFile, OtherEndClosed,
    EndOfFile, SendError, Send, Close, Upload
<1>4. CASE ListImages
  BY <1>0, <1>4 DEF TypeOK, Progress, Moved, ListImages, Fail
<1>5. CASE OpenShard
  BY <1>0, <1>5 DEF TypeOK, Progress, Moved, OpenShard, Fail, remote
<1>6. CASE StartStreamer
  BY <1>0, <1>6 DEF TypeOK, Progress, Moved, StartStreamer, Fail
<1>7. CASE Select
  BY <1>0, <1>7 DEF TypeOK, Progress, Moved, Select, Fail
<1>8. CASE Dial
  BY <1>0, <1>8 DEF TypeOK, Progress, Moved, Dial, Fail
<1>9. CASE Stop
  BY <1>0, <1>9 DEF TypeOK, Progress, Moved, Stop
<1>10. CASE IOWait
  BY <1>0, <1>10 DEF TypeOK, Progress, Moved, IOWait
<1>11. CASE Join
  BY <1>0, <1>11 DEF TypeOK, Progress, Moved, Join
<1>12. CASE StreamerInit
  BY <1>0, <1>12 DEF TypeOK, Progress, Moved, StreamerInit
<1>13. ASSUME NEW i \in Shards, StreamerMove(i) PROVE Moved'
  BY <1>0, <1>13 DEF TypeOK, Progress, Moved, StreamerMove
<1>14. CASE StreamerFinish
  BY <1>0, <1>14 DEF TypeOK, Progress, Moved, StreamerFinish
<1>15. CASE StreamerDies
  BY <1>0, <1>15 DEF TypeOK, Progress, Moved, StreamerDies, Alive
<1>16. CASE Cancel
  BY <1>0, <1>16 DEF TypeOK, Progress, Moved, Cancel
<1>17. ASSUME NEW i \in Shards, EndOfPipe(i) PROVE Moved'
  BY <1>0, <1>17 DEF TypeOK, Progress, Moved, EndOfPipe, OtherEndClosed, remote
<1>18. CASE UNCHANGED vars
  BY <1>1, <1>18 DEF vars
<1> QED
  BY <1>2, <1>3, <1>4, <1>5, <1>6, <1>7, <1>8, <1>9, <1>10, <1>11, <1>12, <1>13, <1>14, <1>15,
     <1>16, <1>17, <1>18
  DEF Next, Request, Streamer, Watchers, Goroutine, Finished

\* Every step keeps the order of the counters of a pipe.
LEMMA PipeStep == IInv /\ [Next]_vars => \A j \in Shards : Pipe(j)'
<1> SUFFICES ASSUME IInv, [Next]_vars, NEW j \in Shards PROVE Pipe(j)'
  OBVIOUS
<1> USE StreamsAssumption DEF request, goroutines, streamer, startup, storage
<1>0. TypeOK /\ Progress /\ Moved /\ Pipe(j) /\ Copied(j) /\ Stored(j)
  BY DEF IInv, ShardInv
<1>1. ASSUME UNCHANGED <<mode, moved, n, sh, opened>>
      PROVE  Pipe(j)'
  BY <1>0, <1>1 DEF TypeOK, Pipe
<1>2. CASE ListImages \/ StartStreamer \/ Select \/ Dial \/ Stop \/ IOWait \/ Join \/
        StreamerInit \/ StreamerFinish \/ StreamerDies \/ Cancel \/ Scan \/ MarkReady
  BY <1>1, <1>2, Zenon DEF ListImages, Fail, StartStreamer, Select, Dial, Stop, IOWait, Join, StreamerInit,
    StreamerFinish, StreamerDies, Alive, Cancel, Scan, MarkReady
<1>3. ASSUME NEW i \in Shards, Upload(i)
      PROVE  Pipe(j)'
  BY <1>1, <1>3 DEF Upload
<1>4. CASE OpenShard
  <2>1. CASE UNCHANGED <<opened, sh>>
    BY <1>0, <1>4, <2>1 DEF TypeOK, Pipe, OpenShard
  <2>2. CASE opened' = opened + 1 /\ sh' = [sh EXCEPT ![opened + 1] = "copy"]
    <3>1. opened + 1 \in Shards
      BY <1>0, <1>4 DEF TypeOK, OpenShard, Shards
    <3>2. j \in Nat
      BY DEF Shards
    <3> QED
      BY <1>0, <1>4, <2>2, <3>1, <3>2 DEF TypeOK, Pipe, OpenShard
  <2> QED
    BY <1>0, <1>4, <2>1, <2>2 DEF OpenShard
<1>5. ASSUME NEW i \in Shards, StreamerMove(i) PROVE Pipe(j)'
  BY <1>0, <1>5 DEF TypeOK, Pipe, StreamerMove
<1>6. ASSUME NEW i \in Shards, CopyToFile(i) PROVE Pipe(j)'
  BY <1>0, <1>6 DEF TypeOK, Pipe, CopyToFile, WriteLocal, WriteS3, WriteCedana
<1>7. ASSUME NEW i \in Shards, EndOfPipe(i) PROVE Pipe(j)'
  BY <1>0, <1>7 DEF TypeOK, Pipe, EndOfPipe, OtherEndClosed, remote
<1>8. ASSUME NEW i \in Shards, CopyFromFile(i) PROVE Pipe(j)'
  BY <1>0, <1>8 DEF TypeOK, Pipe, CopyFromFile, OtherEndClosed
<1>9. ASSUME NEW i \in Shards, EndOfFile(i) PROVE Pipe(j)'
  BY <1>0, <1>9 DEF TypeOK, Pipe, EndOfFile
<1>10. ASSUME NEW i \in Shards, SendError(i) PROVE Pipe(j)'
  BY <1>0, <1>10 DEF TypeOK, Pipe, SendError, Send
<1>11. ASSUME NEW i \in Shards, Close(i) PROVE Pipe(j)'
  BY <1>0, <1>11 DEF TypeOK, Pipe, Close, Send
<1>12. CASE UNCHANGED vars
  BY <1>1, <1>12 DEF vars
<1> QED
  BY <1>2, <1>3, <1>4, <1>5, <1>6, <1>7, <1>8, <1>9, <1>10, <1>11, <1>12
  DEF Next, Request, Streamer, Watchers, Goroutine, Finished

\* Every step keeps what a goroutine that is past its copying has done.
LEMMA CopiedStep == IInv /\ [Next]_vars => \A j \in Shards : Copied(j)'
<1> SUFFICES ASSUME IInv, [Next]_vars, NEW j \in Shards PROVE Copied(j)'
  OBVIOUS
<1> USE StreamsAssumption DEF request, goroutines, streamer, startup, storage
<1>0. TypeOK /\ Progress /\ Moved /\ Pipe(j) /\ Copied(j) /\ Stored(j)
  BY DEF IInv, ShardInv
<1>1. ASSUME UNCHANGED <<mode, failed, sh, ioErr, n, moved, ended, strm, faults, pc>>
      PROVE  Copied(j)'
  BY <1>0, <1>1 DEF TypeOK, Progress, Moved, Pipe, Copied
<1>2. CASE Scan \/ MarkReady
  BY <1>1, <1>2 DEF Scan, MarkReady
<1>3. ASSUME NEW i \in Shards, Upload(i)
      PROVE  Copied(j)'
  BY <1>1, <1>3 DEF Upload
<1>4. CASE ListImages
  BY <1>0, <1>4 DEF TypeOK, Progress, Moved, Pipe, Copied, ListImages, Fail
<1>5. CASE OpenShard
  BY <1>0, <1>5 DEF TypeOK, Progress, Moved, Pipe, Copied, OpenShard, Fail, remote
<1>6. CASE StartStreamer
  BY <1>0, <1>6 DEF TypeOK, Progress, Moved, Pipe, Copied, StartStreamer, Fail
<1>7. CASE Select
  BY <1>0, <1>7 DEF TypeOK, Progress, Moved, Pipe, Copied, Select, Fail
<1>8. CASE Dial
  BY <1>0, <1>8 DEF TypeOK, Progress, Moved, Pipe, Copied, Dial, Fail
<1>9. CASE Stop
  BY <1>0, <1>9 DEF TypeOK, Progress, Moved, Pipe, Copied, Stop
<1>10. CASE IOWait
  BY <1>0, <1>10 DEF TypeOK, Progress, Moved, Pipe, Copied, IOWait
<1>11. CASE Join
  BY <1>0, <1>11 DEF TypeOK, Progress, Moved, Pipe, Copied, Join
<1>12. CASE StreamerInit
  BY <1>0, <1>12 DEF TypeOK, Progress, Moved, Pipe, Copied, StreamerInit
<1>13. ASSUME NEW i \in Shards, StreamerMove(i) PROVE Copied(j)'
  BY <1>0, <1>13 DEF TypeOK, Progress, Moved, Pipe, Copied, StreamerMove
<1>14. CASE StreamerFinish
  BY <1>0, <1>14 DEF TypeOK, Progress, Moved, Pipe, Copied, StreamerFinish
<1>15. CASE StreamerDies
  BY <1>0, <1>15 DEF TypeOK, Progress, Moved, Pipe, Copied, StreamerDies, Alive
<1>16. CASE Cancel
  BY <1>0, <1>16 DEF TypeOK, Progress, Moved, Pipe, Copied, Cancel
<1>17. ASSUME NEW i \in Shards, CopyToFile(i) PROVE Copied(j)'
  BY <1>0, <1>17 DEF TypeOK, Progress, Moved, Pipe, Copied, CopyToFile, WriteLocal, WriteS3,
    WriteCedana
<1>18. ASSUME NEW i \in Shards, EndOfPipe(i) PROVE Copied(j)'
  BY <1>0, <1>18 DEF TypeOK, Progress, Moved, Pipe, Copied, EndOfPipe, OtherEndClosed, remote
<1>19. ASSUME NEW i \in Shards, CopyFromFile(i) PROVE Copied(j)'
  BY <1>0, <1>19 DEF TypeOK, Progress, Moved, Pipe, Copied, CopyFromFile, OtherEndClosed
<1>20. ASSUME NEW i \in Shards, EndOfFile(i) PROVE Copied(j)'
  BY <1>0, <1>20 DEF TypeOK, Progress, Moved, Pipe, Copied, EndOfFile
<1>21. ASSUME NEW i \in Shards, SendError(i) PROVE Copied(j)'
  BY <1>0, <1>21, Zenon DEF TypeOK, Progress, Moved, Pipe, Copied, SendError, Send
<1>22. ASSUME NEW i \in Shards, Close(i) PROVE Copied(j)'
  BY <1>0, <1>22 DEF TypeOK, Progress, Moved, Pipe, Copied, Close, Send
<1>23. CASE UNCHANGED vars
  BY <1>1, <1>23 DEF vars
<1> QED
  BY <1>2, <1>3, <1>4, <1>5, <1>6, <1>7, <1>8, <1>9, <1>10, <1>11, <1>12, <1>13, <1>14, <1>15,
     <1>16, <1>17, <1>18, <1>19, <1>20, <1>21, <1>22, <1>23
  DEF Next, Request, Streamer, Watchers, Goroutine, Finished

\* Every step keeps what is stored of a shard.
LEMMA StoredStep == IInv /\ [Next]_vars => \A j \in Shards : Stored(j)'
<1> SUFFICES ASSUME IInv, [Next]_vars, NEW j \in Shards PROVE Stored(j)'
  OBVIOUS
<1> USE StreamsAssumption DEF request, goroutines, streamer, startup, storage
<1>0. TypeOK /\ Progress /\ Moved /\ Pipe(j) /\ Copied(j) /\ Stored(j)
  BY DEF IInv, ShardInv
<1>1. ASSUME UNCHANGED <<mode, store, sh, n, up, got, obj, ioErr, faults>>
      PROVE  Stored(j)'
  BY <1>0, <1>1 DEF TypeOK, Pipe, Stored
<1>2. CASE ListImages \/ StartStreamer \/ Select \/ Dial \/ Stop \/ IOWait \/ Join \/
        StreamerInit \/ StreamerFinish \/ Scan \/ MarkReady
  BY <1>1, <1>2, Zenon DEF ListImages, Fail, StartStreamer, Select, Dial, Stop, IOWait, Join, StreamerInit,
    StreamerFinish, Scan, MarkReady
<1>3. ASSUME NEW i \in Shards, StreamerMove(i)
      PROVE  Stored(j)'
  BY <1>1, <1>3 DEF StreamerMove
<1>4. CASE OpenShard
  BY <1>0, <1>4 DEF TypeOK, Pipe, Stored, OpenShard, Fail, remote
<1>5. CASE StreamerDies
  BY <1>0, <1>5 DEF TypeOK, Pipe, Stored, StreamerDies, Alive
<1>6. CASE Cancel
  BY <1>0, <1>6 DEF TypeOK, Pipe, Stored, Cancel
<1>7. ASSUME NEW i \in Shards, CopyToFile(i) PROVE Stored(j)'
  BY <1>0, <1>7 DEF TypeOK, Pipe, Stored, CopyToFile, WriteLocal, WriteS3, WriteCedana
<1>8. ASSUME NEW i \in Shards, EndOfPipe(i) PROVE Stored(j)'
  BY <1>0, <1>8 DEF TypeOK, Pipe, Stored, EndOfPipe, OtherEndClosed, remote
<1>9. ASSUME NEW i \in Shards, CopyFromFile(i) PROVE Stored(j)'
  BY <1>0, <1>9 DEF TypeOK, Pipe, Stored, CopyFromFile, OtherEndClosed
<1>10. ASSUME NEW i \in Shards, EndOfFile(i) PROVE Stored(j)'
  BY <1>0, <1>10 DEF TypeOK, Pipe, Stored, EndOfFile
<1>11. ASSUME NEW i \in Shards, SendError(i) PROVE Stored(j)'
  BY <1>0, <1>11 DEF TypeOK, Pipe, Stored, SendError, Send
<1>12. ASSUME NEW i \in Shards, Close(i) PROVE Stored(j)'
  <2>1. CASE up[i] = "on" /\ up' = [up EXCEPT ![i] = "closing"] /\ UNCHANGED <<sh, ioErr>>
    BY <1>0, <1>12, <2>1 DEF TypeOK, Stored, Close
  <2>2. CASE /\ up[i] \in {"off", "ok", "failed"} /\ UNCHANGED up
             /\ Send(up[i] = "failed") /\ sh' = [sh EXCEPT ![i] = "done"]
    <3>1. ioErr'.err <=> ioErr.err \/ up[i] = "failed"
      BY <1>0, <2>2, Zenon DEF TypeOK, Send
    <3> QED
      BY <1>0, <1>12, <2>2, <3>1 DEF TypeOK, Stored, Close
  <2> QED
    BY <1>0, <1>12, <2>1, <2>2 DEF Close
<1>13. ASSUME NEW i \in Shards, Upload(i) PROVE Stored(j)'
  BY <1>0, <1>13 DEF TypeOK, Pipe, Stored, Upload
<1>14. CASE UNCHANGED vars
  BY <1>1, <1>14 DEF vars
<1> QED
  BY <1>2, <1>3, <1>4, <1>5, <1>6, <1>7, <1>8, <1>9, <1>10, <1>11, <1>12, <1>13, <1>14
  DEF Next, Request, Streamer, Watchers, Goroutine, Finished

\* TypeOK is the three of its parts.
LEMMA TypeOKStep == IInv /\ [Next]_vars => TypeOK'
<1>1. TypeOK' <=> Flags' /\ Types' /\ Channel'
  BY DEF TypeOK, Flags, Types, Channel
<1> QED
  BY <1>1, FlagsStep, TypesStep, ChannelStep

\* The invariant holds when NewStreamingFs is called.
LEMMA InvInit == Init => IInv
<1> SUFFICES ASSUME Init PROVE IInv
  OBVIOUS
<1> USE StreamsAssumption
<1>1. Flags
  BY Zenon DEF Init, Flags
<1>2. Types
  BY DEF Init, Types, Faults
<1>3. Channel
  BY DEF Init, Channel
<1>4. TypeOK
  BY <1>1, <1>2, <1>3 DEF TypeOK, Flags, Types, Channel
<1>5. Progress /\ Ready /\ Moved
  BY DEF Init, Progress, Ready, Moved
<1>6. ShardInv
  <2> SUFFICES ASSUME NEW i \in Shards PROVE Pipe(i) /\ Copied(i) /\ Stored(i)
    BY DEF ShardInv
  <2> QED
    BY DEF Init, Pipe, Copied, Stored, Shards
<1> QED
  BY <1>4, <1>5, <1>6 DEF IInv

\* Every step of the request, its goroutines, the streamer and the uploads keeps it.
LEMMA InvNext == IInv /\ [Next]_vars => IInv'
<1> SUFFICES ASSUME IInv, [Next]_vars PROVE IInv'
  OBVIOUS
<1>1. ShardInv'
  <2>1. \A i \in Shards : Pipe(i)' /\ Copied(i)' /\ Stored(i)'
    BY PipeStep, CopiedStep, StoredStep
  <2> QED
    BY <2>1 DEF ShardInv
<1> QED
  BY <1>1, TypeOKStep, ProgressStep, ReadyStep, MovedStep DEF IInv

\* The invariant of the streaming filesystem holds in every state it reaches.
LEMMA Invariant == Spec => []IInv
  BY InvInit, InvNext, PTL DEF Spec

\* What wait's nil means, from what its goroutines have done.
LEMMA SuccessIsStored == IInv => StoredWhole
<1> SUFFICES ASSUME IInv, result = "ok", faults = {}, NEW i \in Shards PROVE Whole(i)
  BY DEF StoredWhole
<1>1. sh[i] = "done" /\ ~ioErr.err /\ pc = "returned"
  BY DEF IInv, Progress
<1>2. Pipe(i) /\ Copied(i) /\ Stored(i)
  BY DEF IInv, ShardInv
<1>3. i \notin failed /\ up[i] \in {"off", "ok"}
  BY <1>1, <1>2 DEF Copied, Stored
<1>4. CASE mode = "read"
  BY <1>1, <1>2, <1>3, <1>4, Zenon DEF Copied, Whole
<1>5. CASE mode = "write"
  <2>1. n[i] = Size[i]
    BY <1>1, <1>2, <1>3, <1>5 DEF Copied
  <2> QED
    BY <1>1, <1>2, <1>3, <1>5, <2>1 DEF Stored, Whole, remote
<1> QED
  BY <1>4, <1>5 DEF IInv, TypeOK

-----------------------------------------------------------------------------
\* For every number of shards, whatever their lengths: when wait reports no error and
\* nothing went wrong outside the daemon, every shard is stored; when it returns
\* nothing works on; and only a request that gave up is hit by the send on a closed
\* channel (NewStreamingFs).
THEOREM Safe == Spec => []StreamingSafe
<1>1. IInv => StreamingSafe
  <2> SUFFICES ASSUME IInv PROVE StreamingSafe
    OBVIOUS
  <2>1. QuietAfterWait
    BY DEF IInv, Progress, ShardInv, Stored, QuietAfterWait
  <2>2. PanicOnlyAfterGivingUp
    BY DEF IInv, Ready, PanicOnlyAfterGivingUp
  <2> QED
    BY <2>1, <2>2, SuccessIsStored DEF IInv, StreamingSafe
<1> QED
  BY <1>1, Invariant, PTL

-----------------------------------------------------------------------------
(* The refinement.                                                         *)

arrived == {i \in Shards : Whole(i)}
lossy == faults # {}

\* The steps of Transfer, in terms of this module.
LEMMA AbstractSteps ==
    /\ result # "ok" /\ arrived \subseteq arrived' /\ UNCHANGED <<result, faults>>
           => Abstract!Arrive
    /\ result # "ok" /\ faults' # {} /\ UNCHANGED result => Abstract!Disturb
    /\ result = "none" /\ result' = "ok" /\ (arrived = Shards \/ lossy)
           /\ UNCHANGED <<arrived, faults>> => Abstract!Succeed
    /\ result = "none" /\ result' = "error" /\ UNCHANGED <<arrived, faults>> => Abstract!Fail
    /\ UNCHANGED <<result, arrived, faults>> => UNCHANGED Abstract!vars
<1>1. arrived' \in SUBSET Shards
  BY DEF arrived, Shards
<1> QED
  BY <1>1 DEF arrived, lossy, Abstract!Arrive, Abstract!Disturb, Abstract!Succeed, Abstract!Fail,
              Abstract!vars

\* A step that stores more of a shard takes nothing away.
LEMMA Monotone ==
    ASSUME IInv, NEW i \in Shards, CopyToFile(i) \/ CopyFromFile(i) \/ Upload(i)
    PROVE  arrived \subseteq arrived' /\ result # "ok" /\ UNCHANGED <<result, faults>>
<1> USE StreamsAssumption DEF request, goroutines, streamer, startup, storage
<1>0. TypeOK /\ Pipe(i) /\ Stored(i)
  BY DEF IInv, ShardInv
<1>1. result # "ok" /\ UNCHANGED <<result, faults, mode, store>>
  BY <1>0, Zenon DEF IInv, Progress, Stored, CopyToFile, CopyFromFile, Upload
<1>2. SUFFICES ASSUME NEW j \in Shards, Whole(j) PROVE Whole(j)'
  BY <1>1 DEF arrived
<1>3. CASE CopyToFile(i)
  <2>1. mode = "write" /\ n[i] < Size[i]
    BY <1>0, <1>3 DEF TypeOK, Pipe, CopyToFile
  <2>2. CASE store = "local"
    <3>1. obj[i] = n[i] /\ (obj' = obj \/ obj' = [obj EXCEPT ![i] = @ + 1])
      BY <1>0, <1>3, <2>1, <2>2, Zenon DEF Stored, CopyToFile, WriteLocal, WriteS3, WriteCedana
    <3> QED
      BY <1>0, <1>1, <1>2, <2>1, <2>2, <3>1 DEF TypeOK, Whole, remote
  <2>3. CASE store # "local"
    BY <1>1, <1>2, <1>3, <2>1, <2>3, Zenon DEF Whole, remote, CopyToFile, WriteLocal, WriteS3, WriteCedana
  <2> QED
    BY <2>2, <2>3
<1>4. CASE CopyFromFile(i)
  BY <1>0, <1>1, <1>2, <1>4 DEF TypeOK, Whole, CopyFromFile
<1>5. CASE Upload(i)
  BY <1>0, <1>1, <1>2, <1>5 DEF TypeOK, Pipe, Stored, Whole, remote, Upload
<1> QED
  BY <1>3, <1>4, <1>5

\* Opening a shard may create its file, which is no file that was there.
LEMMA Opening ==
    ASSUME IInv, OpenShard, UNCHANGED result
    PROVE  arrived \subseteq arrived' /\ result # "ok" /\ UNCHANGED faults
<1> USE StreamsAssumption DEF request, goroutines, streamer, startup, storage
<1>0. TypeOK /\ result # "ok" /\ UNCHANGED <<faults, mode, store, n>>
  BY DEF IInv, Progress, OpenShard
<1>1. opened + 1 \in Shards
  BY <1>0 DEF OpenShard, TypeOK, Shards
<1>2. Pipe(opened + 1) /\ Stored(opened + 1)
  BY <1>1 DEF IInv, ShardInv
<1>3. SUFFICES ASSUME NEW j \in Shards, Whole(j) PROVE Whole(j)'
  BY <1>0 DEF arrived
<1>4. mode = "write" /\ ~remote => obj[opened + 1] = None
  BY <1>0, <1>1, <1>2 DEF Pipe, Stored, remote, TypeOK
<1> QED
  BY <1>0, <1>1, <1>3, <1>4 DEF OpenShard, Whole, remote, TypeOK

\* Every step of the streaming filesystem is a step of Transfer or none.
LEMMA Simulation == IInv /\ IInv' /\ [Next]_vars => [Abstract!Next]_(Abstract!vars)
<1> SUFFICES ASSUME IInv, IInv', [Next]_vars PROVE Abstract!Next \/ UNCHANGED Abstract!vars
  OBVIOUS
<1> USE DEF request, goroutines, streamer, startup, storage
<1>0. ASSUME UNCHANGED <<mode, store, n, obj>> PROVE UNCHANGED arrived
  BY <1>0 DEF arrived, Whole, remote
<1>1. ASSUME Fail, pc \notin {"returned", "failed"}, UNCHANGED <<mode, store, n, obj, faults>>
      PROVE  Abstract!Next
  BY <1>0, <1>1, AbstractSteps DEF Fail, IInv, Progress, Abstract!Next
<1>2. ASSUME UNCHANGED <<result, mode, store, n, obj, faults>> PROVE UNCHANGED Abstract!vars
  BY <1>0, <1>2, AbstractSteps
<1>3. CASE ListImages \/ StartStreamer \/ Select \/ Dial
  BY <1>1, <1>2, <1>3 DEF ListImages, StartStreamer, Select, Dial
<1>4. CASE OpenShard
  <2>1. CASE UNCHANGED result
    BY <1>4, <2>1, Opening, AbstractSteps DEF Abstract!Next
  <2> QED
    BY <1>1, <1>4, <2>1 DEF OpenShard
<1>5. CASE Stop \/ IOWait
  BY <1>2, <1>5 DEF Stop, IOWait
<1>6. CASE Join
  <2>1. result = "none" /\ UNCHANGED <<arrived, faults>>
    BY <1>0, <1>6 DEF Join, IInv, Progress
  <2>2. CASE result' = "ok"
    <3>1. StoredWhole'
      BY SuccessIsStored, PTL
    <3>2. arrived = Shards \/ lossy
      BY <2>1, <2>2, <3>1 DEF StoredWhole, arrived, lossy
    <3> QED
      BY <2>1, <2>2, <3>2, AbstractSteps DEF Abstract!Next
  <2>3. CASE result' = "error"
    BY <2>1, <2>3, AbstractSteps DEF Abstract!Next
  <2> QED
    BY <1>6, <2>2, <2>3 DEF Join
<1>7. CASE StreamerInit \/ StreamerFinish \/ Scan \/ MarkReady
  BY <1>2, <1>7, Zenon DEF StreamerInit, StreamerFinish, Scan, MarkReady
<1>8. CASE StreamerDies \/ Cancel
  <2>1. UNCHANGED <<result, mode, store, n, obj>> /\ faults \subseteq faults' /\ result # "ok"
    BY <1>8 DEF StreamerDies, Cancel, Alive, IInv, Progress
  <2>2. CASE faults' = faults
    BY <1>2, <2>1, <2>2
  <2>3. CASE faults' # faults
    BY <2>1, <2>3, AbstractSteps DEF Abstract!Next
  <2> QED
    BY <2>2, <2>3
<1>9. ASSUME NEW i \in Shards, StreamerMove(i) \/ EndOfFile(i) \/ SendError(i) \/ Close(i)
      PROVE  UNCHANGED Abstract!vars
  BY <1>2, <1>9, Zenon DEF StreamerMove, EndOfFile, SendError, Close
<1>10. ASSUME NEW i \in Shards, EndOfPipe(i) PROVE Abstract!Next \/ UNCHANGED Abstract!vars
  <2>1. CASE UNCHANGED <<obj, faults>>
    BY <1>2, <1>10, <2>1 DEF EndOfPipe
  <2>2. CASE faults' = faults \cup {"flush"}
    <3>1. result # "ok" /\ UNCHANGED result
      BY <1>10, Zenon DEF EndOfPipe, IInv, Progress
    <3> QED
      BY <2>2, <3>1, AbstractSteps DEF Abstract!Next
  <2> QED
    BY <1>10, <2>1, <2>2 DEF EndOfPipe
<1>11. ASSUME NEW i \in Shards, CopyToFile(i) \/ CopyFromFile(i) \/ Upload(i) PROVE Abstract!Next
  BY <1>11, Monotone, AbstractSteps DEF Abstract!Next
<1>12. CASE UNCHANGED vars
  BY <1>2, <1>12 DEF vars
<1> QED
  BY <1>3, <1>4, <1>5, <1>6, <1>7, <1>8, <1>9, <1>10, <1>11, <1>12
  DEF Next, Request, Streamer, Watchers, Goroutine, Finished

\* The streaming filesystem keeps the promise of Transfer, for every number of shards:
\* success is reported only when all have arrived or the transfer was disturbed from
\* outside, and what has arrived stays (NewStreamingFs and its wait function).
THEOREM Refinement == Spec => ImplementsTransfer
<1>1. Init => Abstract!Init
  BY DEF Init, Abstract!Init
<1>2. IInv /\ IInv' /\ [Next]_vars => [Abstract!Next]_(Abstract!vars)
  BY Simulation
<1> QED
  BY <1>1, <1>2, Invariant, PTL DEF Spec, ImplementsTransfer, Abstract!Spec
=============================================================================
