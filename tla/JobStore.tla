------------------------------ MODULE JobStore ------------------------------
(***************************************************************************)
(* The databases behind the job manager (internal/db): the tables hosts,  *)
(* jobs and checkpoints, kept in a local SQLite file (SqliteDB) or by the   *)
(* propagator service (PropagatorDB).  A Put of the SQLite store is two     *)
(* statements, a SELECT of the row and then an UPDATE or an INSERT, outside *)
(* any transaction, and a lookup of a job joins it with the row of its      *)
(* host.  Clients are the daemons that share the database: one that is      *)
(* shutting down and the one started after it, or the daemons of a cluster. *)
(***************************************************************************)
EXTENDS Integers, Sequences, TLC

CONSTANTS
  Clients,      \* the daemons that use the database
  Hosts, Jobs,  \* ids of hosts and of jobs
  Checkpoints,  \* ids of checkpoints
  Nil,          \* no row
  MaxCalls      \* bound on the calls a client makes

VARIABLES
  store,   \* "sqlite" or "propagator": which of the two the daemons use
  hosts,   \* the ids that have a row in hosts
  jobs,    \* jobs[j]: the row of job j, or Nil
  cps,     \* cps[k]: the job that the row of checkpoint k names, or Nil
  call,    \* call[c]: the call that client c has under way
  result,  \* result[c]: what its last call returned
  calls,   \* calls made so far
  gone,    \* gone[c]: the row that c's call looked up was deleted since
  asked    \* asked[j]: the groups with which a Put of job j was ever called

vars == <<store, hosts, jobs, cps, call, result, calls, gone, asked>>
tables == <<hosts, jobs, cps>>

\* The supplementary groups of a job's process, as the daemon holds them.
Groups == {<<>>, <<7, 0>>}

\* strings.Join, and strings.Split of its result: the text of an empty list is
\* "", and splitting "" gives one empty string, not none.
Column(list) == [i \in 1..Len(list) |-> <<list[i]>>]
Fields(text) == IF text = <<>> THEN <<(<<>>)>> ELSE text

\* StringToUint32Slice: Sscanf leaves the variable 0 when it finds no number.
StringToUint32Slice(fields) ==
  [i \in 1..Len(fields) |-> IF fields[i] = <<>> THEN 0 ELSE fields[i][1]]

\* What a job's groups are after a round trip through a row.
FromDBJobRow(row) ==
  IF store = "sqlite" THEN StringToUint32Slice(Fields(row.groups)) ELSE row.groups

\* A row that PutJob writes: columns of text, or the job as JSON.
ToDBJobRow(value) ==
  [host |-> value.host,
   groups |-> IF store = "sqlite" THEN Column(value.groups) ELSE value.groups]

Values == [host : Hosts, groups : Groups]
Idle == [op |-> "idle"]
Done == [err |-> FALSE, list |-> "none", found |-> {}]
Failed == [Done EXCEPT !.err = TRUE]
Listed(what, found) == [Done EXCEPT !.list = what, !.found = found]

-----------------------------------------------------------------------------
(* The statements.                                                          *)

\* SELECT ... FROM jobs JOIN hosts: only jobs whose host has a row are found.
SelectJobsByIDs(ids) == {j \in ids : jobs[j] # Nil /\ jobs[j].host \in hosts}
SelectJobs == SelectJobsByIDs(Jobs)
SelectJobsByHostIDs(ids) == {j \in SelectJobs : jobs[j].host \in ids}
SelectHostsByIDs(ids) == ids \cap hosts
SelectHosts == hosts
SelectCheckpointsByIDs(ids) == {k \in ids : cps[k] # Nil}
SelectCheckpoints == SelectCheckpointsByIDs(Checkpoints)
SelectCheckpointsByJIDs(ids) == {k \in Checkpoints : cps[k] \in ids}

\* A call's answer; the call is over.
Return(c, r) ==
  /\ call' = [call EXCEPT ![c] = Idle]
  /\ result' = [result EXCEPT ![c] = r]
  /\ gone' = [gone EXCEPT ![c] = FALSE]

\* INSERT INTO jobs: the primary key refuses a second row.
CreateJob_Ignores(c, j, v) ==
  /\ IF jobs[j] = Nil THEN jobs' = [jobs EXCEPT ![j] = ToDBJobRow(v)]
                      ELSE UNCHANGED jobs
  /\ Return(c, Done)
  /\ UNCHANGED <<hosts, cps>>

CreateJob(c, j, v) ==
  /\ IF jobs[j] = Nil
       THEN jobs' = [jobs EXCEPT ![j] = ToDBJobRow(v)] /\ Return(c, Done)
       ELSE UNCHANGED jobs /\ Return(c, Failed)
  /\ UNCHANGED <<hosts, cps>>

\* UPDATE jobs WHERE JID = ?: no row is no error.
UpdateJob(c, j, v) ==
  /\ IF jobs[j] = Nil THEN UNCHANGED jobs
                      ELSE jobs' = [jobs EXCEPT ![j] = ToDBJobRow(v)]
  /\ Return(c, Done)
  /\ UNCHANGED <<hosts, cps>>

CreateHost(c, h) ==
  /\ hosts' = hosts \cup {h}
  /\ Return(c, IF h \in hosts THEN Failed ELSE Done)
  /\ UNCHANGED <<jobs, cps>>

\* An UPDATE of a host that has been deleted changes nothing.
UpdateHost(c) == Return(c, Done) /\ UNCHANGED <<hosts, jobs, cps>>

\* Neither the tables' REFERENCES clauses nor ON DELETE CASCADE are in force:
\* SQLite ignores them on a connection that does not turn them on.
CreateCheckpoint(c, k, j) ==
  /\ IF cps[k] = Nil
       THEN cps' = [cps EXCEPT ![k] = j] /\ Return(c, Done)
       ELSE UNCHANGED cps /\ Return(c, Failed)
  /\ UNCHANGED <<hosts, jobs>>

UpdateCheckpoint(c, k, j) ==
  /\ IF cps[k] = Nil THEN UNCHANGED cps ELSE cps' = [cps EXCEPT ![k] = j]
  /\ Return(c, Done)
  /\ UNCHANGED <<hosts, jobs>>

-----------------------------------------------------------------------------
(* The calls.                                                               *)

\* A client makes one call at a time, and MaxCalls in all.
Calling(c) == call[c] = Idle /\ calls[c] < MaxCalls /\ calls' = [calls EXCEPT ![c] = @ + 1]

\* The first statement of a Put: whether the row is there.  Its error is
\* dropped, and then the row counts as absent.
LookUp(c, put, there) ==
  /\ store = "sqlite" /\ Calling(c)
  /\ \E found \in {there, FALSE} : call' = [call EXCEPT ![c] = put @@ [there |-> found]]
  /\ UNCHANGED <<store, tables, result, gone>>

LookUpJob(c, j, v) ==
  /\ LookUp(c, [op |-> "job", id |-> j, value |-> v], SelectJobsByIDs({j}) # {})
  /\ asked' = [asked EXCEPT ![j] = @ \cup {v.groups}]

LookUpHost(c, h) == LookUp(c, [op |-> "host", id |-> h], SelectHostsByIDs({h}) # {}) /\ UNCHANGED asked

LookUpCheckpoint(c, k, j) ==
  LookUp(c, [op |-> "checkpoint", id |-> k, job |-> j], SelectCheckpointsByIDs({k}) # {}) /\ UNCHANGED asked

\* The second statement of a Put, which may fail (a locked file, a cancelled
\* context).
Write(c) ==
  /\ call[c] # Idle
  /\ LET p == call[c] IN
     \/ p.op = "job" /\ p.there /\ UpdateJob(c, p.id, p.value)
     \/ p.op = "job" /\ ~p.there /\ CreateJob(c, p.id, p.value)
     \/ p.op = "host" /\ p.there /\ UpdateHost(c)
     \/ p.op = "host" /\ ~p.there /\ CreateHost(c, p.id)
     \/ p.op = "checkpoint" /\ p.there /\ UpdateCheckpoint(c, p.id, p.job)
     \/ p.op = "checkpoint" /\ ~p.there /\ CreateCheckpoint(c, p.id, p.job)
     \/ Return(c, Failed) /\ UNCHANGED tables
  /\ UNCHANGED <<store, calls, asked>>

\* DELETE of a row: alone, whatever refers to it.
DeleteJob(c, j) == jobs' = [jobs EXCEPT ![j] = Nil] /\ UNCHANGED <<hosts, cps>>
DeleteHost(c, h) == hosts' = hosts \ {h} /\ UNCHANGED <<jobs, cps>>
DeleteCheckpoint(c, k) == cps' = [cps EXCEPT ![k] = Nil] /\ UNCHANGED <<hosts, jobs>>

\* Every Put under way that looked the row up now acts on what is no longer so.
Overtaken(id) == gone' = [d \in Clients |-> gone[d] \/ (call[d] # Idle /\ call[d].id = id)]

\* A Delete takes effect in one statement, or fails.
Delete(c, id) ==
  /\ store = "sqlite" /\ Calling(c)
  /\ \/ /\ \/ id \in Jobs /\ DeleteJob(c, id)
           \/ id \in Hosts /\ DeleteHost(c, id)
           \/ id \in Checkpoints /\ DeleteCheckpoint(c, id)
        /\ result' = [result EXCEPT ![c] = Done]
        /\ Overtaken(id)
     \/ result' = [result EXCEPT ![c] = Failed] /\ UNCHANGED <<tables, gone>>
  /\ UNCHANGED <<store, call, asked>>

\* The lists are one statement each.
ListJobs == Listed("jobs", [j \in SelectJobs |-> FromDBJobRow(jobs[j])])
ListHosts == Listed("hosts", SelectHosts)
ListCheckpoints == Listed("checkpoints", SelectCheckpoints)
ListCheckpointsByJIDs(ids) == Listed("job's checkpoints", SelectCheckpointsByJIDs(ids))

\* fromDBJobRow does not know the type of these rows, and fails on the first.
ListJobsByHostIDs(ids) ==
  IF SelectJobsByHostIDs(ids) = {} THEN Listed("host's jobs", {}) ELSE Failed

List(c) ==
  /\ store = "sqlite" /\ Calling(c)
  /\ \E r \in {Failed, ListJobs, ListHosts, ListCheckpoints}
              \cup {ListJobsByHostIDs({h}) : h \in Hosts}
              \cup {ListCheckpointsByJIDs({j}) : j \in Jobs} :
       result' = [result EXCEPT ![c] = r]
  /\ UNCHANGED <<store, tables, call, gone, asked>>

-----------------------------------------------------------------------------
(* The propagator: a Put is one request, carried out whole by the service,  *)
(* whose answer, good or bad, may be lost.                                  *)

RemotePutJob(j, v) == jobs' = [jobs EXCEPT ![j] = ToDBJobRow(v)] /\ UNCHANGED <<hosts, cps>>
RemotePutHost(h) == hosts' = hosts \cup {h} /\ UNCHANGED <<jobs, cps>>
RemotePutCheckpoint(k, j) == cps' = [cps EXCEPT ![k] = j] /\ UNCHANGED <<hosts, jobs>>

RemoteDeleteJob(j) == jobs' = [jobs EXCEPT ![j] = Nil] /\ UNCHANGED <<hosts, cps>>
RemoteDeleteHost(h) == hosts' = hosts \ {h} /\ UNCHANGED <<jobs, cps>>
RemoteDeleteCheckpoint(k) == cps' = [cps EXCEPT ![k] = Nil] /\ UNCHANGED <<hosts, jobs>>

RemoteJobs == {j \in Jobs : jobs[j] # Nil}
RemoteListJobs == Listed("jobs", [j \in RemoteJobs |-> FromDBJobRow(jobs[j])])
RemoteListJobsByHostIDs(ids) == Listed("host's jobs", {j \in RemoteJobs : jobs[j].host \in ids})
RemoteListHosts == Listed("hosts", hosts)
RemoteListCheckpoints == Listed("checkpoints", {k \in Checkpoints : cps[k] # Nil})
RemoteListCheckpointsByJIDs(ids) == Listed("job's checkpoints", {k \in Checkpoints : cps[k] \in ids})

\* What the client learns of a request that the service has, or has not, carried out.
Answer(c, r) == result' = [result EXCEPT ![c] = r]

RemotePut(c) ==
  /\ store = "propagator" /\ Calling(c)
  /\ \/ \E j \in Jobs, v \in Values :
          RemotePutJob(j, v) /\ asked' = [asked EXCEPT ![j] = @ \cup {v.groups}]
     \/ \E h \in Hosts : RemotePutHost(h) /\ UNCHANGED asked
     \/ \E k \in Checkpoints, j \in Jobs : RemotePutCheckpoint(k, j) /\ UNCHANGED asked
  /\ \E r \in {Done, Failed} : Answer(c, r)
  /\ UNCHANGED <<store, call, gone>>

RemoteDelete(c) ==
  /\ store = "propagator" /\ Calling(c)
  /\ \/ \E j \in Jobs : RemoteDeleteJob(j)
     \/ \E h \in Hosts : RemoteDeleteHost(h)
     \/ \E k \in Checkpoints : RemoteDeleteCheckpoint(k)
  /\ \E r \in {Done, Failed} : Answer(c, r)
  /\ UNCHANGED <<store, call, gone, asked>>

RemoteList(c) ==
  /\ store = "propagator" /\ Calling(c)
  /\ \E r \in {RemoteListJobs, RemoteListHosts, RemoteListCheckpoints}
              \cup {RemoteListJobsByHostIDs({h}) : h \in Hosts}
              \cup {RemoteListCheckpointsByJIDs({j}) : j \in Jobs} : Answer(c, r)
  /\ UNCHANGED <<store, tables, call, gone, asked>>

\* A request the service has not carried out, or an answer that cannot be read.
Unreachable(c) ==
  /\ store = "propagator" /\ Calling(c)
  /\ Answer(c, Failed)
  /\ UNCHANGED <<store, tables, call, gone, asked>>

Init ==
  /\ store \in {"sqlite", "propagator"}
  /\ hosts \in SUBSET Hosts
  /\ jobs = [j \in Jobs |-> Nil] /\ cps = [k \in Checkpoints |-> Nil]
  /\ call = [c \in Clients |-> Idle]
  /\ result = [c \in Clients |-> Done]
  /\ calls = [c \in Clients |-> 0]
  /\ gone = [c \in Clients |-> FALSE]
  /\ asked = [j \in Jobs |-> {}]

Next ==
  \E c \in Clients :
    \/ \E j \in Jobs, v \in Values : LookUpJob(c, j, v)
    \/ \E h \in Hosts : LookUpHost(c, h)
    \/ \E k \in Checkpoints, j \in Jobs : LookUpCheckpoint(c, k, j)
    \/ Write(c)
    \/ \E id \in Jobs \cup Hosts \cup Checkpoints : Delete(c, id)
    \/ List(c)
    \/ RemotePut(c) \/ RemoteDelete(c) \/ RemoteList(c)
    \/ Unreachable(c)

Spec == Init /\ [][Next]_vars

-----------------------------------------------------------------------------
(* Properties.                                                              *)

\* The step leaves the row that a Put was to leave.
Stored(put) ==
  CASE put.op = "job" -> jobs'[put.id] = ToDBJobRow(put.value)
    [] put.op = "host" -> put.id \in hosts'
    [] put.op = "checkpoint" -> cps'[put.id] = put.job

\* A Put of the SQLite store that reports success has left its row, whatever
\* other clients did between its two statements: the only exception is a row
\* that was there when it looked and was deleted before its UPDATE.  So of two
\* daemons that both found no row, the slower one learns that its INSERT was
\* refused (PutJob, PutHost and PutCheckpoint, db_sqlite.go).
SuccessIsStored ==
  [][\A c \in Clients :
       call[c] # Idle /\ call'[c] = Idle /\ ~result'[c].err /\ ~(gone[c] /\ call[c].there)
         => Stored(call[c])]_vars

\* What ListJobs returns for a job is what some Put of that job was called with,
\* with the one loss that the text columns bring: a list with no element is
\* read back as the list of the number 0 (Uint32ToStringSlice, strings.Join and
\* back, fromDBJobRow).
ListedWasPut ==
  \A c \in Clients : result[c].list = "jobs" =>
    \A j \in DOMAIN result[c].found :
      result[c].found[j] \in {IF store = "sqlite" /\ g = <<>> THEN <<0>> ELSE g : g \in asked[j]}

\* What the store promises its callers: a Put that reports success is there, and
\* what is listed was put (the Put, Create, Update and List functions).
StoreKept == SuccessIsStored /\ []ListedWasPut
=============================================================================
