------------------------------- MODULE Stores -------------------------------
(***************************************************************************)
(* The data plane (crates/crawlrs-store): MultiStore over ParquetStore and *)
(* WarcStore, as workers of one process drive it from finalize             *)
(* (crates/crawlrs-runtime/src/worker.rs), and what the ledger says about  *)
(* the records.                                                            *)
(*                                                                         *)
(* A store buffers one file per shard in memory and uploads it when it     *)
(* rotates.  The buffer is changed under a mutex, in one step; the upload  *)
(* runs after the lock is released, so other writers go on meanwhile.      *)
(* Time is in milliseconds, the resolution of an object's name.            *)
(***************************************************************************)
EXTENDS Naturals, Sequences

CONSTANTS
  Records,       \* records to store, one per URL
  Shards,        \* shard keys
  ShardOf,       \* ShardOf[r]: the shard of the record's URL
  SizeOf,        \* SizeOf[r]: length of its body
  Workers,       \* worker tasks
  Order,         \* the stores of the MultiStore, the primary first
  WarcInfo,      \* the opening record of a WARC file
  MaxRows, MaxBytes, MaxDuration, \* RotationPolicy
  Flushing,      \* the host calls Store::flush (the binary does not)
  MaxTime,       \* bound: how far the clock runs
  MaxFaults      \* bound: failed calls, lapsed leases and crashes

ASSUME RecordAssumption ==
  /\ ShardOf \in [Records -> Shards] /\ SizeOf \in [Records -> Nat]
  /\ WarcInfo \notin Records
ASSUME OrderAssumption == Order \in Seq(STRING) /\ Order # << >>
ASSUME RotationAssumption ==
  /\ MaxRows \in Nat /\ MaxBytes \in Nat /\ MaxDuration \in Nat
  /\ Flushing \in BOOLEAN /\ MaxTime \in Nat /\ MaxFaults \in Nat

Stores == {Order[i] : i \in 1 .. Len(Order)}
Causes == {"rotation", "flush", "overwrite", "exit"}

VARIABLES
  now,           \* the clock
  active,        \* active[s][k]: the open file of shard k in store s
  objects,       \* the object store: contents by path, << >> when absent
  job,           \* what each worker is writing
  flush,         \* the flush in progress
  process,       \* "up", "stopping" or "exited"
  ledger,        \* url_metadata: the blob_path of a succeeded URL
  acked,         \* URLs acknowledged to the frontier
  faults,        \* how much of MaxFaults is used
  gone           \* observation: rows no longer in memory or in an object

memory == <<active, job, flush>>
vars == <<now, memory, objects, process, ledger, acked, faults, gone>>

\* PathBuilder::compose: run, base and worker_id are fixed for a process.
PathOf(s, k, startts) == <<s, k, startts>>
Paths == Stores \X Shards \X (0 .. MaxTime)
NoPath == << >>

Contents == Seq(Records \cup {WarcInfo})
Files == [start : 0 .. MaxTime, raw_bytes : Nat, rows : Nat, content : Contents]

\* An open file holds a row at least; no rows, no file.
NoFile == [start |-> 0, raw_bytes |-> 0, rows |-> 0, content |-> << >>]

Idle == [stage |-> "idle", rec |-> WarcInfo, k |-> 1, paths |-> << >>, file |-> NoFile]
Stages == {"idle", "write", "upload", "commit", "ack"}
Jobs == [stage : Stages, rec : Records \cup {WarcInfo}, k : 1 .. Len(Order),
         paths : Seq(Paths), file : Files]

NoFlush == [k |-> 0, files |-> {}, pre |-> {}, failed |-> {}]
Rows == Paths \X Records

TypeOK ==
  /\ now \in 0 .. MaxTime
  /\ active \in [Stores -> [Shards -> Files]]
  /\ objects \in [Paths -> Contents]
  /\ job \in [Workers -> Jobs]
  /\ flush \in [k : 0 .. Len(Order) + 1, files : SUBSET (Shards \X Files),
                pre : SUBSET Rows, failed : SUBSET Stores]
  /\ process \in {"up", "stopping", "exited"}
  /\ ledger \in [Records -> Paths \cup {NoPath}] /\ acked \subseteq Records
  /\ faults \in 0 .. MaxFaults
  /\ gone \subseteq Causes \X Rows

Init ==
  /\ now = 0
  /\ active = [s \in Stores |-> [k \in Shards |-> NoFile]]
  /\ objects = [p \in Paths |-> << >>]
  /\ job = [w \in Workers |-> Idle] /\ flush = NoFlush
  /\ process = "up" /\ ledger = [r \in Records |-> NoPath] /\ acked = {}
  /\ faults = 0 /\ gone = {}

Fault == faults < MaxFaults /\ faults' = faults + 1

In(content, r) == \E i \in DOMAIN content : content[i] = r
RowsOf(p, content) == {x \in Rows : x[1] = p /\ In(content, x[2])}
Lost(cause, rows) == {cause} \X rows

\* Rows in open files, and rows in files whose upload is under way.
Buffered ==
  UNION {RowsOf(PathOf(s, k, active[s][k].start), active[s][k].content) :
           s \in Stores, k \in Shards}
JobPath(w) == PathOf(Order[job[w].k], ShardOf[job[w].rec], job[w].file.start)
Uploading ==
  UNION {RowsOf(JobPath(w), job[w].file.content) :
           w \in {v \in Workers : job[v].stage = "upload"}}
FilesRows(i, files) ==
  UNION {RowsOf(PathOf(Order[i], x[1], x[2].start), x[2].content) : x \in files}
Flushed == IF flush.files = {} THEN {} ELSE FilesRows(flush.k, flush.files)

\* ObjectStore::put replaces the object at the path.
Put(p, content) ==
  /\ objects' = [objects EXCEPT ![p] = content]
  /\ gone' = gone \cup Lost("overwrite", RowsOf(p, objects[p]) \ RowsOf(p, content))

-----------------------------------------------------------------------------
(* ParquetStore::write and WarcStore::write                                *)

\* ActiveFile of ParquetStore; WarcStore::open_file starts with a warcinfo.
OpenFile(s) ==
  [start |-> now, raw_bytes |-> 0, rows |-> 0,
   content |-> IF s = "warc" THEN <<WarcInfo>> ELSE << >>]

\* OwnedRow::from_record and encode_response: one row or record per write.
Push(f, r) ==
  [start |-> f.start, raw_bytes |-> f.raw_bytes + SizeOf[r], rows |-> f.rows + 1,
   content |-> Append(f.content, r)]

RotateLate(f) == f.rows > MaxRows \/ f.raw_bytes > MaxBytes \/ now - f.start > MaxDuration
ShouldRotate(f) ==
  f.rows >= MaxRows \/ f.raw_bytes >= MaxBytes \/ now - f.start >= MaxDuration

\* A worker has fetched and parsed a URL the frontier delivered to it: one
\* that is not acknowledged, and that no other worker holds unless its lease
\* has lapsed.
Begin(w, r) ==
  /\ process = "up" /\ job[w] = Idle /\ r \notin acked
  /\ \/ (\A v \in Workers : job[v].rec # r) /\ UNCHANGED faults
     \/ (\E v \in Workers : job[v].rec = r) /\ Fault
  /\ job' = [job EXCEPT ![w] = [Idle EXCEPT !.stage = "write", !.rec = r]]
  /\ UNCHANGED <<now, active, objects, flush, process, ledger, acked, gone>>

\* MultiStore::write goes on to the next store, or returns all the paths.
Wrote(j, p) ==
  IF j.k < Len(Order)
    THEN [Idle EXCEPT !.stage = "write", !.rec = j.rec, !.k = j.k + 1,
                      !.paths = Append(j.paths, p)]
    ELSE [Idle EXCEPT !.stage = "commit", !.rec = j.rec, !.paths = Append(j.paths, p)]

\* Under the lock: the row goes into the shard's file, which is taken out of
\* the map when it has to rotate.
Write(w) ==
  /\ job[w].stage = "write"
  /\ LET s == Order[job[w].k]
         k == ShardOf[job[w].rec]
         f == Push(IF active[s][k] = NoFile THEN OpenFile(s) ELSE active[s][k], job[w].rec)
     IN  \/ /\ ShouldRotate(f)
            /\ active' = [active EXCEPT ![s][k] = NoFile]
            /\ job' = [job EXCEPT ![w] = [@ EXCEPT !.stage = "upload", !.file = f]]
         \/ /\ ~ShouldRotate(f)
            /\ active' = [active EXCEPT ![s][k] = f]
            /\ job' = [job EXCEPT ![w] = Wrote(job[w], PathOf(s, k, f.start))]
  /\ UNCHANGED <<now, objects, flush, process, ledger, acked, faults, gone>>

\* flush_one, after the lock is released.
UploadRenamed(w) ==
  /\ job[w].stage = "upload"
  /\ Put(PathOf(Order[job[w].k], ShardOf[job[w].rec], now), job[w].file.content)
  /\ job' = [job EXCEPT ![w] = Wrote(job[w], JobPath(w))]
  /\ UNCHANGED <<now, active, flush, process, ledger, acked, faults>>
Upload(w) ==
  /\ job[w].stage = "upload"
  /\ Put(JobPath(w), job[w].file.content)
  /\ job' = [job EXCEPT ![w] = Wrote(job[w], JobPath(w))]
  /\ UNCHANGED <<now, active, flush, process, ledger, acked, faults>>

\* The file is dropped with every row in it; MultiStore::write stops at the
\* first error and finalize acknowledges the URL all the same.
UploadFails(w) ==
  /\ job[w].stage = "upload" /\ Fault
  /\ gone' = gone \cup Lost("rotation", RowsOf(JobPath(w), job[w].file.content))
  /\ job' = [job EXCEPT ![w] = [Idle EXCEPT !.stage = "ack", !.rec = job[w].rec]]
  /\ UNCHANGED <<now, active, objects, flush, process, ledger, acked>>

-----------------------------------------------------------------------------
(* The rest of finalize                                                    *)

\* mark_succeeded with the primary's path; a failed call is only logged.
Commit(w) ==
  /\ job[w].stage = "commit"
  /\ \/ /\ ledger' = [ledger EXCEPT ![job[w].rec] = job[w].paths[1]]
        /\ UNCHANGED faults
     \/ Fault /\ UNCHANGED ledger
  /\ job' = [job EXCEPT ![w] = [Idle EXCEPT !.stage = "ack", !.rec = job[w].rec]]
  /\ UNCHANGED <<now, active, objects, flush, process, acked, gone>>

\* A failed ack leaves the URL to the lease, which delivers it again.
Acknowledge(w) ==
  /\ job[w].stage = "ack"
  /\ \/ acked' = acked \cup {job[w].rec} /\ UNCHANGED faults
     \/ Fault /\ UNCHANGED acked
  /\ job' = [job EXCEPT ![w] = Idle]
  /\ UNCHANGED <<now, active, objects, flush, process, ledger, gone>>

-----------------------------------------------------------------------------
(* Store::flush                                                            *)

\* A store's files leave the map together, then they are uploaded in turn.
Drain(i, pre, failed) ==
  LET s == Order[i] IN
  /\ flush' = [k |-> i, pre |-> pre, failed |-> failed,
               files |-> {<<k, active[s][k]>> : k \in {j \in Shards : active[s][j] # NoFile}}]
  /\ active' = [active EXCEPT ![s] = [k \in Shards |-> NoFile]]

FlushBegin ==
  /\ Flushing /\ process = "stopping" /\ flush.k = 0
  /\ Drain(1, Buffered, {})
  /\ UNCHANGED <<now, objects, job, process, ledger, acked, faults, gone>>

FlushUpload ==
  /\ \E x \in flush.files :
       /\ Put(PathOf(Order[flush.k], x[1], x[2].start), x[2].content)
       /\ flush' = [flush EXCEPT !.files = @ \ {x}]
  /\ UNCHANGED <<now, active, job, process, ledger, acked, faults>>

\* `?' gives up on the store's other files.
FlushUploadFails ==
  /\ flush.files # {} /\ Fault
  /\ gone' = gone \cup Lost("flush", Flushed)
  /\ flush' = [flush EXCEPT !.files = {}, !.failed = @ \cup {Order[flush.k]}]
  /\ UNCHANGED <<now, active, objects, job, process, ledger, acked>>

\* MultiStore::flush tries every store, whatever the ones before returned.
FlushFailFast ==
  /\ flush.k \in 1 .. Len(Order) /\ flush.files = {}
  /\ \/ /\ flush.k < Len(Order) /\ flush.failed = {}
        /\ Drain(flush.k + 1, flush.pre, flush.failed)
     \/ /\ flush.k = Len(Order) \/ flush.failed # {}
        /\ flush' = [NoFlush EXCEPT !.k = Len(Order) + 1] /\ UNCHANGED active
  /\ UNCHANGED <<now, objects, job, process, ledger, acked, faults, gone>>
FlushNext ==
  /\ flush.k \in 1 .. Len(Order) /\ flush.files = {}
  /\ \/ /\ flush.k < Len(Order)
        /\ Drain(flush.k + 1, flush.pre, flush.failed)
     \/ /\ flush.k = Len(Order)
        /\ flush' = [NoFlush EXCEPT !.k = Len(Order) + 1] /\ UNCHANGED active
  /\ UNCHANGED <<now, objects, job, process, ledger, acked, faults, gone>>

-----------------------------------------------------------------------------
(* The process                                                             *)

\* A process that ends takes its memory with it.
Ends(how) ==
  /\ process' = how
  /\ gone' = gone \cup Lost("exit", Buffered \cup Uploading \cup Flushed)
  /\ active' = [s \in Stores |-> [k \in Shards |-> NoFile]]
  /\ job' = [w \in Workers |-> Idle] /\ flush' = NoFlush

Stop ==
  /\ process = "up" /\ process' = "stopping"
  /\ UNCHANGED <<now, memory, objects, ledger, acked, faults, gone>>

\* The crawler has waited for its workers; run() returns without a flush.
Exit ==
  /\ process = "stopping" /\ flush.k \notin 1 .. Len(Order)
  /\ \A w \in Workers : job[w] = Idle
  /\ Ends("exited")
  /\ UNCHANGED <<now, objects, ledger, acked, faults>>

\* The pod is started again: same run, same worker_id, empty memory.
Crash ==
  /\ process # "exited" /\ Fault /\ Ends("up")
  /\ UNCHANGED <<now, objects, ledger, acked>>

Elapse ==
  /\ process # "exited" /\ now < MaxTime /\ now' = now + 1
  /\ UNCHANGED <<memory, objects, process, ledger, acked, faults, gone>>

Next ==
  \/ \E w \in Workers :
       \/ \E r \in Records : Begin(w, r)
       \/ Write(w) \/ Upload(w) \/ UploadFails(w) \/ Commit(w) \/ Acknowledge(w)
  \/ FlushBegin \/ FlushUpload \/ FlushUploadFails \/ FlushNext
  \/ Stop \/ Exit \/ Crash \/ Elapse

Spec == Init /\ [][Next]_vars

-----------------------------------------------------------------------------
(* Properties                                                              *)

\* A row is where a reader of the object store will find it, or will as soon
\* as the upload that is due succeeds.
Kept(p, r) ==
  \/ In(objects[p], r)
  \/ <<p, r>> \in Buffered \cup Uploading \cup Flushed

WrittenOff(p, r) == \E c \in Causes : <<c, <<p, r>>>> \in gone

\* The path the ledger has for a succeeded URL is the path of the file its
\* row went into, and every other store took the record too: the row is in
\* the object of that name or in memory on its way there, unless a failed
\* upload, the end of the process or an object of the same name took it.
LedgerPathHeld ==
  \A r \in Records : ledger[r] # NoPath =>
    /\ ledger[r][1] = Order[1]
    /\ Kept(ledger[r], r) \/ WrittenOff(ledger[r], r)
    /\ \A s \in Stores : \E t \in 0 .. now :
         Kept(PathOf(s, ShardOf[r], t), r) \/ WrittenOff(PathOf(s, ShardOf[r], t), r)

\* What a crash can take is bounded: an open file is below the row and byte
\* limits, and a file that is being uploaded has one row more at most.
BuffersBounded ==
  /\ \A s \in Stores, k \in Shards :
       active[s][k] # NoFile =>
         active[s][k].rows < MaxRows /\ active[s][k].raw_bytes < MaxBytes
  /\ \A w \in Workers :
       job[w].stage = "upload" => job[w].file.rows <= (IF MaxRows = 0 THEN 1 ELSE MaxRows)

\* Once MultiStore::flush has returned, the rows that were buffered when it was
\* called have left the buffers, also those of the stores after one that
\* failed: they are in objects, or a writer that rotated their file meanwhile
\* is uploading it (flush does not wait for it, and that upload may yet fail).
FlushReachesEveryStore ==
  [][flush.k <= Len(Order) /\ flush'.k = Len(Order) + 1 =>
       \A x \in {y \in flush.pre : y[1][1] \notin flush.failed} :
         \/ In(objects[x[1]], x[2]) \/ x \in Uploading
         \/ <<"rotation", x>> \in gone \/ <<"overwrite", x>> \in gone]_vars

(* What ARCHITECTURE.md says of the shutdown and the binary does not do.   *)

\* ARCHITECTURE.md, line 81: a graceful shutdown ends with "worker drain,
\* store flush, exit": after it, every record the ledger counts as succeeded
\* can be read at its path.
DrainedAtExit ==
  process = "exited" =>
    \A r \in Records : ledger[r] # NoPath => In(objects[ledger[r]], r)
=============================================================================
