---------------------------- MODULE StoresProofs ----------------------------
(***************************************************************************)
(* Safety of the data plane, for any records, shards, stores and workers,  *)
(* any rotation policy and any number of faults.                           *)
(***************************************************************************)
EXTENDS Stores, SequenceTheorems, TLAPS

\* Where a row is, one place at a time.
BufferedAt(p, r) ==
  \E s \in Stores, k \in Shards :
    p = PathOf(s, k, active[s][k].start) /\ In(active[s][k].content, r)
UploadingAt(p, r) ==
  \E w \in Workers : job[w].stage = "upload" /\ p = JobPath(w) /\ In(job[w].file.content, r)
FlushedAt(p, r) ==
  \E x \in flush.files : p = PathOf(Order[flush.k], x[1], x[2].start) /\ In(x[2].content, r)

\* A worker past its claim has a record and has one path per store it is
\* through with, a file being uploaded holds its record, no file is from the
\* future, and a flush that has files is at a store.
Shaped(j, t) ==
  /\ j.stage # "idle" => j.rec \in Records
  /\ j.stage = "upload" => In(j.file.content, j.rec)
  /\ j.stage \in {"write", "upload"} => Len(j.paths) = j.k - 1
  /\ j.stage = "commit" => Len(j.paths) = Len(Order)
  /\ j.file.start <= t
ShapeInv ==
  /\ \A w \in Workers : Shaped(job[w], now)
  /\ \A s \in Stores, k \in Shards : active[s][k].start <= now
  /\ flush.files # {} => flush.k \in 1 .. Len(Order)

-----------------------------------------------------------------------------
(* Files, jobs and places                                                  *)

LEMMA StoreAt ==
  ASSUME NEW i \in 1 .. Len(Order)
  PROVE  Order[i] \in Stores
  BY Zenon DEF Stores

LEMMA OrderLen == Len(Order) \in Nat \ {0} /\ 1 \in 1 .. Len(Order)
<1>1. Len(Order) \in Nat \ {0}
  BY OrderAssumption, EmptySeq, Zenon
<1> QED
  BY <1>1

\* Append adds one element at the end.
LEMMA AppendFacts ==
  ASSUME NEW S, NEW c \in Seq(S), NEW q \in S
  PROVE  /\ Append(c, q) \in Seq(S) /\ Len(c) \in Nat /\ Len(Append(c, q)) = Len(c) + 1
         /\ DOMAIN c = 1 .. Len(c) /\ DOMAIN Append(c, q) = 1 .. Len(c) + 1
         /\ \A m \in 1 .. Len(c) : Append(c, q)[m] = c[m]
         /\ Append(c, q)[Len(c) + 1] = q
<1>1. /\ Append(c, q) \in Seq(S) /\ Len(Append(c, q)) = Len(c) + 1
      /\ \A m \in 1 .. Len(c) : Append(c, q)[m] = c[m]
      /\ Append(c, q)[Len(c) + 1] = q
  BY AppendProperties
<1>2. Len(c) \in Nat /\ DOMAIN c = 1 .. Len(c) /\ DOMAIN Append(c, q) = 1 .. Len(c) + 1
  BY <1>1, LenProperties, Zenon
<1> QED
  BY <1>1, <1>2, Zenon

LEMMA PathType ==
  ASSUME NEW s \in Stores, NEW k \in Shards, NEW t \in 0 .. MaxTime
  PROVE  PathOf(s, k, t) \in Paths
  BY Zenon DEF PathOf, Paths

\* The empty file and the idle job are of their types.
LEMMA NoFileType ==
  /\ NoFile \in Files /\ NoFile.start = 0 /\ NoFile.rows = 0
  /\ \A r : ~In(NoFile.content, r)
<1>1. NoFile \in Files
  BY RotationAssumption DEF NoFile, Files, Contents
<1>2. NoFile.start = 0 /\ NoFile.rows = 0 /\ NoFile.content = << >>
  BY Zenon DEF NoFile
<1> QED
  BY <1>1, <1>2 DEF In

LEMMA IdleType ==
  /\ Idle \in Jobs /\ Idle.stage = "idle" /\ Idle.paths = << >> /\ Idle.file = NoFile
  /\ Idle.k = 1 /\ Idle.rec = WarcInfo
<1>1. << >> \in Seq(Paths)
  BY EmptySeq, Zenon
<1> QED
  BY <1>1, NoFileType, OrderLen, Zenon DEF Idle, Jobs, Stages

\* A row is in a file's rows when it is at the file's path and in the file.
LEMMA RowIn ==
  ASSUME NEW p \in Paths, NEW r \in Records, NEW q, NEW c
  PROVE  <<p, r>> \in RowsOf(q, c) <=> p = q /\ In(c, r)
  BY Zenon DEF RowsOf, Rows

LEMMA Places ==
  ASSUME NEW p \in Paths, NEW r \in Records
  PROVE  /\ <<p, r>> \in Buffered <=> BufferedAt(p, r)
         /\ <<p, r>> \in Uploading <=> UploadingAt(p, r)
         /\ <<p, r>> \in Flushed <=> FlushedAt(p, r)
<1>1. <<p, r>> \in Buffered <=> BufferedAt(p, r)
  <2>1. <<p, r>> \in Buffered <=>
          \E s \in Stores, k \in Shards :
            <<p, r>> \in RowsOf(PathOf(s, k, active[s][k].start), active[s][k].content)
    BY DEF Buffered
  <2> QED
    BY <2>1, RowIn DEF BufferedAt
<1>2. <<p, r>> \in Uploading <=> UploadingAt(p, r)
  <2>1. <<p, r>> \in Uploading <=>
          \E w \in Workers :
            job[w].stage = "upload" /\ <<p, r>> \in RowsOf(JobPath(w), job[w].file.content)
    BY Zenon DEF Uploading
  <2> QED
    BY <2>1, RowIn DEF UploadingAt
<1>3. <<p, r>> \in FilesRows(flush.k, flush.files) <=> FlushedAt(p, r)
  <2>1. <<p, r>> \in FilesRows(flush.k, flush.files) <=>
          \E x \in flush.files :
            <<p, r>> \in RowsOf(PathOf(Order[flush.k], x[1], x[2].start), x[2].content)
    BY Zenon DEF FilesRows
  <2> QED
    BY <2>1, RowIn DEF FlushedAt
<1>4. flush.files = {} => ~FlushedAt(p, r)
  BY Zenon DEF FlushedAt
<1> QED
  BY <1>1, <1>2, <1>3, <1>4, Zenon DEF Flushed

\* What a row is added to.
LEMMA PushFile ==
  ASSUME NEW f \in Files, NEW r \in Records
  PROVE  /\ Push(f, r) \in Files
         /\ Push(f, r).start = f.start /\ Push(f, r).rows = f.rows + 1
         /\ In(Push(f, r).content, r)
         /\ \A q : In(f.content, q) => In(Push(f, r).content, q)
<1>1. /\ f.content \in Seq(Records \cup {WarcInfo}) /\ f.raw_bytes \in Nat /\ f.rows \in Nat
      /\ f.start \in 0 .. MaxTime /\ SizeOf[r] \in Nat
  BY RecordAssumption, Zenon DEF Files, Contents
<1>2. /\ Push(f, r) = [start |-> f.start, raw_bytes |-> f.raw_bytes + SizeOf[r],
                       rows |-> f.rows + 1, content |-> Append(f.content, r)]
  BY Zenon DEF Push
<1>3. LET c == Append(f.content, r) IN
        /\ c \in Seq(Records \cup {WarcInfo})
        /\ \A i \in 1 .. Len(f.content) : c[i] = f.content[i]
        /\ c[Len(f.content) + 1] = r
  BY <1>1, AppendFacts
<1>4. /\ Len(f.content) \in Nat /\ DOMAIN f.content = 1 .. Len(f.content)
      /\ DOMAIN Append(f.content, r) = 1 .. Len(f.content) + 1
  BY <1>1, AppendFacts
<1>5. Push(f, r) \in Files
  BY <1>1, <1>2, <1>3, SMTT(60) DEF Files, Contents
<1>6. In(Append(f.content, r), r)
  <2>1. Len(f.content) + 1 \in 1 .. Len(f.content) + 1
    BY <1>4
  <2> QED
    BY <1>3, <1>4, <2>1, Zenon DEF In
<1>7. ASSUME NEW q, In(f.content, q)
      PROVE  In(Append(f.content, r), q)
  <2>1. PICK i \in 1 .. Len(f.content) : f.content[i] = q
    BY <1>4, <1>7, Zenon DEF In
  <2>2. i \in 1 .. Len(f.content) + 1
    BY <1>4
  <2> QED
    BY <1>3, <1>4, <2>1, <2>2, Zenon DEF In
<1>8. /\ Push(f, r).start = f.start /\ Push(f, r).rows = f.rows + 1
      /\ Push(f, r).content = Append(f.content, r)
  BY <1>2
<1> QED
  BY <1>5, <1>6, <1>7, <1>8, Zenon

LEMMA OpenFileType ==
  ASSUME now \in 0 .. MaxTime, NEW s
  PROVE  OpenFile(s) \in Files /\ OpenFile(s).start = now /\ OpenFile(s).rows = 0
<1>1. (IF s = "warc" THEN <<WarcInfo>> ELSE << >>) \in Seq(Records \cup {WarcInfo})
  <2>1. <<WarcInfo>> \in Seq(Records \cup {WarcInfo})
    OBVIOUS
  <2>2. << >> \in Seq(Records \cup {WarcInfo})
    OBVIOUS
  <2> QED
    BY <2>1, <2>2, Zenon
<1> QED
  BY <1>1, Zenon DEF OpenFile, Files, Contents

\* The file of a write, with its row.
StoreOf(w) == Order[job[w].k]
Grown(w) ==
  Push(IF active[StoreOf(w)][ShardOf[job[w].rec]] = NoFile THEN OpenFile(StoreOf(w))
       ELSE active[StoreOf(w)][ShardOf[job[w].rec]], job[w].rec)

LEMMA GrownFile ==
  ASSUME TypeOK, ShapeInv, NEW w \in Workers, job[w].stage = "write"
  PROVE  LET s == StoreOf(w)
             k == ShardOf[job[w].rec]
         IN  /\ s \in Stores /\ k \in Shards /\ job[w].rec \in Records
             /\ Grown(w) \in Files /\ Grown(w).start <= now
             /\ In(Grown(w).content, job[w].rec)
             /\ \A r : In(active[s][k].content, r) =>
                         In(Grown(w).content, r) /\ Grown(w).start = active[s][k].start
             /\ Grown(w).rows = IF active[s][k] = NoFile THEN 1 ELSE active[s][k].rows + 1
<1> DEFINE s == StoreOf(w)
           k == ShardOf[job[w].rec]
           old == active[s][k]
           base == IF old = NoFile THEN OpenFile(s) ELSE old
<1>1. job[w] \in Jobs /\ job[w].rec \in Records /\ now \in 0 .. MaxTime
  BY Zenon DEF TypeOK, ShapeInv, Shaped
<1>2. s \in Stores /\ k \in Shards
  BY <1>1, StoreAt, RecordAssumption, Zenon DEF StoreOf, Jobs
<1>3. old \in Files /\ old.start <= now
  BY <1>2 DEF TypeOK, ShapeInv
<1>4. Grown(w) = Push(base, job[w].rec)
  BY Zenon DEF Grown
<1> HIDE DEF s, k, old
<1>5. /\ base \in Files /\ base.start <= now
      /\ base.rows = IF old = NoFile THEN 0 ELSE old.rows
      /\ old # NoFile => base = old
  BY <1>1, <1>3, OpenFileType
<1> HIDE DEF base
<1>6. \A r : In(old.content, r) => base = old
  BY <1>5, NoFileType, Zenon
<1>7. /\ Grown(w) \in Files /\ Grown(w).start <= now
      /\ In(Grown(w).content, job[w].rec)
      /\ \A r : In(old.content, r) => In(Grown(w).content, r) /\ Grown(w).start = old.start
  BY <1>1, <1>4, <1>5, <1>6, PushFile
<1>8. Grown(w).rows = IF old = NoFile THEN 1 ELSE old.rows + 1
  <2>1. Grown(w).rows = base.rows + 1
    BY <1>1, <1>4, <1>5, PushFile
  <2> QED
    BY <1>5, <2>1
<1> QED
  BY <1>1, <1>2, <1>7, <1>8, Zenon DEF s, k, old

\* The two outcomes of a write under the lock.
Rotates(w) ==
  /\ ShouldRotate(Grown(w))
  /\ active' = [active EXCEPT ![StoreOf(w)][ShardOf[job[w].rec]] = NoFile]
  /\ job' = [job EXCEPT ![w] = [@ EXCEPT !.stage = "upload", !.file = Grown(w)]]
Buffers(w) ==
  /\ ~ShouldRotate(Grown(w))
  /\ active' = [active EXCEPT ![StoreOf(w)][ShardOf[job[w].rec]] = Grown(w)]
  /\ job' = [job EXCEPT ![w] = Wrote(job[w], PathOf(StoreOf(w), ShardOf[job[w].rec], Grown(w).start))]

LEMMA WriteOutcomes ==
  ASSUME NEW w \in Workers, Write(w)
  PROVE  Rotates(w) \/ Buffers(w)
  BY Zenon DEF Write, Rotates, Buffers, Grown, StoreOf

\* MultiStore::write records the path and goes on.
LEMMA WroteJob ==
  ASSUME NEW j \in Jobs, NEW p \in Paths, j.rec \in Records, Len(j.paths) = j.k - 1
  PROVE  LET n == Wrote(j, p) IN
         /\ n \in Jobs /\ n.rec = j.rec /\ n.stage \in {"write", "commit"} /\ n.file = NoFile
         /\ n.paths = Append(j.paths, p) /\ Len(n.paths) = j.k
         /\ n.stage = "write" => n.k = j.k + 1
         /\ n.stage = "commit" => j.k = Len(Order)
<1>1. j.k \in 1 .. Len(Order) /\ j.paths \in Seq(Paths)
  BY Zenon DEF Jobs
<1>2. Append(j.paths, p) \in Seq(Paths) /\ Len(Append(j.paths, p)) = j.k
  <2>1. Append(j.paths, p) \in Seq(Paths) /\ Len(Append(j.paths, p)) = Len(j.paths) + 1
    BY <1>1, AppendProperties
  <2> QED
    BY <1>1, <2>1, OrderLen
<1>3. CASE j.k < Len(Order)
  <2>1. Wrote(j, p) = [stage |-> "write", rec |-> j.rec, k |-> j.k + 1,
                       paths |-> Append(j.paths, p), file |-> NoFile]
    BY <1>3, Zenon DEF Wrote, Idle
  <2>2. j.k + 1 \in 1 .. Len(Order)
    BY <1>1, <1>3, OrderLen
  <2> QED
    BY <1>2, <2>1, <2>2, NoFileType DEF Jobs, Stages
<1>4. CASE ~(j.k < Len(Order))
  <2>1. Wrote(j, p) = [stage |-> "commit", rec |-> j.rec, k |-> 1,
                       paths |-> Append(j.paths, p), file |-> NoFile]
    BY <1>4, Zenon DEF Wrote, Idle
  <2>2. j.k = Len(Order)
    BY <1>1, <1>4, OrderLen
  <2> QED
    BY <1>2, <2>1, <2>2, NoFileType, OrderLen DEF Jobs, Stages
<1> QED
  BY <1>3, <1>4, Zenon
-----------------------------------------------------------------------------
(* Types                                                                   *)

LEMMA StartJob ==
  ASSUME NEW x \in {"write", "ack"}, NEW r \in Records, NEW t \in Nat
  PROVE  LET n == [Idle EXCEPT !.stage = x, !.rec = r] IN
         n \in Jobs /\ Shaped(n, t) /\ n.stage = x /\ n.rec = r /\ n.k = 1 /\ n.paths = << >>
<1> DEFINE n == [Idle EXCEPT !.stage = x, !.rec = r]
<1>1. /\ n \in Jobs /\ n.stage = x /\ n.rec = r /\ n.k = 1 /\ n.paths = << >>
      /\ n.file = NoFile
  BY IdleType, Zenon DEF Jobs, Stages
<1> HIDE DEF n
<1>2. Shaped(n, t)
  <2>1. Len(n.paths) = n.k - 1
    BY <1>1, EmptySeq
  <2> QED
    BY <1>1, <2>1, NoFileType DEF Shaped
<1> QED
  BY <1>1, <1>2, Zenon DEF n

LEMMA UploadJob ==
  ASSUME NEW j \in Jobs, NEW f \in Files
  PROVE  LET n == [j EXCEPT !.stage = "upload", !.file = f] IN
         /\ n \in Jobs /\ n.stage = "upload" /\ n.file = f
         /\ n.rec = j.rec /\ n.k = j.k /\ n.paths = j.paths
  BY Zenon DEF Jobs, Stages

LEMMA JobPathType ==
  ASSUME TypeOK, ShapeInv, NEW w \in Workers, job[w].stage = "upload"
  PROVE  /\ JobPath(w) \in Paths /\ job[w].rec \in Records /\ job[w].file.start \in 0 .. now
         /\ StoreOf(w) \in Stores /\ ShardOf[job[w].rec] \in Shards
         /\ JobPath(w) = PathOf(StoreOf(w), ShardOf[job[w].rec], job[w].file.start)
<1>1. job[w] \in Jobs /\ Shaped(job[w], now) /\ now \in 0 .. MaxTime
  BY Zenon DEF TypeOK, ShapeInv
<1>2. /\ job[w].rec \in Records /\ job[w].k \in 1 .. Len(Order)
      /\ job[w].file.start \in 0 .. MaxTime /\ job[w].file.start <= now
  BY <1>1, Zenon DEF Jobs, Files, Shaped
<1>3. StoreOf(w) \in Stores /\ ShardOf[job[w].rec] \in Shards
  BY <1>2, StoreAt, RecordAssumption, Zenon DEF StoreOf
<1>4. job[w].file.start \in 0 .. now
  BY <1>1, <1>2, RotationAssumption
<1> QED
  BY <1>2, <1>3, <1>4, PathType, Zenon DEF JobPath, StoreOf

\* What a step of worker w is.
Work(w) ==
  \/ \E r \in Records : Begin(w, r)
  \/ Write(w) \/ Upload(w) \/ UploadFails(w) \/ Commit(w) \/ Acknowledge(w)

\* What a step is, and what it leaves alone.
Quiet ==
  UNCHANGED <<active, objects, job, flush, ledger, gone>> /\ now' \in {now, now + 1}

LEMMA StepKinds ==
  ASSUME [Next]_vars
  PROVE  \/ \E w \in Workers : Work(w)
         \/ FlushBegin \/ FlushUpload \/ FlushUploadFails \/ FlushNext
         \/ Exit \/ Crash \/ Quiet
<1>1. Stop \/ Elapse \/ UNCHANGED vars => Quiet
  BY Zenon DEF Stop, Elapse, Quiet, vars, memory
<1> QED
  BY <1>1, Zenon DEF Next, Work

LEMMA WorkFrame ==
  ASSUME NEW w \in Workers, Work(w)
  PROVE  /\ UNCHANGED <<now, flush, process>> /\ gone \subseteq gone'
         /\ Fault \/ UNCHANGED faults
         /\ Write(w) \/ UNCHANGED active
         /\ Upload(w) \/ UNCHANGED objects
         /\ Upload(w) \/ UploadFails(w) \/ UNCHANGED gone
         /\ Commit(w) \/ UNCHANGED ledger
         /\ Acknowledge(w) \/ UNCHANGED acked
<1>1. CASE \E r \in Records : Begin(w, r)
  <2>1. UNCHANGED <<now, active, objects, flush, process, ledger, acked, gone>> /\ (Fault \/ UNCHANGED faults)
    BY <1>1, Zenon DEF Begin
  <2> QED
    BY <2>1, Zenon
<1>2. CASE Write(w)
  <2>1. UNCHANGED <<now, objects, flush, process, ledger, acked, faults, gone>>
    BY <1>2, Zenon DEF Write
  <2> QED
    BY <1>2, <2>1, Zenon
<1>3. CASE Upload(w)
  <2>1. UNCHANGED <<now, active, flush, process, ledger, acked, faults>> /\ gone \subseteq gone'
    BY <1>3, Zenon DEF Upload, Put
  <2> QED
    BY <1>3, <2>1, Zenon
<1>4. CASE UploadFails(w)
  <2>1. UNCHANGED <<now, active, objects, flush, process, ledger, acked>> /\ Fault /\ gone \subseteq gone'
    BY <1>4, Zenon DEF UploadFails
  <2> QED
    BY <1>4, <2>1, Zenon
<1>5. CASE Commit(w)
  <2>1. UNCHANGED <<now, active, objects, flush, process, acked, gone>> /\ (Fault \/ UNCHANGED faults)
    BY <1>5, Zenon DEF Commit
  <2> QED
    BY <1>5, <2>1, Zenon
<1>6. CASE Acknowledge(w)
  <2>1. UNCHANGED <<now, active, objects, flush, process, ledger, gone>> /\ (Fault \/ UNCHANGED faults)
    BY <1>6, Zenon DEF Acknowledge
  <2> QED
    BY <1>6, <2>1, Zenon
<1> QED
  BY <1>1, <1>2, <1>3, <1>4, <1>5, <1>6, Zenon DEF Work

LEMMA FlushFrame ==
  ASSUME FlushBegin \/ FlushUpload \/ FlushUploadFails \/ FlushNext
  PROVE  /\ UNCHANGED <<now, job, process, ledger, acked>> /\ gone \subseteq gone'
         /\ Fault \/ UNCHANGED faults
         /\ FlushUpload \/ UNCHANGED objects
         /\ FlushUpload \/ FlushUploadFails \/ UNCHANGED gone
         /\ FlushBegin \/ FlushNext \/ UNCHANGED active
<1>1. CASE FlushBegin
  BY <1>1, Zenon DEF FlushBegin
<1>2. CASE FlushUpload
  BY <1>2, Zenon DEF FlushUpload, Put
<1>3. CASE FlushUploadFails
  BY <1>3, Zenon DEF FlushUploadFails
<1>4. CASE FlushNext
  BY <1>4, Zenon DEF FlushNext
<1> QED
  BY <1>1, <1>2, <1>3, <1>4, Zenon

LEMMA EndFrame ==
  ASSUME Exit \/ Crash
  PROVE  /\ UNCHANGED <<now, objects, ledger, acked>>
         /\ flush' = NoFlush /\ flush'.k = 0
         /\ active' = [s \in Stores |-> [k \in Shards |-> NoFile]]
         /\ job' = [w \in Workers |-> Idle]
         /\ gone' = gone \cup Lost("exit", Buffered \cup Uploading \cup Flushed)
<1>1. NoFlush.k = 0
  BY Zenon DEF NoFlush
<1>2. CASE Exit
  BY <1>1, <1>2, Zenon DEF Exit, Ends
<1>3. CASE Crash
  BY <1>1, <1>3, Zenon DEF Crash, Ends
<1> QED
  BY <1>2, <1>3, Zenon

\* A worker's step gives it a job of the right shape and leaves the others.
LEMMA WorkJob ==
  ASSUME TypeOK, ShapeInv, NEW w \in Workers, Work(w)
  PROVE  \E n \in Jobs : job' = [job EXCEPT ![w] = n] /\ Shaped(n, now)
<1>0. job[w] \in Jobs /\ Shaped(job[w], now) /\ now \in 0 .. MaxTime /\ now \in Nat
  BY RotationAssumption DEF TypeOK, ShapeInv
<1>1. ASSUME NEW r \in Records, Begin(w, r)
      PROVE  \E n \in Jobs : job' = [job EXCEPT ![w] = n] /\ Shaped(n, now)
  BY <1>0, <1>1, StartJob, Zenon DEF Begin
<1>2. ASSUME Rotates(w), job[w].stage = "write"
      PROVE  \E n \in Jobs : job' = [job EXCEPT ![w] = n] /\ Shaped(n, now)
  <2> DEFINE n == [job[w] EXCEPT !.stage = "upload", !.file = Grown(w)]
  <2>1. /\ Grown(w) \in Files /\ Grown(w).start <= now /\ In(Grown(w).content, job[w].rec)
        /\ job[w].rec \in Records
    BY <1>2, GrownFile, Zenon
  <2>2. /\ n \in Jobs /\ n.stage = "upload" /\ n.file = Grown(w)
        /\ n.rec = job[w].rec /\ n.k = job[w].k /\ n.paths = job[w].paths
    BY <1>0, <2>1, UploadJob, Zenon
  <2>3. job' = [job EXCEPT ![w] = n]
    BY <1>2, Zenon DEF Rotates
  <2> HIDE DEF n
  <2>4. Shaped(n, now)
    BY <1>0, <1>2, <2>1, <2>2, Zenon DEF Shaped
  <2> QED
    BY <2>2, <2>3, <2>4, Zenon
<1>3. ASSUME NEW p \in Paths, job[w].stage \in {"write", "upload"},
             job' = [job EXCEPT ![w] = Wrote(job[w], p)]
      PROVE  \E n \in Jobs : job' = [job EXCEPT ![w] = n] /\ Shaped(n, now)
  <2>1. job[w].rec \in Records /\ Len(job[w].paths) = job[w].k - 1 /\ job[w].k \in 1 .. Len(Order)
    BY <1>0, <1>3, Zenon DEF Shaped, Jobs
  <2> DEFINE n == Wrote(job[w], p)
  <2>2. /\ n \in Jobs /\ n.rec = job[w].rec /\ n.stage \in {"write", "commit"}
        /\ n.file = NoFile /\ Len(n.paths) = job[w].k
        /\ n.stage = "write" => n.k = job[w].k + 1
        /\ n.stage = "commit" => job[w].k = Len(Order)
    BY <1>0, <2>1, WroteJob, Zenon
  <2> HIDE DEF n
  <2>3. Shaped(n, now)
    BY <1>0, <2>1, <2>2, NoFileType, OrderLen DEF Shaped
  <2> QED
    BY <1>3, <2>2, <2>3, Zenon DEF n
<1>4. CASE Write(w)
  <2>1. job[w].stage = "write"
    BY <1>4, Zenon DEF Write
  <2>2. CASE Buffers(w)
    <3>1. /\ Grown(w) \in Files /\ StoreOf(w) \in Stores /\ ShardOf[job[w].rec] \in Shards
          /\ Grown(w).start \in 0 .. MaxTime
      BY <2>1, GrownFile, Zenon DEF Files
    <3> QED
      BY <1>3, <2>1, <2>2, <3>1, PathType, Zenon DEF Buffers
  <2> QED
    BY <1>2, <1>4, <2>1, <2>2, WriteOutcomes, Zenon
<1>5. CASE Upload(w)
  BY <1>3, <1>5, JobPathType, Zenon DEF Upload
<1>6. CASE UploadFails(w)
  <2> DEFINE n == [Idle EXCEPT !.stage = "ack", !.rec = job[w].rec]
  <2>1. job[w].rec \in Records
    BY <1>6, JobPathType, Zenon DEF UploadFails
  <2>2. n \in Jobs /\ Shaped(n, now)
    BY <1>0, <2>1, StartJob, Zenon
  <2>3. job' = [job EXCEPT ![w] = n]
    BY <1>6, Zenon DEF UploadFails
  <2> HIDE DEF n
  <2> QED
    BY <2>2, <2>3, Zenon
<1>7. CASE Commit(w)
  <2> DEFINE n == [Idle EXCEPT !.stage = "ack", !.rec = job[w].rec]
  <2>1. job[w].rec \in Records
    BY <1>0, <1>7, Zenon DEF Commit, Shaped
  <2>2. n \in Jobs /\ Shaped(n, now)
    BY <1>0, <2>1, StartJob, Zenon
  <2>3. job' = [job EXCEPT ![w] = n]
    BY <1>7, Zenon DEF Commit
  <2> HIDE DEF n
  <2> QED
    BY <2>2, <2>3, Zenon
<1>8. CASE Acknowledge(w)
  <2>1. Shaped(Idle, now)
    BY <1>0, IdleType, NoFileType DEF Shaped
  <2> QED
    BY <1>8, <2>1, IdleType, Zenon DEF Acknowledge
<1> QED
  BY <1>1, <1>4, <1>5, <1>6, <1>7, <1>8, Zenon DEF Work
LEMMA LostType ==
  ASSUME NEW c \in Causes, NEW rows \in SUBSET Rows, gone \subseteq Causes \X Rows,
         gone' = gone \cup Lost(c, rows)
  PROVE  gone' \subseteq Causes \X Rows
  BY Zenon DEF Lost

LEMMA RowsType ==
  /\ \A q, c : RowsOf(q, c) \subseteq Rows
  /\ Buffered \subseteq Rows /\ Uploading \subseteq Rows /\ Flushed \subseteq Rows
<1>1. \A q, c : RowsOf(q, c) \subseteq Rows
  BY Zenon DEF RowsOf
<1>2. Buffered \subseteq Rows /\ Uploading \subseteq Rows
  BY <1>1 DEF Buffered, Uploading
<1>3. Flushed \subseteq Rows
  BY <1>1, Zenon DEF Flushed, FilesRows
<1> QED
  BY <1>1, <1>2, <1>3, Zenon

LEMMA PutType ==
  ASSUME TypeOK, NEW p \in Paths, NEW c \in Contents, Put(p, c)
  PROVE  objects' \in [Paths -> Contents] /\ gone' \subseteq Causes \X Rows
<1>1. "overwrite" \in Causes /\ RowsOf(p, objects[p]) \ RowsOf(p, c) \in SUBSET Rows
  BY RowsType, Zenon DEF Causes
<1>2. gone' \subseteq Causes \X Rows
  BY <1>1, LostType, Zenon DEF TypeOK, Put
<1>3. objects' \in [Paths -> Contents]
  BY Zenon DEF TypeOK, Put
<1> QED
  BY <1>2, <1>3, Zenon

LEMMA FaultType ==
  ASSUME TypeOK, Fault \/ UNCHANGED faults
  PROVE  faults' \in 0 .. MaxFaults
  BY RotationAssumption DEF TypeOK, Fault

LEMMA WorkType ==
  ASSUME TypeOK, ShapeInv, NEW w \in Workers, Work(w)
  PROVE  TypeOK' /\ ShapeInv'
<1>1. PICK n \in Jobs : job' = [job EXCEPT ![w] = n] /\ Shaped(n, now)
  BY WorkJob, Zenon
<1>2. UNCHANGED <<now, flush, process>>
  BY WorkFrame, Zenon
<1>3. job' \in [Workers -> Jobs] /\ \A v \in Workers : Shaped(job'[v], now)
  BY <1>1, Zenon DEF TypeOK, ShapeInv
<1>4. /\ active' \in [Stores -> [Shards -> Files]]
      /\ \A s \in Stores, k \in Shards : active'[s][k].start <= now
  <2>1. CASE Write(w)
    <3>1. job[w].stage = "write"
      BY <2>1, Zenon DEF Write
    <3>2. /\ StoreOf(w) \in Stores /\ ShardOf[job[w].rec] \in Shards
          /\ Grown(w) \in Files /\ Grown(w).start <= now
      BY <3>1, GrownFile, Zenon
    <3>3. NoFile \in Files /\ NoFile.start <= now
      BY NoFileType, RotationAssumption DEF TypeOK
    <3>4. PICK f \in Files : /\ f.start <= now
                             /\ active' = [active EXCEPT ![StoreOf(w)][ShardOf[job[w].rec]] = f]
      BY <2>1, <3>2, <3>3, WriteOutcomes, Zenon DEF Rotates, Buffers
    <3> QED
      BY <3>2, <3>4, Zenon DEF TypeOK, ShapeInv
  <2>2. CASE ~Write(w)
    <3>1. active' = active
      BY <2>2, WorkFrame, Zenon
    <3> QED
      BY <3>1, Zenon DEF TypeOK, ShapeInv
  <2> QED
    BY <2>1, <2>2, Zenon
<1>5. objects' \in [Paths -> Contents] /\ gone' \subseteq Causes \X Rows
  <2>1. CASE Upload(w)
    <3>1. Put(JobPath(w), job[w].file.content) /\ job[w].stage = "upload" /\ job[w].file.content \in Contents
      BY <2>1, Zenon DEF Upload, TypeOK, Jobs, Files
    <3> QED
      BY <3>1, JobPathType, PutType, Zenon
  <2>2. CASE UploadFails(w)
    <3>1. "rotation" \in Causes /\ RowsOf(JobPath(w), job[w].file.content) \in SUBSET Rows
      BY RowsType, Zenon DEF Causes
    <3>2. /\ objects' = objects
          /\ gone' = gone \cup Lost("rotation", RowsOf(JobPath(w), job[w].file.content))
      BY <2>2, Zenon DEF UploadFails
    <3> QED
      BY <3>1, <3>2, LostType, Zenon DEF TypeOK
  <2>3. CASE ~Upload(w) /\ ~UploadFails(w)
    BY <2>3, WorkFrame, Zenon DEF TypeOK
  <2> QED
    BY <2>1, <2>2, <2>3, Zenon
<1>6. ledger' \in [Records -> Paths \cup {NoPath}] /\ acked' \subseteq Records
  <2>1. CASE Commit(w)
    <3>1. job[w] \in Jobs /\ Shaped(job[w], now) /\ job[w].stage = "commit"
      BY <2>1, Zenon DEF TypeOK, ShapeInv, Commit
    <3>2. job[w].rec \in Records /\ job[w].paths \in Seq(Paths) /\ Len(job[w].paths) = Len(Order)
      BY <3>1, Zenon DEF Shaped, Jobs
    <3>3. job[w].paths[1] \in Paths
      BY <3>2, OrderLen, ElementOfSeq, Zenon
    <3> QED
      BY <2>1, <3>2, <3>3, Zenon DEF Commit, TypeOK
  <2>2. CASE Acknowledge(w)
    <3>1. job[w].rec \in Records
      BY <2>2, Zenon DEF ShapeInv, Shaped, Acknowledge
    <3> QED
      BY <2>2, <3>1, Zenon DEF Acknowledge, TypeOK
  <2>3. CASE ~Commit(w) /\ ~Acknowledge(w)
    BY <2>3, WorkFrame, Zenon DEF TypeOK
  <2> QED
    BY <2>1, <2>2, <2>3, Zenon
<1>7. faults' \in 0 .. MaxFaults
  <2>1. Fault \/ UNCHANGED faults
    BY WorkFrame, Zenon
  <2> QED
    BY <2>1, FaultType, Zenon
<1>8. TypeOK'
  BY <1>2, <1>3, <1>4, <1>5, <1>6, <1>7, Zenon DEF TypeOK
<1>9. ShapeInv'
  BY <1>2, <1>3, <1>4, Zenon DEF ShapeInv
<1> QED
  BY <1>8, <1>9, Zenon

\* A store's files leave its map.
LEMMA DrainType ==
  ASSUME TypeOK, ShapeInv, NEW i \in 1 .. Len(Order), NEW pre \in SUBSET Rows,
         NEW failed \in SUBSET Stores, Drain(i, pre, failed)
  PROVE  /\ active' \in [Stores -> [Shards -> Files]]
         /\ \A s \in Stores, k \in Shards : active'[s][k].start <= now
         /\ flush' \in [k : 0 .. Len(Order) + 1, files : SUBSET (Shards \X Files),
                        pre : SUBSET Rows, failed : SUBSET Stores]
         /\ flush'.k = i
<1>1. Order[i] \in Stores
  BY StoreAt, Zenon
<1>2. NoFile \in Files /\ NoFile.start <= now
  BY NoFileType, RotationAssumption DEF TypeOK
<1>3. /\ active' \in [Stores -> [Shards -> Files]]
      /\ \A s \in Stores, k \in Shards : active'[s][k].start <= now
  <2>1. active' = [active EXCEPT ![Order[i]] = [k \in Shards |-> NoFile]]
    BY Zenon DEF Drain
  <2> QED
    BY <1>1, <1>2, <2>1, Zenon DEF TypeOK, ShapeInv
<1>4. {<<k, active[Order[i]][k]>> : k \in {j \in Shards : active[Order[i]][j] # NoFile}}
        \in SUBSET (Shards \X Files)
  BY <1>1 DEF TypeOK
<1>5. i \in 0 .. Len(Order) + 1
  BY OrderLen
<1>6. /\ flush' \in [k : 0 .. Len(Order) + 1, files : SUBSET (Shards \X Files),
                     pre : SUBSET Rows, failed : SUBSET Stores]
      /\ flush'.k = i
  BY <1>4, <1>5, Zenon DEF Drain
<1> QED
  BY <1>3, <1>6, Zenon

LEMMA NoFlushType ==
  ASSUME NEW i \in 0 .. Len(Order) + 1
  PROVE  [k |-> i, files |-> {}, pre |-> {}, failed |-> {}] \in
           [k : 0 .. Len(Order) + 1, files : SUBSET (Shards \X Files),
            pre : SUBSET Rows, failed : SUBSET Stores]
  BY Zenon

LEMMA FlushType ==
  ASSUME TypeOK, ShapeInv, FlushBegin \/ FlushUpload \/ FlushUploadFails \/ FlushNext
  PROVE  TypeOK' /\ ShapeInv'
<1> DEFINE Kinds == [k : 0 .. Len(Order) + 1, files : SUBSET (Shards \X Files),
                     pre : SUBSET Rows, failed : SUBSET Stores]
<1>1. UNCHANGED <<now, job, process, ledger, acked>>
  BY FlushFrame, Zenon
<1>2. flush \in Kinds
  BY Zenon DEF TypeOK
<1>3. /\ active' \in [Stores -> [Shards -> Files]]
      /\ \A s \in Stores, k \in Shards : active'[s][k].start <= now
      /\ flush' \in Kinds
      /\ flush'.files # {} => flush'.k \in 1 .. Len(Order)
  <2>1. CASE FlushBegin
    <3>1. Drain(1, Buffered, {})
      BY <2>1, Zenon DEF FlushBegin
    <3>2. 1 \in 1 .. Len(Order) /\ Buffered \in SUBSET Rows /\ {} \in SUBSET Stores
      BY OrderLen, RowsType, Zenon
    <3> QED
      BY <3>1, <3>2, DrainType, Zenon
  <2>2. CASE FlushUpload
    <3>1. PICK x \in flush.files : flush' = [flush EXCEPT !.files = @ \ {x}]
      BY <2>2, Zenon DEF FlushUpload
    <3>2. active' = active /\ flush.k \in 1 .. Len(Order)
      BY <2>2, <3>1, Zenon DEF FlushUpload, ShapeInv
    <3>3. flush' \in Kinds /\ flush'.k = flush.k
      BY <1>2, <3>1, Zenon
    <3> QED
      BY <3>2, <3>3, Zenon DEF TypeOK, ShapeInv
  <2>3. CASE FlushUploadFails
    <3>1. active' = active /\ flush.k \in 1 .. Len(Order)
      BY <2>3, Zenon DEF FlushUploadFails, ShapeInv
    <3>2. flush' = [flush EXCEPT !.files = {}, !.failed = @ \cup {Order[flush.k]}]
      BY <2>3, Zenon DEF FlushUploadFails
    <3>3. Order[flush.k] \in Stores
      BY <3>1, StoreAt, Zenon
    <3>4. flush' \in Kinds /\ flush'.k = flush.k
      BY <1>2, <3>2, <3>3, Zenon
    <3> QED
      BY <3>1, <3>4, Zenon DEF TypeOK, ShapeInv
  <2>4. CASE FlushNext
    <3>1. CASE flush.k < Len(Order) /\ Drain(flush.k + 1, flush.pre, flush.failed)
      <4>1. flush.k + 1 \in 1 .. Len(Order) /\ flush.pre \in SUBSET Rows /\ flush.failed \in SUBSET Stores
        BY <1>2, <2>4, <3>1, OrderLen DEF FlushNext
      <4> QED
        BY <3>1, <4>1, DrainType, Zenon
    <3>2. CASE flush' = [NoFlush EXCEPT !.k = Len(Order) + 1] /\ UNCHANGED active
      <4>1. flush' = [k |-> Len(Order) + 1, files |-> {}, pre |-> {}, failed |-> {}]
        BY <3>2, Zenon DEF NoFlush
      <4>2. Len(Order) + 1 \in 0 .. Len(Order) + 1
        BY OrderLen
      <4>3. flush' \in Kinds /\ flush'.files = {}
        BY <4>1, <4>2, NoFlushType, Zenon
      <4> QED
        BY <3>2, <4>3, Zenon DEF TypeOK, ShapeInv
    <3> QED
      BY <2>4, <3>1, <3>2, Zenon DEF FlushNext
  <2> QED
    BY <2>1, <2>2, <2>3, <2>4, Zenon
<1>4. objects' \in [Paths -> Contents] /\ gone' \subseteq Causes \X Rows
  <2>1. CASE FlushUpload
    <3>1. PICK x \in flush.files : Put(PathOf(Order[flush.k], x[1], x[2].start), x[2].content)
      BY <2>1, Zenon DEF FlushUpload
    <3>2. x \in Shards \X Files /\ flush.k \in 1 .. Len(Order)
      BY <1>2, <3>1, Zenon DEF ShapeInv
    <3>3. PathOf(Order[flush.k], x[1], x[2].start) \in Paths /\ x[2].content \in Contents
      BY <3>2, StoreAt, PathType, Zenon DEF Files
    <3> QED
      BY <3>1, <3>3, PutType, Zenon
  <2>2. CASE FlushUploadFails
    <3>1. "flush" \in Causes /\ Flushed \in SUBSET Rows
      BY RowsType, Zenon DEF Causes
    <3>2. objects' = objects /\ gone' = gone \cup Lost("flush", Flushed)
      BY <2>2, Zenon DEF FlushUploadFails
    <3> QED
      BY <3>1, <3>2, LostType, Zenon DEF TypeOK
  <2>3. CASE ~FlushUpload /\ ~FlushUploadFails
    BY <2>3, FlushFrame, Zenon DEF TypeOK
  <2> QED
    BY <2>1, <2>2, <2>3, Zenon
<1>5. faults' \in 0 .. MaxFaults
  BY FaultType, FlushFrame, Zenon
<1>6. TypeOK'
  BY <1>1, <1>3, <1>4, <1>5, Zenon DEF TypeOK
<1> HIDE DEF Kinds
<1>7. ShapeInv'
  BY <1>1, <1>3, Zenon DEF ShapeInv
<1> QED
  BY <1>6, <1>7, Zenon

\* The empty memory of a process that starts.
LEMMA EmptyMemory ==
  ASSUME NEW t \in Nat
  PROVE  LET a == [s \in Stores |-> [k \in Shards |-> NoFile]]
             j == [w \in Workers |-> Idle]
         IN  /\ a \in [Stores -> [Shards -> Files]] /\ j \in [Workers -> Jobs]
             /\ NoFlush \in [k : 0 .. Len(Order) + 1, files : SUBSET (Shards \X Files),
                             pre : SUBSET Rows, failed : SUBSET Stores]
             /\ \A s \in Stores, k \in Shards : a[s][k].start <= t
             /\ \A w \in Workers : Shaped(j[w], t)
             /\ NoFlush.files = {} /\ NoFlush.k = 0
<1>1. Shaped(Idle, t)
  BY IdleType, NoFileType DEF Shaped
<1>2. 0 \in 0 .. Len(Order) + 1
  BY OrderLen
<1>3. NoFlush \in [k : 0 .. Len(Order) + 1, files : SUBSET (Shards \X Files),
                   pre : SUBSET Rows, failed : SUBSET Stores]
  BY <1>2, NoFlushType, Zenon DEF NoFlush
<1>4. NoFlush.files = {} /\ NoFlush.k = 0
  BY Zenon DEF NoFlush
<1> QED
  BY <1>1, <1>3, <1>4, IdleType, NoFileType

LEMMA ProcessType ==
  ASSUME TypeOK, ShapeInv, Stop \/ Exit \/ Crash \/ Elapse
  PROVE  TypeOK' /\ ShapeInv'
<1>0. now \in 0 .. MaxTime /\ now \in Nat
  BY RotationAssumption DEF TypeOK
<1>1. ASSUME NEW how \in {"up", "exited"}, Ends(how), UNCHANGED <<now, objects, ledger, acked>>,
             Fault \/ UNCHANGED faults
      PROVE  TypeOK' /\ ShapeInv'
  <2>1. /\ process' = how /\ active' = [s \in Stores |-> [k \in Shards |-> NoFile]]
        /\ job' = [w \in Workers |-> Idle] /\ flush' = NoFlush
        /\ gone' = gone \cup Lost("exit", Buffered \cup Uploading \cup Flushed)
    BY <1>1, Zenon DEF Ends
  <2>2. gone' \subseteq Causes \X Rows
    <3>1. "exit" \in Causes /\ Buffered \cup Uploading \cup Flushed \in SUBSET Rows
      BY RowsType, Zenon DEF Causes
    <3> QED
      BY <2>1, <3>1, LostType, Zenon DEF TypeOK
  <2>3. faults' \in 0 .. MaxFaults
    BY <1>1, FaultType, Zenon
  <2>4. /\ active' \in [Stores -> [Shards -> Files]] /\ job' \in [Workers -> Jobs]
        /\ flush' \in [k : 0 .. Len(Order) + 1, files : SUBSET (Shards \X Files),
                       pre : SUBSET Rows, failed : SUBSET Stores]
        /\ \A s \in Stores, k \in Shards : active'[s][k].start <= now
        /\ \A w \in Workers : Shaped(job'[w], now)
        /\ flush'.files = {}
    BY <1>0, <2>1, EmptyMemory, Zenon
  <2>5. TypeOK'
    BY <1>1, <2>1, <2>2, <2>3, <2>4, Zenon DEF TypeOK
  <2>6. ShapeInv'
    BY <1>1, <2>4, Zenon DEF ShapeInv
  <2> QED
    BY <2>5, <2>6, Zenon
<1>2. CASE Stop
  BY <1>2, Zenon DEF Stop, memory, TypeOK, ShapeInv
<1>3. CASE Exit
  BY <1>1, <1>3, Zenon DEF Exit
<1>4. CASE Crash
  BY <1>1, <1>4, Zenon DEF Crash
<1>5. CASE Elapse
  <2>1. /\ now' = now + 1 /\ now' \in 0 .. MaxTime
        /\ UNCHANGED <<active, job, flush, objects, process, ledger, acked, faults, gone>>
    BY <1>0, <1>5, RotationAssumption DEF Elapse, memory
  <2>2. TypeOK'
    BY <2>1, Zenon DEF TypeOK
  <2>3. ASSUME NEW w \in Workers
        PROVE  Shaped(job'[w], now')
    <3>1. job[w].file.start \in Nat /\ Shaped(job[w], now)
      BY DEF TypeOK, ShapeInv, Jobs, Files
    <3> QED
      BY <1>0, <2>1, <3>1 DEF Shaped
  <2>4. ASSUME NEW s \in Stores, NEW k \in Shards
        PROVE  active'[s][k].start <= now'
    <3>1. active[s][k].start \in Nat /\ active[s][k].start <= now
      BY DEF TypeOK, ShapeInv, Files
    <3> QED
      BY <1>0, <2>1, <3>1
  <2> QED
    BY <2>1, <2>2, <2>3, <2>4, Zenon DEF ShapeInv
<1> QED
  BY <1>2, <1>3, <1>4, <1>5, Zenon

LEMMA TypeInit == Init => TypeOK /\ ShapeInv
<1> SUFFICES ASSUME Init PROVE TypeOK /\ ShapeInv
  BY Zenon
<1>1. /\ active \in [Stores -> [Shards -> Files]] /\ job \in [Workers -> Jobs]
      /\ flush \in [k : 0 .. Len(Order) + 1, files : SUBSET (Shards \X Files),
                    pre : SUBSET Rows, failed : SUBSET Stores]
      /\ \A s \in Stores, k \in Shards : active[s][k].start <= now
      /\ \A w \in Workers : Shaped(job[w], now)
      /\ flush.files = {}
  BY EmptyMemory, Zenon DEF Init
<1>2. objects \in [Paths -> Contents]
  <2>1. << >> \in Contents
    BY EmptySeq, Zenon DEF Contents
  <2> QED
    BY <2>1, Zenon DEF Init
<1>3. TypeOK
  BY <1>1, <1>2, RotationAssumption DEF Init, TypeOK
<1> QED
  BY <1>1, <1>3, Zenon DEF ShapeInv

LEMMA TypeStep ==
  ASSUME TypeOK, ShapeInv, [Next]_vars
  PROVE  TypeOK' /\ ShapeInv'
<1>1. CASE UNCHANGED vars
  BY <1>1, Zenon DEF vars, memory, TypeOK, ShapeInv
<1>2. CASE \E w \in Workers : Work(w)
  BY <1>2, WorkType, Zenon
<1>3. CASE FlushBegin \/ FlushUpload \/ FlushUploadFails \/ FlushNext
  BY <1>3, FlushType, Zenon
<1>4. CASE Stop \/ Exit \/ Crash \/ Elapse
  BY <1>4, ProcessType, Zenon
<1> QED
  BY <1>1, <1>2, <1>3, <1>4, Zenon DEF Next, Work

\* Buffers, objects, jobs, paths and the ledger always have the types they
\* are declared with: each store's write, upload and flush keeps them.
THEOREM TypeCorrect == Spec => []TypeOK
<1>1. TypeOK /\ ShapeInv /\ [Next]_vars => (TypeOK /\ ShapeInv)'
  BY TypeStep, Zenon
<1> QED
  BY <1>1, TypeInit, PTL DEF Spec
-----------------------------------------------------------------------------
(* The bound on what is buffered                                           *)

\* Only a rotation leaves a worker uploading.
LEMMA WorkStage ==
  ASSUME TypeOK, ShapeInv, NEW w \in Workers, Work(w), job'[w].stage = "upload"
  PROVE  Write(w) /\ Rotates(w) /\ job[w].stage = "write" /\ job'[w].file = Grown(w)
         /\ job'[w].rec = job[w].rec /\ job'[w].k = job[w].k
<1>0. job[w] \in Jobs /\ Shaped(job[w], now) /\ now \in Nat /\ job \in [Workers -> Jobs]
  BY RotationAssumption DEF TypeOK, ShapeInv
<1>1. ASSUME NEW p \in Paths, job[w].stage \in {"write", "upload"},
             job' = [job EXCEPT ![w] = Wrote(job[w], p)]
      PROVE  FALSE
  <2>1. job[w].rec \in Records /\ Len(job[w].paths) = job[w].k - 1
    BY <1>0, <1>1, Zenon DEF Shaped
  <2>2. Wrote(job[w], p).stage \in {"write", "commit"}
    BY <1>0, <2>1, WroteJob, Zenon
  <2> QED
    BY <1>0, <1>1, <2>2, Zenon
<1>2. ASSUME NEW x \in {"write", "ack"}, NEW r \in Records,
             job' = [job EXCEPT ![w] = [Idle EXCEPT !.stage = x, !.rec = r]]
      PROVE  FALSE
  <2>1. [Idle EXCEPT !.stage = x, !.rec = r].stage = x
    BY IdleType, Zenon DEF Jobs
  <2> QED
    BY <1>0, <1>2, <2>1, Zenon
<1>3. \A r \in Records : ~Begin(w, r)
  BY <1>2, Zenon DEF Begin
<1>4. ~Upload(w)
  BY <1>1, JobPathType, Zenon DEF Upload
<1>5. ~UploadFails(w)
  BY <1>2, JobPathType, Zenon DEF UploadFails
<1>6. ~Commit(w)
  <2>1. job[w].stage = "commit" => job[w].rec \in Records
    BY <1>0, Zenon DEF Shaped
  <2> QED
    BY <1>2, <2>1, Zenon DEF Commit
<1>7. ~Acknowledge(w)
  BY <1>0, IdleType, Zenon DEF Acknowledge
<1>8. Write(w) /\ job[w].stage = "write"
  BY <1>3, <1>4, <1>5, <1>6, <1>7, Zenon DEF Work, Write
<1>9. ~Buffers(w)
  <2>1. /\ Grown(w) \in Files /\ StoreOf(w) \in Stores /\ ShardOf[job[w].rec] \in Shards
        /\ Grown(w).start \in 0 .. MaxTime
    BY <1>8, GrownFile, Zenon DEF Files
  <2> QED
    BY <1>1, <1>8, <2>1, PathType, Zenon DEF Buffers
<1>10. Rotates(w)
  BY <1>8, <1>9, WriteOutcomes, Zenon
<1>11. job'[w].file = Grown(w) /\ job'[w].rec = job[w].rec /\ job'[w].k = job[w].k
  <2> DEFINE n == [job[w] EXCEPT !.stage = "upload", !.file = Grown(w)]
  <2>1. n.file = Grown(w) /\ n.rec = job[w].rec /\ n.k = job[w].k
    BY <1>0, <1>8, GrownFile, UploadJob, Zenon
  <2>2. job'[w] = n
    BY <1>0, <1>10, Zenon DEF Rotates
  <2> QED
    BY <2>1, <2>2, Zenon
<1> QED
  BY <1>8, <1>10, <1>11, Zenon

LEMMA BoundStep ==
  ASSUME TypeOK, ShapeInv, BuffersBounded, [Next]_vars
  PROVE  BuffersBounded'
<1> DEFINE Small(f) == f # NoFile => f.rows < MaxRows /\ f.raw_bytes < MaxBytes
           Limit == IF MaxRows = 0 THEN 1 ELSE MaxRows
<1>1. ASSUME NEW s \in Stores, NEW k \in Shards
      PROVE  Small(active'[s][k])
  <2>0. active \in [Stores -> [Shards -> Files]] /\ Small(active[s][k]) /\ Small(NoFile)
    BY Zenon DEF TypeOK, BuffersBounded
  <2>1. ASSUME NEW w \in Workers, Write(w)
        PROVE  Small(active'[s][k])
    <3>1. /\ job[w].stage = "write" /\ Grown(w) \in Files
          /\ StoreOf(w) \in Stores /\ ShardOf[job[w].rec] \in Shards
      BY <2>1, GrownFile, Zenon DEF Write
    <3>2. ~ShouldRotate(Grown(w)) => Small(Grown(w))
      <4>1. Grown(w).rows \in Nat /\ Grown(w).raw_bytes \in Nat
        BY <3>1, Zenon DEF Files
      <4> QED
        BY <4>1, RotationAssumption DEF ShouldRotate
    <3>3. PICK f : Small(f) /\ active' = [active EXCEPT ![StoreOf(w)][ShardOf[job[w].rec]] = f]
      BY <2>0, <2>1, <3>2, WriteOutcomes, Zenon DEF Rotates, Buffers
    <3>4. active'[s][k] = f \/ active'[s][k] = active[s][k]
      BY <2>0, <3>1, <3>3, Zenon
    <3> QED
      BY <2>0, <3>3, <3>4, Zenon
  <2>2. ASSUME NEW i \in 1 .. Len(Order), NEW pre, NEW failed, Drain(i, pre, failed)
        PROVE  Small(active'[s][k])
    <3>1. active'[s][k] = NoFile \/ active'[s][k] = active[s][k]
      BY <2>0, <2>2, StoreAt, Zenon DEF Drain
    <3> QED
      BY <2>0, <3>1, Zenon
  <2>3. CASE FlushNext \/ FlushBegin
    <3>1. CASE active' = active
      BY <2>0, <3>1, Zenon
    <3>2. CASE active' # active
      <4>1. flush.k \in 1 .. Len(Order) /\ flush.k < Len(Order) => flush.k + 1 \in 1 .. Len(Order)
        BY OrderLen
      <4> QED
        BY <2>2, <2>3, <3>2, <4>1, OrderLen, Zenon DEF FlushNext, FlushBegin
    <3> QED
      BY <3>1, <3>2, Zenon
  <2>4. CASE Exit \/ Crash
    BY <2>0, <2>4, EndFrame
  <2>5. CASE UNCHANGED active
    BY <2>0, <2>5, Zenon
  <2> HIDE DEF Small
  <2> QED
    BY <2>1, <2>3, <2>4, <2>5, StepKinds, WorkFrame, FlushFrame, Zenon DEF Quiet
<1>2. ASSUME NEW v \in Workers, job'[v].stage = "upload"
      PROVE  job'[v].file.rows <= Limit
  <2>0. job \in [Workers -> Jobs] /\ (job[v].stage = "upload" => job[v].file.rows <= Limit)
    BY Zenon DEF TypeOK, BuffersBounded
  <2>1. ASSUME NEW w \in Workers, Work(w)
        PROVE  job'[v].file.rows <= Limit
    <3>1. CASE w = v
      <4>1. job[w].stage = "write" /\ job'[v].file = Grown(w)
        BY <1>2, <2>1, <3>1, WorkStage, Zenon
      <4> DEFINE old == active[StoreOf(w)][ShardOf[job[w].rec]]
      <4>2. /\ StoreOf(w) \in Stores /\ ShardOf[job[w].rec] \in Shards
            /\ Grown(w).rows = IF old = NoFile THEN 1 ELSE old.rows + 1
        BY <4>1, GrownFile, Zenon
      <4>3. old \in Files /\ (old # NoFile => old.rows < MaxRows)
        BY <4>2, Zenon DEF TypeOK, BuffersBounded
      <4>4. old.rows \in Nat
        BY <4>3, Zenon DEF Files
      <4> HIDE DEF old
      <4> QED
        BY <4>1, <4>2, <4>3, <4>4, RotationAssumption
    <3>2. CASE w # v
      <4>1. PICK n \in Jobs : job' = [job EXCEPT ![w] = n]
        BY <2>1, WorkJob, Zenon
      <4>2. job'[v] = job[v]
        BY <2>0, <3>2, <4>1, Zenon
      <4> QED
        BY <1>2, <2>0, <4>2, Zenon
    <3> QED
      BY <3>1, <3>2, Zenon
  <2>2. CASE Exit \/ Crash
    BY <1>2, <2>2, IdleType, EndFrame, Zenon
  <2>3. CASE UNCHANGED job
    BY <1>2, <2>0, <2>3, Zenon
  <2> HIDE DEF Limit
  <2> QED
    BY <2>1, <2>2, <2>3, StepKinds, FlushFrame, Zenon DEF Quiet
<1> QED
  BY <1>1, <1>2, Zenon DEF BuffersBounded

-----------------------------------------------------------------------------
(* Where the rows are, what the ledger says of them, and flushes           *)

\* A row that was written is somewhere, or was taken by a named cause.
Accounted(p, r) ==
  \/ In(objects[p], r) \/ BufferedAt(p, r) \/ UploadingAt(p, r) \/ FlushedAt(p, r)
  \/ WrittenOff(p, r)

\* The paths a worker has collected are those of its record, store by store.
PathOfRecord(p, r, i) ==
  (\E t \in 0 .. now : p = PathOf(Order[i], ShardOf[r], t)) /\ Accounted(p, r)
Collected(j, i, p, r) ==
  /\ j.stage \in {"write", "upload", "commit"} /\ j.rec = r
  /\ i \in DOMAIN j.paths /\ j.paths[i] = p
PathsInv ==
  \A w \in Workers, i \in 1 .. Len(Order), p \in Paths, r \in Records :
    Collected(job[w], i, p, r) => PathOfRecord(p, r, i)

\* LedgerPathHeld, place by place.
Everywhere(r) == \A i \in 1 .. Len(Order) : \E p \in Paths : PathOfRecord(p, r, i)
LedgerInv ==
  \A p \in Paths, r \in Records :
    ledger[r] = p => p[1] = Order[1] /\ Accounted(p, r) /\ Everywhere(r)

\* While a flush is at store k, a row it has to reach is uploaded, on its way,
\* or in a buffer of a later store.
Reached(p, r) ==
  \/ In(objects[p], r) \/ UploadingAt(p, r)
  \/ <<"rotation", <<p, r>>>> \in gone \/ <<"overwrite", <<p, r>>>> \in gone
Awaited(p, r) ==
  \/ Reached(p, r) \/ FlushedAt(p, r)
  \/ BufferedAt(p, r) /\ \E i \in flush.k + 1 .. Len(Order) : Order[i] = p[1]
FlushInv ==
  flush.k \in 1 .. Len(Order) =>
    \A p \in Paths, r \in Records :
      <<p, r>> \in flush.pre /\ p[1] \notin flush.failed => Awaited(p, r)

IInv ==
  TypeOK /\ ShapeInv /\ BuffersBounded /\ PathsInv /\ LedgerInv /\ FlushInv
-----------------------------------------------------------------------------
(* Where a row goes                                                        *)

\* What puts an object.
LEMMA PutCases ==
  ASSUME TypeOK, ShapeInv, [Next]_vars
  PROVE  \/ UNCHANGED objects
         \/ \E q \in Paths : \E c : Put(q, c)
<1>1. ASSUME NEW w \in Workers, Upload(w)
      PROVE  \E q \in Paths : \E c : Put(q, c)
  BY <1>1, JobPathType, Zenon DEF Upload
<1>2. ASSUME FlushUpload
      PROVE  \E q \in Paths : \E c : Put(q, c)
  <2>1. PICK x \in flush.files : Put(PathOf(Order[flush.k], x[1], x[2].start), x[2].content)
    BY <1>2, Zenon DEF FlushUpload
  <2>2. x \in Shards \X Files /\ flush.k \in 1 .. Len(Order)
    BY <2>1, Zenon DEF TypeOK, ShapeInv
  <2>3. PathOf(Order[flush.k], x[1], x[2].start) \in Paths
    BY <2>2, StoreAt, PathType, Zenon DEF Files
  <2> QED
    BY <2>1, <2>3, Zenon
<1> QED
  BY <1>1, <1>2, StepKinds, WorkFrame, FlushFrame, EndFrame, Zenon DEF Quiet

LEMMA GoneGrows ==
  ASSUME [Next]_vars
  PROVE  gone \subseteq gone'
  BY StepKinds, WorkFrame, FlushFrame, EndFrame, Zenon DEF Quiet

\* A row in an object stays there, or another object of the name took it.
LEMMA StoredStep ==
  ASSUME TypeOK, ShapeInv, [Next]_vars, NEW p \in Paths, NEW r \in Records, In(objects[p], r)
  PROVE  In(objects'[p], r) \/ <<"overwrite", <<p, r>>>> \in gone'
<1>1. CASE UNCHANGED objects
  BY <1>1, Zenon
<1>2. ASSUME NEW q \in Paths, NEW c, Put(q, c)
      PROVE  In(objects'[p], r) \/ <<"overwrite", <<p, r>>>> \in gone'
  <2>1. CASE q # p
    <3>1. objects'[p] = objects[p]
      BY <1>2, <2>1, Zenon DEF Put, TypeOK
    <3> QED
      BY <3>1, Zenon
  <2>2. CASE q = p
    <3>1. objects'[p] = c /\ gone' = gone \cup Lost("overwrite", RowsOf(p, objects[p]) \ RowsOf(p, c))
      BY <1>2, <2>2, Zenon DEF Put, TypeOK
    <3>2. <<p, r>> \in RowsOf(p, objects[p]) /\ (<<p, r>> \in RowsOf(p, c) => In(c, r))
      BY RowIn, Zenon
    <3> QED
      BY <3>1, <3>2, Zenon DEF Lost
  <2> QED
    BY <2>1, <2>2, Zenon
<1> QED
  BY <1>1, <1>2, PutCases, Zenon

\* The process has ended, and the row with it.
Ended(p, r) ==
  <<"exit", <<p, r>>>> \in gone' /\ flush'.k = 0

LEMMA EndsTakes ==
  ASSUME Exit \/ Crash, NEW p \in Paths, NEW r \in Records,
         BufferedAt(p, r) \/ UploadingAt(p, r) \/ FlushedAt(p, r)
  PROVE  Ended(p, r)
<1>1. /\ flush'.k = 0
      /\ gone' = gone \cup Lost("exit", Buffered \cup Uploading \cup Flushed)
  BY EndFrame, Zenon
<1>2. <<p, r>> \in Buffered \cup Uploading \cup Flushed
  BY Places, Zenon
<1> QED
  BY <1>1, <1>2, Zenon DEF Ended, Lost

\* A row in a file that is being uploaded goes on, arrives, or is dropped.
LEMMA UploadingStep ==
  ASSUME TypeOK, ShapeInv, [Next]_vars, NEW p \in Paths, NEW r \in Records, UploadingAt(p, r)
  PROVE  \/ UploadingAt(p, r)' \/ In(objects'[p], r) \/ <<"rotation", <<p, r>>>> \in gone'
         \/ Ended(p, r)
<1>1. PICK v \in Workers : job[v].stage = "upload" /\ p = JobPath(v) /\ In(job[v].file.content, r)
  BY Zenon DEF UploadingAt
<1>2. ASSUME job'[v] = job[v]
      PROVE  UploadingAt(p, r)'
  BY <1>1, <1>2, Zenon DEF UploadingAt, JobPath
<1>3. CASE Exit \/ Crash
  BY <1>3, EndsTakes, Zenon
<1>4. CASE UNCHANGED job
  BY <1>2, <1>4, Zenon
<1>5. ASSUME NEW w \in Workers, Work(w), w # v
      PROVE  UploadingAt(p, r)'
  <2>1. PICK n \in Jobs : job' = [job EXCEPT ![w] = n]
    BY <1>5, WorkJob, Zenon
  <2>2. job'[v] = job[v]
    BY <1>5, <2>1, Zenon DEF TypeOK
  <2> QED
    BY <1>2, <2>2, Zenon
<1>6. ASSUME Work(v)
      PROVE  In(objects'[p], r) \/ <<"rotation", <<p, r>>>> \in gone'
  <2>1. CASE Upload(v)
    <3>1. objects'[p] = job[v].file.content
      BY <1>1, <2>1, Zenon DEF Upload, Put, TypeOK
    <3> QED
      BY <1>1, <3>1, Zenon
  <2>2. CASE UploadFails(v)
    <3>1. gone' = gone \cup Lost("rotation", RowsOf(p, job[v].file.content))
      BY <1>1, <2>2, Zenon DEF UploadFails
    <3>2. <<p, r>> \in RowsOf(p, job[v].file.content)
      BY <1>1, RowIn
    <3> QED
      BY <3>1, <3>2, Zenon DEF Lost
  <2>3. Upload(v) \/ UploadFails(v)
    BY <1>1, <1>6, IdleType, Zenon DEF Work, Begin, Write, Commit, Acknowledge
  <2> QED
    BY <2>1, <2>2, <2>3, Zenon
<1> QED
  BY <1>3, <1>4, <1>5, <1>6, StepKinds, FlushFrame, Zenon DEF Quiet

\* A row of a file that is being flushed waits, arrives, or is dropped with
\* the store marked as failed.
LEMMA FlushedStep ==
  ASSUME TypeOK, ShapeInv, [Next]_vars, NEW p \in Paths, NEW r \in Records, FlushedAt(p, r)
  PROVE  \/ FlushedAt(p, r)' \/ In(objects'[p], r)
         \/ <<"flush", <<p, r>>>> \in gone' /\ p[1] \in flush'.failed
         \/ Ended(p, r)
<1>1. PICK x \in flush.files :
        p = PathOf(Order[flush.k], x[1], x[2].start) /\ In(x[2].content, r)
  BY Zenon DEF FlushedAt
<1>2. flush.k \in 1 .. Len(Order) /\ flush.files # {}
  BY <1>1, Zenon DEF ShapeInv
<1>3. flush \in [k : 0 .. Len(Order) + 1, files : SUBSET (Shards \X Files),
                 pre : SUBSET Rows, failed : SUBSET Stores]
  BY Zenon DEF TypeOK
<1>4. CASE Exit \/ Crash
  BY <1>4, EndsTakes, Zenon
<1>5. CASE UNCHANGED flush
  BY <1>1, <1>5, Zenon DEF FlushedAt
<1>6. CASE FlushUpload
  <2>1. PICK y \in flush.files :
          /\ Put(PathOf(Order[flush.k], y[1], y[2].start), y[2].content)
          /\ flush' = [flush EXCEPT !.files = @ \ {y}]
    BY <1>6, Zenon DEF FlushUpload
  <2>2. CASE x = y
    <3>1. objects'[p] = x[2].content
      BY <1>1, <2>1, <2>2, Zenon DEF Put, TypeOK
    <3> QED
      BY <1>1, <3>1, Zenon
  <2>3. CASE x # y
    <3>1. flush'.k = flush.k /\ x \in flush'.files
      BY <1>1, <1>3, <2>1, <2>3, Zenon
    <3> QED
      BY <1>1, <3>1, Zenon DEF FlushedAt
  <2> QED
    BY <2>2, <2>3, Zenon
<1>7. CASE FlushUploadFails
  <2>1. /\ gone' = gone \cup Lost("flush", Flushed)
        /\ flush' = [flush EXCEPT !.files = {}, !.failed = @ \cup {Order[flush.k]}]
    BY <1>7, Zenon DEF FlushUploadFails
  <2>2. <<p, r>> \in Flushed
    BY Places, Zenon
  <2>3. <<"flush", <<p, r>>>> \in gone'
    BY <2>1, <2>2, Zenon DEF Lost
  <2>4. p[1] = Order[flush.k] /\ Order[flush.k] \in flush'.failed
    BY <1>1, <1>3, <2>1, Zenon DEF PathOf
  <2> QED
    BY <2>3, <2>4, Zenon
<1>8. ~FlushBegin /\ ~FlushNext
  BY <1>2 DEF FlushBegin, FlushNext
<1> QED
  BY <1>4, <1>5, <1>6, <1>7, <1>8, StepKinds, WorkFrame, Zenon DEF Quiet

\* A drain takes the rows of its store, and only those.
LEMMA DrainTakes ==
  ASSUME TypeOK, NEW i \in 1 .. Len(Order), NEW pre, NEW failed, Drain(i, pre, failed),
         NEW p \in Paths, NEW r \in Records, BufferedAt(p, r)
  PROVE  IF p[1] = Order[i] THEN FlushedAt(p, r)' ELSE BufferedAt(p, r)'
<1>1. PICK s \in Stores, k \in Shards :
        p = PathOf(s, k, active[s][k].start) /\ In(active[s][k].content, r)
  BY Zenon DEF BufferedAt
<1>2. p[1] = s /\ active[s][k] # NoFile
  BY <1>1, NoFileType, Zenon DEF PathOf
<1>3. CASE s = Order[i]
  <2>1. flush'.k = i /\ <<k, active[s][k]>> \in flush'.files
    BY <1>2, <1>3, Zenon DEF Drain
  <2> QED
    BY <1>1, <1>2, <1>3, <2>1, Zenon DEF FlushedAt
<1>4. CASE s # Order[i]
  <2>1. active'[s] = active[s]
    BY <1>4, Zenon DEF Drain, TypeOK
  <2> QED
    BY <1>1, <1>2, <1>4, <2>1, Zenon DEF BufferedAt
<1> QED
  BY <1>2, <1>3, <1>4, Zenon

\* A buffered row stays, is rotated out with its file, or is drained.
LEMMA BufferedStep ==
  ASSUME TypeOK, ShapeInv, [Next]_vars, NEW p \in Paths, NEW r \in Records, BufferedAt(p, r)
  PROVE  \/ BufferedAt(p, r)' /\ UNCHANGED <<flush.k, flush.pre>>
         \/ UploadingAt(p, r)' \/ Ended(p, r)
         \/ (FlushBegin \/ FlushNext) /\ (BufferedAt(p, r)' \/ FlushedAt(p, r)')
<1>1. PICK s \in Stores, k \in Shards :
        p = PathOf(s, k, active[s][k].start) /\ In(active[s][k].content, r)
  BY Zenon DEF BufferedAt
<1>2. flush \in [k : 0 .. Len(Order) + 1, files : SUBSET (Shards \X Files),
                 pre : SUBSET Rows, failed : SUBSET Stores]
  BY Zenon DEF TypeOK
<1>3. CASE Exit \/ Crash
  BY <1>3, EndsTakes, Zenon
<1>4. ASSUME active'[s][k] = active[s][k]
      PROVE  BufferedAt(p, r)'
  BY <1>1, <1>4, Zenon DEF BufferedAt
<1>5. ASSUME NEW w \in Workers, Write(w)
      PROVE  BufferedAt(p, r)' \/ UploadingAt(p, r)'
  <2> DEFINE z == ShardOf[job[w].rec]
  <2>1. /\ job[w].stage = "write" /\ StoreOf(w) \in Stores /\ z \in Shards
        /\ \A q : In(active[StoreOf(w)][z].content, q) =>
             In(Grown(w).content, q) /\ Grown(w).start = active[StoreOf(w)][z].start
    BY <1>5, GrownFile, Zenon DEF Write
  <2>2. CASE s = StoreOf(w) /\ k = z
    <3>1. p = PathOf(s, k, Grown(w).start) /\ In(Grown(w).content, r)
      BY <1>1, <2>1, <2>2, Zenon
    <3>2. CASE Rotates(w)
      <4> DEFINE n == [job[w] EXCEPT !.stage = "upload", !.file = Grown(w)]
      <4>1. n.stage = "upload" /\ n.file = Grown(w) /\ n.rec = job[w].rec /\ n.k = job[w].k
        <5>1. job[w] \in Jobs /\ Grown(w) \in Files
          BY <2>1, GrownFile, Zenon DEF TypeOK
        <5> QED
          BY <5>1, UploadJob, Zenon
      <4>2. job'[w] = n
        BY <3>2, Zenon DEF Rotates, TypeOK
      <4>3. p = PathOf(Order[job'[w].k], ShardOf[job'[w].rec], job'[w].file.start)
        BY <2>2, <3>1, <4>1, <4>2, Zenon DEF StoreOf
      <4>4. job'[w].stage = "upload" /\ In(job'[w].file.content, r)
        BY <3>1, <4>1, <4>2, Zenon
      <4> QED
        BY <4>3, <4>4, Zenon DEF UploadingAt, JobPath
    <3>3. CASE Buffers(w)
      <4>1. active'[s][k] = Grown(w)
        BY <2>2, <3>3, Zenon DEF Buffers, TypeOK
      <4> QED
        BY <3>1, <4>1, Zenon DEF BufferedAt
    <3> QED
      BY <1>5, <3>2, <3>3, WriteOutcomes, Zenon
  <2>3. CASE ~(s = StoreOf(w) /\ k = z)
    <3>1. PICK f : active' = [active EXCEPT ![StoreOf(w)][z] = f]
      BY <1>5, WriteOutcomes, Zenon DEF Rotates, Buffers
    <3>2. active'[s][k] = active[s][k]
      <4>1. CASE s # StoreOf(w)
        BY <2>1, <3>1, <4>1, Zenon DEF TypeOK
      <4>2. CASE s = StoreOf(w) /\ k # z
        BY <2>1, <3>1, <4>2, Zenon DEF TypeOK
      <4> QED
        BY <2>3, <4>1, <4>2, Zenon
    <3> QED
      BY <1>4, <3>2, Zenon
  <2> QED
    BY <2>2, <2>3, Zenon
<1>6. CASE \E w \in Workers : Write(w)
  <2>1. UNCHANGED flush
    BY <1>6, Zenon DEF Write
  <2> QED
    BY <1>5, <1>6, <2>1, Zenon
<1>7. CASE FlushBegin
  <2>1. Drain(1, Buffered, {})
    BY <1>7, Zenon DEF FlushBegin
  <2> QED
    BY <1>7, <2>1, DrainTakes, OrderLen, Zenon
<1>8. CASE FlushNext
  <2>1. CASE active' = active
    BY <1>4, <1>8, <2>1, Zenon
  <2>2. CASE active' # active
    <3>1. /\ flush.k \in 1 .. Len(Order) /\ flush.k < Len(Order)
          /\ Drain(flush.k + 1, flush.pre, flush.failed)
      BY <1>8, <2>2, Zenon DEF FlushNext
    <3>2. flush.k + 1 \in 1 .. Len(Order)
      BY <3>1, OrderLen
    <3> QED
      BY <1>8, <3>1, <3>2, DrainTakes, Zenon
  <2> QED
    BY <2>1, <2>2, Zenon
<1>9. CASE UNCHANGED active /\ (UNCHANGED flush \/ FlushUpload \/ FlushUploadFails)
  <2>1. flush'.k = flush.k /\ flush'.pre = flush.pre
    BY <1>2, <1>9, Zenon DEF FlushUpload, FlushUploadFails
  <2> QED
    BY <1>4, <1>9, <2>1, Zenon
<1> QED
  BY <1>3, <1>6, <1>7, <1>8, <1>9, StepKinds, WorkFrame, FlushFrame, Zenon DEF Quiet

\* No row drops out of sight.
LEMMA AccountedStays ==
  ASSUME TypeOK, ShapeInv, [Next]_vars, NEW p \in Paths, NEW r \in Records, Accounted(p, r)
  PROVE  Accounted(p, r)'
<1>0. (\E c \in Causes : <<c, <<p, r>>>> \in gone') => Accounted(p, r)'
  BY Zenon DEF Accounted, WrittenOff
<1>1. {"rotation", "flush", "overwrite", "exit"} = Causes
  BY Zenon DEF Causes
<1>2. ASSUME Ended(p, r) PROVE Accounted(p, r)'
  BY <1>0, <1>1, <1>2, Zenon DEF Ended
<1>3. CASE In(objects[p], r)
  <2>1. In(objects'[p], r) \/ <<"overwrite", <<p, r>>>> \in gone'
    BY <1>3, StoredStep, Zenon
  <2> QED
    BY <1>0, <1>1, <2>1, Zenon DEF Accounted
<1>4. CASE UploadingAt(p, r)
  <2>1. \/ UploadingAt(p, r)' \/ In(objects'[p], r) \/ <<"rotation", <<p, r>>>> \in gone'
        \/ Ended(p, r)
    BY <1>4, UploadingStep, Zenon
  <2> QED
    BY <1>0, <1>1, <1>2, <2>1, Zenon DEF Accounted
<1>5. CASE FlushedAt(p, r)
  <2>1. \/ FlushedAt(p, r)' \/ In(objects'[p], r) \/ <<"flush", <<p, r>>>> \in gone'
        \/ Ended(p, r)
    BY <1>5, FlushedStep, Zenon
  <2> QED
    BY <1>0, <1>1, <1>2, <2>1, Zenon DEF Accounted
<1>6. CASE BufferedAt(p, r)
  <2>1. BufferedAt(p, r)' \/ UploadingAt(p, r)' \/ FlushedAt(p, r)' \/ Ended(p, r)
    BY <1>6, BufferedStep, Zenon
  <2> QED
    BY <1>2, <2>1, Zenon DEF Accounted
<1>7. CASE WrittenOff(p, r)
  BY <1>0, <1>7, GoneGrows, Zenon DEF WrittenOff
<1> QED
  BY <1>3, <1>4, <1>5, <1>6, <1>7, Zenon DEF Accounted
-----------------------------------------------------------------------------
(* The paths of a record, and the ledger                                   *)

LEMMA NowGrows ==
  ASSUME TypeOK, [Next]_vars
  PROVE  \A t \in 0 .. now : t \in 0 .. now'
<1>1. now' = now \/ now' = now + 1
  BY StepKinds, WorkFrame, FlushFrame, EndFrame, Zenon DEF Quiet
<1>2. now \in Nat
  BY RotationAssumption DEF TypeOK
<1> QED
  BY <1>1, <1>2

LEMMA PathStays ==
  ASSUME TypeOK, ShapeInv, [Next]_vars, NEW p \in Paths, NEW r \in Records, NEW i,
         PathOfRecord(p, r, i)
  PROVE  PathOfRecord(p, r, i)'
<1>1. Accounted(p, r)'
  BY AccountedStays, Zenon DEF PathOfRecord
<1>2. \E t \in 0 .. now' : p = PathOf(Order[i], ShardOf[r], t)
  BY NowGrows, Zenon DEF PathOfRecord
<1> QED
  BY <1>1, <1>2, Zenon DEF PathOfRecord

\* The path a store returns is that of the file the row went into.
LEMMA WroteAt ==
  ASSUME TypeOK, ShapeInv, NEW w \in Workers, NEW p \in Paths, NEW r \in Records, NEW i,
         job[w].rec = r, job[w].k = i,
         \/ Write(w) /\ Buffers(w) /\ p = PathOf(StoreOf(w), ShardOf[r], Grown(w).start)
         \/ Upload(w) /\ p = JobPath(w)
  PROVE  PathOfRecord(p, r, i)'
<1>1. CASE Write(w) /\ Buffers(w) /\ p = PathOf(StoreOf(w), ShardOf[r], Grown(w).start)
  <2>1. /\ StoreOf(w) \in Stores /\ ShardOf[r] \in Shards /\ Grown(w) \in Files
        /\ Grown(w).start <= now /\ In(Grown(w).content, r)
    BY <1>1, GrownFile, Zenon DEF Write
  <2>2. active'[StoreOf(w)][ShardOf[r]] = Grown(w) /\ now' = now
    BY <1>1, <2>1, Zenon DEF Buffers, Write, TypeOK
  <2>3. BufferedAt(p, r)'
    BY <1>1, <2>1, <2>2, Zenon DEF BufferedAt
  <2>4. Grown(w).start \in 0 .. now'
    <3>1. Grown(w).start \in 0 .. MaxTime
      BY <2>1, Zenon DEF Files
    <3>2. now \in Nat
      BY RotationAssumption DEF TypeOK
    <3> QED
      BY <2>1, <2>2, <3>1, <3>2, RotationAssumption
  <2>5. p = PathOf(Order[i], ShardOf[r], Grown(w).start)
    BY <1>1, Zenon DEF StoreOf
  <2> QED
    BY <2>3, <2>4, <2>5, Zenon DEF PathOfRecord, Accounted
<1>2. CASE Upload(w) /\ p = JobPath(w)
  <2>1. /\ job[w].stage = "upload" /\ In(job[w].file.content, r) /\ now' = now
        /\ objects' = [objects EXCEPT ![p] = job[w].file.content]
    BY <1>2, Zenon DEF Upload, Put, ShapeInv, Shaped
  <2>2. In(objects'[p], r)
    BY <2>1, Zenon DEF TypeOK
  <2>3. job[w].file.start \in 0 .. now' /\ p = PathOf(Order[i], ShardOf[r], job[w].file.start)
    BY <1>2, <2>1, JobPathType, Zenon DEF StoreOf
  <2> QED
    BY <2>2, <2>3, Zenon DEF PathOfRecord, Accounted
<1> QED
  BY <1>1, <1>2, Zenon

\* What a worker's step collects is what it had, or the path it was returned.
LEMMA WorkCollects ==
  ASSUME TypeOK, ShapeInv, NEW w \in Workers, Work(w),
         NEW i \in 1 .. Len(Order), NEW p \in Paths, NEW r \in Records,
         Collected(job'[w], i, p, r)
  PROVE  \/ Collected(job[w], i, p, r)
         \/ /\ job[w].rec = r /\ job[w].k = i
            /\ \/ Write(w) /\ Buffers(w) /\ p = PathOf(StoreOf(w), ShardOf[r], Grown(w).start)
               \/ Upload(w) /\ p = JobPath(w)
<1>0. job[w] \in Jobs /\ Shaped(job[w], now) /\ now \in Nat /\ job \in [Workers -> Jobs]
  BY RotationAssumption DEF TypeOK, ShapeInv
<1>1. ASSUME NEW q \in Paths, job[w].stage \in {"write", "upload"},
             job' = [job EXCEPT ![w] = Wrote(job[w], q)]
      PROVE  \/ Collected(job[w], i, p, r)
             \/ job[w].rec = r /\ job[w].k = i /\ p = q
  <2> DEFINE n == Wrote(job[w], q)
  <2>1. /\ job[w].rec \in Records /\ Len(job[w].paths) = job[w].k - 1
        /\ job[w].k \in 1 .. Len(Order) /\ job[w].paths \in Seq(Paths)
    BY <1>0, <1>1, Zenon DEF Shaped, Jobs
  <2>2. n.rec = job[w].rec /\ n.paths = Append(job[w].paths, q)
    BY <1>0, <2>1, WroteJob, Zenon
  <2>3. job'[w] = n
    BY <1>0, <1>1, Zenon
  <2> HIDE DEF n
  <2>4. PICK c \in Seq(Paths) : c = job[w].paths
    BY <2>1, Zenon
  <2>5. /\ \A m \in 1 .. Len(c) : Append(c, q)[m] = c[m]
        /\ Append(c, q)[Len(c) + 1] = q /\ Len(c) \in Nat
        /\ DOMAIN c = 1 .. Len(c) /\ DOMAIN Append(c, q) = 1 .. Len(c) + 1
    BY AppendFacts
  <2>6. n.rec = r /\ i \in 1 .. Len(c) + 1 /\ Append(c, q)[i] = p
    BY <2>2, <2>3, <2>4, <2>5, Zenon DEF Collected
  <2>7. CASE i \in 1 .. Len(c)
    BY <1>1, <2>2, <2>4, <2>5, <2>6, <2>7, Zenon DEF Collected
  <2>8. CASE i \notin 1 .. Len(c)
    <3>1. i = Len(c) + 1
      BY <2>5, <2>6, <2>8
    <3>2. i = job[w].k
      BY <2>1, <2>4, <3>1, OrderLen
    <3> QED
      BY <2>2, <2>5, <2>6, <3>1, <3>2, Zenon
  <2> QED
    BY <2>7, <2>8, Zenon
<1>2. ASSUME NEW x \in {"write", "ack"}, NEW q \in Records,
             job' = [job EXCEPT ![w] = [Idle EXCEPT !.stage = x, !.rec = q]]
      PROVE  FALSE
  <2>1. [Idle EXCEPT !.stage = x, !.rec = q].paths = << >>
    BY IdleType, Zenon DEF Jobs
  <2>2. job'[w].paths = << >>
    BY <1>0, <1>2, <2>1, Zenon
  <2> QED
    BY <2>2 DEF Collected
<1>3. \A q \in Records : ~Begin(w, q)
  BY <1>2, Zenon DEF Begin
<1>4. ~UploadFails(w)
  BY <1>2, JobPathType, Zenon DEF UploadFails
<1>5. ~Commit(w)
  <2>1. job[w].stage = "commit" => job[w].rec \in Records
    BY <1>0, Zenon DEF Shaped
  <2> QED
    BY <1>2, <2>1, Zenon DEF Commit
<1>6. ~Acknowledge(w)
  BY <1>0, IdleType, Zenon DEF Acknowledge, Collected
<1>7. CASE Upload(w)
  <2>1. job[w].stage = "upload" /\ job' = [job EXCEPT ![w] = Wrote(job[w], JobPath(w))]
    BY <1>7, Zenon DEF Upload
  <2>2. JobPath(w) \in Paths
    BY <2>1, JobPathType, Zenon
  <2> QED
    BY <1>1, <1>7, <2>1, <2>2, Zenon
<1>8. CASE Write(w)
  <2>0. job[w].stage = "write"
    BY <1>8, Zenon DEF Write
  <2>1. /\ Grown(w) \in Files /\ StoreOf(w) \in Stores /\ ShardOf[job[w].rec] \in Shards
        /\ Grown(w).start \in 0 .. MaxTime
    BY <2>0, GrownFile, Zenon DEF Files
  <2>2. CASE Buffers(w)
    <3> DEFINE q == PathOf(StoreOf(w), ShardOf[job[w].rec], Grown(w).start)
    <3>1. q \in Paths /\ job' = [job EXCEPT ![w] = Wrote(job[w], q)]
      BY <2>1, <2>2, PathType, Zenon DEF Buffers
    <3>2. Collected(job[w], i, p, r) \/ (job[w].rec = r /\ job[w].k = i /\ p = q)
      BY <1>1, <2>0, <3>1, Zenon
    <3> QED
      BY <1>8, <2>2, <3>2, Zenon
  <2>3. CASE Rotates(w)
    <3> DEFINE n == [job[w] EXCEPT !.stage = "upload", !.file = Grown(w)]
    <3>1. n.rec = job[w].rec /\ n.paths = job[w].paths
      BY <1>0, <2>1, UploadJob, Zenon
    <3>2. job'[w] = n
      BY <1>0, <2>3, Zenon DEF Rotates
    <3> QED
      BY <2>0, <3>1, <3>2, Zenon DEF Collected
  <2> QED
    BY <1>8, <2>2, <2>3, WriteOutcomes, Zenon
<1> QED
  BY <1>3, <1>4, <1>5, <1>6, <1>7, <1>8, Zenon DEF Work

LEMMA PathsStep ==
  ASSUME TypeOK, ShapeInv, PathsInv, [Next]_vars
  PROVE  PathsInv'
<1> SUFFICES ASSUME NEW v \in Workers, NEW i \in 1 .. Len(Order), NEW p \in Paths,
                    NEW r \in Records, Collected(job'[v], i, p, r)
             PROVE  PathOfRecord(p, r, i)'
  BY Zenon DEF PathsInv
<1>1. ASSUME Collected(job[v], i, p, r)
      PROVE  PathOfRecord(p, r, i)'
  BY <1>1, PathStays, Zenon DEF PathsInv
<1>2. ASSUME NEW w \in Workers, Work(w)
      PROVE  PathOfRecord(p, r, i)'
  <2>1. CASE w = v
    BY <1>1, <1>2, <2>1, WorkCollects, WroteAt, Zenon
  <2>2. CASE w # v
    <3>1. PICK n \in Jobs : job' = [job EXCEPT ![w] = n]
      BY <1>2, WorkJob, Zenon
    <3>2. job'[v] = job[v]
      BY <2>2, <3>1, Zenon DEF TypeOK
    <3> QED
      BY <1>1, <3>2, Zenon
  <2> QED
    BY <2>1, <2>2, Zenon
<1>3. CASE Exit \/ Crash
  <2>1. job'[v] = Idle
    BY <1>3, EndFrame, Zenon
  <2> QED
    BY <2>1, IdleType, Zenon DEF Collected
<1>4. CASE UNCHANGED job
  BY <1>1, <1>4, Zenon
<1> QED
  BY <1>2, <1>3, <1>4, StepKinds, FlushFrame, Zenon DEF Quiet

LEMMA EverywhereStays ==
  ASSUME TypeOK, ShapeInv, [Next]_vars, NEW r \in Records, Everywhere(r)
  PROVE  Everywhere(r)'
  BY PathStays, Zenon DEF Everywhere

LEMMA LedgerStep ==
  ASSUME TypeOK, ShapeInv, PathsInv, LedgerInv, [Next]_vars
  PROVE  LedgerInv'
<1> SUFFICES ASSUME NEW p \in Paths, NEW r \in Records, ledger'[r] = p
             PROVE  p[1] = Order[1] /\ Accounted(p, r)' /\ Everywhere(r)'
  BY Zenon DEF LedgerInv
<1>1. CASE ledger'[r] = ledger[r]
  BY <1>1, AccountedStays, EverywhereStays, Zenon DEF LedgerInv
<1>2. ASSUME NEW w \in Workers, Commit(w), ledger'[r] # ledger[r]
      PROVE  p[1] = Order[1] /\ Accounted(p, r)' /\ Everywhere(r)'
  <2>1. job[w] \in Jobs /\ Shaped(job[w], now) /\ job[w].stage = "commit"
    BY <1>2, Zenon DEF TypeOK, ShapeInv, Commit
  <2>2. job[w].rec \in Records /\ job[w].paths \in Seq(Paths) /\ Len(job[w].paths) = Len(Order)
    BY <2>1, Zenon DEF Shaped, Jobs
  <2>3. r = job[w].rec /\ p = job[w].paths[1]
    BY <1>2, <2>2, Zenon DEF Commit, TypeOK
  <2>4. DOMAIN job[w].paths = 1 .. Len(Order)
    BY <2>2, LenProperties, Zenon
  <2>5. ASSUME NEW i \in 1 .. Len(Order)
        PROVE  job[w].paths[i] \in Paths /\ PathOfRecord(job[w].paths[i], r, i)
    <3>1. job[w].paths[i] \in Paths
      BY <2>2, ElementOfSeq, Zenon
    <3>2. Collected(job[w], i, job[w].paths[i], r)
      BY <2>1, <2>3, <2>4, Zenon DEF Collected
    <3> QED
      BY <3>1, <3>2, Zenon DEF PathsInv
  <2>6. Everywhere(r)
    BY <2>5, Zenon DEF Everywhere
  <2>7. PathOfRecord(p, r, 1)
    BY <2>3, <2>5, OrderLen, Zenon
  <2>8. p[1] = Order[1] /\ Accounted(p, r)
    BY <2>7 DEF PathOfRecord, PathOf
  <2> QED
    BY <2>6, <2>8, AccountedStays, EverywhereStays, Zenon
<1>3. (\E w \in Workers : Commit(w)) \/ UNCHANGED ledger
  BY StepKinds, WorkFrame, FlushFrame, EndFrame, Zenon DEF Quiet
<1> QED
  BY <1>1, <1>2, <1>3, Zenon
-----------------------------------------------------------------------------
(* The flush                                                               *)

\* What a flush has reached stays reached while the process lives.
LEMMA ReachedStays ==
  ASSUME TypeOK, ShapeInv, [Next]_vars, NEW p \in Paths, NEW r \in Records, Reached(p, r)
  PROVE  Reached(p, r)' \/ flush'.k = 0
<1>1. CASE In(objects[p], r)
  BY <1>1, StoredStep, Zenon DEF Reached
<1>2. CASE UploadingAt(p, r)
  BY <1>2, UploadingStep, Zenon DEF Reached, Ended
<1>3. CASE <<"rotation", <<p, r>>>> \in gone \/ <<"overwrite", <<p, r>>>> \in gone
  BY <1>3, GoneGrows, Zenon DEF Reached
<1> QED
  BY <1>1, <1>2, <1>3, Zenon DEF Reached

\* Between two stores nothing the flush has to reach is passed over.
LEMMA DrainAwaits ==
  ASSUME TypeOK, NEW n \in 1 .. Len(Order), NEW pre, NEW failed, Drain(n, pre, failed),
         NEW p \in Paths, NEW r \in Records, BufferedAt(p, r),
         NEW i \in n .. Len(Order), Order[i] = p[1]
  PROVE  Awaited(p, r)'
<1>1. CASE p[1] = Order[n]
  BY <1>1, DrainTakes, Zenon DEF Awaited
<1>2. CASE p[1] # Order[n]
  <2>1. BufferedAt(p, r)' /\ flush'.k = n
    BY <1>2, DrainTakes, Zenon DEF Drain
  <2>2. i \in n + 1 .. Len(Order)
    BY <1>2, OrderLen
  <2> QED
    BY <2>1, <2>2, Zenon DEF Awaited
<1> QED
  BY <1>1, <1>2, Zenon

LEMMA FlushStep ==
  ASSUME TypeOK, ShapeInv, FlushInv, [Next]_vars
  PROVE  FlushInv'
<1> SUFFICES ASSUME flush'.k \in 1 .. Len(Order), NEW p \in Paths, NEW r \in Records,
                    <<p, r>> \in flush'.pre, p[1] \notin flush'.failed
             PROVE  Awaited(p, r)'
  BY Zenon DEF FlushInv
<1>0. /\ flush \in [k : 0 .. Len(Order) + 1, files : SUBSET (Shards \X Files),
                    pre : SUBSET Rows, failed : SUBSET Stores]
      /\ flush'.k # 0
  BY OrderLen DEF TypeOK
<1>1. CASE FlushBegin
  <2>1. Drain(1, Buffered, {})
    BY <1>1, Zenon DEF FlushBegin
  <2>2. BufferedAt(p, r)
    BY <2>1, Places, Zenon DEF Drain
  <2>3. \E i \in 1 .. Len(Order) : Order[i] = p[1]
    BY <2>2 DEF BufferedAt, PathOf, Stores
  <2> QED
    BY <2>1, <2>2, <2>3, DrainAwaits, OrderLen, Zenon
<1>2. CASE FlushNext
  <2>1. /\ flush.k \in 1 .. Len(Order) /\ flush.k < Len(Order) /\ flush.files = {}
        /\ Drain(flush.k + 1, flush.pre, flush.failed)
    <3>1. [NoFlush EXCEPT !.k = Len(Order) + 1].k = Len(Order) + 1
      BY Zenon DEF NoFlush
    <3>2. Len(Order) + 1 \notin 1 .. Len(Order)
      BY OrderLen
    <3> QED
      BY <1>2, <3>1, <3>2, Zenon DEF FlushNext
  <2>2. flush'.pre = flush.pre /\ flush'.failed = flush.failed
    BY <2>1, Zenon DEF Drain
  <2>3. Awaited(p, r) /\ ~FlushedAt(p, r)
    BY <2>1, <2>2, Zenon DEF FlushInv, FlushedAt
  <2>4. CASE Reached(p, r)
    BY <1>0, <2>4, ReachedStays, Zenon DEF Awaited
  <2>5. CASE BufferedAt(p, r) /\ \E i \in flush.k + 1 .. Len(Order) : Order[i] = p[1]
    <3>1. flush.k + 1 \in 1 .. Len(Order)
      BY <2>1, OrderLen
    <3> QED
      BY <2>1, <2>5, <3>1, DrainAwaits, Zenon
  <2> QED
    BY <2>3, <2>4, <2>5, Zenon DEF Awaited
<1>3. CASE ~FlushBegin /\ ~FlushNext
  <2>1. /\ flush'.k = flush.k /\ flush'.pre = flush.pre
        /\ flush.failed \subseteq flush'.failed
    <3>1. CASE UNCHANGED flush
      BY <3>1, Zenon
    <3>2. CASE FlushUpload \/ FlushUploadFails
      BY <1>0, <3>2, Zenon DEF FlushUpload, FlushUploadFails
    <3>3. ~Exit /\ ~Crash
      BY <1>0, EndFrame, Zenon
    <3> QED
      BY <1>3, <3>1, <3>2, <3>3, StepKinds, WorkFrame, Zenon DEF Quiet
  <2>2. Awaited(p, r)
    BY <2>1, Zenon DEF FlushInv
  <2>3. CASE Reached(p, r)
    BY <1>0, <2>3, ReachedStays, Zenon DEF Awaited
  <2>4. CASE FlushedAt(p, r)
    <3>1. FlushedAt(p, r)' \/ In(objects'[p], r)
      BY <1>0, <2>4, FlushedStep, Zenon DEF Ended
    <3> QED
      BY <3>1, Zenon DEF Awaited, Reached
  <2>5. CASE BufferedAt(p, r) /\ \E i \in flush.k + 1 .. Len(Order) : Order[i] = p[1]
    <3>1. BufferedAt(p, r)' \/ UploadingAt(p, r)'
      BY <1>0, <1>3, <2>5, BufferedStep, Zenon DEF Ended
    <3> QED
      BY <2>1, <2>5, <3>1, Zenon DEF Awaited, Reached
  <2> QED
    BY <2>2, <2>3, <2>4, <2>5, Zenon DEF Awaited
<1> QED
  BY <1>1, <1>2, <1>3, Zenon

-----------------------------------------------------------------------------
(* The theorems                                                            *)

LEMMA StartHolds ==
  ASSUME Init
  PROVE  IInv
<1>1. TypeOK /\ ShapeInv
  BY TypeInit, Zenon
<1>2. BuffersBounded
  BY IdleType, Zenon DEF Init, BuffersBounded
<1>3. PathsInv
  BY IdleType, Zenon DEF Init, PathsInv, Collected
<1>4. LedgerInv
  <2>1. NoPath \notin Paths
    BY DEF NoPath, Paths
  <2> QED
    BY <2>1, Zenon DEF Init, LedgerInv
<1>5. FlushInv
  BY OrderLen, Zenon DEF Init, FlushInv, NoFlush
<1> QED
  BY <1>1, <1>2, <1>3, <1>4, <1>5, Zenon DEF IInv

\* The inductive invariant: rows, files, collected paths, ledger and flush
\* agree after every step of the stores, the workers and the process.
THEOREM Invariance == Spec => []IInv
<1>1. Init => IInv
  BY StartHolds, Zenon
<1>2. IInv /\ [Next]_vars => IInv'
  BY TypeStep, BoundStep, PathsStep, LedgerStep, FlushStep, Zenon DEF IInv
<1> QED
  BY <1>1, <1>2, PTL DEF Spec

\* Whatever the rotation policy, an open file stays below its limits and a
\* file being uploaded never exceeds the row limit, so that a crash takes no
\* more than that per shard and worker.
THEOREM BoundsCorrect == Spec => []BuffersBounded
<1>1. IInv => BuffersBounded
  BY Zenon DEF IInv
<1> QED
  BY <1>1, Invariance, PTL

LEMMA AccountedHeld ==
  ASSUME NEW p \in Paths, NEW r \in Records, Accounted(p, r)
  PROVE  Kept(p, r) \/ WrittenOff(p, r)
  BY Places, Zenon DEF Accounted, Kept

\* However writers of one shard, rotations, failed uploads, a flush, crashes
\* and restarts interleave, the path finalize commits to the ledger is the
\* primary's path of the record, and in every store the row is in the object
\* of such a path, on its way there, or taken by a cause the model names.
THEOREM LedgerCorrect == Spec => []LedgerPathHeld
<1>1. ASSUME IInv, NEW r \in Records, ledger[r] # NoPath
      PROVE  /\ ledger[r][1] = Order[1]
             /\ Kept(ledger[r], r) \/ WrittenOff(ledger[r], r)
             /\ \A s \in Stores : \E t \in 0 .. now :
                  Kept(PathOf(s, ShardOf[r], t), r) \/ WrittenOff(PathOf(s, ShardOf[r], t), r)
  <2>1. ledger[r] \in Paths
    BY <1>1, Zenon DEF IInv, TypeOK
  <2>2. ledger[r][1] = Order[1] /\ Accounted(ledger[r], r) /\ Everywhere(r)
    BY <1>1, <2>1, Zenon DEF IInv, LedgerInv
  <2>3. Kept(ledger[r], r) \/ WrittenOff(ledger[r], r)
    BY <2>1, <2>2, AccountedHeld, Zenon
  <2>4. ASSUME NEW s \in Stores
        PROVE  \E t \in 0 .. now :
                 Kept(PathOf(s, ShardOf[r], t), r) \/ WrittenOff(PathOf(s, ShardOf[r], t), r)
    <3>1. PICK i \in 1 .. Len(Order) : s = Order[i]
      BY Zenon DEF Stores
    <3>2. PICK p \in Paths : PathOfRecord(p, r, i)
      BY <2>2, Zenon DEF Everywhere
    <3>3. PICK t \in 0 .. now : p = PathOf(s, ShardOf[r], t)
      BY <3>1, <3>2, Zenon DEF PathOfRecord
    <3>4. Kept(p, r) \/ WrittenOff(p, r)
      BY <3>2, AccountedHeld, Zenon DEF PathOfRecord
    <3> QED
      BY <3>3, <3>4, Zenon
  <2> QED
    BY <2>2, <2>3, <2>4, Zenon
<1>2. IInv => LedgerPathHeld
  BY <1>1, Zenon DEF LedgerPathHeld
<1> QED
  BY <1>2, Invariance, PTL

\* When MultiStore::flush returns, no row that was buffered when it was called
\* is still in a buffer of a store that did not fail, even if an earlier store
\* failed and workers kept writing meanwhile.
THEOREM FlushCorrect == Spec => FlushReachesEveryStore
<1> DEFINE Arrived(x) ==
             \/ In(objects[x[1]], x[2]) \/ x \in Uploading
             \/ <<"rotation", x>> \in gone \/ <<"overwrite", x>> \in gone
           Returned == flush.k <= Len(Order) /\ flush'.k = Len(Order) + 1
<1>1. ASSUME IInv, [Next]_vars, Returned
      PROVE  \A x \in {y \in flush.pre : y[1][1] \notin flush.failed} : Arrived(x)
  <2>0. /\ flush \in [k : 0 .. Len(Order) + 1, files : SUBSET (Shards \X Files),
                      pre : SUBSET Rows, failed : SUBSET Stores]
        /\ flush'.k # flush.k /\ flush'.k # 0 /\ flush'.k \notin 1 .. Len(Order)
    BY <1>1, OrderLen DEF IInv, TypeOK
  <2>1. FlushNext
    <3>1. ~Exit /\ ~Crash
      BY <2>0, EndFrame, Zenon
    <3>2. ~FlushBegin
      BY <2>0, OrderLen DEF FlushBegin, Drain
    <3>3. ~FlushUpload /\ ~FlushUploadFails
      BY <2>0, Zenon DEF FlushUpload, FlushUploadFails
    <3>4. flush' # flush
      BY <2>0, Zenon
    <3> QED
      BY <1>1, <3>1, <3>2, <3>3, <3>4, StepKinds, WorkFrame, Zenon DEF Quiet
  <2>2. flush.k = Len(Order) /\ flush.files = {} /\ flush.k \in 1 .. Len(Order)
    <3>1. ~(flush.k < Len(Order) /\ Drain(flush.k + 1, flush.pre, flush.failed))
      BY <2>0, OrderLen DEF Drain
    <3> QED
      BY <2>1, <3>1, Zenon DEF FlushNext
  <2>3. ASSUME NEW x \in flush.pre, x[1][1] \notin flush.failed
        PROVE  Arrived(x)
    <3>1. PICK p \in Paths, r \in Records : x = <<p, r>>
      BY <2>0, <2>3 DEF Rows
    <3>2. x[1] = p /\ x[2] = r
      BY <3>1, Zenon
    <3>3. Awaited(p, r)
      BY <1>1, <2>2, <2>3, <3>1, <3>2, Zenon DEF IInv, FlushInv
    <3>4. ~FlushedAt(p, r)
      BY <2>2, Zenon DEF FlushedAt
    <3>5. ~\E i \in flush.k + 1 .. Len(Order) : Order[i] = p[1]
      <4>1. flush.k + 1 .. Len(Order) = {}
        BY <2>2, OrderLen
      <4> QED
        BY <4>1, Zenon
    <3>6. Reached(p, r)
      BY <3>3, <3>4, <3>5, Zenon DEF Awaited
    <3> QED
      BY <3>1, <3>2, <3>6, Places, Zenon DEF Reached
  <2> QED
    BY <2>3, Zenon
<1>2. IInv /\ [Next]_vars =>
        [Returned => \A x \in {y \in flush.pre : y[1][1] \notin flush.failed} : Arrived(x)]_vars
  BY <1>1, Zenon
<1> QED
  BY <1>2, Invariance, PTL DEF Spec, FlushReachesEveryStore
=============================================================================
