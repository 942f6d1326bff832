----------------------- MODULE ExtractionQueueProofs -----------------------
(***************************************************************************)
(* Proofs about ExtractionQueue, for any number of documents, workers,     *)
(* requests, runs, jobs, attempts and faults.                              *)
(***************************************************************************)
EXTENDS ExtractionQueue, TLAPS

(* The inductive invariant.                                                *)

\* Row numbers above the counters are unused.
FreshRows ==
  /\ \A r \in RunIds : r > nruns => runs[r] = NoRun
  /\ \A j \in JobIds : j > njobs => jobs[j] = NoJob

\* Existing rows belong to a document.
OwnedRows ==
  /\ \A r \in RunIds : runs[r].stage # "none" => runs[r].rfp \in Rfps
  /\ \A j \in JobIds : jobs[j].status # "none" => jobs[j].rfp \in Rfps

\* A working worker's job and run are of one document, which stays put while
\* its rows are locked.
WorkerRow(w) ==
  /\ pc[w] \in Working => wjob[w] \in 1..njobs
  /\ pc[w] \in Working \ {"claimed"} =>
       /\ wrun[w] \in 1..nruns
       /\ runs[wrun[w]].stage # "none" =>
            jobs[wjob[w]].rfp = runs[wrun[w]].rfp
  /\ pc[w] \in Extracting \cup Finished =>
       runs[wrun[w]].stage # "none" /\ runs[wrun[w]].rfp \in held[w]

WorkerRows == \A w \in Workers : WorkerRow(w)

\* So do the runs a boot transaction is about to re-queue.
ScanRow(w) ==
  \A s \in scan[w] :
    /\ s.run \in 1..nruns
    /\ pc[w] = "requeue" =>
         runs[s.run].stage # "none" /\ runs[s.run].rfp \in held[w]

ScanRows == \A w \in Workers : ScanRow(w)

\* No document is in the hands of two boots.
BootsApart ==
  \A v, w \in Workers :
    (v # w /\ pc[v] = "requeue" /\ pc[w] = "requeue") => held[v] \cap held[w] = {}

IInv == /\ TypeOK
        /\ FreshRows
        /\ OwnedRows
        /\ WorkerRows
        /\ ScanRows
        /\ BootsApart
        /\ BootRecovers

-----------------------------------------------------------------------------
LEMMA EmptyRows == NoRun \in RunRows /\ NoJob \in JobRows
  BY DEF NoRun, NoJob, RunRows, JobRows, RunStages, JobStates, Priorities,
         PRIORITY_CAPPED

LEMMA NothingSeenType == NothingSeen \in [Rfps -> RfpStates]
  BY DEF NothingSeen, RfpStates

LEMMA InitInv == Init => IInv
<1> SUFFICES ASSUME Init PROVE IInv
  OBVIOUS
<1>. USE NoneAssumption, BoundsAssumption DEF Init
<1>1. TypeOK
  <2>1. runs \in [RunIds -> RunRows] /\ jobs \in [JobIds -> JobRows]
    BY EmptyRows
  <2>2. req \in [Requests -> ReadRows]
    BY DEF ReadRows, NoRead, RfpStates
  <2>3. state \in [Rfps -> RfpStates] /\ matrix \in [Rfps -> MatrixStates]
    BY DEF RfpStates, MatrixStates
  <2>4. /\ file \in [Rfps -> BOOLEAN]
        /\ pc \in [Workers -> PCs]
        /\ wjob \in [Workers -> JobIds \cup {0}]
        /\ wrun \in [Workers -> RunIds \cup {0}]
        /\ held \in [Workers -> SUBSET Rfps]
    BY DEF PCs
  <2>5. scan \in [Workers -> SUBSET [run: RunIds, attempt: Nat]]
    <3>1. scan = [w \in Workers |-> {}]
      OBVIOUS
    <3>2. \A S : scan \in [Workers -> SUBSET S]
      BY ONLY <3>1
    <3>. QED
      BY ONLY <3>2
  <2>6. /\ nruns \in 0..MaxRuns /\ njobs \in 0..MaxJobs
        /\ faults \in 0..MaxFaults
    OBVIOUS
  <2>7. overCap \in BOOLEAN /\ degraded \in BOOLEAN
    OBVIOUS
  <2>8. seen \in [Workers -> [Rfps -> RfpStates]]
    BY NothingSeenType
  <2>. QED
    BY ONLY <2>1, <2>2, <2>3, <2>4, <2>5, <2>6, <2>7, <2>8 DEF TypeOK
<1>2. FreshRows /\ OwnedRows
  BY DEF FreshRows, OwnedRows, NoRun, NoJob
<1>3. WorkerRows
  BY DEF WorkerRows, WorkerRow, Working, Extracting, Finished
<1>4. ScanRows /\ BootsApart /\ BootRecovers
  BY DEF ScanRows, ScanRow, BootsApart, BootRecovers
<1>. QED
  BY <1>1, <1>2, <1>3, <1>4 DEF IInv

-----------------------------------------------------------------------------
(* What most steps have in common.                                         *)

LEMMA EditedStale ==
  ASSUME NEW row \in RunRows, NEW stale \in BOOLEAN
  PROVE  [row EXCEPT !.stale = stale] \in RunRows
  BY DEF RunRows

LEMMA PublishedRun ==
  ASSUME NEW run \in RunRows, NEW outcome \in {"ready", "failed"}
  PROVE  /\ Published(run, outcome) \in RunRows
         /\ Published(run, outcome).rfp = run.rfp
         /\ Published(run, outcome).stage = outcome
<1>1. run.stale \in BOOLEAN
  BY DEF RunRows
<1>2. CASE outcome = "failed"
  BY <1>1, <1>2 DEF Published, RunRows, RunStages
<1>3. CASE outcome = "ready"
  BY <1>1, <1>3 DEF Published, RunRows, RunStages
<1>. QED
  BY <1>2, <1>3

LEMMA GivenUpRun ==
  ASSUME NEW run \in RunRows
  PROVE  /\ GivenUp(run) \in RunRows
         /\ GivenUp(run).rfp = run.rfp
         /\ GivenUp(run).stage = "failed"
  BY DEF GivenUp, RunRows, RunStages

LEMMA RetriedRun ==
  ASSUME NEW run \in RunRows, NEW attempt \in Nat
  PROVE  /\ Retried(run, attempt) \in RunRows
         /\ Retried(run, attempt).rfp = run.rfp
         /\ Retried(run, attempt).stage = run.stage
  BY DEF Retried, RunRows

LEMMA EditedJob ==
  ASSUME NEW row \in JobRows, NEW status \in JobStates
  PROVE  [row EXCEPT !.status = status] \in JobRows
  BY DEF JobRows


\* No row changes its document, appears below the counters or goes away.
RowsKept ==
  /\ nruns' \in nruns..MaxRuns
  /\ njobs' \in njobs..MaxJobs
  /\ \A r \in 1..nruns : /\ runs'[r].rfp = runs[r].rfp
                         /\ runs'[r].stage = "none" <=> runs[r].stage = "none"
  /\ \A j \in 1..njobs : jobs'[j].rfp = jobs[j].rfp

WorkerKept(w) == /\ pc'[w] = pc[w]
                 /\ wjob'[w] = wjob[w]
                 /\ wrun'[w] = wrun[w]
                 /\ held'[w] = held[w]
                 /\ scan'[w] = scan[w]
                 /\ seen'[w] = seen[w]

\* Steps that keep the rows keep the links of every worker they leave alone.
LEMMA KeptLink ==
  ASSUME TypeOK, RowsKept, NEW w \in Workers, WorkerRow(w), ScanRow(w),
         WorkerKept(w)
  PROVE  WorkerRow(w)' /\ ScanRow(w)'
<1>. USE BoundsAssumption DEF TypeOK, RowsKept, WorkerKept
<1>1. ASSUME pc[w] \in Working
      PROVE  /\ wjob[w] \in 1..njobs'
             /\ jobs'[wjob[w]].rfp = jobs[wjob[w]].rfp
  BY <1>1 DEF WorkerRow
<1>2. ASSUME pc[w] \in Working \ {"claimed"}
      PROVE  /\ wrun[w] \in 1..nruns'
             /\ runs'[wrun[w]].rfp = runs[wrun[w]].rfp
             /\ runs'[wrun[w]].stage = "none" <=> runs[wrun[w]].stage = "none"
  BY <1>2 DEF WorkerRow
<1>3. Extracting \cup Finished \subseteq Working \ {"claimed"}
  BY DEF Working, Extracting, Finished
<1>4. WorkerRow(w)'
  BY <1>1, <1>2, <1>3 DEF WorkerRow, Working
<1>5. ASSUME NEW s \in scan[w]
      PROVE  /\ s.run \in 1..nruns'
             /\ runs'[s.run].rfp = runs[s.run].rfp
             /\ runs'[s.run].stage = "none" <=> runs[s.run].stage = "none"
  BY <1>5 DEF ScanRow
<1>6. ScanRow(w)'
  BY <1>5 DEF ScanRow
<1>. QED
  BY <1>4, <1>6

LEMMA KeptLinks ==
  ASSUME TypeOK, WorkerRows, ScanRows, RowsKept, UNCHANGED workerVars
  PROVE  WorkerRows' /\ ScanRows'
  BY KeptLink DEF WorkerRows, ScanRows, WorkerKept, workerVars

\* A step of worker w that keeps the rows has w's own links to restore.
LEMMA StepLinks ==
  ASSUME TypeOK, WorkerRows, ScanRows, RowsKept, NEW w \in Workers,
         \A v \in Workers \ {w} : WorkerKept(v), WorkerRow(w)', ScanRow(w)'
  PROVE  WorkerRows' /\ ScanRows'
<1>1. ASSUME NEW v \in Workers PROVE WorkerRow(v)' /\ ScanRow(v)'
  <2>1. CASE v = w
    BY <2>1
  <2>2. CASE v # w
    BY <2>2, KeptLink DEF WorkerRows, ScanRows
  <2>. QED
    BY <2>1, <2>2
<1>. QED
  BY <1>1 DEF WorkerRows, ScanRows

\* Steps that leave alone the queued jobs and the runs of the documents a boot
\* has in hand, and that boot itself.
LEMMA KeptQueue ==
  ASSUME TypeOK, BootsApart, BootRecovers,
         \A j \in JobIds :
           (jobs[j].status = "queued" /\ Requeueing(jobs[j].rfp)) =>
             jobs'[j].rfp = jobs[j].rfp /\ jobs'[j].status = "queued",
         \A r \in RunIds :
           (runs[r].rfp \in Rfps /\ Requeueing(runs[r].rfp)) =>
             runs'[r].rfp = runs[r].rfp,
         \A w \in Workers : pc'[w] = "requeue" =>
           /\ pc[w] = "requeue" /\ held'[w] = held[w]
           /\ scan'[w] = scan[w] /\ seen'[w] = seen[w]
  PROVE  BootsApart' /\ BootRecovers'
<1>1. BootsApart'
  BY DEF BootsApart
<1>2. ASSUME NEW w \in Workers, NEW d \in held[w], pc[w] = "requeue",
             \A s \in scan[w] : runs'[s.run].rfp # d, seen[w][d] = "received"
      PROVE  \E j \in JobsOf(d)' : jobs'[j].status = "queued"
  <2>1. d \in Rfps /\ Requeueing(d)
    BY <1>2 DEF TypeOK, Requeueing
  <2>2. \A s \in scan[w] : s.run \in RunIds
    BY DEF TypeOK
  <2>3. \A s \in scan[w] : runs[s.run].rfp # d
    BY <1>2, <2>1, <2>2
  <2>4. PICK j \in JobsOf(d) : jobs[j].status = "queued"
    BY <1>2, <2>3 DEF BootRecovers
  <2>5. jobs'[j].rfp = d /\ jobs'[j].status = "queued" /\ j \in JobIds
    BY <2>1, <2>4 DEF JobsOf
  <2>. QED
    BY <2>5 DEF JobsOf
<1>3. BootRecovers'
  BY <1>2 DEF BootRecovers
<1>. QED
  BY <1>1, <1>3

-----------------------------------------------------------------------------
(* Requests.                                                               *)

LEMMA UploadInv == IInv /\ (\E d \in Rfps : Upload(d)) => IInv'
<1> SUFFICES ASSUME IInv, NEW d \in Rfps, Upload(d) PROVE IInv'
  OBVIOUS
<1>. USE NoneAssumption, BoundsAssumption
     DEF IInv, Upload, AddRun, Enqueue, RunIds, JobIds
<1>1. TypeOK'
  BY DEF TypeOK, RfpStates, RunRows, JobRows, RunStages, JobStates, workerVars,
         Priorities, PriorityForNewJob, PRIORITY_CAPPED, PRIORITY_USER,
         PRIORITY_SWEEP
<1>2. FreshRows'
  BY DEF FreshRows, TypeOK
<1>3. OwnedRows'
  BY DEF OwnedRows, TypeOK
<1>4. RowsKept
  BY DEF RowsKept, TypeOK
<1>5. WorkerRows' /\ ScanRows'
  BY <1>4, KeptLinks
<1>6. BootsApart' /\ BootRecovers'
  BY KeptQueue DEF TypeOK, FreshRows, NoJob, NoRun, workerVars
<1>. QED
  BY <1>1, <1>2, <1>3, <1>5, <1>6

LEMMA UploadCloneInv == IInv /\ (\E d, p \in Rfps : UploadClone(d, p)) => IInv'
<1> SUFFICES ASSUME IInv, NEW d \in Rfps, NEW p \in Rfps, UploadClone(d, p)
             PROVE  IInv'
  OBVIOUS
<1>. USE BoundsAssumption DEF IInv, UploadClone
<1>1. TypeOK'
  BY DEF TypeOK, RfpStates, workerVars
<1>2. FreshRows' /\ OwnedRows'
  BY DEF FreshRows, OwnedRows
<1>3. RowsKept
  BY DEF RowsKept, TypeOK
<1>4. WorkerRows' /\ ScanRows'
  BY <1>3, KeptLinks
<1>5. BootsApart' /\ BootRecovers'
  BY KeptQueue DEF workerVars
<1>. QED
  BY <1>1, <1>2, <1>4, <1>5

LEMMA ReprocessWriteInv ==
  IInv /\ (\E q \in Requests : ReprocessWrite(q)) => IInv'
<1> SUFFICES ASSUME IInv, NEW q \in Requests, ReprocessWrite(q) PROVE IInv'
  OBVIOUS
<1>. DEFINE d == req[q].rfp
<1>. USE NoneAssumption, BoundsAssumption
     DEF IInv, ReprocessWrite, AddRun, Enqueue, RunIds, JobIds
<1>0. d \in Rfps /\ req[q].attempt \in Nat /\ NoRead \in ReadRows
  BY DEF TypeOK, ReadRows, NoRead, RfpStates
<1>1. TypeOK'
  <2>1. runs' \in [RunIds -> RunRows]
    BY <1>0 DEF TypeOK, RunRows, RunStages
  <2>2. jobs' \in [JobIds -> JobRows]
    BY <1>0 DEF TypeOK, JobRows, JobStates, Priorities, PriorityForNewJob,
                PRIORITY_CAPPED, PRIORITY_USER, PRIORITY_SWEEP
  <2>3. state' \in [Rfps -> RfpStates]
    BY <1>0 DEF TypeOK, Assigned, RfpStates
  <2>. QED
    BY <2>1, <2>2, <2>3, <1>0 DEF TypeOK, workerVars
<1>2. FreshRows'
  BY DEF FreshRows, TypeOK
<1>3. OwnedRows'
  BY <1>0 DEF OwnedRows, TypeOK
<1>4. RowsKept
  BY DEF RowsKept, TypeOK
<1>5. WorkerRows' /\ ScanRows'
  BY <1>4, KeptLinks
<1>6. BootsApart' /\ BootRecovers'
  BY KeptQueue DEF TypeOK, FreshRows, NoJob, NoRun, workerVars
<1>. QED
  BY <1>1, <1>2, <1>3, <1>5, <1>6

\* Steps that change no row, no lock and no scan.
LEMMA RowsUntouched ==
  ASSUME IInv, TypeOK', UNCHANGED <<dbVars, workerVars>>
  PROVE  IInv'
<1>. USE BoundsAssumption DEF IInv, dbVars
<1>1. FreshRows' /\ OwnedRows'
  BY DEF FreshRows, OwnedRows
<1>2. RowsKept
  BY DEF RowsKept, TypeOK
<1>3. WorkerRows' /\ ScanRows'
  BY <1>2, KeptLinks
<1>4. BootsApart' /\ BootRecovers'
  BY KeptQueue DEF workerVars
<1>. QED
  BY <1>1, <1>3, <1>4

LEMMA ReprocessReadInv ==
  IInv /\ (\E q \in Requests, d \in Rfps : ReprocessRead(q, d)) => IInv'
<1> SUFFICES ASSUME IInv, NEW q \in Requests, NEW d \in Rfps,
                    ReprocessRead(q, d)
             PROVE  IInv'
  OBVIOUS
<1>1. \E r \in RunIds :
        req' = [req EXCEPT ![q] = [rfp |-> d, attempt |-> runs[r].attempt,
                                   state |-> state[d]]]
  BY Zenon DEF ReprocessRead
<1>2. \A r \in RunIds : runs[r].attempt \in Nat
  BY DEF IInv, TypeOK, RunRows
<1>3. req' \in [Requests -> ReadRows]
  BY <1>1, <1>2 DEF IInv, TypeOK, ReadRows
<1>4. UNCHANGED <<dbVars, overCap, degraded, workerVars, faults>>
  BY Zenon DEF ReprocessRead
<1>5. TypeOK'
  BY <1>3, <1>4 DEF IInv, TypeOK, dbVars, workerVars
<1>. QED
  BY <1>4, <1>5, RowsUntouched

LEMMA ReprocessAbortInv ==
  IInv /\ (\E q \in Requests : ReprocessAbort(q)) => IInv'
<1> SUFFICES ASSUME IInv, NEW q \in Requests, ReprocessAbort(q) PROVE IInv'
  OBVIOUS
<1>1. TypeOK'
  <2>1. NoRead \in ReadRows
    BY DEF NoRead, ReadRows, RfpStates
  <2>. QED
    BY <2>1 DEF IInv, ReprocessAbort, TypeOK, dbVars, workerVars
<1>. QED
  BY <1>1, RowsUntouched DEF ReprocessAbort

LEMMA ProbeProvidersInv == IInv /\ ProbeProviders => IInv'
<1> SUFFICES ASSUME IInv, ProbeProviders PROVE IInv'
  OBVIOUS
<1>1. TypeOK'
  BY DEF IInv, ProbeProviders, TypeOK, dbVars, workerVars
<1>. QED
  BY <1>1, RowsUntouched DEF ProbeProviders

LEMMA MonthStartInv == IInv /\ MonthStart => IInv'
<1> SUFFICES ASSUME IInv, MonthStart PROVE IInv'
  OBVIOUS
<1>1. TypeOK'
  BY DEF IInv, MonthStart, TypeOK, dbVars, workerVars
<1>. QED
  BY <1>1, RowsUntouched DEF MonthStart

LEMMA DeleteMatrixInv == IInv /\ (\E d \in Rfps : DeleteMatrix(d)) => IInv'
<1> SUFFICES ASSUME IInv, NEW d \in Rfps, DeleteMatrix(d) PROVE IInv'
  OBVIOUS
<1>. USE NoneAssumption, BoundsAssumption DEF IInv, DeleteMatrix
<1>1. TypeOK'
  BY EmptyRows DEF TypeOK, RfpStates, MatrixStates, workerVars
<1>2. FreshRows'
  BY DEF FreshRows
<1>3. OwnedRows'
  BY DEF OwnedRows, NoRun, NoJob
<1>4. \A r \in RunIds : runs'[r].stage # "none" => runs'[r] = runs[r]
  BY DEF NoRun
<1>5. \A r \in RunIds : runs[r].rfp # d => runs'[r] = runs[r]
  OBVIOUS
<1>6. \A j \in JobIds : jobs[j].rfp # d => jobs'[j] = jobs[j]
  OBVIOUS
<1>7. WorkerRows'
  <2> SUFFICES ASSUME NEW w \in Workers
      PROVE
        /\ pc[w] \in Working => wjob[w] \in 1..njobs
        /\ pc[w] \in Working \ {"claimed"} =>
             /\ wrun[w] \in 1..nruns
             /\ runs'[wrun[w]].stage # "none" =>
                  jobs'[wjob[w]].rfp = runs'[wrun[w]].rfp
        /\ pc[w] \in Extracting \cup Finished =>
             runs'[wrun[w]].stage # "none" /\ runs'[wrun[w]].rfp \in held[w]
    BY DEF WorkerRows, WorkerRow, workerVars
  <2>1. pc[w] \in Working => wjob[w] \in 1..njobs /\ wjob[w] \in JobIds
    BY DEF WorkerRows, WorkerRow, TypeOK, JobIds
  <2>2. ASSUME pc[w] \in Working \ {"claimed"}
        PROVE  /\ wrun[w] \in 1..nruns
               /\ wrun[w] \in RunIds
               /\ runs'[wrun[w]].stage # "none" =>
                    jobs'[wjob[w]].rfp = runs'[wrun[w]].rfp
    <3>1. wrun[w] \in 1..nruns /\ wrun[w] \in RunIds
      BY <2>2 DEF WorkerRows, WorkerRow, TypeOK, RunIds
    <3>2. ASSUME runs'[wrun[w]].stage # "none"
          PROVE  jobs'[wjob[w]].rfp = runs'[wrun[w]].rfp
      <4>1. runs'[wrun[w]] = runs[wrun[w]] /\ runs[wrun[w]].rfp # d
        BY <3>1, <3>2 DEF NoRun
      <4>2. jobs[wjob[w]].rfp = runs[wrun[w]].rfp
        BY <2>2, <3>2, <4>1 DEF WorkerRows, WorkerRow
      <4>. QED
        BY <2>1, <2>2, <4>1, <4>2, <1>6
    <3>. QED
      BY <3>1, <3>2
  <2>3. ASSUME pc[w] \in Extracting \cup Finished
        PROVE  runs'[wrun[w]].stage # "none" /\ runs'[wrun[w]].rfp \in held[w]
    <3>1. runs[wrun[w]].stage # "none" /\ runs[wrun[w]].rfp \in held[w]
      BY <2>3 DEF WorkerRows, WorkerRow
    <3>2. wrun[w] \in RunIds
      BY <2>2, <2>3 DEF Extracting, Finished, Working
    <3>. QED
      BY <3>1, <3>2, <1>5 DEF Locked
  <2>. QED
    BY <2>1, <2>2, <2>3
<1>8. ScanRows'
  BY <1>5 DEF ScanRows, ScanRow, Locked, workerVars, TypeOK, RunIds
<1>9. BootsApart' /\ BootRecovers'
  <2>1. ~Requeueing(d)
    BY DEF Requeueing, Locked
  <2>. QED
    BY <1>5, <1>6, <2>1, KeptQueue DEF workerVars
<1>. QED
  BY <1>1, <1>2, <1>3, <1>7, <1>8, <1>9

-----------------------------------------------------------------------------
(* The scheduler and the passing of time.                                  *)

LEMMA DailyMaintenanceInv ==
  IInv /\ (\E aged \in SUBSET Rfps : DailyMaintenance(aged)) => IInv'
<1> SUFFICES ASSUME IInv, NEW aged \in SUBSET Rfps, DailyMaintenance(aged)
             PROVE  IInv'
  OBVIOUS
<1>. USE NoneAssumption, BoundsAssumption DEF IInv, DailyMaintenance
<1>1. \A j \in JobIds : /\ jobs'[j].rfp = jobs[j].rfp
                        /\ jobs'[j].status = jobs[j].status
                        /\ jobs[j] = NoJob => jobs'[j] = NoJob
                        /\ jobs'[j] \in JobRows
  <2>1. \A j \in JobIds : jobs[j] \in JobRows
    BY DEF TypeOK
  <2>2. \A e : UnparkedPriority(e) \in Priorities
    BY DEF UnparkedPriority, Priorities
  <2>3. \A j \in JobIds :
          jobs'[j] \in {jobs[j], [jobs[j] EXCEPT !.priority =
                                              UnparkedPriority(jobs[j].rfp)]}
          /\ (jobs[j].status # "queued" => jobs'[j] = jobs[j])
    OBVIOUS
  <2>. QED
    BY ONLY <2>1, <2>2, <2>3 DEF JobRows, NoJob
<1>2. TypeOK'
  BY <1>1 DEF TypeOK, RfpStates, workerVars
<1>3. FreshRows' /\ OwnedRows'
  BY <1>1 DEF FreshRows, OwnedRows
<1>4. RowsKept
  BY <1>1 DEF RowsKept, TypeOK, JobIds
<1>5. WorkerRows' /\ ScanRows'
  BY <1>4, KeptLinks
<1>6. BootsApart' /\ BootRecovers'
  BY <1>1, KeptQueue DEF workerVars
<1>. QED
  BY <1>2, <1>3, <1>5, <1>6

LEMMA FallSilentInv == IInv /\ (\E r \in RunIds : FallSilent(r)) => IInv'
<1> SUFFICES ASSUME IInv, NEW r \in RunIds, FallSilent(r) PROVE IInv'
  OBVIOUS
<1>. USE NoneAssumption, BoundsAssumption DEF IInv, FallSilent
<1>0. runs' = [runs EXCEPT ![r] = [runs[r] EXCEPT !.stale = TRUE]]
  OBVIOUS
<1>1. /\ runs' \in [RunIds -> RunRows]
      /\ \A s \in RunIds : /\ runs'[s].rfp = runs[s].rfp
                           /\ runs'[s].stage = runs[s].stage
                           /\ runs[s] = NoRun => runs'[s] = NoRun
  <2>1. runs \in [RunIds -> RunRows] /\ runs[r].stage = "reading"
    BY DEF TypeOK
  <2>2. r \in RunIds => [runs[r] EXCEPT !.stale = TRUE] \in RunRows
    BY <2>1, EditedStale
  <2>3. runs' \in [RunIds -> RunRows]
    BY <1>0, <2>1, <2>2
  <2>4. \A s \in RunIds \ {r} : runs'[s] = runs[s]
    BY <1>0, <2>1
  <2>5. r \in RunIds => /\ runs'[r].rfp = runs[r].rfp
                         /\ runs'[r].stage = runs[r].stage
                         /\ runs[r] # NoRun
    BY <1>0, <2>1 DEF NoRun, RunRows
  <2>. QED
    BY <2>3, <2>4, <2>5
<1>2. TypeOK'
  BY <1>1 DEF TypeOK, workerVars
<1>3. FreshRows' /\ OwnedRows'
  BY <1>1 DEF FreshRows, OwnedRows
<1>4. RowsKept
  BY <1>1 DEF RowsKept, TypeOK, RunIds
<1>5. WorkerRows' /\ ScanRows'
  BY <1>4, KeptLinks
<1>6. BootsApart' /\ BootRecovers'
  BY <1>1, KeptQueue DEF workerVars
<1>. QED
  BY <1>2, <1>3, <1>5, <1>6

-----------------------------------------------------------------------------
(* The worker.                                                             *)

LEMMA BeatInv == ASSUME NEW w \in Workers PROVE IInv /\ Beat(w) => IInv'
<1> SUFFICES ASSUME IInv, Beat(w) PROVE IInv'
  OBVIOUS
<1>. USE NoneAssumption, BoundsAssumption DEF IInv, Beat
<1>0. runs' = [runs EXCEPT ![wrun[w]] = [runs[wrun[w]] EXCEPT !.stale = FALSE]]
  OBVIOUS
<1>1. /\ runs' \in [RunIds -> RunRows]
      /\ \A s \in RunIds : /\ runs'[s].rfp = runs[s].rfp
                           /\ runs'[s].stage = runs[s].stage
                           /\ runs[s] = NoRun => runs'[s] = NoRun
  <2>1. runs \in [RunIds -> RunRows] /\ runs[wrun[w]].stage = "reading"
    BY DEF TypeOK
  <2>2. wrun[w] \in RunIds => [runs[wrun[w]] EXCEPT !.stale = FALSE] \in RunRows
    BY <2>1, EditedStale
  <2>3. runs' \in [RunIds -> RunRows]
    BY <1>0, <2>1, <2>2
  <2>4. \A s \in RunIds \ {wrun[w]} : runs'[s] = runs[s]
    BY <1>0, <2>1
  <2>5. wrun[w] \in RunIds => /\ runs'[wrun[w]].rfp = runs[wrun[w]].rfp
                         /\ runs'[wrun[w]].stage = runs[wrun[w]].stage
                         /\ runs[wrun[w]] # NoRun
    BY <1>0, <2>1 DEF NoRun, RunRows
  <2>. QED
    BY <2>3, <2>4, <2>5
<1>2. TypeOK'
  BY <1>1 DEF TypeOK, workerVars
<1>3. FreshRows' /\ OwnedRows'
  BY <1>1 DEF FreshRows, OwnedRows
<1>4. RowsKept
  BY <1>1 DEF RowsKept, TypeOK, RunIds
<1>5. WorkerRows' /\ ScanRows'
  BY <1>4, KeptLinks
<1>6. BootsApart' /\ BootRecovers'
  BY <1>1, KeptQueue DEF workerVars
<1>. QED
  BY <1>2, <1>3, <1>5, <1>6

LEMMA ClaimInv ==
  ASSUME NEW w \in Workers
  PROVE  IInv /\ (\E j \in JobIds : Claim(w, j)) => IInv'
<1> SUFFICES ASSUME IInv, NEW j \in JobIds, Claim(w, j) PROVE IInv'
  OBVIOUS
<1>. USE NoneAssumption, BoundsAssumption DEF IInv, Claim, Claimable
<1>1. [jobs[j] EXCEPT !.status = "processing"] \in JobRows
  BY EditedJob DEF TypeOK, JobStates
<1>2. TypeOK'
  BY <1>1 DEF TypeOK, PCs
<1>3. /\ \A k \in JobIds : jobs'[k].rfp = jobs[k].rfp
      /\ \A k \in JobIds \ {j} : jobs'[k] = jobs[k]
      /\ jobs'[j].status = "processing"
  BY DEF TypeOK, JobRows
<1>4. j <= njobs
  BY DEF FreshRows, TypeOK, NoJob, JobIds
<1>5. FreshRows' /\ OwnedRows'
  BY <1>3, <1>4 DEF FreshRows, OwnedRows, TypeOK, JobIds
<1>6. RowsKept
  BY <1>3 DEF RowsKept, TypeOK, JobIds
<1>7. \A v \in Workers \ {w} : WorkerKept(v)
  BY DEF WorkerKept, TypeOK
<1>8. WorkerRow(w)'
  BY <1>4 DEF WorkerRow, TypeOK, JobIds, Working, Extracting, Finished
<1>9. ScanRow(w)'
  BY DEF ScanRow, ScanRows, TypeOK
<1>10. WorkerRows' /\ ScanRows'
  BY <1>6, <1>7, <1>8, <1>9, StepLinks
<1>11. BootsApart' /\ BootRecovers'
  BY <1>3, KeptQueue DEF TypeOK
<1>. QED
  BY <1>2, <1>5, <1>10, <1>11

LEMMA StartInv == ASSUME NEW w \in Workers PROVE IInv /\ Start(w) => IInv'
<1> SUFFICES ASSUME IInv, NEW r \in RunIds, Start(w),
                    IsLatest(r, jobs[wjob[w]].rfp),
                    wrun' = [wrun EXCEPT ![w] = r]
             PROVE  IInv'
  BY DEF Start
<1>. USE NoneAssumption, BoundsAssumption DEF IInv, Start, dbVars
<1>1. runs[r].stage # "none"
  BY DEF IsLatest, RunsOf
<1>2. TypeOK'
  BY <1>1 DEF TypeOK, PCs
<1>3. FreshRows' /\ OwnedRows'
  BY <1>1 DEF FreshRows, OwnedRows
<1>4. RowsKept
  BY <1>1 DEF RowsKept, TypeOK, RunIds
<1>5. \A v \in Workers \ {w} : WorkerKept(v)
  BY DEF WorkerKept, TypeOK
<1>6. WorkerRow(w)'
  <2>1. r \in 1..nruns /\ runs[r].rfp = jobs[wjob[w]].rfp
    BY DEF IsLatest, RunsOf, FreshRows, NoRun, TypeOK, RunIds
  <2>2. wjob[w] \in 1..njobs
    BY DEF WorkerRows, WorkerRow, Working
  <2>3. pc'[w] = "started" /\ wrun'[w] = r
    BY DEF TypeOK
  <2>. QED
    BY <1>1, <2>1, <2>2, <2>3 DEF WorkerRow, Working, Extracting, Finished
<1>7. ScanRow(w)'
  BY DEF ScanRow, ScanRows, TypeOK
<1>8. WorkerRows' /\ ScanRows'
  BY <1>4, <1>5, <1>6, <1>7, StepLinks
<1>9. BootsApart' /\ BootRecovers'
  BY KeptQueue DEF TypeOK
<1>. QED
  BY <1>2, <1>3, <1>8, <1>9

\* Steps of worker w that write no row and leave it outside "requeue".
LEMMA WorkerOnly ==
  ASSUME IInv, TypeOK', UNCHANGED dbVars, NEW w \in Workers,
         \A v \in Workers \ {w} : WorkerKept(v), WorkerRow(w)', ScanRow(w)',
         pc'[w] # "requeue"
  PROVE  IInv'
<1>. USE BoundsAssumption DEF IInv, dbVars
<1>1. FreshRows' /\ OwnedRows'
  BY DEF FreshRows, OwnedRows
<1>2. RowsKept
  BY DEF RowsKept, TypeOK
<1>3. WorkerRows' /\ ScanRows'
  BY <1>2, StepLinks
<1>4. BootsApart' /\ BootRecovers'
  <2>1. \A v \in Workers : pc'[v] = "requeue" =>
          /\ pc[v] = "requeue" /\ held'[v] = held[v]
          /\ scan'[v] = scan[v] /\ seen'[v] = seen[v]
    BY DEF WorkerKept
  <2>. QED
    BY <2>1, KeptQueue
<1>. QED
  BY <1>1, <1>3, <1>4

LEMMA BeginReadingInv ==
  ASSUME NEW w \in Workers PROVE IInv /\ BeginReading(w) => IInv'
<1> SUFFICES ASSUME IInv, BeginReading(w) PROVE IInv'
  OBVIOUS
<1>. USE DEF IInv, BeginReading, dbVars
<1>1. runs[wrun[w]].rfp \in Rfps
  BY DEF OwnedRows, WorkerRows, WorkerRow, Working, TypeOK, RunIds
<1>2. TypeOK'
  BY <1>1 DEF TypeOK, PCs, Extracting
<1>3. \A v \in Workers \ {w} : WorkerKept(v)
  BY DEF WorkerKept, TypeOK
<1>4. WorkerRow(w)' /\ ScanRow(w)'
  BY DEF WorkerRows, WorkerRow, ScanRows, ScanRow, TypeOK, Working, Extracting,
         Finished
<1>5. pc'[w] # "requeue"
  BY DEF TypeOK
<1>. QED
  BY <1>2, <1>3, <1>4, <1>5, WorkerOnly

LEMMA AdvanceInv ==
  ASSUME NEW w \in Workers, IInv, NEW from \in Extracting,
         NEW to \in Extracting \cup Finished, Advance(w, from, to)
  PROVE  IInv'
<1>. USE DEF IInv, Advance, dbVars
<1>1. TypeOK'
  BY DEF TypeOK, PCs, Extracting, Finished
<1>2. \A v \in Workers \ {w} : WorkerKept(v)
  BY DEF WorkerKept, TypeOK
<1>3. WorkerRow(w)' /\ ScanRow(w)'
  BY DEF WorkerRows, WorkerRow, ScanRows, ScanRow, TypeOK, Working, Extracting,
         Finished
<1>4. pc'[w] # "requeue"
  BY DEF TypeOK, Extracting, Finished
<1>. QED
  BY <1>1, <1>2, <1>3, <1>4, WorkerOnly

LEMMA StagesInv ==
  ASSUME NEW w \in Workers
  PROVE  IInv /\ (\/ ReadPages(w) \/ ReadNoText(w) \/ MineChunks(w)
                   \/ PersistRows(w) \/ FailExtraction(w)) => IInv'
<1> SUFFICES ASSUME IInv,
                    \/ ReadPages(w) \/ ReadNoText(w) \/ MineChunks(w)
                    \/ PersistRows(w) \/ FailExtraction(w)
             PROVE  IInv'
  OBVIOUS
<1>1. \E from \in Extracting, to \in Extracting \cup Finished :
        Advance(w, from, to)
  BY DEF ReadPages, ReadNoText, MineChunks, PersistRows, FailExtraction,
         Extracting, Finished
<1>. QED
  BY <1>1, AdvanceInv

\* A worker whose cycle ends without a commit.
LEMMA EndCycleInv ==
  ASSUME NEW w \in Workers, IInv, UNCHANGED <<dbVars, overCap, degraded, req>>,
         faults' \in 0..MaxFaults, NEW next \in {"poll", "down"},
         EndCycle(w, next),
         scan' \in {scan, [scan EXCEPT ![w] = {}]},
         seen' \in {seen, [seen EXCEPT ![w] = NothingSeen]}, pc[w] # "requeue"
  PROVE  IInv'
<1>. USE DEF IInv, EndCycle, dbVars
<1>1. scan' \in [Workers -> SUBSET [run: RunIds, attempt: Nat]]
  <2>. DEFINE Scanned == SUBSET [run: RunIds, attempt: Nat]
  <2>1. scan \in [Workers -> Scanned] /\ {} \in Scanned
    BY DEF TypeOK
  <2>. HIDE DEF Scanned
  <2>2. scan' \in [Workers -> Scanned]
    BY <2>1
  <2>. QED
    BY <2>2 DEF Scanned
<1>2. TypeOK'
  <2>1. seen' \in [Workers -> [Rfps -> RfpStates]]
    BY NothingSeenType DEF TypeOK
  <2>. QED
    BY <1>1, <2>1 DEF TypeOK, PCs
<1>3. \A v \in Workers \ {w} : WorkerKept(v)
  BY DEF WorkerKept, TypeOK
<1>4. pc'[w] = next /\ scan'[w] \subseteq scan[w]
  BY DEF TypeOK
<1>5. WorkerRow(w)' /\ ScanRow(w)'
  BY <1>4 DEF WorkerRow, ScanRows, ScanRow, Working, Extracting, Finished
<1>6. pc'[w] # "requeue"
  BY <1>4
<1>. QED
  BY <1>2, <1>3, <1>5, <1>6, WorkerOnly

LEMMA DatabaseErrorInv ==
  ASSUME NEW w \in Workers PROVE IInv /\ DatabaseError(w) => IInv'
<1> SUFFICES ASSUME IInv, DatabaseError(w) PROVE IInv'
  OBVIOUS
<1>1. faults' \in 0..MaxFaults /\ pc[w] # "requeue"
  BY BoundsAssumption
  DEF IInv, TypeOK, DatabaseError, Working, Extracting, Finished
<1>. QED
  BY <1>1, EndCycleInv DEF DatabaseError, Abandon

LEMMA DocumentGoneInv ==
  ASSUME NEW w \in Workers PROVE IInv /\ DocumentGone(w) => IInv'
<1> SUFFICES ASSUME IInv, DocumentGone(w) PROVE IInv'
  OBVIOUS
<1>1. faults' \in 0..MaxFaults /\ pc[w] # "requeue"
  BY DEF IInv, TypeOK, DocumentGone
<1>. QED
  BY <1>1, EndCycleInv DEF DocumentGone, Abandon

LEMMA CrashInv == ASSUME NEW w \in Workers PROVE IInv /\ Crash(w) => IInv'
<1> SUFFICES ASSUME IInv, Crash(w) PROVE IInv'
  OBVIOUS
<1>1. faults' \in 0..MaxFaults /\ pc[w] # "requeue"
  BY BoundsAssumption
  DEF IInv, TypeOK, Crash, Working, Extracting, Finished
<1>. QED
  BY <1>1, EndCycleInv DEF Crash

LEMMA CommitInv == ASSUME NEW w \in Workers PROVE IInv /\ Commit(w) => IInv'
<1> SUFFICES ASSUME IInv, Commit(w) PROVE IInv'
  OBVIOUS
<1>. DEFINE r == wrun[w]
            j == wjob[w]
            d == runs[r].rfp
            o == Outcome(w)
            done == IF o = "failed" THEN "failed" ELSE "completed"
<1>. USE NoneAssumption, BoundsAssumption DEF IInv
<1>1. /\ pc[w] \in Finished
      /\ pc[w] \in Working \ {"claimed"}
      /\ o \in {"ready", "failed"}
  BY DEF Commit, Finished, Working, Outcome
<1>2. /\ r \in 1..nruns /\ r \in RunIds
      /\ j \in 1..njobs /\ j \in JobIds
      /\ runs[r].stage # "none" /\ jobs[j].rfp = d /\ d \in held[w]
      /\ d \in Rfps
  BY <1>1 DEF WorkerRows, WorkerRow, OwnedRows, TypeOK, RunIds, JobIds
<1>3. PICK row \in RunRows : /\ runs' = [runs EXCEPT ![r] = row]
                             /\ row.rfp = d
                             /\ row.stage = o
  <2>1. runs' = [runs EXCEPT ![r] = Published(runs[r], o)]
    BY DEF Commit
  <2>2. runs[r] \in RunRows
    BY <1>2 DEF TypeOK
  <2>. QED
    BY <1>1, <2>1, <2>2, PublishedRun
<1>. HIDE DEF o
<1>4. /\ state' = [state EXCEPT ![d] = o]
      /\ jobs' = [jobs EXCEPT ![j] = [jobs[j] EXCEPT !.status = done]]
      /\ matrix' \in [Rfps -> MatrixStates]
      /\ overCap' \in BOOLEAN
      /\ EndCycle(w, "poll")
      /\ UNCHANGED <<file, nruns, njobs, degraded, req, scan, seen, faults>>
  BY DEF Commit, o, TypeOK, MatrixStates
<1>. HIDE DEF done
<1>41. /\ UNCHANGED <<nruns, njobs>>
       /\ nruns \in Nat /\ nruns <= MaxRuns
       /\ njobs \in Nat /\ njobs <= MaxJobs
  BY DEF Commit, TypeOK
<1>5. [jobs[j] EXCEPT !.status = done] \in JobRows
  BY <1>2, EditedJob DEF TypeOK, JobStates, done
<1>6. TypeOK'
  BY <1>1, <1>2, <1>3, <1>4, <1>5 DEF TypeOK, EndCycle, PCs, RfpStates
<1>7. /\ \A k \in JobIds : jobs'[k].rfp = jobs[k].rfp
      /\ \A k \in JobIds \ {j} : jobs'[k] = jobs[k]
      /\ jobs'[j].status = done
  BY <1>2, <1>4 DEF TypeOK, JobRows
<1>8. \A s \in RunIds \ {r} : runs'[s] = runs[s]
  BY <1>3 DEF TypeOK
<1>9. runs'[r].rfp = d /\ runs'[r].stage = o
  BY <1>2, <1>3 DEF TypeOK
<1>10. FreshRows' /\ OwnedRows'
  <2>. HIDE DEF r, j, d
  <2>1. ~(r > nruns) /\ ~(j > njobs)
    BY ONLY <1>2, <1>41
  <2>2. \A s \in RunIds : s > nruns' => runs'[s] = NoRun
    BY <1>41, <1>8, <2>1 DEF FreshRows
  <2>3. \A k \in JobIds : k > njobs' => jobs'[k] = NoJob
    BY <1>41, <1>7, <2>1 DEF FreshRows
  <2>4. \A s \in RunIds : runs'[s].stage # "none" => runs'[s].rfp \in Rfps
    BY <1>2, <1>8, <1>9 DEF OwnedRows
  <2>5. \A k \in JobIds : jobs'[k].status # "none" => jobs'[k].rfp \in Rfps
    BY <1>2, <1>7 DEF OwnedRows
  <2>. QED
    BY ONLY <2>2, <2>3, <2>4, <2>5 DEF FreshRows, OwnedRows
<1>11. RowsKept
  <2>. HIDE DEF r, j, d
  <2>1. \A s \in 1..nruns : s \in RunIds
    BY <1>41 DEF RunIds
  <2>2. \A k \in 1..njobs : k \in JobIds
    BY <1>41 DEF JobIds
  <2>3. \A s \in RunIds : /\ runs'[s].rfp = runs[s].rfp
                          /\ runs'[s].stage = "none" <=> runs[s].stage = "none"
    BY <1>1, <1>2, <1>8, <1>9 DEF d
  <2>4. nruns' \in nruns..MaxRuns /\ njobs' \in njobs..MaxJobs
    BY ONLY <1>41, BoundsAssumption
  <2>5. \A s \in 1..nruns : /\ runs'[s].rfp = runs[s].rfp
                            /\ runs'[s].stage = "none" <=> runs[s].stage = "none"
    BY <2>1, <2>3
  <2>6. \A k \in 1..njobs : jobs'[k].rfp = jobs[k].rfp
    BY <1>7, <2>2
  <2>. QED
    BY <2>4, <2>5, <2>6 DEF RowsKept
<1>12. \A v \in Workers \ {w} : WorkerKept(v)
  BY <1>4 DEF WorkerKept, TypeOK, EndCycle
<1>13. WorkerRow(w)' /\ ScanRow(w)'
  <2>1. pc'[w] = "poll" /\ scan'[w] = scan[w]
    BY <1>4 DEF EndCycle, TypeOK
  <2>. QED
    BY <1>4, <2>1
    DEF WorkerRow, ScanRow, ScanRows, Working, Extracting, Finished
<1>14. WorkerRows' /\ ScanRows'
  BY <1>11, <1>12, <1>13, StepLinks
<1>15. BootsApart' /\ BootRecovers'
  <2>1. ~Requeueing(d)
    BY DEF Commit
  <2>2. \A k \in JobIds : jobs[k].rfp # d => jobs'[k] = jobs[k]
    BY <1>2, <1>7
  <2>3. \A s \in RunIds : runs'[s].rfp = runs[s].rfp
    BY <1>8, <1>9
  <2>4. \A v \in Workers : pc'[v] = "requeue" =>
          /\ pc[v] = "requeue" /\ held'[v] = held[v]
          /\ scan'[v] = scan[v] /\ seen'[v] = seen[v]
    BY <1>4 DEF EndCycle, TypeOK
  <2>. QED
    BY <2>1, <2>2, <2>3, <2>4, KeptQueue
<1>. QED
  BY <1>6, <1>10, <1>14, <1>15

-----------------------------------------------------------------------------
(* Boot.                                                                   *)

LEMMA BootScanInv == ASSUME NEW w \in Workers PROVE IInv /\ BootScan(w) => IInv'
<1> SUFFICES ASSUME IInv, BootScan(w) PROVE IInv'
  OBVIOUS
<1>. DEFINE read == {[run |-> r, attempt |-> runs[r].attempt] : r \in StaleRuns}
<1>1. \A r \in RunIds : runs[r].attempt \in Nat
  BY DEF IInv, TypeOK, RunRows
<1>2. \A r \in StaleRuns : r \in RunIds /\ r \in 1..nruns
  BY BoundsAssumption
  DEF IInv, StaleRuns, FreshRows, NoRun, TypeOK, RunIds
<1>3. read \in SUBSET [run: RunIds, attempt: Nat]
  BY <1>1, <1>2
<1>4. \A s \in read : s.run \in 1..nruns
  BY <1>2
<1>. DEFINE saw == [d \in Rfps |-> IF \E r \in StaleRuns : runs[r].rfp = d
                                   THEN state[d] ELSE "absent"]
<1>5. /\ scan' = [scan EXCEPT ![w] = read]
      /\ seen' = [seen EXCEPT ![w] = saw]
      /\ pc' = [pc EXCEPT ![w] = "scanned"]
      /\ UNCHANGED <<dbVars, overCap, degraded, req, wjob, wrun, held, faults>>
  BY DEF BootScan
<1>51. saw \in [Rfps -> RfpStates]
  BY DEF IInv, TypeOK, RfpStates
<1>. HIDE DEF read, saw
<1>6. scan' \in [Workers -> SUBSET [run: RunIds, attempt: Nat]]
  <2>. DEFINE Scans == SUBSET [run: RunIds, attempt: Nat]
  <2>1. scan \in [Workers -> Scans] /\ read \in Scans
    BY <1>3 DEF IInv, TypeOK
  <2>. HIDE DEF Scans
  <2>2. scan' \in [Workers -> Scans]
    BY <1>5, <2>1
  <2>. QED
    BY <2>2 DEF Scans
<1>7. TypeOK'
  BY <1>5, <1>51, <1>6 DEF IInv, TypeOK, PCs, dbVars
<1>8. \A v \in Workers \ {w} : WorkerKept(v)
  BY <1>5 DEF WorkerKept, IInv, TypeOK
<1>9. pc'[w] = "scanned" /\ scan'[w] = read
  BY <1>5 DEF IInv, TypeOK
<1>10. WorkerRow(w)' /\ ScanRow(w)'
  BY <1>4, <1>5, <1>9
  DEF WorkerRow, ScanRow, Working, Extracting, Finished, dbVars
<1>. QED
  BY <1>5, <1>7, <1>8, <1>9, <1>10, WorkerOnly

LEMMA BootLockInv == ASSUME NEW w \in Workers PROVE IInv /\ BootLock(w) => IInv'
<1> SUFFICES ASSUME IInv, BootLock(w) PROVE IInv'
  OBVIOUS
<1>. DEFINE locked == {runs[s.run].rfp : s \in scan[w]}
<1>. USE BoundsAssumption DEF IInv, BootLock, dbVars
<1>1. \A s \in scan[w] : /\ s.run \in RunIds /\ s.run \in 1..nruns
                          /\ runs[s.run].stage # "none"
                          /\ runs[s.run].rfp \in Rfps
  BY DEF OwnedRows, ScanRows, ScanRow, TypeOK
<1>2. locked \subseteq Rfps
  BY <1>1
<1>3. TypeOK'
  BY <1>2 DEF TypeOK, PCs
<1>4. FreshRows' /\ OwnedRows'
  BY DEF FreshRows, OwnedRows
<1>5. RowsKept
  BY DEF RowsKept, TypeOK
<1>6. \A v \in Workers \ {w} : WorkerKept(v)
  BY DEF WorkerKept, TypeOK
<1>7. pc'[w] = "requeue" /\ held'[w] = locked /\ scan'[w] = scan[w]
  BY DEF TypeOK
<1>8. WorkerRow(w)' /\ ScanRow(w)'
  BY <1>1, <1>7 DEF WorkerRow, ScanRow, Working, Extracting, Finished
<1>9. WorkerRows' /\ ScanRows'
  BY <1>5, <1>6, <1>8, StepLinks
<1>10. BootsApart'
  <2>1. ASSUME NEW v \in Workers, v # w, pc[v] = "requeue"
        PROVE  held[v] \cap locked = {}
    BY <2>1 DEF InTheWay, Extracting
  <2>. QED
    BY <1>6, <1>7, <2>1 DEF BootsApart, WorkerKept
<1>11. BootRecovers'
  <2> SUFFICES ASSUME NEW v \in Workers, NEW e \in held'[v], pc'[v] = "requeue",
                      \A s \in scan[v] : runs[s.run].rfp # e,
                      seen[v][e] = "received"
      PROVE  \E j \in JobsOf(e) : jobs[j].status = "queued"
    BY DEF BootRecovers, JobsOf
  <2>1. v # w
    BY <1>7
  <2>. QED
    BY <1>6, <2>1 DEF BootRecovers, WorkerKept
<1>. QED
  BY <1>3, <1>4, <1>9, <1>10, <1>11

LEMMA BootConflictInv ==
  ASSUME NEW w \in Workers PROVE IInv /\ BootConflict(w) => IInv'
<1> SUFFICES ASSUME IInv, BootConflict(w) PROVE IInv'
  OBVIOUS
<1>. USE DEF IInv, BootConflict, dbVars
<1>1. scan' \in [Workers -> SUBSET [run: RunIds, attempt: Nat]]
  <2>. DEFINE Scans == SUBSET [run: RunIds, attempt: Nat]
  <2>1. scan \in [Workers -> Scans] /\ {} \in Scans
    BY DEF TypeOK
  <2>. HIDE DEF Scans
  <2>2. scan' \in [Workers -> Scans]
    BY <2>1
  <2>. QED
    BY <2>2 DEF Scans
<1>2. TypeOK'
  BY <1>1, NothingSeenType DEF TypeOK, PCs
<1>3. \A v \in Workers \ {w} : WorkerKept(v)
  BY DEF WorkerKept, TypeOK
<1>4. pc'[w] = "down" /\ scan'[w] = {}
  BY DEF TypeOK
<1>5. WorkerRow(w)' /\ ScanRow(w)'
  BY <1>4 DEF WorkerRow, ScanRow, Working, Extracting, Finished
<1>. QED
  BY <1>2, <1>3, <1>4, <1>5, WorkerOnly

LEMMA BootDoneInv == ASSUME NEW w \in Workers PROVE IInv /\ BootDone(w) => IInv'
<1> SUFFICES ASSUME IInv, BootDone(w) PROVE IInv'
  OBVIOUS
<1>. USE DEF IInv, BootDone, dbVars
<1>1. TypeOK'
  BY NothingSeenType DEF TypeOK, PCs
<1>2. \A v \in Workers \ {w} : WorkerKept(v)
  BY DEF WorkerKept, TypeOK
<1>3. pc'[w] = "poll" /\ scan'[w] = {}
  BY DEF TypeOK
<1>4. WorkerRow(w)' /\ ScanRow(w)'
  BY <1>3 DEF WorkerRow, ScanRow, Working, Extracting, Finished
<1>. QED
  BY <1>1, <1>2, <1>3, <1>4, WorkerOnly

\* What GiveUp and Requeue do alike: the run of scan entry s gets a new row
\* of the same document, the session's copy of rfps.state becomes value, and
\* the entry is done with.
Treat(w, s, row, value) ==
  /\ pc[w] = "requeue"
  /\ row \in RunRows
  /\ row.rfp = runs[s.run].rfp
  /\ row.stage # "none"
  /\ runs' = [runs EXCEPT ![s.run] = row]
  /\ scan' = [scan EXCEPT ![w] = @ \ {s}]
  /\ value \in RfpStates
  /\ seen' = [seen EXCEPT ![w][runs[s.run].rfp] = value]
  /\ UNCHANGED <<nruns, pc, wjob, wrun, held>>

LEMMA ScannedRun ==
  ASSUME IInv, NEW w \in Workers, NEW s \in scan[w], pc[w] = "requeue"
  PROVE  /\ s.run \in RunIds /\ s.run \in 1..nruns /\ s.attempt \in Nat
         /\ runs[s.run] \in RunRows
         /\ runs[s.run].stage # "none"
         /\ runs[s.run].rfp \in Rfps
  BY DEF IInv, TypeOK, ScanRows, ScanRow, OwnedRows

LEMMA TreatedLinks ==
  ASSUME IInv, NEW w \in Workers, NEW s \in scan[w], NEW row, NEW value,
         Treat(w, s, row, value), njobs' \in njobs..MaxJobs,
         \A j \in 1..njobs : jobs'[j].rfp = jobs[j].rfp
  PROVE  /\ runs' \in [RunIds -> RunRows]
         /\ scan' \in [Workers -> SUBSET [run: RunIds, attempt: Nat]]
         /\ \A r \in RunIds : r > nruns' => runs'[r] = NoRun
         /\ \A r \in RunIds : runs'[r].stage # "none" => runs'[r].rfp \in Rfps
         /\ \A r \in RunIds : runs'[r].rfp = runs[r].rfp
         /\ seen' \in [Workers -> [Rfps -> RfpStates]]
         /\ WorkerRows' /\ ScanRows'
<1>. USE BoundsAssumption DEF IInv, Treat
<1>1. /\ s.run \in RunIds /\ s.run \in 1..nruns
      /\ runs[s.run].stage # "none"
      /\ runs[s.run].rfp \in Rfps
  BY ScannedRun
<1>2. /\ runs' \in [RunIds -> RunRows]
      /\ \A r \in RunIds \ {s.run} : runs'[r] = runs[r]
      /\ runs'[s.run] = row
  BY <1>1 DEF TypeOK
<1>3. \A r \in RunIds : /\ runs'[r].rfp = runs[r].rfp
                        /\ runs'[r].stage = "none" <=> runs[r].stage = "none"
  BY <1>1, <1>2
<1>4. scan' \in [Workers -> SUBSET [run: RunIds, attempt: Nat]]
  <2>. DEFINE Scanned == [run: RunIds, attempt: Nat]
  <2>1. scan \in [Workers -> SUBSET Scanned]
    BY DEF TypeOK
  <2>2. scan' = [scan EXCEPT ![w] = scan[w] \ {s}]
    OBVIOUS
  <2>. HIDE DEF Scanned
  <2>3. scan' \in [Workers -> SUBSET Scanned]
    BY ONLY <2>1, <2>2, w \in Workers
  <2>. QED
    BY <2>3 DEF Scanned
<1>5. \A r \in RunIds : r > nruns' => runs'[r] = NoRun
  BY <1>1, <1>2 DEF FreshRows, TypeOK, RunIds
<1>6. \A r \in RunIds : runs'[r].stage # "none" => runs'[r].rfp \in Rfps
  BY <1>3 DEF OwnedRows
<1>7. RowsKept
  BY <1>3 DEF RowsKept, TypeOK, RunIds
<1>8. /\ \A v \in Workers \ {w} : WorkerKept(v)
      /\ pc'[w] = "requeue" /\ held'[w] = held[w]
      /\ scan'[w] = scan[w] \ {s}
  BY DEF WorkerKept, TypeOK
<1>9. WorkerRow(w)'
  BY <1>8 DEF WorkerRow, Working, Extracting, Finished
<1>10. ScanRow(w)'
  <2>1. ASSUME NEW t \in scan'[w]
        PROVE  /\ t.run \in 1..nruns' /\ runs'[t.run].stage # "none"
               /\ runs'[t.run].rfp \in held'[w]
    <3>1. t \in scan[w]
      BY <1>8
    <3>2. /\ t.run \in RunIds /\ t.run \in 1..nruns
          /\ runs[t.run].stage # "none" /\ runs[t.run].rfp \in held[w]
      BY <3>1 DEF ScanRows, ScanRow, TypeOK
    <3>. QED
      BY <1>3, <1>8, <3>2
  <2>. QED
    BY <2>1 DEF ScanRow
<1>11. WorkerRows' /\ ScanRows'
  BY <1>7, <1>8, <1>9, <1>10, StepLinks
<1>12. seen' \in [Workers -> [Rfps -> RfpStates]]
  <2>. DEFINE Sights == [Rfps -> RfpStates]
              saw == [seen[w] EXCEPT ![runs[s.run].rfp] = value]
  <2>1. seen \in [Workers -> Sights] /\ saw \in Sights
    BY DEF TypeOK
  <2>2. seen' = [seen EXCEPT ![w] = saw]
    OBVIOUS
  <2>. HIDE DEF Sights, saw
  <2>3. seen' \in [Workers -> Sights]
    BY ONLY <2>1, <2>2, w \in Workers
  <2>. QED
    BY <2>3 DEF Sights
<1>. QED
  BY <1>2, <1>3, <1>4, <1>5, <1>6, <1>11, <1>12

LEMMA TreatedQueue ==
  ASSUME IInv, NEW w \in Workers, NEW s \in scan[w], NEW row, NEW value,
         Treat(w, s, row, value), NEW d, d = runs[s.run].rfp,
         \A r \in RunIds : runs'[r].rfp = runs[r].rfp,
         \A e \in Rfps \ {d} : \A j \in JobsOf(e) : /\ j \in JobsOf(e)'
                                                  /\ jobs'[j] = jobs[j],
         value = "received" => \E j \in JobsOf(d)' : jobs'[j].status = "queued"
  PROVE  BootsApart' /\ BootRecovers'
<1>. USE DEF IInv, Treat
<1>1. BootsApart'
  BY DEF BootsApart
<1>2. d \in held[w] /\ d \in Rfps
  BY DEF ScanRows, ScanRow, TypeOK
<1>3. /\ seen'[w][d] = value
      /\ \A e \in Rfps \ {d} : seen'[w][e] = seen[w][e]
      /\ \A v \in Workers \ {w} : seen'[v] = seen[v]
  <2>1. seen[w] \in [Rfps -> RfpStates] /\ seen \in [Workers -> [Rfps -> RfpStates]]
    BY DEF TypeOK
  <2>2. seen' = [seen EXCEPT ![w] = [seen[w] EXCEPT ![d] = value]]
    OBVIOUS
  <2>. QED
    BY ONLY <1>2, <2>1, <2>2, w \in Workers
<1>4. BootRecovers'
  <2> SUFFICES ASSUME NEW v \in Workers, NEW e \in held[v], pc[v] = "requeue",
                      \A t \in scan'[v] : runs'[t.run].rfp # e,
                      seen'[v][e] = "received"
      PROVE  \E j \in JobsOf(e)' : jobs'[j].status = "queued"
    BY DEF BootRecovers
  <2>1. CASE e = d
    <3>1. v = w
      BY <1>2, <2>1 DEF BootsApart
    <3>. QED
      BY <1>3, <2>1, <3>1
  <2>2. CASE e # d
    <3>1. e \in Rfps
      BY DEF TypeOK
    <3>2. \A t \in scan[v] : t.run \in RunIds /\ (t \in scan'[v] \/ t = s)
      BY DEF TypeOK
    <3>3. \A t \in scan[v] : runs[t.run].rfp # e
      BY <2>2, <3>2
    <3>4. seen[v][e] = "received"
      BY <1>3, <2>2, <3>1
    <3>5. \E j \in JobsOf(e) : jobs[j].status = "queued"
      BY <3>3, <3>4 DEF BootRecovers
    <3>. QED
      BY <2>2, <3>1, <3>5
  <2>. QED
    BY <2>1, <2>2
<1>. QED
  BY <1>1, <1>4

LEMMA GiveUpInv ==
  ASSUME NEW w \in Workers
  PROVE  IInv /\ (\E s \in scan[w] : GiveUp(w, s)) => IInv'
<1> SUFFICES ASSUME IInv, NEW s \in scan[w], GiveUp(w, s) PROVE IInv'
  OBVIOUS
<1>. DEFINE d == runs[s.run].rfp
<1>1. /\ pc[w] = "requeue" /\ d \in Rfps
      /\ runs[s.run] \in RunRows /\ s.run \in RunIds
  BY ScannedRun DEF GiveUp
<1>2. Treat(w, s, GivenUp(runs[s.run]), "failed")
  BY <1>1, GivenUpRun DEF GiveUp, Treat, RfpStates
<1>3. /\ state' \in {state, [state EXCEPT ![d] = "failed"]}
      /\ UNCHANGED <<file, matrix, nruns, njobs, overCap, degraded, req, pc,
                     wjob, wrun, held, faults>>
  BY <1>1 DEF GiveUp, FailDocument, Assigned, IInv, TypeOK
<1>4. \A j \in JobIds : /\ jobs'[j] \in JobRows
                        /\ jobs'[j].rfp = jobs[j].rfp
                        /\ jobs[j] = NoJob => jobs'[j] = NoJob
                        /\ jobs'[j].status = "none" <=> jobs[j].status = "none"
                        /\ jobs[j].rfp # d => jobs'[j] = jobs[j]
  <2>1. \A j \in JobIds : [jobs[j] EXCEPT !.status = "failed"] \in JobRows
    BY EditedJob DEF IInv, TypeOK, JobStates
  <2>2. \A j \in JobIds : /\ jobs[j] \in JobRows
                          /\ jobs'[j] \in {jobs[j],
                                [jobs[j] EXCEPT !.status = "failed"]}
                          /\ jobs[j].rfp # d => jobs'[j] = jobs[j]
                          /\ jobs[j].status = "none" => jobs'[j] = jobs[j]
    BY DEF GiveUp, IInv, TypeOK
  <2>. QED
    BY <2>1, <2>2 DEF JobRows, NoJob
<1>5. jobs' \in [JobIds -> JobRows]
  BY <1>4 DEF GiveUp
<1>6. /\ runs' \in [RunIds -> RunRows]
      /\ scan' \in [Workers -> SUBSET [run: RunIds, attempt: Nat]]
      /\ \A r \in RunIds : r > nruns' => runs'[r] = NoRun
      /\ \A r \in RunIds : runs'[r].stage # "none" => runs'[r].rfp \in Rfps
      /\ \A r \in RunIds : runs'[r].rfp = runs[r].rfp
      /\ seen' \in [Workers -> [Rfps -> RfpStates]]
      /\ WorkerRows' /\ ScanRows'
  <2>1. /\ njobs' \in njobs..MaxJobs
        /\ \A j \in 1..njobs : j \in JobIds
    BY <1>3, BoundsAssumption DEF IInv, TypeOK, JobIds
  <2>. QED
    BY <1>2, <1>4, <2>1, TreatedLinks
<1>7. state' \in [Rfps -> RfpStates]
  BY <1>3 DEF IInv, TypeOK, RfpStates
<1>8. TypeOK'
  BY <1>3, <1>5, <1>6, <1>7 DEF IInv, TypeOK
<1>9. FreshRows' /\ OwnedRows'
  BY <1>3, <1>4, <1>6 DEF IInv, FreshRows, OwnedRows
<1>10. BootsApart' /\ BootRecovers'
  <2>1. \A e \in Rfps \ {d} : \A j \in JobsOf(e) : /\ j \in JobsOf(e)'
                                                 /\ jobs'[j] = jobs[j]
    BY <1>4 DEF JobsOf
  <2>. QED
    BY <1>2, <1>6, <2>1, TreatedQueue
<1>. QED
  BY <1>6, <1>8, <1>9, <1>10 DEF IInv

LEMMA RequeueInv ==
  ASSUME NEW w \in Workers
  PROVE  IInv /\ (\E s \in scan[w] : Requeue(w, s)) => IInv'
<1> SUFFICES ASSUME IInv, NEW s \in scan[w], Requeue(w, s) PROVE IInv'
  OBVIOUS
<1>0. PICK d \in Rfps : d = runs[s.run].rfp
  BY ScannedRun DEF Requeue
<1>1. /\ pc[w] = "requeue"
      /\ runs[s.run] \in RunRows /\ s.run \in RunIds
      /\ runs[s.run].stage # "none"
      /\ s.attempt + 1 \in Nat
  BY ScannedRun DEF Requeue
<1>2. PICK row : Treat(w, s, row, "received")
  <2>1. \A n \in Nat : /\ Retried(runs[s.run], n) \in RunRows
                       /\ Retried(runs[s.run], n).rfp = runs[s.run].rfp
                       /\ Retried(runs[s.run], n).stage = runs[s.run].stage
    BY <1>1, RetriedRun
  <2>. QED
    BY <1>1, <2>1 DEF Requeue, Treat, RfpStates
<1>3. /\ state' \in {state, [state EXCEPT ![d] = "received"]}
      /\ matrix' \in [Rfps -> MatrixStates]
      /\ UNCHANGED <<file, nruns, overCap, degraded, req, pc, wjob, wrun, held,
                     faults>>
  BY <1>0 DEF Requeue, Assigned, IInv, TypeOK, MatrixStates
<1>. DEFINE QueuedAgain ==
              /\ jobs' \in [JobIds -> JobRows]
              /\ njobs' \in njobs..MaxJobs
              /\ \E k \in JobIds :
                   /\ k <= njobs'
                   /\ jobs'[k].rfp = d /\ jobs'[k].status = "queued"
                   /\ \A j \in JobIds \ {k} : jobs'[j] = jobs[j]
                   /\ k <= njobs => jobs[k].rfp = d
<1>4. QueuedAgain
  <2>. USE BoundsAssumption DEF IInv, TypeOK
  <2>1. ASSUME NEW k \in Revivable(d), jobs' = [jobs EXCEPT ![k] = ResetJob(@)],
               njobs' = njobs
        PROVE  QueuedAgain
    <3>1. k \in JobIds /\ jobs[k].rfp = d /\ k <= njobs
      BY <2>1 DEF Revivable, JobsOf, FreshRows, NoJob, JobIds
    <3>2. ResetJob(jobs[k]) \in JobRows
      BY <3>1, EditedJob DEF ResetJob, JobStates
    <3>3. ResetJob(jobs[k]).rfp = d /\ ResetJob(jobs[k]).status = "queued"
      BY <3>1 DEF ResetJob, JobRows
    <3>4. /\ jobs' \in [JobIds -> JobRows]
          /\ jobs'[k] = ResetJob(jobs[k])
          /\ \A j \in JobIds \ {k} : jobs'[j] = jobs[j]
      BY <2>1, <3>1, <3>2
    <3>. QED
      BY <2>1, <3>1, <3>3, <3>4
  <2>2. ASSUME Enqueue(d, UnparkedPriority(d))
        PROVE  QueuedAgain
    <3>. DEFINE k == njobs + 1
    <3>1. k \in JobIds /\ njobs' = k /\ k <= MaxJobs
      BY <2>2 DEF Enqueue, JobIds
    <3>2. UnparkedPriority(d) \in Priorities
      BY DEF UnparkedPriority, Priorities
    <3>3. [rfp |-> d, status |-> "queued", priority |-> UnparkedPriority(d)]
            \in JobRows
      BY <1>1, <3>2 DEF JobRows, JobStates
    <3>4. /\ jobs' \in [JobIds -> JobRows]
          /\ jobs'[k].rfp = d /\ jobs'[k].status = "queued"
          /\ \A j \in JobIds \ {k} : jobs'[j] = jobs[j]
      BY <2>2, <3>1, <3>3 DEF Enqueue
    <3>. QED
      BY <3>1, <3>4
  <2>. QED
    BY <1>0, <2>1, <2>2 DEF Requeue
<1>. HIDE DEF QueuedAgain
<1>5. PICK k \in JobIds :
        /\ k <= njobs'
        /\ jobs'[k].rfp = d /\ jobs'[k].status = "queued"
        /\ \A j \in JobIds \ {k} : jobs'[j] = jobs[j]
        /\ k <= njobs => jobs[k].rfp = d
  BY <1>4 DEF QueuedAgain
<1>6. /\ runs' \in [RunIds -> RunRows]
      /\ scan' \in [Workers -> SUBSET [run: RunIds, attempt: Nat]]
      /\ \A r \in RunIds : r > nruns' => runs'[r] = NoRun
      /\ \A r \in RunIds : runs'[r].stage # "none" => runs'[r].rfp \in Rfps
      /\ \A r \in RunIds : runs'[r].rfp = runs[r].rfp
      /\ seen' \in [Workers -> [Rfps -> RfpStates]]
      /\ WorkerRows' /\ ScanRows'
  <2>1. \A j \in 1..njobs : j \in JobIds /\ jobs'[j].rfp = jobs[j].rfp
    BY <1>5, BoundsAssumption DEF IInv, TypeOK, JobIds
  <2>. QED
    BY <1>2, <1>4, <2>1, TreatedLinks DEF QueuedAgain
<1>7. state' \in [Rfps -> RfpStates]
  BY <1>3 DEF IInv, TypeOK, RfpStates
<1>8. TypeOK'
  <2>1. njobs' \in 0..MaxJobs
    BY <1>4, BoundsAssumption DEF QueuedAgain, IInv, TypeOK
  <2>. QED
    BY <1>3, <1>4, <1>6, <1>7, <2>1 DEF QueuedAgain, IInv, TypeOK
<1>9. FreshRows'
  <2>1. \A j \in JobIds : j > njobs' => j > njobs /\ j # k
    BY <1>4, <1>5, BoundsAssumption DEF QueuedAgain, IInv, TypeOK, JobIds
  <2>. QED
    BY <1>5, <1>6, <2>1 DEF IInv, FreshRows
<1>10. OwnedRows'
  BY <1>1, <1>5, <1>6 DEF IInv, OwnedRows
<1>11. \A e \in Rfps \ {d} : \A j \in JobsOf(e) : j # k
  <2>1. k > njobs => jobs[k].status = "none"
    BY DEF IInv, FreshRows, NoJob
  <2>2. k \in Nat /\ njobs \in Nat
    BY DEF IInv, TypeOK, JobIds
  <2>. QED
    BY <1>5, <2>1, <2>2 DEF JobsOf
<1>12. BootsApart' /\ BootRecovers'
  <2>1. \A e \in Rfps \ {d} : \A j \in JobsOf(e) : /\ j \in JobsOf(e)'
                                                 /\ jobs'[j] = jobs[j]
    BY <1>5, <1>11 DEF JobsOf
  <2>2. k \in JobsOf(d)' /\ jobs'[k].status = "queued"
    BY <1>5 DEF JobsOf
  <2>. QED
    BY <1>0, <1>2, <1>6, <2>1, <2>2, TreatedQueue
<1>. QED
  BY <1>6, <1>8, <1>9, <1>10, <1>12 DEF IInv

-----------------------------------------------------------------------------
(* The theorems.                                                           *)

LEMMA StepInv == IInv /\ [Next]_vars => IInv'
<1> SUFFICES ASSUME IInv, [Next]_vars PROVE IInv'
  OBVIOUS
<1>1. CASE ApiStep
  BY <1>1, UploadInv, UploadCloneInv, ReprocessReadInv, ReprocessWriteInv,
     ReprocessAbortInv, DeleteMatrixInv DEF ApiStep
<1>2. CASE ClockStep
  BY <1>2, ProbeProvidersInv, MonthStartInv, DailyMaintenanceInv, FallSilentInv
  DEF ClockStep
<1>3. CASE \E w \in Workers : WorkStep(w)
  BY <1>3, ClaimInv, StartInv, BeatInv, BeginReadingInv, StagesInv, CommitInv,
     DocumentGoneInv DEF WorkStep
<1>4. CASE \E w \in Workers : BootStep(w)
  BY <1>4, BootScanInv, BootLockInv, BootConflictInv, GiveUpInv, RequeueInv,
     BootDoneInv DEF BootStep
<1>5. CASE \E w \in Workers : FaultStep(w)
  BY <1>5, DatabaseErrorInv, CrashInv DEF FaultStep
<1>6. CASE UNCHANGED vars
  <2>1. TypeOK'
    BY <1>6 DEF vars, dbVars, workerVars, IInv, TypeOK
  <2>. QED
    BY <1>6, <2>1, RowsUntouched DEF vars
<1>. QED
  BY <1>1, <1>2, <1>3, <1>4, <1>5, <1>6 DEF Next

\* Every reachable state of the queue satisfies the inductive invariant.
THEOREM Invariance == Spec => []IInv
<1>1. Init => IInv
  BY InitInv
<1>2. IInv /\ [Next]_vars => IInv'
  BY StepInv
<1>. QED
  BY <1>1, <1>2, PTL DEF Spec

\* The tables, the workers' locals and the scans keep their types.
THEOREM TypeCorrect == Spec => []TypeOK
<1>1. IInv => TypeOK
  BY DEF IInv
<1>. QED
  BY <1>1, Invariance, PTL

\* When requeue_stale_runs has dealt with the stale runs of a document that
\* it locks and has made it wait again, one of its jobs is queued, whatever any
\* number of other workers and overlapping requests commit meanwhile.
THEOREM BootRecoversHolds == Spec => []BootRecovers
<1>1. IInv => BootRecovers
  BY DEF IInv
<1>. QED
  BY <1>1, Invariance, PTL

-----------------------------------------------------------------------------
(* With one worker, no waiting document is forgotten, however many requests *)
(* overlap.  The case to settle: a give-up that finds "failed" in its       *)
(* session writes no state and fails the jobs of a document that a request  *)
(* has put back since the scan.  The run of that request is then left.      *)

OneWorker == \A v, w \in Workers : v = w

LiveJob(j) == jobs[j].status \in {"queued", "processing"}

RunLeft(w) ==
  pc[w] \in {"scanned", "requeue"} =>
    \A s \in scan[w] :
      (/\ runs[s.run].stage # "none"
       /\ seen[w][runs[s.run].rfp] = "failed"
       /\ state[runs[s.run].rfp] = "received")
      => \E r \in RunsOf(runs[s.run].rfp) :
           runs[r].stage = "reading" /\ \A t \in scan[w] : t.run # r

WInv == IInv /\ WaitingHasWork /\ \A w \in Workers : RunLeft(w)

\* d keeps its live jobs and its unfinished runs.
WorkKept(d) ==
  /\ \A j \in JobIds : (jobs[j].rfp = d /\ LiveJob(j)) => jobs'[j].rfp = d /\ LiveJob(j)'
  /\ \A r \in RunIds : (runs[r].rfp = d /\ runs[r].stage = "reading") =>
       runs'[r].rfp = d /\ runs'[r].stage = "reading"

\* d gets a run.
RunAdded(d) ==
  \E r \in RunIds : r > nruns /\ runs'[r].rfp = d /\ runs'[r].stage = "reading"

\* No run comes back from the dead.
RunsStay ==
  \A r \in 1..nruns : runs'[r].stage # "none" =>
    runs[r].stage # "none" /\ runs'[r].rfp = runs[r].rfp

LEMMA RunRange == ASSUME IInv PROVE 1..nruns \subseteq RunIds
  BY BoundsAssumption DEF IInv, TypeOK, RunIds

LEMMA KeptWaiting ==
  ASSUME WInv, RunsStay,
         \A d \in Rfps : state'[d] = "received" =>
           (state[d] = "received" /\ WorkKept(d)) \/ RunAdded(d),
         \A w \in Workers : pc'[w] \in {"scanned", "requeue"} =>
           /\ pc[w] \in {"scanned", "requeue"}
           /\ scan'[w] = scan[w] /\ seen'[w] = seen[w]
  PROVE  WaitingHasWork' /\ \A w \in Workers : RunLeft(w)'
<1>. USE DEF WInv
<1>1. ASSUME NEW d \in Rfps, state'[d] = "received"
      PROVE  (\E j \in JobsOf(d)' : LiveJob(j)') \/ Unfinished(d)'
  <2>1. CASE RunAdded(d)
    BY <2>1 DEF RunAdded, Unfinished, RunsOf
  <2>2. CASE state[d] = "received" /\ WorkKept(d)
    <3>1. CASE \E j \in JobsOf(d) : LiveJob(j)
      BY <2>2, <3>1 DEF WorkKept, JobsOf, LiveJob
    <3>2. CASE Unfinished(d)
      BY <2>2, <3>2 DEF WorkKept, Unfinished, RunsOf
    <3>. QED
      BY <2>2, <3>1, <3>2 DEF WaitingHasWork, LiveJob
  <2>. QED
    BY <1>1, <2>1, <2>2
<1>2. ASSUME NEW w \in Workers, pc'[w] \in {"scanned", "requeue"},
             NEW s \in scan[w], runs'[s.run].stage # "none",
             NEW d, d = runs'[s.run].rfp,
             seen[w][d] = "failed", state'[d] = "received"
      PROVE  \E r \in RunsOf(d)' :
               runs'[r].stage = "reading" /\ \A t \in scan[w] : t.run # r
  <2>0. pc[w] \in {"scanned", "requeue"}
    BY <1>2
  <2>1. \A t \in scan[w] : t.run \in 1..nruns
    BY DEF IInv, ScanRows, ScanRow
  <2>2. runs[s.run].stage # "none" /\ runs[s.run].rfp = d
    BY <1>2, <2>1 DEF RunsStay
  <2>3. d \in Rfps
    BY <2>2 DEF IInv, OwnedRows, TypeOK
  <2>4. CASE RunAdded(d)
    <3>1. PICK r \in RunIds : r > nruns /\ runs'[r].rfp = d /\ runs'[r].stage = "reading"
      BY <2>4 DEF RunAdded
    <3>2. \A t \in scan[w] : t.run # r
      BY <2>1, <3>1 DEF IInv, TypeOK, RunIds
    <3>. QED
      BY <3>1, <3>2 DEF RunsOf
  <2>5. CASE state[d] = "received" /\ WorkKept(d)
    <3>1. PICK r \in RunsOf(d) : runs[r].stage = "reading" /\ \A t \in scan[w] : t.run # r
      BY <1>2, <2>0, <2>2, <2>5 DEF RunLeft
    <3>2. r \in RunIds /\ runs'[r].rfp = d /\ runs'[r].stage = "reading"
      BY <2>5, <3>1 DEF WorkKept, RunsOf
    <3>. QED
      BY <3>1, <3>2 DEF RunsOf
  <2>. QED
    BY <1>2, <2>3, <2>4, <2>5
<1>. QED
  BY <1>1, <1>2 DEF WaitingHasWork, RunLeft, LiveJob

\* Steps that write no state, no job's status and no run's stage.
LEMMA QuietWaiting ==
  ASSUME WInv, UNCHANGED state,
         \A j \in JobIds : jobs'[j].rfp = jobs[j].rfp /\ (LiveJob(j) => LiveJob(j)'),
         \A r \in RunIds : runs'[r].rfp = runs[r].rfp /\ runs'[r].stage = runs[r].stage,
         \A w \in Workers : pc'[w] \in {"scanned", "requeue"} =>
           /\ pc[w] \in {"scanned", "requeue"}
           /\ scan'[w] = scan[w] /\ seen'[w] = seen[w]
  PROVE  WaitingHasWork' /\ \A w \in Workers : RunLeft(w)'
<1>1. RunsStay
  BY RunRange DEF RunsStay, WInv
<1>2. \A d \in Rfps : state'[d] = state[d] /\ WorkKept(d)
  BY DEF WorkKept
<1>. QED
  BY <1>1, <1>2, KeptWaiting

LEMMA ApiWaiting ==
  ASSUME WInv, ApiStep
  PROVE  WaitingHasWork' /\ \A w \in Workers : RunLeft(w)'
<1>. USE DEF WInv
<1>1. ASSUME NEW d \in Rfps, NEW attempt, NEW priority, AddRun(d, attempt),
             Enqueue(d, priority), \A e \in Rfps \ {d} : state'[e] = state[e],
             UNCHANGED workerVars
      PROVE  WaitingHasWork' /\ \A w \in Workers : RunLeft(w)'
  <2>. USE BoundsAssumption DEF IInv, TypeOK
  <2>1. nruns + 1 \in RunIds /\ njobs + 1 \in JobIds
    BY <1>1 DEF AddRun, Enqueue, RunIds, JobIds
  <2>2. /\ \A r \in RunIds \ {nruns + 1} : runs'[r] = runs[r]
        /\ runs'[nruns + 1].rfp = d /\ runs'[nruns + 1].stage = "reading"
        /\ runs[nruns + 1] = NoRun
    BY <1>1, <2>1 DEF AddRun, FreshRows
  <2>3. /\ \A j \in JobIds \ {njobs + 1} : jobs'[j] = jobs[j]
        /\ jobs[njobs + 1] = NoJob
    BY <1>1, <2>1 DEF Enqueue, FreshRows
  <2>4. RunAdded(d)
    <3>1. PICK r : r = nruns + 1
      OBVIOUS
    <3>2. r \in RunIds
      BY <2>1, <3>1
    <3>3. r > nruns
      BY <3>1
    <3>4. runs'[r].rfp = d
      BY <2>2, <3>1
    <3>5. runs'[r].stage = "reading"
      BY <2>2, <3>1
    <3>. QED
      BY ONLY <3>2, <3>3, <3>4, <3>5 DEF RunAdded
  <2>5. \A e \in Rfps : WorkKept(e)
    <3>1. ASSUME NEW j \in JobIds, jobs[j].status # "none"
          PROVE  jobs'[j] = jobs[j]
      <4>1. j # njobs + 1
        BY ONLY <2>3, <3>1 DEF NoJob
      <4>. QED
        BY ONLY <2>3, <3>1, <4>1
    <3>2. ASSUME NEW r \in RunIds, runs[r].stage # "none"
          PROVE  runs'[r] = runs[r]
      <4>1. r # nruns + 1
        BY ONLY <2>2, <3>2 DEF NoRun
      <4>. QED
        BY ONLY <2>2, <3>2, <4>1
    <3>. QED
      BY ONLY <3>1, <3>2 DEF WorkKept, LiveJob
  <2>6. RunsStay
    BY <2>1, <2>2, RunRange DEF RunsStay, NoRun
  <2>. QED
    BY <1>1, <2>4, <2>5, <2>6, KeptWaiting DEF workerVars
<1>2. CASE \E d \in Rfps : Upload(d)
  <2>1. PICK d \in Rfps : Upload(d)
    BY <1>2
  <2>2. \A e \in Rfps \ {d} : state'[e] = state[e]
    BY <2>1 DEF Upload, IInv, TypeOK
  <2>3. AddRun(d, 1) /\ Enqueue(d, PriorityForNewJob(d)) /\ UNCHANGED workerVars
    BY <2>1 DEF Upload
  <2>. QED
    BY <1>1, <2>2, <2>3
<1>3. CASE \E q \in Requests : ReprocessWrite(q)
  <2>1. PICK q \in Requests : ReprocessWrite(q)
    BY <1>3
  <2>2. PICK d \in Rfps : d = req[q].rfp
    BY <2>1 DEF ReprocessWrite, IInv, TypeOK, ReadRows
  <2>3. \A e \in Rfps \ {d} : state'[e] = state[e]
    BY <2>1, <2>2 DEF ReprocessWrite, Assigned, IInv, TypeOK
  <2>4. /\ AddRun(d, req[q].attempt + 1) /\ Enqueue(d, PriorityForNewJob(d))
        /\ UNCHANGED workerVars
    BY <2>1, <2>2 DEF ReprocessWrite
  <2>. QED
    BY <1>1, <2>3, <2>4
<1>4. CASE \E d, p \in Rfps : UploadClone(d, p)
  <2>1. PICK d \in Rfps, p \in Rfps : UploadClone(d, p)
    BY <1>4
  <2>2. \A e \in Rfps : state'[e] = "received" => state[e] = "received" /\ WorkKept(e)
    BY <2>1 DEF UploadClone, IInv, TypeOK, WorkKept, LiveJob
  <2>3. RunsStay
    BY <2>1 DEF UploadClone, RunsStay
  <2>. QED
    BY <2>1, <2>2, <2>3, KeptWaiting DEF UploadClone, workerVars
<1>5. CASE \E d \in Rfps : DeleteMatrix(d)
  <2>1. PICK d \in Rfps : DeleteMatrix(d)
    BY <1>5
  <2>2. /\ \A j \in JobIds : jobs[j].rfp # d => jobs'[j] = jobs[j]
        /\ \A r \in RunIds : runs[r].rfp # d => runs'[r] = runs[r]
        /\ \A r \in RunIds : runs'[r].stage # "none" => runs'[r] = runs[r]
    BY <2>1 DEF DeleteMatrix, NoRun
  <2>3. \A e \in Rfps : state'[e] = "received" => e # d /\ state[e] = "received"
    BY <2>1 DEF DeleteMatrix, IInv, TypeOK
  <2>4. \A e \in Rfps \ {d} : WorkKept(e)
    BY <2>2 DEF WorkKept, LiveJob
  <2>5. RunsStay
    BY <2>2, RunRange DEF RunsStay
  <2>. QED
    BY <2>1, <2>3, <2>4, <2>5, KeptWaiting DEF DeleteMatrix, workerVars
<1>6. CASE \/ \E q \in Requests, d \in Rfps : ReprocessRead(q, d)
           \/ \E q \in Requests : ReprocessAbort(q)
  <2>1. UNCHANGED <<dbVars, workerVars>>
    BY <1>6 DEF ReprocessRead, ReprocessAbort
  <2>. QED
    BY <2>1, QuietWaiting DEF dbVars, workerVars, LiveJob
<1>. QED
  BY <1>2, <1>3, <1>4, <1>5, <1>6 DEF ApiStep

LEMMA ClockWaiting ==
  ASSUME WInv, ClockStep
  PROVE  WaitingHasWork' /\ \A w \in Workers : RunLeft(w)'
<1>. USE DEF WInv
<1>1. CASE ProbeProviders \/ MonthStart
  BY <1>1, QuietWaiting DEF ProbeProviders, MonthStart, dbVars, workerVars, LiveJob
<1>2. CASE \E aged \in SUBSET Rfps : DailyMaintenance(aged)
  <2>1. PICK aged \in SUBSET Rfps : DailyMaintenance(aged)
    BY <1>2
  <2>2. \A j \in JobIds : /\ jobs'[j].rfp = jobs[j].rfp
                          /\ jobs'[j].status = jobs[j].status
    BY <2>1 DEF DailyMaintenance, IInv, TypeOK, JobRows
  <2>3. UNCHANGED <<runs, nruns, workerVars>>
    BY <2>1 DEF DailyMaintenance
  <2>4. \A d \in Rfps : state'[d] = "received" => state[d] = "received" /\ WorkKept(d)
    BY <2>1, <2>2, <2>3 DEF DailyMaintenance, WorkKept, LiveJob
  <2>5. RunsStay
    BY <2>3 DEF RunsStay
  <2>. QED
    BY <2>3, <2>4, <2>5, KeptWaiting DEF workerVars
<1>3. CASE \E r \in RunIds : FallSilent(r)
  <2>1. PICK r \in RunIds : FallSilent(r)
    BY <1>3
  <2>2. \A s \in RunIds : /\ runs'[s].rfp = runs[s].rfp
                          /\ runs'[s].stage = runs[s].stage
    BY <2>1 DEF FallSilent, IInv, TypeOK, RunRows
  <2>. QED
    BY <2>1, <2>2, QuietWaiting DEF FallSilent, workerVars, LiveJob
<1>. QED
  BY <1>1, <1>2, <1>3 DEF ClockStep

LEMMA WorkerWaiting ==
  ASSUME OneWorker, WInv, NEW w \in Workers, WorkStep(w) \/ FaultStep(w)
  PROVE  WaitingHasWork' /\ \A v \in Workers : RunLeft(v)'
<1>. USE DEF WInv
<1>1. CASE \E j \in JobIds : Claim(w, j)
  <2>1. PICK j \in JobIds : Claim(w, j)
    BY <1>1
  <2>2. /\ \A k \in JobIds : jobs'[k].rfp = jobs[k].rfp /\ (LiveJob(k) => LiveJob(k)')
        /\ pc' = [pc EXCEPT ![w] = "claimed"]
    BY <2>1 DEF Claim, IInv, TypeOK, JobRows, LiveJob
  <2>. QED
    BY <2>1, <2>2, QuietWaiting DEF Claim, OneWorker, IInv, TypeOK
<1>2. CASE Beat(w)
  <2>1. \A s \in RunIds : /\ runs'[s].rfp = runs[s].rfp
                          /\ runs'[s].stage = runs[s].stage
    BY <1>2 DEF Beat, IInv, TypeOK, RunRows
  <2>. QED
    BY <1>2, <2>1, QuietWaiting DEF Beat, workerVars, LiveJob
<1>3. CASE Commit(w)
  <2>. DEFINE r == wrun[w]
              d == runs[r].rfp
  <2>1. /\ r \in RunIds /\ wjob[w] \in JobIds /\ d \in Rfps
        /\ runs[r].stage # "none" /\ jobs[wjob[w]].rfp = d
    BY <1>3 DEF IInv, WorkerRows, WorkerRow, OwnedRows, TypeOK, Commit, Finished,
                Working
  <2>2. Outcome(w) \in {"ready", "failed"}
    BY DEF Outcome
  <2>3. /\ \A s \in RunIds \ {r} : runs'[s] = runs[s]
        /\ runs'[r].rfp = d
    <3>1. runs' = [runs EXCEPT ![r] = Published(runs[r], Outcome(w))]
      BY <1>3 DEF Commit
    <3>2. Published(runs[r], Outcome(w)).rfp = d
      BY <2>1, <2>2, PublishedRun DEF IInv, TypeOK
    <3>. QED
      BY <2>1, <3>1, <3>2 DEF IInv, TypeOK
  <2>4. \A k \in JobIds : jobs[k].rfp # d => jobs'[k] = jobs[k]
    BY <1>3, <2>1 DEF Commit, IInv, TypeOK
  <2>5. state' = [state EXCEPT ![d] = Outcome(w)]
    BY <1>3 DEF Commit
  <2>6. \A e \in Rfps : state'[e] = "received" => e # d /\ state[e] = "received"
    BY <2>1, <2>2, <2>5 DEF IInv, TypeOK
  <2>7. \A e \in Rfps \ {d} : WorkKept(e)
    BY <2>3, <2>4 DEF WorkKept, LiveJob
  <2>8. RunsStay
    BY <2>1, <2>3, RunRange DEF RunsStay
  <2>9. \A v \in Workers : pc'[v] = "poll"
    BY <1>3 DEF Commit, EndCycle, OneWorker, IInv, TypeOK
  <2>. QED
    BY <2>6, <2>7, <2>8, <2>9, KeptWaiting
<1>4. CASE \/ Start(w) \/ BeginReading(w)
           \/ \E from \in Extracting, to \in Extracting \cup Finished :
                Advance(w, from, to)
           \/ DocumentGone(w) \/ FaultStep(w)
  <2>1. UNCHANGED dbVars
    BY <1>4 DEF Start, BeginReading, Advance, DocumentGone, FaultStep,
                DatabaseError, Crash, Abandon
  <2>2. pc'[w] \notin {"scanned", "requeue"}
    BY <1>4 DEF Start, BeginReading, Advance, DocumentGone, FaultStep,
                DatabaseError, Crash, Abandon, EndCycle, Extracting, Finished,
                IInv, TypeOK
  <2>. QED
    BY <2>1, <2>2, QuietWaiting DEF dbVars, OneWorker, LiveJob
<1>5. (ReadPages(w) \/ ReadNoText(w) \/ MineChunks(w) \/ PersistRows(w)
         \/ FailExtraction(w)) =>
      \E from \in Extracting, to \in Extracting \cup Finished : Advance(w, from, to)
  BY DEF ReadPages, ReadNoText, MineChunks, PersistRows, FailExtraction,
         Extracting, Finished
<1>. QED
  BY <1>1, <1>2, <1>3, <1>4, <1>5 DEF WorkStep

\* What a treatment of s leaves of another entry's run.
LEMMA TreatedWaiting ==
  ASSUME OneWorker, WInv, NEW w \in Workers, NEW s \in scan[w], NEW row, NEW value,
         Treat(w, s, row, value), NEW d \in Rfps, d = runs[s.run].rfp,
         \A e \in Rfps \ {d} : state'[e] = state[e],
         \A j \in JobIds : (jobs[j].rfp # d /\ LiveJob(j)) =>
           jobs'[j].rfp = jobs[j].rfp /\ LiveJob(j)',
         value = "failed" => /\ state'[d] = "received" =>
                                  seen[w][d] = "failed" /\ state[d] = "received",
         value # "failed" => \E j \in JobIds : jobs'[j].rfp = d /\ LiveJob(j)'
  PROVE  WaitingHasWork' /\ \A v \in Workers : RunLeft(v)'
<1>. USE DEF WInv, Treat
<1>1. /\ s.run \in RunIds /\ \A t \in scan[w] : t.run \in RunIds
      /\ runs[s.run].stage # "none"
      /\ \A t \in scan[w] : runs[t.run].stage # "none"
  BY ScannedRun DEF IInv, TypeOK, ScanRows, ScanRow
<1>2. /\ \A r \in RunIds \ {s.run} : runs'[r] = runs[r]
      /\ runs'[s.run].rfp = d
      /\ scan'[w] = scan[w] \ {s}
  BY <1>1 DEF IInv, TypeOK
<1>3. /\ seen'[w][d] = value
      /\ \A e \in Rfps \ {d} : seen'[w][e] = seen[w][e]
  <2>1. seen[w] \in [Rfps -> RfpStates] /\ seen \in [Workers -> [Rfps -> RfpStates]]
    BY DEF IInv, TypeOK
  <2>2. seen' = [seen EXCEPT ![w] = [seen[w] EXCEPT ![d] = value]]
    OBVIOUS
  <2>. QED
    BY ONLY <2>1, <2>2, w \in Workers
<1>4. \A e : \A r \in RunsOf(e) : (\A t \in scan[w] : t.run # r) =>
        r \in RunsOf(e)' /\ runs'[r] = runs[r]
  BY <1>2 DEF RunsOf
<1>5. ASSUME value = "failed", state'[d] = "received"
      PROVE  \E r \in RunsOf(d)' :
               runs'[r].stage = "reading" /\ \A t \in scan'[w] : t.run # r
  <2>1. PICK r \in RunsOf(d) : runs[r].stage = "reading" /\ \A t \in scan[w] : t.run # r
    BY <1>1, <1>5 DEF RunLeft
  <2>. QED
    BY <1>2, <1>4, <2>1
<1>6. ASSUME NEW e \in Rfps, state'[e] = "received"
      PROVE  (\E j \in JobsOf(e)' : LiveJob(j)') \/ Unfinished(e)'
  <2>1. CASE e = d /\ value = "failed"
    BY <1>5, <1>6, <2>1 DEF Unfinished
  <2>2. CASE e = d /\ value # "failed"
    BY <2>2 DEF JobsOf, LiveJob
  <2>3. CASE e # d
    <3>1. CASE \E j \in JobsOf(e) : LiveJob(j)
      BY <2>3, <3>1 DEF JobsOf, LiveJob
    <3>2. CASE Unfinished(e)
      BY <1>1, <1>2, <2>3, <3>2 DEF Unfinished, RunsOf
    <3>. QED
      BY <1>6, <2>3, <3>1, <3>2 DEF WaitingHasWork, LiveJob
  <2>. QED
    BY <2>1, <2>2, <2>3
<1>7. ASSUME NEW t \in scan'[w], NEW e, e = runs'[t.run].rfp,
             seen'[w][e] = "failed", state'[e] = "received"
      PROVE  \E r \in RunsOf(e)' :
               runs'[r].stage = "reading" /\ \A u \in scan'[w] : u.run # r
  <2>1. t \in scan[w] /\ runs[t.run].rfp = e
    BY <1>1, <1>2, <1>7
  <2>2. CASE e = d
    BY <1>3, <1>5, <1>7, <2>2
  <2>3. CASE e # d
    <3>1. e \in Rfps /\ runs[t.run].stage # "none"
      BY <1>1, <2>1 DEF IInv, OwnedRows
    <3>2. seen[w][e] = "failed" /\ state[e] = "received"
      BY <1>3, <1>7, <2>3, <3>1
    <3>3. PICK r \in RunsOf(e) : runs[r].stage = "reading" /\ \A u \in scan[w] : u.run # r
      BY <2>1, <3>1, <3>2 DEF RunLeft
    <3>. QED
      BY <1>2, <1>4, <3>3
  <2>. QED
    BY <2>2, <2>3
<1>8. RunLeft(w)'
  BY <1>7 DEF RunLeft
<1>. QED
  BY <1>6, <1>8 DEF WaitingHasWork, LiveJob, OneWorker

LEMMA BootWaiting ==
  ASSUME OneWorker, WInv, NEW w \in Workers, BootStep(w)
  PROVE  WaitingHasWork' /\ \A v \in Workers : RunLeft(v)'
<1>. USE DEF WInv
<1>1. CASE BootScan(w)
  <2>1. UNCHANGED dbVars
    BY <1>1 DEF BootScan
  <2>2. WaitingHasWork'
    BY <2>1 DEF dbVars, WaitingHasWork, JobsOf, Unfinished, RunsOf
  <2>3. \A s \in scan'[w] : s.run \in StaleRuns
    BY <1>1 DEF BootScan, IInv, TypeOK
  <2>4. ASSUME NEW s \in scan'[w]
        PROVE  seen'[w][runs[s.run].rfp] = state[runs[s.run].rfp]
    <3>1. s.run \in StaleRuns /\ s.run \in RunIds
      BY <2>3 DEF StaleRuns
    <3>2. runs[s.run].rfp \in Rfps
      BY <3>1 DEF StaleRuns, IInv, OwnedRows
    <3>3. seen' = [seen EXCEPT ![w] = [d \in Rfps |->
                     IF \E r \in StaleRuns : runs[r].rfp = d THEN state[d]
                                                             ELSE "absent"]]
      BY <1>1 DEF BootScan
    <3>. QED
      BY <3>1, <3>2, <3>3 DEF IInv, TypeOK
  <2>5. RunLeft(w)'
    BY <2>1, <2>4 DEF RunLeft, dbVars
  <2>. QED
    BY <2>2, <2>5 DEF OneWorker
<1>2. CASE BootLock(w)
  <2>1. /\ pc[w] = "scanned" /\ UNCHANGED <<dbVars, scan, seen>>
        /\ \A v \in Workers : v = w
    BY <1>2 DEF BootLock, OneWorker
  <2>. QED
    BY <2>1, QuietWaiting DEF dbVars, LiveJob
<1>3. CASE BootConflict(w) \/ BootDone(w)
  <2>1. UNCHANGED dbVars /\ pc'[w] \notin {"scanned", "requeue"}
    BY <1>3 DEF BootConflict, BootDone, IInv, TypeOK
  <2>. QED
    BY <2>1, QuietWaiting DEF dbVars, OneWorker, LiveJob
<1>4. CASE \E s \in scan[w] : GiveUp(w, s)
  <2>1. PICK s \in scan[w] : GiveUp(w, s)
    BY <1>4
  <2>2. PICK d \in Rfps : d = runs[s.run].rfp
    BY <2>1, ScannedRun DEF GiveUp
  <2>3. Treat(w, s, GivenUp(runs[s.run]), "failed")
    BY <2>1, ScannedRun, GivenUpRun DEF GiveUp, Treat, RfpStates
  <2>4. /\ state' = IF seen[w][d] = "failed" THEN state
                                              ELSE [state EXCEPT ![d] = "failed"]
        /\ \A j \in JobIds : jobs[j].rfp # d => jobs'[j] = jobs[j]
    BY <2>1, <2>2 DEF GiveUp, FailDocument, Assigned, IInv, TypeOK
  <2>5. \A e \in Rfps \ {d} : state'[e] = state[e]
    BY <2>4 DEF IInv, TypeOK
  <2>6. state'[d] = "received" => seen[w][d] = "failed" /\ state[d] = "received"
    BY <2>4 DEF IInv, TypeOK
  <2>7. \A j \in JobIds : (jobs[j].rfp # d /\ LiveJob(j)) =>
           jobs'[j].rfp = jobs[j].rfp /\ LiveJob(j)'
    BY <2>4 DEF LiveJob
  <2>. QED
    BY <2>2, <2>3, <2>5, <2>6, <2>7, TreatedWaiting
<1>5. CASE \E s \in scan[w] : Requeue(w, s)
  <2>1. PICK s \in scan[w] : Requeue(w, s)
    BY <1>5
  <2>2. PICK d \in Rfps : d = runs[s.run].rfp
    BY <2>1, ScannedRun DEF Requeue
  <2>3. PICK row : Treat(w, s, row, "received")
    <3>1. s.attempt + 1 \in Nat /\ runs[s.run] \in RunRows /\ runs[s.run].stage # "none"
      BY <2>1, ScannedRun DEF Requeue
    <3>. QED
      BY <2>1, <3>1, RetriedRun DEF Requeue, Treat, RfpStates
  <2>4. \A e \in Rfps \ {d} : state'[e] = state[e]
    BY <2>1, <2>2 DEF Requeue, Assigned, IInv, TypeOK
  <2>5. PICK k \in JobIds : /\ jobs'[k].rfp = d /\ jobs'[k].status = "queued"
                            /\ \A j \in JobIds \ {k} : jobs'[j] = jobs[j]
                            /\ jobs[k].rfp # d => ~LiveJob(k)
    <3>1. CASE \E k \in Revivable(d) : jobs' = [jobs EXCEPT ![k] = ResetJob(@)]
      BY <3>1 DEF Revivable, JobsOf, ResetJob, IInv, TypeOK, JobRows
    <3>2. CASE Enqueue(d, UnparkedPriority(d))
      <4>1. njobs + 1 \in JobIds /\ jobs[njobs + 1] = NoJob
        BY <3>2, BoundsAssumption DEF Enqueue, JobIds, IInv, TypeOK, FreshRows
      <4>. QED
        BY <3>2, <4>1 DEF Enqueue, NoJob, LiveJob, IInv, TypeOK
    <3>. QED
      BY <2>1, <2>2, <3>1, <3>2 DEF Requeue
  <2>. QED
    BY <2>2, <2>3, <2>4, <2>5, TreatedWaiting DEF LiveJob
<1>. QED
  BY <1>1, <1>2, <1>3, <1>4, <1>5 DEF BootStep

LEMMA WStep == ASSUME OneWorker PROVE WInv /\ [Next]_vars => WInv'
<1> SUFFICES ASSUME WInv, [Next]_vars PROVE WInv'
  OBVIOUS
<1>1. IInv'
  BY StepInv DEF WInv
<1>2. CASE UNCHANGED vars
  <2>1. UNCHANGED <<state, jobs, runs, pc, scan, seen>>
    BY <1>2 DEF vars, dbVars, workerVars
  <2>2. \A j \in JobIds : jobs'[j].rfp = jobs[j].rfp /\ (LiveJob(j) => LiveJob(j)')
    BY <2>1 DEF LiveJob
  <2>3. WaitingHasWork' /\ \A w \in Workers : RunLeft(w)'
    BY <2>1, <2>2, QuietWaiting
  <2>. QED
    BY <1>1, <2>3 DEF WInv
<1>. QED
  BY <1>1, <1>2, ApiWaiting, ClockWaiting, WorkerWaiting, BootWaiting DEF Next, WInv

\* However uploads, overlapping reprocesses, deletions, errors, crashes and
\* boots interleave, a document shown as waiting (rfps.state = "received") has a
\* job that is queued or claimed, or an unfinished run for a boot to find:
\* reprocess, process_one_job and requeue_stale_runs keep rfps, jobs and
\* extraction_runs in step, where a give-up writes no state as well.
THEOREM WaitingHasWorkHolds == ASSUME OneWorker PROVE Spec => []WaitingHasWork
<1>1. Init => WInv
  <2>1. Init => WaitingHasWork /\ \A w \in Workers : RunLeft(w)
    BY DEF Init, WaitingHasWork, RunLeft
  <2>. QED
    BY <2>1, InitInv DEF WInv
<1>2. WInv /\ [Next]_vars => WInv'
  BY WStep
<1>3. WInv => WaitingHasWork
  BY DEF WInv
<1>. QED
  BY <1>1, <1>2, <1>3, PTL DEF Spec
=============================================================================
