-------------------------- MODULE ExtractionQueue --------------------------
(***************************************************************************)
(* The database-backed extraction queue: documents (rfps), extraction runs *)
(* and jobs in Postgres, the worker that claims jobs and extracts, its     *)
(* boot-time recovery of heartbeat-stale runs, and the requests that       *)
(* upload, reprocess and delete documents meanwhile.                       *)
(*                                                                         *)
(* The variables state .. overCap are COMMITTED rows.  run_extraction only *)
(* flushes: everything it writes becomes visible when process_one_job      *)
(* commits, so a worker's pc doubles as the transaction-local run.stage    *)
(* and held[w] is the set of documents whose rows its transaction locks.   *)
(*                                                                         *)
(* An ORM assignment is an UPDATE only if it changes what the session has  *)
(* read: where a read and its write can be apart, both are kept.           *)
(*                                                                         *)
(* Time is abstracted to one bit per run, stale: heartbeat_at is older     *)
(* than STALE_HEARTBEAT_S.                                                 *)
(***************************************************************************)
EXTENDS Naturals, FiniteSets

CONSTANTS
  Rfps,         \* documents that may be uploaded, all of one account
  SweepRfps,    \* the documents whose origin is the nightly sweep
  Workers,      \* worker processes (compose deploys exactly one)
  Requests,     \* concurrently served reprocess requests
  MaxRuns,      \* bound: extraction_runs rows ever created
  MaxJobs,      \* bound: jobs rows ever created
  MaxAttempts,  \* MAX_ATTEMPTS
  MaxFaults,    \* bound: crashes and database errors
  None          \* no row, no request

ASSUME RfpsAssumption == SweepRfps \subseteq Rfps
ASSUME BoundsAssumption == /\ MaxRuns \in Nat
                           /\ MaxJobs \in Nat
                           /\ MaxAttempts \in Nat \ {0}
                           /\ MaxFaults \in Nat
ASSUME NoneAssumption == None \notin Rfps

VARIABLES
  state,     \* rfps.state, plus "absent" (not uploaded) and "deleted"
  file,      \* the source file is still stored (stored_path and the bytes)
  matrix,    \* what the document's requirement rows amount to
  runs,      \* extraction_runs, in creation order
  nruns,     \* extraction_runs rows created so far
  jobs,      \* jobs, in enqueue order
  njobs,     \* jobs rows created so far
  overCap,   \* the account's month-to-date usage exceeds its cap
  degraded,  \* provider_state.json says both providers are down
  req,       \* what each reprocess request read before it writes
  pc,        \* where each worker is; the stages are its uncommitted run.stage
  wjob,      \* the job a worker claimed
  wrun,      \* the run it works on
  held,      \* documents whose rows its open transaction has locked
  scan,      \* stale runs its boot scan read, each with the attempt it read
  seen,      \* rfps.state of the scanned documents as its session has it
  faults     \* crashes and database errors so far

dbVars     == <<state, file, matrix, runs, nruns, jobs, njobs>>
workerVars == <<pc, wjob, wrun, held, scan, seen>>
vars == <<dbVars, overCap, degraded, req, workerVars, faults>>

RunIds == 1..MaxRuns
JobIds == 1..MaxJobs

PRIORITY_USER   == 10
PRIORITY_SWEEP  == 1
PRIORITY_CAPPED == 0
Priorities == {PRIORITY_USER, PRIORITY_SWEEP, PRIORITY_CAPPED}

\* "reading" is the only active stage that is ever committed.
RunStages == {"none", "reading", "ready", "failed"}
JobStates == {"none", "queued", "processing", "completed", "failed"}
RfpStates == {"absent", "received", "ready", "failed", "expired", "deleted"}

\* "pruned": only the rows a human had verified are left of a matrix.
MatrixStates == {"empty", "complete", "pruned"}

RunRows == [rfp: Rfps \cup {None}, stage: RunStages, attempt: Nat,
            stale: BOOLEAN, cause: {"none", "extraction", "max_retries"}]
JobRows == [rfp: Rfps \cup {None}, status: JobStates, priority: Priorities]

\* What a reprocess request has read.
ReadRows == [rfp: Rfps \cup {None}, attempt: Nat, state: RfpStates]

NoRead == [rfp |-> None, attempt |-> 0, state |-> "absent"]
NoRun == [rfp |-> None, stage |-> "none", attempt |-> 0, stale |-> FALSE,
          cause |-> "none"]
NoJob == [rfp |-> None, status |-> "none", priority |-> PRIORITY_CAPPED]

Extracting == {"reading", "extracting", "auditing"}
PCs == {"down", "scanned", "requeue", "poll", "claimed", "started",
        "ready", "empty", "failed"} \cup Extracting

TypeOK ==
  /\ state \in [Rfps -> RfpStates]
  /\ file \in [Rfps -> BOOLEAN]
  /\ matrix \in [Rfps -> MatrixStates]
  /\ runs \in [RunIds -> RunRows] /\ nruns \in 0..MaxRuns
  /\ jobs \in [JobIds -> JobRows] /\ njobs \in 0..MaxJobs
  /\ overCap \in BOOLEAN /\ degraded \in BOOLEAN
  /\ req \in [Requests -> ReadRows]
  /\ pc \in [Workers -> PCs]
  /\ wjob \in [Workers -> JobIds \cup {0}]
  /\ wrun \in [Workers -> RunIds \cup {0}]
  /\ held \in [Workers -> SUBSET Rfps]
  /\ scan \in [Workers -> SUBSET [run: RunIds, attempt: Nat]]
  /\ seen \in [Workers -> [Rfps -> RfpStates]]
  /\ faults \in 0..MaxFaults

-----------------------------------------------------------------------------
(* Queries.                                                                *)

Exists(d) == state[d] \notin {"absent", "deleted"}

RunsOf(d) == {r \in RunIds : runs[r].rfp = d /\ runs[r].stage # "none"}
JobsOf(d) == {j \in JobIds : jobs[j].rfp = d /\ jobs[j].status # "none"}

IsEarliest(r, d) == r \in RunsOf(d) /\ \A s \in RunsOf(d) : r <= s  \* mutant

\* The newest run of d: ORDER BY created_at DESC, first.
IsLatest(r, d) == r \in RunsOf(d) /\ \A s \in RunsOf(d) : s <= r

\* Some run of d is still to be finished.
Unfinished(d) == \E r \in RunsOf(d) : runs[r].stage = "reading"

\* Some transaction other than w's has d's rows locked.
LockedFor(w, d) == \E v \in Workers \ {w} : d \in held[v]
NeverLocked(d) == FALSE                                    \* mutant
Locked(d) == \E w \in Workers : d \in held[w]

\* d's rows are being rewritten by a boot transaction.  That transaction is
\* written out row by row; the others read around it, hence before it.
Requeueing(d) == \E w \in Workers : pc[w] = "requeue" /\ d \in held[w]

-----------------------------------------------------------------------------
(* Writes shared by the handlers.                                          *)

PriorityForNewJob(d) ==
  IF d \in SweepRfps THEN PRIORITY_SWEEP
  ELSE IF overCap THEN PRIORITY_CAPPED ELSE PRIORITY_USER

\* Insert a run in stage "reading" with a fresh heartbeat (column defaults).
AddRun(d, attempt) ==
  /\ nruns < MaxRuns
  /\ nruns' = nruns + 1
  /\ runs' = [runs EXCEPT ![nruns + 1] =
                [rfp |-> d, stage |-> "reading", attempt |-> attempt,
                 stale |-> FALSE, cause |-> "none"]]

\* rfps.state of d after an assignment by a session that has read it.
Assigned(d, read, value) ==
  [state EXCEPT ![d] = IF read = value THEN @ ELSE value]

Enqueue(d, priority) ==
  /\ njobs < MaxJobs
  /\ njobs' = njobs + 1
  /\ jobs' = [jobs EXCEPT ![njobs + 1] =
                [rfp |-> d, status |-> "queued", priority |-> priority]]

-----------------------------------------------------------------------------
(* Requests served by the api process and the sweep.                       *)

\* process_upload without a finished prior matrix, or the sweep's
\* _materialize_match: the document, its first run and its job.
Upload(d) ==
  /\ state[d] = "absent"
  /\ state' = [state EXCEPT ![d] = "received"]
  /\ file' = [file EXCEPT ![d] = TRUE]
  /\ AddRun(d, 1)
  /\ Enqueue(d, PriorityForNewJob(d))
  /\ UNCHANGED <<matrix, overCap, degraded, req, workerVars, faults>>

\* process_upload of a file whose unlocked matrix p is ready: its rows are
\* cloned, with no run and no job.
UploadClone(d, p) ==
  /\ d \notin SweepRfps
  /\ state[d] = "absent"
  /\ state[p] = "ready"
  /\ state' = [state EXCEPT ![d] = "ready"]
  /\ file' = [file EXCEPT ![d] = TRUE]
  /\ matrix' = [matrix EXCEPT ![d] = matrix[p]]
  /\ UNCHANGED <<runs, nruns, jobs, njobs, overCap, degraded, req,
                 workerVars, faults>>

\* The stages of the prior run that allow a reprocess.
ReprocessAnyStage == {"reading", "ready", "failed"}      \* mutant
ReprocessableStages == {"ready", "failed"}

\* reprocess up to the check of the prior run's stage.  Nothing is locked.
ReprocessRead(q, d) ==
  /\ req[q].rfp = None
  /\ Exists(d) /\ file[d]
  /\ ~Requeueing(d)
  /\ \E r \in RunIds :
       /\ IsLatest(r, d)
       /\ runs[r].stage \in ReprocessableStages
       /\ req' = [req EXCEPT ![q] = [rfp |-> d, attempt |-> runs[r].attempt,
                                     state |-> state[d]]]
  /\ UNCHANGED <<dbVars, overCap, degraded, workerVars, faults>>

\* reprocess from the insert of the new run to the commit.  The update of
\* rfps.state, where there is one, waits for a transaction that has the row
\* locked.
ReprocessWrite(q) ==
  LET d == req[q].rfp IN
  /\ d # None
  /\ Exists(d)
  /\ req[q].state # "received" => ~Locked(d)
  /\ state' = Assigned(d, req[q].state, "received")
  /\ AddRun(d, req[q].attempt + 1)
  /\ Enqueue(d, PriorityForNewJob(d))
  /\ req' = [req EXCEPT ![q] = NoRead]
  /\ UNCHANGED <<file, matrix, overCap, degraded, workerVars, faults>>

\* The request dies or its insert meets a deleted document: rollback.
ReprocessAbort(q) ==
  /\ req[q].rfp # None
  /\ req' = [req EXCEPT ![q] = NoRead]
  /\ UNCHANGED <<dbVars, overCap, degraded, workerVars, faults>>

\* delete_matrix: the row goes, ON DELETE CASCADE takes runs, jobs and rows.
DeleteMatrix(d) ==
  /\ Exists(d)
  /\ ~Locked(d)
  /\ state' = [state EXCEPT ![d] = "deleted"]
  /\ file' = [file EXCEPT ![d] = FALSE]
  /\ matrix' = [matrix EXCEPT ![d] = "empty"]
  /\ runs' = [r \in RunIds |-> IF runs[r].rfp = d THEN NoRun ELSE runs[r]]
  /\ jobs' = [j \in JobIds |-> IF jobs[j].rfp = d THEN NoJob ELSE jobs[j]]
  /\ UNCHANGED <<nruns, njobs, overCap, degraded, req, workerVars, faults>>

-----------------------------------------------------------------------------
(* The scheduler and the passing of time.                                  *)

\* probe_once: the persisted verdict on the two providers changes.
ProbeProviders ==
  /\ degraded' = ~degraded
  /\ UNCHANGED <<dbVars, overCap, req, workerVars, faults>>

\* monthly_usage_usd restarts from zero on the first of the month.
MonthStart ==
  /\ overCap
  /\ overCap' = FALSE
  /\ UNCHANGED <<dbVars, degraded, req, workerVars, faults>>

\* reprioritize_capped_jobs: the priority a parked job of d gets.
StillParked(d) == PRIORITY_CAPPED                          \* mutant
UnparkedPriority(d) ==
  IF d \in SweepRfps THEN PRIORITY_SWEEP ELSE PRIORITY_USER

\* run_daily_maintenance: of the documents past their retention period,
\* aged, the finished ones lose their file and the failed ones expire;
\* parked jobs are un-parked when the account is under its cap.
DailyMaintenance(aged) ==
  /\ \A d \in aged : state[d] \in {"ready", "failed"} /\ ~Locked(d)
  /\ state' = [d \in Rfps |-> IF d \in aged /\ state[d] = "failed"
                              THEN "expired" ELSE state[d]]
  /\ file' = [d \in Rfps |-> file[d] /\ d \notin aged]
  /\ jobs' = [j \in JobIds |->
                IF /\ jobs[j].status = "queued"
                   /\ jobs[j].priority = PRIORITY_CAPPED
                   /\ ~overCap
                THEN [jobs[j] EXCEPT !.priority = UnparkedPriority(jobs[j].rfp)]
                ELSE jobs[j]]
  /\ UNCHANGED <<matrix, runs, nruns, njobs, overCap, degraded, req,
                 workerVars, faults>>

\* The heartbeat thread's UPDATE can commit only while the extraction has
\* not flushed: afterwards the run row stays locked until the worker commits.
HeartbeatLands(r) == \E w \in Workers : pc[w] = "started" /\ wrun[w] = r

\* Ten minutes go by without a committed heartbeat.
FallSilent(r) ==
  /\ runs[r].stage = "reading"
  /\ ~runs[r].stale
  /\ ~HeartbeatLands(r)
  /\ runs' = [runs EXCEPT ![r].stale = TRUE]
  /\ UNCHANGED <<state, file, matrix, nruns, jobs, njobs, overCap, degraded,
                 req, workerVars, faults>>

-----------------------------------------------------------------------------
(* The worker: process_one_job.                                            *)

\* The worker's locals and locks are gone at the end of a cycle.
EndCycle(w, next) ==
  /\ pc' = [pc EXCEPT ![w] = next]
  /\ wjob' = [wjob EXCEPT ![w] = 0]
  /\ wrun' = [wrun EXCEPT ![w] = 0]
  /\ held' = [held EXCEPT ![w] = {}]

Claimable(j) == /\ jobs[j].status = "queued"
                /\ jobs[j].priority > 0
                /\ ~Requeueing(jobs[j].rfp)      \* SKIP LOCKED

\* claim_next_job and the commit that publishes the claim.
Claim(w, j) ==
  /\ pc[w] = "poll"
  /\ ~degraded
  /\ Claimable(j)
  /\ \A k \in JobIds : Claimable(k) =>
       \/ jobs[k].priority < jobs[j].priority
       \/ jobs[k].priority = jobs[j].priority /\ j <= k
  /\ jobs' = [jobs EXCEPT ![j].status = "processing"]
  /\ pc' = [pc EXCEPT ![w] = "claimed"]
  /\ wjob' = [wjob EXCEPT ![w] = j]
  /\ UNCHANGED <<state, file, matrix, runs, nruns, njobs, overCap, degraded,
                 req, wrun, held, scan, seen, faults>>

\* Load the document and its latest run; start the heartbeat thread.
Start(w) ==
  /\ pc[w] = "claimed"
  /\ jobs[wjob[w]].status # "none"
  /\ \E r \in RunIds :
       /\ IsLatest(r, jobs[wjob[w]].rfp)
       /\ wrun' = [wrun EXCEPT ![w] = r]
  /\ pc' = [pc EXCEPT ![w] = "started"]
  /\ UNCHANGED <<dbVars, overCap, degraded, req, wjob, held, scan, seen,
                 faults>>

\* The first tick of HeartbeatThread.run, when it wins the race with the
\* extraction's first flush.
Beat(w) ==
  /\ pc[w] = "started"
  /\ runs[wrun[w]].stage = "reading"
  /\ ~Requeueing(runs[wrun[w]].rfp)
  /\ runs[wrun[w]].stale
  /\ runs' = [runs EXCEPT ![wrun[w]].stale = FALSE]
  /\ UNCHANGED <<state, file, matrix, nruns, jobs, njobs, overCap, degraded,
                 req, workerVars, faults>>

\* run_extraction's first flush: run.stage and rfp.state, row locks taken.
BeginReading(w) ==
  /\ pc[w] = "started"
  /\ runs[wrun[w]].stage # "none"
  /\ ~LockedFor(w, runs[wrun[w]].rfp)
  /\ pc' = [pc EXCEPT ![w] = "reading"]
  /\ held' = [held EXCEPT ![w] = {runs[wrun[w]].rfp}]
  /\ UNCHANGED <<dbVars, overCap, degraded, req, wjob, wrun, scan, seen,
                 faults>>

\* A flushed stage change inside the extraction transaction.
Advance(w, from, to) ==
  /\ pc[w] = from
  /\ pc' = [pc EXCEPT ![w] = to]
  /\ UNCHANGED <<dbVars, overCap, degraded, req, wjob, wrun, held, scan,
                 seen, faults>>

\* The page map is built and has text.
ReadPages(w) == Advance(w, "reading", "extracting")

\* The page map has no text at all: _finish_ready without touching the rows.
ReadNoText(w) == Advance(w, "reading", "empty")

\* Every chunk was mined.
MineChunks(w) == Advance(w, "extracting", "auditing")

\* Filter, audit, persist_mine_result, _finish_ready.
PersistRows(w) == Advance(w, "auditing", "ready")

\* ExtractionFailed or any other exception: tool error, chunk cap,
\* provider retries exhausted, an incomplete chunk.
FailExtraction(w) == \E s \in Extracting : Advance(w, s, "failed")

Finished == {"ready", "empty", "failed"}

\* What run.stage and rfps.state become at the commit.
OutcomeIsPc(w) == pc[w]                                    \* mutant
Outcome(w) == IF pc[w] = "failed" THEN "failed" ELSE "ready"

\* The run row as the commit publishes it.
Published(run, outcome) ==
  [run EXCEPT !.stage = outcome,
              !.stale = IF outcome = "failed" THEN @ ELSE FALSE,
              !.cause = IF outcome = "failed" THEN "extraction" ELSE @]

\* The commit of process_one_job publishes stage, state, rows, usage and the
\* job's status at once, and releases the row locks.  It waits for a boot
\* that is rewriting the document's runs and jobs.
Commit(w) ==
  LET r == wrun[w]
      d == runs[r].rfp
      outcome == Outcome(w)
  IN
  /\ pc[w] \in Finished
  /\ ~Requeueing(d)
  /\ runs' = [runs EXCEPT ![r] = Published(@, outcome)]
  /\ state' = [state EXCEPT ![d] = outcome]
  /\ matrix' = [matrix EXCEPT ![d] = IF pc[w] = "ready" THEN "complete" ELSE @]
  /\ jobs' = [jobs EXCEPT ![wjob[w]].status =
                IF outcome = "failed" THEN "failed" ELSE "completed"]
  /\ overCap' \in IF pc[w] = "ready" THEN {overCap, TRUE} ELSE {overCap}
  /\ EndCycle(w, "poll")
  /\ UNCHANGED <<file, nruns, njobs, degraded, req, scan, seen, faults>>

\* run_worker's except: the cycle is over, its transaction rolled back, the
\* job still "processing".
Abandon(w) ==
  /\ EndCycle(w, "poll")
  /\ UNCHANGED <<dbVars, overCap, degraded, req, scan, seen>>

Working == {"claimed", "started"} \cup Extracting \cup Finished

\* A database error inside the cycle (lost connection, serialization).
DatabaseError(w) ==
  /\ pc[w] \in Working
  /\ faults < MaxFaults
  /\ faults' = faults + 1
  /\ Abandon(w)

\* The document was deleted between the claim and the first flush.
DocumentGone(w) ==
  /\ \/ pc[w] = "claimed" /\ jobs[wjob[w]].status = "none"
     \/ pc[w] = "started" /\ runs[wrun[w]].stage = "none"
  /\ faults' = faults
  /\ Abandon(w)

-----------------------------------------------------------------------------
(* Crash and boot: run_worker, requeue_stale_runs.                         *)

NothingSeen == [d \in Rfps |-> "absent"]

\* The process dies; Postgres rolls its open transaction back.  Dying inside
\* "requeue" is dying in "scanned": that transaction commits as a whole.
Crash(w) ==
  /\ pc[w] \in Working \cup {"poll", "scanned"}
  /\ faults < MaxFaults
  /\ faults' = faults + 1
  /\ EndCycle(w, "down")
  /\ scan' = [scan EXCEPT ![w] = {}]
  /\ seen' = [seen EXCEPT ![w] = NothingSeen]
  /\ UNCHANGED <<dbVars, overCap, degraded, req>>

StaleRuns == {r \in RunIds : runs[r].stage = "reading" /\ runs[r].stale}

\* The SELECT of requeue_stale_runs.
BootScan(w) ==
  /\ pc[w] = "down"
  /\ \A v \in Workers : pc[v] # "requeue"
  /\ scan' = [scan EXCEPT ![w] =
                {[run |-> r, attempt |-> runs[r].attempt] : r \in StaleRuns}]
  /\ seen' = [seen EXCEPT ![w] = [d \in Rfps |->
                IF \E r \in StaleRuns : runs[r].rfp = d THEN state[d]
                                                        ELSE "absent"]]
  /\ pc' = [pc EXCEPT ![w] = "scanned"]
  /\ UNCHANGED <<dbVars, overCap, degraded, req, wjob, wrun, held, faults>>

\* What the boot will assign to rfps.state for a run it has scanned.
BootValue(s) == IF s.attempt >= MaxAttempts THEN "failed" ELSE "received"

\* v's open transaction has rows locked that w's boot is going to write for
\* s.  An extraction under way has its run and the document; with an
\* assignment that is no update, the boot of another run writes neither.
InTheWay(v, w, s) ==
  LET d == runs[s.run].rfp IN
  /\ d \in held[v]
  /\ \/ pc[v] \notin Extracting
     \/ wrun[v] = s.run
     \/ seen[w][d] # BootValue(s)

\* Its updates wait for the row locks of other transactions.
BootLock(w) ==
  /\ pc[w] = "scanned"
  /\ \A s \in scan[w] : /\ runs[s.run].stage # "none"
                        /\ \A v \in Workers \ {w} : ~InTheWay(v, w, s)
  /\ held' = [held EXCEPT ![w] = {runs[s.run].rfp : s \in scan[w]}]
  /\ pc' = [pc EXCEPT ![w] = "requeue"]
  /\ UNCHANGED <<dbVars, overCap, degraded, req, wjob, wrun, scan, seen,
                 faults>>

\* A scanned run was deleted meanwhile: the update matches no row, the
\* exception ends the process before its loop starts.
BootConflict(w) ==
  /\ pc[w] = "scanned"
  /\ \E s \in scan[w] : runs[s.run].stage = "none"
  /\ pc' = [pc EXCEPT ![w] = "down"]
  /\ scan' = [scan EXCEPT ![w] = {}]
  /\ seen' = [seen EXCEPT ![w] = NothingSeen]
  /\ UNCHANGED <<dbVars, overCap, degraded, req, wjob, wrun, held, faults>>

\* rfps.state once a run of d is given up.
LeaveWaiting(w, d) == state                                \* mutant
FailDocument(w, d) == Assigned(d, seen[w][d], "failed")

KeepStage(run) == [run EXCEPT !.cause = "max_retries"]     \* mutant
GivenUp(run) == [run EXCEPT !.stage = "failed", !.cause = "max_retries"]

\* The branch for runs out of attempts.
GiveUp(w, s) ==
  LET d == runs[s.run].rfp IN
  /\ pc[w] = "requeue"
  /\ s.attempt >= MaxAttempts
  /\ runs' = [runs EXCEPT ![s.run] = GivenUp(@)]
  /\ state' = FailDocument(w, d)
  /\ seen' = [seen EXCEPT ![w][d] = "failed"]
  /\ jobs' = [j \in JobIds |->
                IF jobs[j].rfp = d /\ jobs[j].status \in {"queued", "processing"}
                THEN [jobs[j] EXCEPT !.status = "failed"] ELSE jobs[j]]
  /\ scan' = [scan EXCEPT ![w] = @ \ {s}]
  /\ UNCHANGED <<file, matrix, nruns, njobs, overCap, degraded, req, pc, wjob,
                 wrun, held, faults>>

\* The reset of the job row a re-queue picks.
KeepStatus(job) == job                                     \* mutant
ResetJob(job) == [job EXCEPT !.status = "queued"]

\* .first() of the unordered SELECT: any of these.
Revivable(d) == {j \in JobsOf(d) :
                   jobs[j].status \in {"queued", "processing", "failed"}}

Retried(run, attempt) == [run EXCEPT !.attempt = attempt, !.stale = FALSE]

\* The other branch: unverified rows and both review panels are deleted, the
\* attempt counted, and the document put back in the queue.  run.stage is
\* not written.
Requeue(w, s) ==
  LET d == runs[s.run].rfp IN
  /\ pc[w] = "requeue"
  /\ s.attempt < MaxAttempts
  /\ runs' = [runs EXCEPT ![s.run] = Retried(@, s.attempt + 1)]
  /\ state' = Assigned(d, seen[w][d], "received")
  /\ seen' = [seen EXCEPT ![w][d] = "received"]
  /\ matrix' = [matrix EXCEPT ![d] = IF @ = "complete" THEN "pruned" ELSE @]
  /\ \/ /\ \E j \in Revivable(d) : jobs' = [jobs EXCEPT ![j] = ResetJob(@)]
        /\ njobs' = njobs
     \/ /\ Revivable(d) = {}
        /\ Enqueue(d, UnparkedPriority(d))
  /\ scan' = [scan EXCEPT ![w] = @ \ {s}]
  /\ UNCHANGED <<file, nruns, overCap, degraded, req, pc, wjob, wrun, held,
                 faults>>

\* The commit of the boot transaction; the polling loop starts.
BootDone(w) ==
  /\ pc[w] = "requeue"
  /\ scan[w] = {}
  /\ pc' = [pc EXCEPT ![w] = "poll"]
  /\ held' = [held EXCEPT ![w] = {}]
  /\ seen' = [seen EXCEPT ![w] = NothingSeen]
  /\ UNCHANGED <<dbVars, overCap, degraded, req, wjob, wrun, scan, faults>>

-----------------------------------------------------------------------------

Init ==
  /\ state = [d \in Rfps |-> "absent"]
  /\ file = [d \in Rfps |-> FALSE]
  /\ matrix = [d \in Rfps |-> "empty"]
  /\ runs = [r \in RunIds |-> NoRun]
  /\ nruns = 0
  /\ jobs = [j \in JobIds |-> NoJob]
  /\ njobs = 0
  /\ overCap = FALSE
  /\ degraded = FALSE
  /\ req = [q \in Requests |-> NoRead]
  /\ pc = [w \in Workers |-> "down"]
  /\ wjob = [w \in Workers |-> 0]
  /\ wrun = [w \in Workers |-> 0]
  /\ held = [w \in Workers |-> {}]
  /\ scan = [w \in Workers |-> {}]
  /\ seen = [w \in Workers |-> NothingSeen]
  /\ faults = 0

ApiStep ==
  \/ \E d \in Rfps : Upload(d)
  \/ \E d, p \in Rfps : UploadClone(d, p)
  \/ \E q \in Requests, d \in Rfps : ReprocessRead(q, d)
  \/ \E q \in Requests : ReprocessWrite(q)
  \/ \E q \in Requests : ReprocessAbort(q)
  \/ \E d \in Rfps : DeleteMatrix(d)

ClockStep ==
  \/ ProbeProviders
  \/ MonthStart
  \/ \E aged \in SUBSET Rfps : DailyMaintenance(aged)
  \/ \E r \in RunIds : FallSilent(r)

WorkStep(w) ==
  \/ \E j \in JobIds : Claim(w, j)
  \/ Start(w)
  \/ Beat(w)
  \/ BeginReading(w)
  \/ ReadPages(w)
  \/ ReadNoText(w)
  \/ MineChunks(w)
  \/ PersistRows(w)
  \/ FailExtraction(w)
  \/ Commit(w)
  \/ DocumentGone(w)

BootStep(w) ==
  \/ BootScan(w)
  \/ BootLock(w)
  \/ BootConflict(w)
  \/ \E s \in scan[w] : GiveUp(w, s)
  \/ \E s \in scan[w] : Requeue(w, s)
  \/ BootDone(w)

FaultStep(w) == DatabaseError(w) \/ Crash(w)

Next ==
  \/ ApiStep
  \/ ClockStep
  \/ \E w \in Workers : WorkStep(w) \/ BootStep(w) \/ FaultStep(w)

Spec == Init /\ [][Next]_vars

(***************************************************************************)
(* Fairness.  The worker's loop keeps taking steps and compose restarts a  *)
(* dead process (restart: unless-stopped).  The probe cron runs for ever   *)
(* and providers come back, the month ends, the cleanup cron runs daily.   *)
(* Claim is strongly fair: the worker polls every two seconds and probes   *)
(* are half an hour apart.  Users and faults are not fair.                 *)
(***************************************************************************)
Fairness ==
  /\ \A w \in Workers :
       /\ WF_vars(Start(w) \/ BeginReading(w) \/ DocumentGone(w))
       /\ WF_vars(ReadPages(w) \/ MineChunks(w) \/ PersistRows(w)
                    \/ FailExtraction(w))
       /\ WF_vars(Commit(w))
       /\ WF_vars(BootStep(w))
       /\ SF_vars(\E j \in JobIds : Claim(w, j))
  /\ WF_vars(degraded /\ ProbeProviders)
  /\ WF_vars(MonthStart)
  /\ SF_vars(~overCap /\ DailyMaintenance({}))

FairSpec == Spec /\ Fairness

-----------------------------------------------------------------------------
(* Properties.                                                             *)

\* A document shown as waiting is never forgotten: some job of it is queued
\* or claimed, or it has an unfinished run, which a boot will find.  Every
\* handler that writes rfps.state, jobs.status or extraction_runs.stage
\* (upload, reprocess, commit, give-up, re-queue) must keep the three tables
\* in step, also where reprocess requests overlap and a give-up fails a job
\* that was queued after its scan.
WaitingHasWork ==
  \A d \in Rfps : state[d] = "received" =>
    \/ \E j \in JobsOf(d) : jobs[j].status \in {"queued", "processing"}
    \/ Unfinished(d)

\* When requeue_stale_runs has dealt with a document's stale runs and has made
\* it wait again, a job of it is really queued, whatever the dead worker left
\* behind and whatever was committed since the scan.
BootRecovers ==
  \A w \in Workers : \A d \in held[w] :
    (/\ pc[w] = "requeue"
     /\ \A s \in scan[w] : runs[s.run].rfp # d
     /\ seen[w][d] = "received")
    => \E j \in JobsOf(d) : jobs[j].status = "queued"

\* Only the newest run of a document is ever unfinished: the one the worker
\* picks is the one that is waited for.
OnlyLatestRunActive ==
  \A d \in Rfps : \A r \in RunsOf(d) :
    runs[r].stage = "reading" => IsLatest(r, d)

\* An unfinished run is never forgotten either: some job of its document is
\* queued or claimed, even where a surplus job had the worker publish an older
\* run over it.
UnfinishedHasJob ==
  \A d \in Rfps : Unfinished(d) =>
    \E j \in JobsOf(d) : jobs[j].status \in {"queued", "processing"}

\* The Retry button of a failed document works: with the file still there,
\* reprocess finds a finished latest run, or a job is left to finish it.
FailedIsRetryable ==
  \A d \in Rfps : (state[d] = "failed" /\ file[d]) =>
    \/ \E r \in RunsOf(d) : IsLatest(r, d) /\ runs[r].stage \in {"ready", "failed"}
    \/ \E j \in JobsOf(d) : jobs[j].status \in {"queued", "processing"}

\* The documents whose extraction is under way.
BeingExtracted == UNION {held[w] : w \in {v \in Workers : pc[v] \in Extracting \cup Finished}}
\* The documents with a run still to be finished.
Owed == {d \in Rfps : Unfinished(d)}
Owner == INSTANCE Documents WITH working <- BeingExtracted, owed <- Owed

\* With one worker and one request at a time, the queue does for the owner of a
\* document what Documents says: extractions are exclusive and atomic, and no
\* boot touches a document that has no unfinished run.
KeepsDocuments == Owner!Spec

\* Every waiting document is eventually finished (or deleted), unless
\* something crashes meanwhile.
EveryDocumentFinishes ==
  \A d \in Rfps :
    (faults = 0 /\ state[d] = "received") ~> (faults > 0 \/ state[d] # "received")

\* Crash recovery: once a boot has taken over a document's silent run, and
\* nothing fails any more, the document is finished.
RecoveredDocumentFinishes ==
  \A d \in Rfps :
    (faults = MaxFaults /\ \E w \in Workers : pc[w] = "requeue" /\ d \in held[w])
      ~> state[d] # "received"
=============================================================================
