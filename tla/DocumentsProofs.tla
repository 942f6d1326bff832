-------------------------- MODULE DocumentsProofs --------------------------
(***************************************************************************)
(* What the queue owes to the owner of a document, and that it implements  *)
(* Documents, for any number of documents, runs, jobs, attempts and        *)
(* faults.  The hypotheses are the deployment's one worker and, as in the  *)
(* run queue_requests, reprocess requests that do not overlap.             *)
(***************************************************************************)
EXTENDS ExtractionQueueProofs

OneRequest == \A p, q \in Requests : p = q

-----------------------------------------------------------------------------
(* The inductive invariants.                                               *)

\* What reprocess read before it writes is still so.
Requested ==
  \A q \in Requests : req[q].rfp # None =>
    state[req[q].rfp] # "absent" /\ ~Unfinished(req[q].rfp)

RunsExist == \A d \in Rfps : RunsOf(d) # {} => Exists(d)

RInv == IInv /\ Requested /\ RunsExist /\ OnlyLatestRunActive

HasLatest == \A d \in Rfps : RunsOf(d) # {} => \E r \in RunsOf(d) : IsLatest(r, d)

ShownByRun ==
  \A d \in Rfps : /\ state[d] = "received" => Unfinished(d)
                  /\ state[d] = "failed" => RunsOf(d) # {}

\* A boot treats runs that are unfinished or deleted, each of them once.  What
\* its session has read of a document is still so, unless that expired.
ScanReading(w) ==
  /\ scan[w] # {} => pc[w] \in {"scanned", "requeue"}
  /\ \A s \in scan[w] : runs[s.run].stage \in {"reading", "none"}
  /\ \A s, t \in scan[w] : s.run = t.run => s = t
  /\ \A s \in scan[w] : runs[s.run].stage # "none" =>
       \/ state[runs[s.run].rfp] = seen[w][runs[s.run].rfp]
       \/ /\ seen[w][runs[s.run].rfp] = "failed"
          /\ state[runs[s.run].rfp] = "expired"

\* No request has read "received".
Asked == \A q \in Requests : req[q].rfp # None => req[q].state # "received"

\* An unfinished run beside the one a worker extracts has a job beside the
\* worker's own.
WorkerOwes(w) ==
  /\ pc[w] \in Extracting \cup Finished => held[w] = {runs[wrun[w]].rfp}
  /\ pc[w] \in Working \ {"claimed"} =>
       \A d \in Rfps : \A r \in RunsOf(d) :
         /\ runs[r].stage = "reading"
         /\ r # wrun[w]
         /\ jobs[wjob[w]].rfp = d
         => \E j \in JobsOf(d) \ {wjob[w]} : LiveJob(j)

DInv == /\ RInv
        /\ HasLatest
        /\ ShownByRun
        /\ \A w \in Workers : ScanReading(w) /\ WorkerOwes(w)
        /\ UnfinishedHasJob
        /\ Asked

-----------------------------------------------------------------------------
(* How steps change runs and jobs.                                         *)

\* Runs stay with their documents, and no stage goes back to reading.
StagesFall ==
  \A r \in RunIds :
    /\ runs'[r].rfp = runs[r].rfp
    /\ runs'[r].stage = "none" <=> runs[r].stage = "none"
    /\ runs'[r].stage = "reading" => runs[r].stage = "reading"

StagesKept ==
  \A r \in RunIds :
    runs'[r].rfp = runs[r].rfp /\ runs'[r].stage = runs[r].stage

\* No job comes to an end.
LiveKept ==
  \A j \in JobIds : /\ jobs'[j].rfp = jobs[j].rfp
                    /\ LiveJob(j) => LiveJob(j)'

\* Document d gets run r and job j.
Added(d, r, j) ==
  /\ d \in Rfps
  /\ r \in RunIds /\ r = nruns + 1
  /\ j \in JobIds /\ j = njobs + 1
  /\ runs[r].stage = "none"
  /\ \A s \in RunIds : s > nruns => runs[s].stage = "none"
  /\ runs'[r].rfp = d /\ runs'[r].stage = "reading"
  /\ \A s \in RunIds \ {r} : runs'[s] = runs[s]
  /\ \A k \in JobIds : k > njobs => ~LiveJob(k)
  /\ jobs'[j].rfp = d /\ LiveJob(j)'
  /\ \A k \in JobIds \ {j} : jobs'[k] = jobs[k]
  /\ state' \in {state, [state EXCEPT ![d] = "received"]}

LEMMA KeptRuns ==
  ASSUME StagesFall
  PROVE  \A d : /\ RunsOf(d)' = RunsOf(d)
                /\ \A r : IsLatest(r, d)' <=> IsLatest(r, d)
                /\ Unfinished(d)' => Unfinished(d)
<1>1. \A d : RunsOf(d)' = RunsOf(d)
  BY DEF StagesFall, RunsOf
<1>2. \A d : \A r : IsLatest(r, d)' <=> IsLatest(r, d)
  BY <1>1 DEF IsLatest
<1>3. \A d : Unfinished(d)' => Unfinished(d)
  BY DEF StagesFall, Unfinished, RunsOf
<1>. QED
  BY <1>1, <1>2, <1>3

LEMMA KeptStages ==
  ASSUME StagesKept
  PROVE  /\ StagesFall
         /\ \A d : Unfinished(d)' <=> Unfinished(d)
         /\ Owed' = Owed
<1>1. StagesFall
  BY DEF StagesKept, StagesFall
<1>2. \A d : Unfinished(d)' <=> Unfinished(d)
  BY DEF StagesKept, Unfinished, RunsOf
<1>3. Owed' = Owed
  BY <1>2 DEF Owed
<1>. QED
  BY <1>1, <1>2, <1>3

LEMMA KeptLive ==
  ASSUME LiveKept
  PROVE  \A d : \A j \in JobsOf(d) : LiveJob(j) => j \in JobsOf(d)' /\ LiveJob(j)'
  BY DEF LiveKept, JobsOf, LiveJob

LEMMA AddedRuns ==
  ASSUME NEW d, NEW r, NEW j, Added(d, r, j), IInv
  PROVE  /\ RunsOf(d)' = RunsOf(d) \cup {r}
         /\ IsLatest(r, d)'
         /\ Unfinished(d)'
         /\ \A e \in Rfps \ {d} : /\ RunsOf(e)' = RunsOf(e)
                                  /\ Unfinished(e)' <=> Unfinished(e)
         /\ Owed' = Owed \cup {d}
<1>. USE DEF Added
<1>1. RunsOf(d)' = RunsOf(d) \cup {r}
  <2>1. /\ r \in RunIds /\ runs'[r].rfp = d /\ runs'[r].stage = "reading"
        /\ \A s \in RunIds \ {r} : runs'[s] = runs[s]
    OBVIOUS
  <2>2. \A s : s \in RunsOf(d)' <=> s \in RunsOf(d) \cup {r}
    BY ONLY <2>1 DEF RunsOf
  <2>. QED
    BY ONLY <2>2
<1>2. IsLatest(r, d)'
  <2>1. \A s \in RunsOf(d) : s <= r
    BY DEF RunsOf, RunIds, IInv, TypeOK
  <2>2. r <= r
    BY DEF IInv, TypeOK
  <2>. QED
    BY <1>1, <2>1, <2>2 DEF IsLatest
<1>3. Unfinished(d)'
  BY <1>1 DEF Unfinished
<1>4. \A e \in Rfps \ {d} : RunsOf(e)' = RunsOf(e)
  <2>1. /\ r \in RunIds /\ runs[r].stage = "none" /\ runs'[r].rfp = d
        /\ \A s \in RunIds \ {r} : runs'[s] = runs[s]
    OBVIOUS
  <2>. QED
    BY ONLY <2>1 DEF RunsOf
<1>5. \A e \in Rfps \ {d} : Unfinished(e)' <=> Unfinished(e)
  BY <1>4 DEF Unfinished, RunsOf
<1>6. Owed' = Owed \cup {d}
  BY <1>3, <1>5 DEF Owed
<1>. QED
  BY ONLY <1>1, <1>2, <1>3, <1>4, <1>5, <1>6

-----------------------------------------------------------------------------
(* What each action does to runs and jobs.                                 *)

\* AddRun and Enqueue together.
LEMMA AddedRows ==
  ASSUME IInv, NEW d \in Rfps, NEW attempt, NEW priority,
         AddRun(d, attempt), Enqueue(d, priority),
         state' \in {state, [state EXCEPT ![d] = "received"]}
  PROVE  \E r, j : Added(d, r, j)
<1>. DEFINE r == nruns + 1
            j == njobs + 1
<1>. USE BoundsAssumption DEF IInv, TypeOK
<1>1. r \in RunIds /\ j \in JobIds
  BY DEF AddRun, Enqueue, RunIds, JobIds
<1>2. runs'[r].rfp = d /\ runs'[r].stage = "reading"
  BY <1>1 DEF AddRun
<1>3. \A s \in RunIds \ {r} : runs'[s] = runs[s]
  BY DEF AddRun
<1>4. jobs'[j].rfp = d /\ jobs'[j].status = "queued"
  BY <1>1 DEF Enqueue
<1>5. \A k \in JobIds \ {j} : jobs'[k] = jobs[k]
  BY DEF Enqueue
<1>6. \A s \in RunIds : s > nruns => runs[s].stage = "none"
  BY DEF FreshRows, NoRun
<1>7. \A k \in JobIds : k > njobs => ~LiveJob(k)
  BY DEF FreshRows, NoJob, LiveJob
<1>8. r > nruns
  OBVIOUS
<1>. QED
  BY <1>1, <1>2, <1>3, <1>4, <1>5, <1>6, <1>7, <1>8 DEF Added, LiveJob

LEMMA UploadAdds ==
  ASSUME IInv, NEW d \in Rfps, Upload(d)
  PROVE  \E r, j : Added(d, r, j)
  BY AddedRows DEF Upload

LEMMA ReprocessAdds ==
  ASSUME IInv, NEW q \in Requests, NEW d, d = req[q].rfp, ReprocessWrite(q)
  PROVE  /\ d \in Rfps
         /\ \E r, j : Added(d, r, j)
<1>1. d \in Rfps
  BY DEF IInv, TypeOK, ReadRows, ReprocessWrite
<1>2. /\ AddRun(d, req[q].attempt + 1)
      /\ Enqueue(d, PriorityForNewJob(d))
      /\ state' \in {state, [state EXCEPT ![d] = "received"]}
  BY <1>1 DEF ReprocessWrite, Assigned, IInv, TypeOK
<1>. QED
  BY <1>1, <1>2, AddedRows

\* The run a commit finishes.
LEMMA CommitFinishes ==
  ASSUME IInv, NEW w \in Workers, Commit(w),
         NEW r, r = wrun[w], NEW j, j = wjob[w], NEW d, d = runs[r].rfp
  PROVE  /\ r \in RunIds /\ j \in JobIds /\ d \in Rfps
         /\ pc[w] \in Finished
         /\ jobs[j].rfp = d
         /\ runs[r].stage # "none" /\ d \in held[w]
         /\ Outcome(w) \in {"ready", "failed"}
         /\ runs'[r].rfp = d /\ runs'[r].stage = Outcome(w)
         /\ \A s \in RunIds \ {r} : runs'[s] = runs[s]
         /\ jobs'[j].rfp = d
         /\ \A k \in JobIds \ {j} : jobs'[k] = jobs[k]
         /\ state' = [state EXCEPT ![d] = Outcome(w)]
         /\ StagesFall
<1>. USE DEF IInv
<1>1. pc[w] \in Finished /\ pc[w] \in Working \ {"claimed"}
  BY DEF Commit, Finished, Working
<1>2. Outcome(w) \in {"ready", "failed"}
  BY DEF Outcome
<1>3. /\ r \in RunIds /\ j \in JobIds /\ runs[r].stage # "none"
      /\ jobs[j].rfp = d /\ d \in held[w] /\ d \in Rfps
  BY <1>1 DEF WorkerRows, WorkerRow, OwnedRows, TypeOK
<1>4. runs' = [runs EXCEPT ![r] = Published(runs[r], Outcome(w))]
  BY DEF Commit
<1>5. /\ Published(runs[r], Outcome(w)).rfp = d
      /\ Published(runs[r], Outcome(w)).stage = Outcome(w)
  BY <1>2, <1>3, PublishedRun DEF TypeOK
<1>6. /\ runs'[r].rfp = d /\ runs'[r].stage = Outcome(w)
      /\ \A s \in RunIds \ {r} : runs'[s] = runs[s]
  BY <1>3, <1>4, <1>5 DEF TypeOK
<1>7. StagesFall
  BY <1>2, <1>3, <1>6 DEF StagesFall
<1>8. jobs'[j].rfp = d /\ \A k \in JobIds \ {j} : jobs'[k] = jobs[k]
  BY <1>3 DEF Commit, TypeOK, JobRows
<1>9. state' = [state EXCEPT ![d] = Outcome(w)]
  BY DEF Commit
<1>. QED
  BY <1>1, <1>2, <1>3, <1>6, <1>7, <1>8, <1>9

\* The run a boot gives up.
LEMMA GiveUpFinishes ==
  ASSUME IInv, NEW w \in Workers, NEW s \in scan[w], GiveUp(w, s),
         NEW d, d = runs[s.run].rfp
  PROVE  /\ pc[w] = "requeue"
         /\ s.run \in RunIds /\ d \in Rfps
         /\ runs[s.run].stage # "none"
         /\ runs'[s.run].rfp = d /\ runs'[s.run].stage = "failed"
         /\ \A r \in RunIds \ {s.run} : runs'[r] = runs[r]
         /\ \A j \in JobIds : jobs[j].rfp # d => jobs'[j] = jobs[j]
         /\ state' = IF seen[w][d] = "failed" THEN state
                                            ELSE [state EXCEPT ![d] = "failed"]
         /\ seen' = [seen EXCEPT ![w][d] = "failed"]
         /\ StagesFall
<1>1. pc[w] = "requeue"
  BY DEF GiveUp
<1>2. /\ s.run \in RunIds /\ d \in Rfps /\ runs[s.run] \in RunRows
      /\ runs[s.run].stage # "none"
  BY <1>1, ScannedRun
<1>3. /\ runs' = [runs EXCEPT ![s.run] = GivenUp(runs[s.run])]
      /\ state' = IF seen[w][d] = "failed" THEN state
                                            ELSE [state EXCEPT ![d] = "failed"]
      /\ seen' = [seen EXCEPT ![w][d] = "failed"]
  BY <1>2 DEF GiveUp, FailDocument, Assigned, IInv, TypeOK
<1>4. /\ runs'[s.run].rfp = d /\ runs'[s.run].stage = "failed"
      /\ \A r \in RunIds \ {s.run} : runs'[r] = runs[r]
  BY <1>2, <1>3, GivenUpRun DEF IInv, TypeOK
<1>5. StagesFall
  BY <1>2, <1>4 DEF StagesFall
<1>6. \A j \in JobIds : jobs[j].rfp # d => jobs'[j] = jobs[j]
  BY DEF GiveUp, IInv, TypeOK
<1>. QED
  BY <1>1, <1>2, <1>3, <1>4, <1>5, <1>6

\* The document a boot puts back in the queue.
LEMMA RequeueKeeps ==
  ASSUME IInv, NEW w \in Workers, NEW s \in scan[w], Requeue(w, s),
         NEW d, d = runs[s.run].rfp
  PROVE  /\ pc[w] = "requeue"
         /\ s.run \in RunIds /\ d \in Rfps
         /\ runs[s.run].stage # "none"
         /\ state' = IF seen[w][d] = "received" THEN state
                                              ELSE [state EXCEPT ![d] = "received"]
         /\ seen' = [seen EXCEPT ![w][d] = "received"]
         /\ StagesKept
<1>1. pc[w] = "requeue"
  BY DEF Requeue
<1>2. /\ s.run \in RunIds /\ d \in Rfps /\ runs[s.run] \in RunRows
      /\ runs[s.run].stage # "none" /\ s.attempt + 1 \in Nat
  BY <1>1, ScannedRun
<1>3. /\ runs' = [runs EXCEPT ![s.run] = Retried(runs[s.run], s.attempt + 1)]
      /\ state' = IF seen[w][d] = "received" THEN state
                                              ELSE [state EXCEPT ![d] = "received"]
      /\ seen' = [seen EXCEPT ![w][d] = "received"]
  BY <1>2 DEF Requeue, Assigned, IInv, TypeOK
<1>4. /\ Retried(runs[s.run], s.attempt + 1).rfp = runs[s.run].rfp
      /\ Retried(runs[s.run], s.attempt + 1).stage = runs[s.run].stage
  BY <1>2, RetriedRun
<1>5. StagesKept
  BY <1>2, <1>3, <1>4 DEF StagesKept, IInv, TypeOK
<1>. QED
  BY <1>1, <1>2, <1>3, <1>5

\* Steps that end no job, finish no run and make no document wait.
QuietRows ==
  /\ StagesKept /\ LiveKept
  /\ \A d \in Rfps : \/ state'[d] = state[d]
                     \/ state[d] = "absent" /\ state'[d] = "ready"
                     \/ state[d] = "failed" /\ state'[d] = "expired"

LEMMA QuietDb ==
  ASSUME UNCHANGED <<state, runs, jobs>>
  PROVE  QuietRows
  BY DEF QuietRows, StagesKept, LiveKept, LiveJob

LEMMA QuietClone ==
  ASSUME IInv, NEW d \in Rfps, NEW p \in Rfps, UploadClone(d, p)
  PROVE  QuietRows
  BY DEF IInv, TypeOK, UploadClone, QuietRows, StagesKept, LiveKept, LiveJob

LEMMA QuietMaintenance ==
  ASSUME IInv, NEW aged \in SUBSET Rfps, DailyMaintenance(aged)
  PROVE  QuietRows
<1>1. \A j \in JobIds : /\ jobs'[j].rfp = jobs[j].rfp
                        /\ jobs'[j].status = jobs[j].status
  BY DEF DailyMaintenance, IInv, TypeOK, JobRows
<1>2. runs' = runs
  BY DEF DailyMaintenance
<1>3. \A d \in Rfps : \/ state'[d] = state[d]
                      \/ state[d] = "failed" /\ state'[d] = "expired"
  BY DEF DailyMaintenance
<1>. QED
  BY <1>1, <1>2, <1>3 DEF QuietRows, StagesKept, LiveKept, LiveJob

LEMMA QuietClock ==
  ASSUME IInv, ClockStep
  PROVE  QuietRows
<1>1. CASE ProbeProviders \/ MonthStart
  BY <1>1, QuietDb DEF ProbeProviders, MonthStart, dbVars
<1>2. CASE \E aged \in SUBSET Rfps : DailyMaintenance(aged)
  BY <1>2, QuietMaintenance
<1>3. ASSUME NEW r \in RunIds, FallSilent(r)
      PROVE  QuietRows
  BY <1>3
  DEF FallSilent, IInv, TypeOK, RunRows, QuietRows, StagesKept, LiveKept, LiveJob
<1>. QED
  BY <1>1, <1>2, <1>3 DEF ClockStep

LEMMA QuietClaim ==
  ASSUME IInv, NEW w \in Workers, NEW j \in JobIds, Claim(w, j)
  PROVE  QuietRows
<1>1. /\ \A k \in JobIds : jobs'[k].rfp = jobs[k].rfp
      /\ \A k \in JobIds \ {j} : jobs'[k] = jobs[k]
      /\ jobs'[j].status = "processing"
  BY DEF IInv, TypeOK, JobRows, Claim
<1>2. UNCHANGED <<state, runs>>
  BY DEF Claim
<1>. QED
  BY <1>1, <1>2 DEF QuietRows, StagesKept, LiveKept, LiveJob

LEMMA QuietBeat ==
  ASSUME IInv, NEW w \in Workers, Beat(w)
  PROVE  QuietRows
  BY DEF Beat, IInv, TypeOK, RunRows, QuietRows, StagesKept, LiveKept, LiveJob

\* The steps of a worker between its claim and its commit, of a boot but for
\* its treatment of runs, and of a fault.
Between(w) ==
  \/ Start(w) \/ BeginReading(w)
  \/ \E from \in Extracting, to \in Extracting \cup Finished : Advance(w, from, to)
  \/ DocumentGone(w) \/ DatabaseError(w) \/ Crash(w)
  \/ BootScan(w) \/ BootLock(w) \/ BootConflict(w) \/ BootDone(w)

LEMMA BetweenKeeps ==
  ASSUME NEW w \in Workers, Between(w)
  PROVE  UNCHANGED <<dbVars, req>>
  BY DEF Between, Start, BeginReading, Advance, DocumentGone, DatabaseError,
         Abandon, Crash, BootScan, BootLock, BootConflict, BootDone

LEMMA WorkerSteps ==
  ASSUME NEW w \in Workers, WorkStep(w) \/ BootStep(w) \/ FaultStep(w)
  PROVE  \/ \E j \in JobIds : Claim(w, j)
         \/ Beat(w) \/ Between(w) \/ Commit(w)
         \/ \E s \in scan[w] : GiveUp(w, s)
         \/ \E s \in scan[w] : Requeue(w, s)
<1>1. ASSUME \/ ReadPages(w) \/ ReadNoText(w) \/ MineChunks(w)
             \/ PersistRows(w) \/ FailExtraction(w)
      PROVE  \E from \in Extracting, to \in Extracting \cup Finished :
               Advance(w, from, to)
  BY <1>1 DEF ReadPages, ReadNoText, MineChunks, PersistRows, FailExtraction,
              Extracting, Finished
<1>. QED
  BY <1>1 DEF WorkStep, BootStep, FaultStep, Between

-----------------------------------------------------------------------------
(* Requests that do not overlap: RInv.                                     *)

\* Steps that start no run and read no run.
LEMMA KeptRequested ==
  ASSUME RInv, StagesFall,
         \A d \in Rfps : state[d] # "absent" => state'[d] # "absent",
         \A d \in Rfps : Exists(d) => Exists(d)',
         \A q \in Requests : req'[q].rfp # None => req'[q] = req[q]
  PROVE  Requested' /\ RunsExist' /\ OnlyLatestRunActive'
<1>. USE DEF RInv
<1>1. Requested'
  <2> SUFFICES ASSUME NEW q \in Requests, req'[q].rfp # None
      PROVE  state'[req[q].rfp] # "absent" /\ ~Unfinished(req[q].rfp)'
    BY DEF Requested
  <2>1. req[q].rfp \in Rfps
    BY DEF IInv, TypeOK, ReadRows
  <2>. QED
    BY <2>1, KeptRuns DEF Requested
<1>2. RunsExist'
  BY KeptRuns DEF RunsExist
<1>3. OnlyLatestRunActive'
  <2> SUFFICES ASSUME NEW d \in Rfps, NEW r \in RunsOf(d)',
                      runs'[r].stage = "reading"
      PROVE  IsLatest(r, d)'
    BY DEF OnlyLatestRunActive
  <2>1. r \in RunsOf(d) /\ runs[r].stage = "reading"
    BY KeptRuns DEF StagesFall, RunsOf
  <2>. QED
    BY <2>1, KeptRuns DEF OnlyLatestRunActive
<1>. QED
  BY <1>1, <1>2, <1>3

\* Steps that start a run of a document that has none unfinished.
LEMMA AddedRequested ==
  ASSUME RInv, NEW d, NEW r, NEW j, Added(d, r, j), ~Unfinished(d), Exists(d)',
         \A q \in Requests :
           req'[q].rfp # None => req'[q] = req[q] /\ req[q].rfp # d
  PROVE  Requested' /\ RunsExist' /\ OnlyLatestRunActive'
<1>. USE DEF RInv
<1>0. d \in Rfps /\ \A e \in Rfps \ {d} : state'[e] = state[e]
  BY DEF Added, IInv, TypeOK
<1>1. Requested'
  <2> SUFFICES ASSUME NEW q \in Requests, req'[q].rfp # None
      PROVE  state'[req[q].rfp] # "absent" /\ ~Unfinished(req[q].rfp)'
    BY DEF Requested
  <2>1. req[q].rfp \in Rfps \ {d} /\ req[q].rfp # None
    BY DEF IInv, TypeOK, ReadRows
  <2>. QED
    BY <1>0, <2>1, AddedRuns DEF Requested
<1>2. RunsExist'
  <2>1. \A e \in Rfps \ {d} : Exists(e) => Exists(e)'
    BY <1>0 DEF Exists
  <2>. QED
    BY <2>1, AddedRuns DEF RunsExist
<1>3. OnlyLatestRunActive'
  <2> SUFFICES ASSUME NEW e \in Rfps, NEW s \in RunsOf(e)',
                      runs'[s].stage = "reading"
      PROVE  IsLatest(s, e)'
    BY DEF OnlyLatestRunActive
  <2>1. CASE s = r
    <3>1. e = d
      BY <2>1 DEF RunsOf, Added
    <3>. QED
      BY <2>1, <3>1, AddedRuns
  <2>2. CASE s # r
    <3>1. s \in RunsOf(e) /\ runs[s].stage = "reading"
      BY <2>2 DEF RunsOf, Added
    <3>2. e # d
      BY <3>1 DEF Unfinished
    <3>3. IsLatest(s, e)
      BY <3>1 DEF OnlyLatestRunActive
    <3>. QED
      BY <3>2, <3>3, AddedRuns DEF IsLatest
  <2>. QED
    BY <2>1, <2>2
<1>. QED
  BY <1>1, <1>2, <1>3

LEMMA UploadRequested ==
  ASSUME RInv, NEW d \in Rfps, Upload(d)
  PROVE  ~Unfinished(d) /\ Requested' /\ RunsExist' /\ OnlyLatestRunActive'
<1>1. PICK r, j : Added(d, r, j)
  BY UploadAdds DEF RInv
<1>2. state[d] = "absent" /\ req' = req /\ Exists(d)'
  BY DEF Upload, Exists, RInv, IInv, TypeOK
<1>3. RunsOf(d) = {}
  BY <1>2 DEF RInv, RunsExist, Exists
<1>4. ~Unfinished(d)
  BY <1>3 DEF Unfinished
<1>5. \A q \in Requests : req[q].rfp # None => req[q].rfp # d
  BY <1>2 DEF RInv, Requested
<1>. QED
  BY <1>1, <1>2, <1>4, <1>5, AddedRequested

LEMMA WriteRequested ==
  ASSUME RInv, OneRequest, NEW q \in Requests, ReprocessWrite(q)
  PROVE  /\ ~Unfinished(req[q].rfp)
         /\ Requested' /\ RunsExist' /\ OnlyLatestRunActive'
<1>. USE DEF RInv
<1>0. PICK d \in Rfps : d = req[q].rfp
  BY ReprocessAdds
<1>1. PICK r, j : Added(d, r, j)
  BY <1>0, ReprocessAdds
<1>2. Exists(d) /\ ~Unfinished(d)
  BY <1>0 DEF Requested, ReprocessWrite
<1>3. Exists(d)'
  <2>1. state'[d] \in {state[d], "received"}
    BY <1>1 DEF Added, IInv, TypeOK
  <2>. QED
    BY <1>2, <2>1 DEF Exists
<1>4. \A p \in Requests : req'[p].rfp = None
  BY DEF OneRequest, ReprocessWrite, NoRead, IInv, TypeOK, ReadRows
<1>. QED
  BY <1>0, <1>1, <1>2, <1>3, <1>4, AddedRequested

LEMMA ReadRequested ==
  ASSUME RInv, NEW q \in Requests, NEW d \in Rfps, ReprocessRead(q, d)
  PROVE  /\ ~Unfinished(d)
         /\ Requested' /\ RunsExist' /\ OnlyLatestRunActive'
<1>. USE DEF RInv
<1>1. PICK r \in RunIds :
        /\ IsLatest(r, d)
        /\ runs[r].stage \in ReprocessableStages
        /\ req' = [req EXCEPT ![q] = [rfp |-> d, attempt |-> runs[r].attempt,
                                      state |-> state[d]]]
  BY Zenon DEF ReprocessRead
<1>2. UNCHANGED <<runs, state>> /\ Exists(d)
  BY DEF ReprocessRead, dbVars
<1>3. ~Unfinished(d)
  <2> SUFFICES ASSUME NEW s \in RunsOf(d), runs[s].stage = "reading"
      PROVE  FALSE
    BY DEF Unfinished
  <2>1. s <= r /\ r <= s /\ s \in RunIds
    BY <1>1 DEF IsLatest, OnlyLatestRunActive, RunsOf
  <2>2. s = r
    BY <2>1 DEF RunIds, IInv, TypeOK
  <2>. QED
    BY <1>1, <2>2 DEF ReprocessableStages
<1>4. \A e : RunsOf(e)' = RunsOf(e)
  BY <1>2 DEF RunsOf
<1>5. \A e : Unfinished(e)' <=> Unfinished(e)
  BY <1>2, <1>4 DEF Unfinished
<1>6. Requested'
  <2> SUFFICES ASSUME NEW p \in Requests, NEW e, e = req'[p].rfp, e # None
      PROVE  state[e] # "absent" /\ ~Unfinished(e)
    BY <1>2, <1>5 DEF Requested
  <2>1. CASE p = q
    <3>1. e = d
      BY <1>1, <2>1 DEF IInv, TypeOK
    <3>. QED
      BY <1>2, <1>3, <3>1 DEF Exists
  <2>2. CASE p # q
    <3>1. e = req[p].rfp
      BY <1>1, <2>2 DEF IInv, TypeOK
    <3>. QED
      BY <3>1 DEF Requested
  <2>. QED
    BY <2>1, <2>2
<1>7. RunsExist'
  BY <1>2, <1>4 DEF RunsExist, Exists
<1>8. OnlyLatestRunActive'
  BY <1>2, <1>4 DEF OnlyLatestRunActive, IsLatest
<1>. QED
  BY <1>3, <1>6, <1>7, <1>8

LEMMA DeleteRequested ==
  ASSUME RInv, NEW d \in Rfps, DeleteMatrix(d)
  PROVE  /\ Requested' /\ RunsExist' /\ OnlyLatestRunActive'
         /\ RunsOf(d)' = {} /\ \A e \in Rfps \ {d} : RunsOf(e)' = RunsOf(e)
         /\ \A r \in RunIds : runs'[r].stage # "none" => runs'[r] = runs[r]
         /\ \A r \in RunIds : runs[r].rfp # d => runs'[r] = runs[r]
         /\ \A e \in Rfps \ {d} : state'[e] = state[e]
         /\ state'[d] = "deleted"
<1>. USE DEF RInv
<1>1. /\ \A r \in RunIds : runs'[r].stage # "none" =>
                             runs'[r] = runs[r] /\ runs[r].rfp # d
      /\ \A r \in RunIds : runs[r].rfp # d => runs'[r] = runs[r]
  BY DEF DeleteMatrix, NoRun
<1>2. RunsOf(d)' = {} /\ \A e \in Rfps \ {d} : RunsOf(e)' = RunsOf(e)
  BY <1>1 DEF RunsOf
<1>3. \A e \in Rfps \ {d} : state'[e] = state[e]
  BY DEF DeleteMatrix, IInv, TypeOK
<1>4. state'[d] = "deleted" /\ req' = req
  BY DEF DeleteMatrix, IInv, TypeOK
<1>5. \A e \in Rfps : Unfinished(e)' => Unfinished(e)
  BY <1>1, <1>2 DEF Unfinished, RunsOf
<1>6. Requested'
  <2> SUFFICES ASSUME NEW q \in Requests, NEW e, e = req[q].rfp, e # None
      PROVE  state'[e] # "absent" /\ ~Unfinished(e)'
    BY <1>4 DEF Requested
  <2>1. e \in Rfps
    BY DEF IInv, TypeOK, ReadRows
  <2>. QED
    BY <1>3, <1>4, <1>5, <2>1 DEF Requested
<1>7. RunsExist'
  BY <1>2, <1>3 DEF RunsExist, Exists
<1>8. OnlyLatestRunActive'
  <2> SUFFICES ASSUME NEW e \in Rfps, NEW r \in RunsOf(e)',
                      runs'[r].stage = "reading"
      PROVE  IsLatest(r, e)'
    BY DEF OnlyLatestRunActive
  <2>1. e # d /\ r \in RunsOf(e) /\ runs[r].stage = "reading"
    BY <1>1, <1>2 DEF RunsOf
  <2>. QED
    BY <1>2, <2>1 DEF OnlyLatestRunActive, IsLatest
<1>. QED
  BY <1>1, <1>2, <1>3, <1>4, <1>6, <1>7, <1>8

LEMMA QuietRequested ==
  ASSUME RInv, QuietRows,
         \A q \in Requests : req'[q].rfp # None => req'[q] = req[q]
  PROVE  Requested' /\ RunsExist' /\ OnlyLatestRunActive'
<1>1. StagesFall
  BY KeptStages DEF QuietRows
<1>2. \A d \in Rfps : /\ state[d] # "absent" => state'[d] # "absent"
                      /\ Exists(d) => Exists(d)'
  BY DEF QuietRows, Exists
<1>. QED
  BY <1>1, <1>2, KeptRequested

LEMMA FinishRequested ==
  ASSUME RInv, StagesFall, NEW d \in Rfps, NEW outcome \in {"received", "ready", "failed"},
         RunsOf(d) # {}, state' \in {state, [state EXCEPT ![d] = outcome]}, req' = req
  PROVE  Requested' /\ RunsExist' /\ OnlyLatestRunActive'
<1>1. \A e \in Rfps : e # d => state'[e] = state[e]
  BY DEF RInv, IInv, TypeOK
<1>2. state'[d] \in {state[d], outcome} /\ Exists(d)
  BY DEF RInv, RunsExist, IInv, TypeOK
<1>3. \A e \in Rfps : /\ state[e] # "absent" => state'[e] # "absent"
                      /\ Exists(e) => Exists(e)'
  BY <1>1, <1>2 DEF Exists
<1>. QED
  BY <1>3, KeptRequested

LEMMA RStep == ASSUME OneRequest PROVE RInv /\ [Next]_vars => RInv'
<1> SUFFICES ASSUME RInv, [Next]_vars
             PROVE  Requested' /\ RunsExist' /\ OnlyLatestRunActive'
  BY StepInv DEF RInv
<1>. USE DEF RInv
<1>1. CASE ApiStep
  <2>1. ASSUME NEW d \in Rfps, NEW p \in Rfps, UploadClone(d, p)
        PROVE  Requested' /\ RunsExist' /\ OnlyLatestRunActive'
    BY <2>1, QuietClone, QuietRequested DEF UploadClone
  <2>2. ASSUME NEW q \in Requests, ReprocessAbort(q)
        PROVE  Requested' /\ RunsExist' /\ OnlyLatestRunActive'
    <3>1. QuietRows
      BY <2>2, QuietDb DEF ReprocessAbort, dbVars
    <3>2. \A p \in Requests : req'[p].rfp # None => req'[p] = req[p]
      BY <2>2 DEF ReprocessAbort, NoRead, IInv, TypeOK
    <3>. QED
      BY <3>1, <3>2, QuietRequested
  <2>. QED
    BY <1>1, <2>1, <2>2, UploadRequested, ReadRequested, WriteRequested,
       DeleteRequested DEF ApiStep
<1>2. CASE ClockStep
  <2>1. req' = req
    BY <1>2 DEF ClockStep, ProbeProviders, MonthStart, DailyMaintenance, FallSilent
  <2>. QED
    BY <1>2, <2>1, QuietClock, QuietRequested
<1>3. ASSUME NEW w \in Workers, WorkStep(w) \/ BootStep(w) \/ FaultStep(w)
      PROVE  Requested' /\ RunsExist' /\ OnlyLatestRunActive'
  <2>1. ASSUME NEW j \in JobIds, Claim(w, j)
        PROVE  Requested' /\ RunsExist' /\ OnlyLatestRunActive'
    BY <2>1, QuietClaim, QuietRequested DEF Claim
  <2>2. CASE Beat(w)
    BY <2>2, QuietBeat, QuietRequested DEF Beat
  <2>3. CASE Between(w)
    BY <2>3, BetweenKeeps, QuietDb, QuietRequested DEF dbVars
  <2>4. CASE Commit(w)
    <3>1. /\ StagesFall /\ runs[wrun[w]].rfp \in Rfps /\ wrun[w] \in RunIds
          /\ runs[wrun[w]].stage # "none" /\ Outcome(w) \in {"ready", "failed"}
          /\ state' = [state EXCEPT ![runs[wrun[w]].rfp] = Outcome(w)]
      BY <2>4, CommitFinishes
    <3>2. RunsOf(runs[wrun[w]].rfp) # {} /\ req' = req
      BY <2>4, <3>1 DEF RunsOf, Commit
    <3>. QED
      BY <3>1, <3>2, FinishRequested
  <2>5. ASSUME NEW s \in scan[w], GiveUp(w, s)
        PROVE  Requested' /\ RunsExist' /\ OnlyLatestRunActive'
    <3>1. /\ StagesFall /\ runs[s.run].rfp \in Rfps /\ s.run \in RunIds
          /\ runs[s.run].stage # "none"
          /\ state' \in {state, [state EXCEPT ![runs[s.run].rfp] = "failed"]}
      BY <2>5, GiveUpFinishes
    <3>2. RunsOf(runs[s.run].rfp) # {} /\ req' = req
      BY <2>5, <3>1 DEF RunsOf, GiveUp
    <3>. QED
      BY <3>1, <3>2, FinishRequested
  <2>6. ASSUME NEW s \in scan[w], Requeue(w, s)
        PROVE  Requested' /\ RunsExist' /\ OnlyLatestRunActive'
    <3>1. /\ StagesKept /\ runs[s.run].rfp \in Rfps /\ s.run \in RunIds
          /\ runs[s.run].stage # "none"
          /\ state' \in {state, [state EXCEPT ![runs[s.run].rfp] = "received"]}
      BY <2>6, RequeueKeeps
    <3>2. RunsOf(runs[s.run].rfp) # {} /\ req' = req
      BY <2>6, <3>1 DEF RunsOf, Requeue
    <3>. QED
      BY <3>1, <3>2, KeptStages, FinishRequested
  <2>. QED
    BY <1>3, <2>1, <2>2, <2>3, <2>4, <2>5, <2>6, WorkerSteps
<1>4. CASE UNCHANGED vars
  BY <1>4, QuietDb, QuietRequested DEF vars, dbVars
<1>. QED
  BY <1>1, <1>2, <1>3, <1>4 DEF Next

LEMMA RInit == Init => RInv
<1> SUFFICES ASSUME Init PROVE RInv
  OBVIOUS
<1>1. \A d : RunsOf(d) = {}
  BY DEF Init, RunsOf, NoRun
<1>. QED
  BY <1>1, InitInv DEF Init, NoRead, RInv, Requested, RunsExist, OnlyLatestRunActive

-----------------------------------------------------------------------------
(* One worker: DInv.                                                       *)

LEMMA QuietShown ==
  ASSUME DInv, QuietRows
  PROVE  HasLatest' /\ ShownByRun' /\ UnfinishedHasJob'
<1>1. \A d : /\ RunsOf(d)' = RunsOf(d)
             /\ \A r : IsLatest(r, d)' <=> IsLatest(r, d)
             /\ Unfinished(d)' <=> Unfinished(d)
  BY KeptStages, KeptRuns DEF QuietRows
<1>2. HasLatest'
  BY <1>1 DEF DInv, HasLatest
<1>3. ShownByRun'
  BY <1>1 DEF DInv, ShownByRun, QuietRows
<1>4. UnfinishedHasJob'
  BY <1>1, KeptLive DEF DInv, UnfinishedHasJob, QuietRows, LiveJob
<1>. QED
  BY <1>2, <1>3, <1>4

\* A worker left alone by a step that ends no job and starts no run.
LEMMA KeptOwes ==
  ASSUME DInv, StagesKept, LiveKept, NEW w \in Workers,
         pc'[w] = pc[w], wjob'[w] = wjob[w], wrun'[w] = wrun[w], held'[w] = held[w]
  PROVE  WorkerOwes(w)'
<1>. USE DEF DInv, WorkerOwes
<1>1. ASSUME pc[w] \in Extracting \cup Finished
      PROVE  held[w] = {runs'[wrun[w]].rfp}
  <2>1. wrun[w] \in RunIds
    BY <1>1, BoundsAssumption
    DEF RInv, IInv, WorkerRows, WorkerRow, Working, Extracting, Finished, RunIds,
        TypeOK
  <2>. QED
    BY <1>1, <2>1 DEF StagesKept
<1>2. ASSUME pc[w] \in Working \ {"claimed"}, NEW d \in Rfps,
             NEW r \in RunsOf(d)', runs'[r].stage = "reading", r # wrun[w],
             jobs'[wjob[w]].rfp = d
      PROVE  \E j \in JobsOf(d)' \ {wjob[w]} : LiveJob(j)'
  <2>1. r \in RunsOf(d) /\ runs[r].stage = "reading"
    BY <1>2 DEF StagesKept, RunsOf
  <2>2. jobs[wjob[w]].rfp = d
    <3>1. wjob[w] \in JobIds
      BY <1>2, BoundsAssumption
      DEF RInv, IInv, WorkerRows, WorkerRow, JobIds, TypeOK
    <3>. QED
      BY <1>2, <3>1 DEF LiveKept
  <2>3. PICK j \in JobsOf(d) \ {wjob[w]} : LiveJob(j)
    BY <1>2, <2>1, <2>2
  <2>. QED
    BY <2>3, KeptLive
<1>. QED
  BY <1>1, <1>2

LEMMA KeptScan ==
  ASSUME DInv, NEW w \in Workers, scan'[w] = scan[w], pc'[w] = pc[w],
         seen'[w] = seen[w],
         \A s \in scan[w] : runs'[s.run].stage \in {runs[s.run].stage, "none"},
         \A s \in scan[w] : runs'[s.run].stage # "none" =>
           /\ runs'[s.run].rfp = runs[s.run].rfp
           /\ \/ state'[runs[s.run].rfp] = state[runs[s.run].rfp]
              \/ /\ state[runs[s.run].rfp] = "failed"
                 /\ state'[runs[s.run].rfp] = "expired"
  PROVE  ScanReading(w)'
  BY DEF DInv, ScanReading

\* Steps of other processes that end no job and start no run.
LEMMA QuietWork ==
  ASSUME DInv, RInv', Asked', QuietRows, UNCHANGED workerVars
  PROVE  DInv'
<1>1. \A w \in Workers : WorkerOwes(w)'
  BY KeptOwes DEF QuietRows, workerVars
<1>2. \A w \in Workers : ScanReading(w)'
  <2>1. ASSUME NEW w \in Workers, NEW s \in scan[w]
        PROVE  /\ runs'[s.run].stage = runs[s.run].stage
               /\ runs'[s.run].rfp = runs[s.run].rfp
               /\ runs[s.run].stage # "none" =>
                    \/ state'[runs[s.run].rfp] = state[runs[s.run].rfp]
                    \/ /\ state[runs[s.run].rfp] = "failed"
                       /\ state'[runs[s.run].rfp] = "expired"
    <3>1. s.run \in RunIds
      BY DEF DInv, RInv, IInv, TypeOK
    <3>2. runs'[s.run].stage = runs[s.run].stage /\ runs'[s.run].rfp = runs[s.run].rfp
      BY <3>1 DEF QuietRows, StagesKept
    <3>3. runs[s.run].stage # "none" =>
            runs[s.run].rfp \in Rfps /\ Exists(runs[s.run].rfp)
      BY <3>1 DEF DInv, RInv, IInv, OwnedRows, RunsExist, RunsOf
    <3>. QED
      BY <3>2, <3>3 DEF QuietRows, Exists
  <2>. QED
    BY <2>1, KeptScan DEF workerVars
<1>. QED
  BY <1>1, <1>2, QuietShown DEF DInv

LEMMA AddedWork ==
  ASSUME DInv, RInv', Asked', NEW d, NEW r, NEW j, Added(d, r, j), ~Unfinished(d),
         UNCHANGED workerVars
  PROVE  DInv'
<1>. USE DEF DInv, RInv
<1>0. d \in Rfps /\ \A e \in Rfps \ {d} : state'[e] = state[e]
  BY DEF Added, IInv, TypeOK
<1>1. /\ RunsOf(d)' = RunsOf(d) \cup {r}
      /\ IsLatest(r, d)'
      /\ Unfinished(d)'
      /\ \A e \in Rfps \ {d} : /\ RunsOf(e)' = RunsOf(e)
                               /\ Unfinished(e)' <=> Unfinished(e)
  BY AddedRuns
<1>2. HasLatest'
  BY <1>1 DEF HasLatest, IsLatest
<1>3. ShownByRun'
  BY <1>0, <1>1 DEF ShownByRun
<1>4. j \in JobsOf(d)' /\ LiveJob(j)'
  BY DEF Added, JobsOf, LiveJob
<1>5. \A e : \A k \in JobsOf(e) : LiveJob(k) => k \in JobsOf(e)' /\ LiveJob(k)'
  BY DEF Added, JobsOf, LiveJob, IInv, TypeOK
<1>6. UnfinishedHasJob'
  BY <1>1, <1>4, <1>5 DEF UnfinishedHasJob, LiveJob
<1>7. ASSUME NEW w \in Workers PROVE WorkerOwes(w)'
  <2>1. /\ pc[w] \in Working => wjob[w] \in JobIds /\ wjob[w] # j
        /\ pc[w] \in Working \ {"claimed"} => wrun[w] \in RunIds /\ wrun[w] # r
    BY DEF IInv, TypeOK, WorkerRows, WorkerRow, Added, RunIds, JobIds
  <2>2. Extracting \cup Finished \subseteq Working \ {"claimed"}
    BY DEF Working, Extracting, Finished
  <2>3. ASSUME pc[w] \in Extracting \cup Finished
        PROVE  held[w] = {runs'[wrun[w]].rfp}
    <3>1. held[w] = {runs[wrun[w]].rfp}
      BY <2>3 DEF WorkerOwes
    <3>2. runs'[wrun[w]] = runs[wrun[w]]
      BY <2>1, <2>2, <2>3 DEF Added
    <3>. QED
      BY <3>1, <3>2
  <2>4. ASSUME pc[w] \in Working \ {"claimed"}, NEW e \in Rfps,
               NEW s \in RunsOf(e)', runs'[s].stage = "reading", s # wrun[w],
               jobs'[wjob[w]].rfp = e
        PROVE  \E k \in JobsOf(e)' \ {wjob[w]} : LiveJob(k)'
    <3>0. wjob[w] # j
      BY <2>1, <2>4
    <3>1. CASE e = d
      BY <1>4, <3>0, <3>1
    <3>2. CASE e # d
      <4>1. s \in RunsOf(e) /\ s # r
        BY <1>1, <2>4, <3>2 DEF RunsOf, Added
      <4>2. runs[s].stage = "reading" /\ jobs[wjob[w]].rfp = e
        BY <2>1, <2>4, <4>1 DEF Added, RunsOf
      <4>3. \E k \in JobsOf(e) \ {wjob[w]} : LiveJob(k)
        BY <2>4, <4>1, <4>2 DEF WorkerOwes
      <4>. QED
        BY <4>3, <1>5
    <3>. QED
      BY <3>1, <3>2
  <2>. QED
    BY <2>3, <2>4 DEF WorkerOwes, workerVars
<1>8. ASSUME NEW w \in Workers PROVE ScanReading(w)'
  <2>1. \A s \in scan[w] : s.run \in RunIds /\ s.run # r
    BY DEF IInv, TypeOK, ScanRows, ScanRow, Added
  <2>2. \A s \in scan[w] : runs'[s.run] = runs[s.run]
    BY <2>1 DEF Added
  <2>3. \A s \in scan[w] : runs[s.run].stage # "none" =>
          state'[runs[s.run].rfp] = state[runs[s.run].rfp]
    <3>1. \A s \in scan[w] : runs[s.run].stage # "none" =>
            runs[s.run].rfp \in Rfps /\ Unfinished(runs[s.run].rfp)
      BY <2>1 DEF ScanReading, IInv, OwnedRows, Unfinished, RunsOf
    <3>. QED
      BY <1>0, <3>1
  <2>. QED
    BY <2>2, <2>3, KeptScan DEF workerVars
<1>. QED
  BY <1>2, <1>3, <1>6, <1>7, <1>8

LEMMA DeletedWork ==
  ASSUME DInv, RInv', Asked', NEW d \in Rfps, DeleteMatrix(d)
  PROVE  DInv'
<1>. USE DEF DInv, RInv
<1>1. /\ RunsOf(d)' = {} /\ \A e \in Rfps \ {d} : RunsOf(e)' = RunsOf(e)
      /\ \A r \in RunIds : runs'[r].stage # "none" => runs'[r] = runs[r]
      /\ \A r \in RunIds : runs[r].rfp # d => runs'[r] = runs[r]
      /\ \A e \in Rfps \ {d} : state'[e] = state[e]
      /\ state'[d] = "deleted"
  BY DeleteRequested
<1>2. UNCHANGED workerVars
  BY DEF DeleteMatrix
<1>3. HasLatest'
  BY <1>1 DEF HasLatest, IsLatest
<1>4. \A e \in Rfps \ {d} : Unfinished(e)' <=> Unfinished(e)
  BY <1>1 DEF Unfinished, RunsOf
<1>5. ShownByRun'
  BY <1>1, <1>4 DEF ShownByRun
<1>6. \A e \in Rfps \ {d} : JobsOf(e)' = JobsOf(e) /\ \A j \in JobsOf(e) : jobs'[j] = jobs[j]
  BY DEF DeleteMatrix, JobsOf, IInv, TypeOK, NoJob
<1>7. ~Unfinished(d)'
  BY <1>1 DEF Unfinished
<1>8. UnfinishedHasJob'
  BY <1>4, <1>6, <1>7 DEF UnfinishedHasJob
<1>9. ASSUME NEW w \in Workers PROVE WorkerOwes(w)'
  <2>1. ASSUME pc[w] \in Extracting \cup Finished
        PROVE  held[w] = {runs'[wrun[w]].rfp}
    <3>1. wrun[w] \in RunIds /\ runs[wrun[w]].rfp \in held[w]
      BY <2>1, BoundsAssumption
      DEF IInv, WorkerRows, WorkerRow, Working, Extracting, Finished, RunIds,
          TypeOK
    <3>2. d \notin held[w]
      BY DEF DeleteMatrix, Locked
    <3>. QED
      BY <1>1, <2>1, <3>1, <3>2 DEF WorkerOwes
  <2>2. ASSUME pc[w] \in Working \ {"claimed"}, NEW e \in Rfps,
               NEW r \in RunsOf(e)', runs'[r].stage = "reading", r # wrun[w],
               jobs'[wjob[w]].rfp = e
        PROVE  \E j \in JobsOf(e)' \ {wjob[w]} : LiveJob(j)'
    <3>1. e # d /\ r \in RunsOf(e) /\ runs[r].stage = "reading"
      BY <1>1, <2>2 DEF RunsOf
    <3>2. wjob[w] \in JobIds
      BY <2>2, BoundsAssumption DEF IInv, WorkerRows, WorkerRow, JobIds, TypeOK
    <3>3. jobs[wjob[w]] = jobs'[wjob[w]]
      BY <2>2, <3>1, <3>2, NoneAssumption DEF DeleteMatrix, NoJob
    <3>4. \E j \in JobsOf(e) \ {wjob[w]} : LiveJob(j)
      BY <2>2, <3>1, <3>3 DEF WorkerOwes
    <3>. QED
      BY <1>6, <3>1, <3>4 DEF LiveJob
  <2>. QED
    BY <1>2, <2>1, <2>2 DEF WorkerOwes, workerVars
<1>10. ASSUME NEW w \in Workers PROVE ScanReading(w)'
  <2>1. \A s \in scan[w] : s.run \in RunIds
    BY DEF IInv, TypeOK
  <2>2. \A s \in scan[w] :
          /\ runs'[s.run].stage \in {runs[s.run].stage, "none"}
          /\ runs'[s.run].stage # "none" => runs'[s.run] = runs[s.run]
    <3>1. \A r \in RunIds : \/ runs'[r].stage = "none"
                            \/ runs'[r] = runs[r]
      BY <1>1
    <3>. QED
      BY ONLY <2>1, <3>1
  <2>3. \A s \in scan[w] : runs'[s.run].stage # "none" =>
          state'[runs[s.run].rfp] = state[runs[s.run].rfp]
    BY <1>1, <2>1 DEF RunsOf, IInv, OwnedRows
  <2>4. scan'[w] = scan[w] /\ pc'[w] = pc[w] /\ seen'[w] = seen[w]
    BY <1>2 DEF workerVars
  <2>5. /\ \A s \in scan[w] : runs'[s.run].stage \in {runs[s.run].stage, "none"}
        /\ \A s \in scan[w] : runs'[s.run].stage # "none" =>
             /\ runs'[s.run].rfp = runs[s.run].rfp
             /\ state'[runs[s.run].rfp] = state[runs[s.run].rfp]
    BY ONLY <2>2, <2>3
  <2>. QED
    BY <2>4, <2>5, KeptScan
<1>. QED
  BY <1>3, <1>5, <1>8, <1>9, <1>10

\* The steps of the one worker that end no job and finish no run.
LEMMA MovedWork ==
  ASSUME OneWorker, DInv, RInv', Asked', QuietRows, NEW w \in Workers,
         ScanReading(w)', WorkerOwes(w)'
  PROVE  DInv'
<1>1. \A v \in Workers : ScanReading(v)' /\ WorkerOwes(v)'
  <2>1. \A v \in Workers : v = w
    BY DEF OneWorker
  <2>. QED
    BY <2>1
<1>. QED
  BY <1>1, QuietShown DEF DInv

LEMMA ClaimWork ==
  ASSUME OneWorker, DInv, RInv', Asked', NEW w \in Workers, NEW j \in JobIds, Claim(w, j)
  PROVE  DInv'
<1>. USE DEF DInv, RInv, IInv
<1>1. pc[w] = "poll" /\ pc'[w] = "claimed"
  BY DEF Claim, TypeOK
<1>2. ScanReading(w)'
  BY <1>1 DEF ScanReading, Claim
<1>3. WorkerOwes(w)'
  BY <1>1 DEF WorkerOwes, Extracting, Finished
<1>. QED
  BY <1>2, <1>3, QuietClaim, MovedWork

LEMMA StartWork ==
  ASSUME OneWorker, DInv, RInv', Asked', NEW w \in Workers, Start(w)
  PROVE  DInv'
<1>. USE DEF DInv, RInv, IInv
<1>1. PICK r \in RunIds :
        /\ IsLatest(r, jobs[wjob[w]].rfp)
        /\ wrun' = [wrun EXCEPT ![w] = r]
  BY DEF Start
<1>2. /\ pc[w] = "claimed" /\ pc'[w] = "started" /\ wrun'[w] = r
      /\ UNCHANGED <<dbVars, wjob, held, scan>>
  BY <1>1 DEF Start, TypeOK
<1>3. ScanReading(w)'
  BY <1>2 DEF ScanReading, dbVars
<1>4. WorkerOwes(w)'
  <2>1. ASSUME NEW d \in Rfps, NEW s \in RunsOf(d), runs[s].stage = "reading",
               jobs[wjob[w]].rfp = d
        PROVE  s = r
    <3>1. IsLatest(s, d) /\ IsLatest(r, d)
      BY <1>1, <2>1 DEF OnlyLatestRunActive
    <3>2. s <= r /\ r <= s /\ s \in Nat /\ r \in Nat
      BY <3>1 DEF IsLatest, RunsOf, RunIds
    <3>. QED
      BY <3>2
  <2>2. ASSUME NEW d \in Rfps, NEW s \in RunsOf(d)', runs'[s].stage = "reading",
               jobs'[wjob'[w]].rfp = d
        PROVE  s = wrun'[w]
    BY <1>2, <2>1, <2>2 DEF dbVars, RunsOf
  <2>. QED
    BY <1>2, <2>2 DEF WorkerOwes, Extracting, Finished
<1>5. QuietRows
  BY <1>2, QuietDb DEF dbVars
<1>. QED
  BY <1>3, <1>4, <1>5, MovedWork

\* An extraction begins or goes on.
LEMMA ReadingWork ==
  ASSUME OneWorker, DInv, RInv', Asked', NEW w \in Workers,
         \/ BeginReading(w)
         \/ \E from \in Extracting, to \in Extracting \cup Finished :
              Advance(w, from, to)
  PROVE  DInv'
<1>. USE DEF DInv, RInv, IInv
<1>1. /\ pc[w] \in Working \ {"claimed"}
      /\ pc'[w] \in Extracting \cup Finished
      /\ held'[w] = {runs[wrun[w]].rfp}
      /\ UNCHANGED <<dbVars, wjob, wrun, scan>>
  BY DEF BeginReading, Advance, TypeOK, WorkerOwes, Working, Extracting, Finished
<1>2. scan[w] = {}
  BY <1>1 DEF ScanReading, Working, Extracting, Finished
<1>3. ScanReading(w)'
  BY <1>1, <1>2 DEF ScanReading
<1>4. WorkerOwes(w)'
  <2>1. \A d : RunsOf(d)' = RunsOf(d) /\ JobsOf(d)' = JobsOf(d)
    BY <1>1 DEF RunsOf, JobsOf, dbVars
  <2>2. \A j : LiveJob(j)' <=> LiveJob(j)
    BY <1>1 DEF LiveJob, dbVars
  <2>. QED
    BY <1>1, <2>1, <2>2 DEF WorkerOwes, dbVars
<1>5. QuietRows
  BY <1>1, QuietDb DEF dbVars
<1>. QED
  BY <1>3, <1>4, <1>5, MovedWork

\* A cycle ends without a commit, or a boot goes on.
LEMMA IdleWork ==
  ASSUME OneWorker, DInv, RInv', Asked', NEW w \in Workers, UNCHANGED dbVars,
         pc'[w] \notin Working, ScanReading(w)'
  PROVE  DInv'
<1>1. WorkerOwes(w)'
  BY DEF WorkerOwes, Working
<1>2. QuietRows
  BY QuietDb DEF dbVars
<1>. QED
  BY <1>1, <1>2, MovedWork

LEMMA EndedWork ==
  ASSUME OneWorker, DInv, RInv', Asked', NEW w \in Workers,
         DocumentGone(w) \/ DatabaseError(w) \/ Crash(w)
  PROVE  DInv'
<1>. USE DEF DInv, RInv, IInv
<1>1. UNCHANGED dbVars
  BY BetweenKeeps DEF Between
<1>2. pc'[w] \in {"poll", "down"}
  BY DEF DocumentGone, DatabaseError, Crash, Abandon, EndCycle, TypeOK
<1>21. scan'[w] = {}
  <2>1. CASE Crash(w)
    BY <2>1 DEF Crash, TypeOK
  <2>2. CASE DocumentGone(w) \/ DatabaseError(w)
    <3>1. pc[w] \in Working /\ scan' = scan
      BY <2>2 DEF DocumentGone, DatabaseError, Abandon, Working
    <3>. QED
      BY <3>1 DEF ScanReading, Working, Extracting, Finished
  <2>. QED
    BY <2>1, <2>2
<1>3. ScanReading(w)'
  BY <1>21 DEF ScanReading
<1>4. pc'[w] \notin Working
  BY <1>2 DEF Working, Extracting, Finished
<1>. QED
  BY <1>1, <1>3, <1>4, IdleWork

LEMMA BootWork ==
  ASSUME OneWorker, DInv, RInv', Asked', NEW w \in Workers,
         BootScan(w) \/ BootLock(w) \/ BootConflict(w) \/ BootDone(w)
  PROVE  DInv'
<1>. USE DEF DInv, RInv, IInv
<1>1. UNCHANGED dbVars
  BY BetweenKeeps DEF Between
<1>2. pc'[w] \in {"scanned", "requeue", "down", "poll"}
  BY DEF BootScan, BootLock, BootConflict, BootDone, TypeOK
<1>3. ScanReading(w)'
  <2>1. CASE BootScan(w)
    <3>1. /\ pc'[w] = "scanned"
          /\ scan'[w] = {[run |-> r, attempt |-> runs[r].attempt] : r \in StaleRuns}
          /\ seen'[w] = [d \in Rfps |-> IF \E r \in StaleRuns : runs[r].rfp = d
                                        THEN state[d] ELSE "absent"]
      BY <2>1 DEF BootScan, TypeOK
    <3>2. \A t \in scan'[w] : /\ runs[t.run].stage = "reading"
                              /\ t = [run |-> t.run, attempt |-> runs[t.run].attempt]
                              /\ t.run \in StaleRuns
      BY <3>1 DEF StaleRuns
    <3>3. \A t \in scan'[w] : seen'[w][runs[t.run].rfp] = state[runs[t.run].rfp]
      <4>1. \A r \in StaleRuns : runs[r].rfp \in Rfps
        BY DEF StaleRuns, OwnedRows
      <4>. QED
        BY <3>1, <3>2, <4>1
    <3>. QED
      BY <1>1, <3>1, <3>2, <3>3 DEF ScanReading, dbVars
  <2>2. CASE BootLock(w)
    <3>1. pc'[w] = "requeue" /\ UNCHANGED <<scan, seen>>
      BY <2>2 DEF BootLock, TypeOK
    <3>. QED
      BY <1>1, <3>1 DEF ScanReading, dbVars
  <2>3. CASE BootConflict(w) \/ BootDone(w)
    <3>1. scan'[w] = {}
      BY <2>3 DEF BootConflict, BootDone, TypeOK
    <3>. QED
      BY <3>1 DEF ScanReading
  <2>. QED
    BY <2>1, <2>2, <2>3
<1>4. pc'[w] \notin Working
  BY <1>2 DEF Working, Extracting, Finished
<1>. QED
  BY <1>1, <1>3, <1>4, IdleWork

LEMMA CommitWork ==
  ASSUME OneWorker, DInv, RInv', Asked', NEW w \in Workers, Commit(w)
  PROVE  DInv'
<1>. USE DEF DInv, RInv
<1>1. PICK r, j, d : r = wrun[w] /\ j = wjob[w] /\ d = runs[r].rfp
  OBVIOUS
<1>2. /\ r \in RunIds /\ j \in JobIds /\ d \in Rfps
      /\ pc[w] \in Finished
      /\ jobs[j].rfp = d
      /\ runs[r].stage # "none"
      /\ Outcome(w) \in {"ready", "failed"}
      /\ runs'[r].stage = Outcome(w)
      /\ \A s \in RunIds \ {r} : runs'[s] = runs[s]
      /\ jobs'[j].rfp = d
      /\ \A k \in JobIds \ {j} : jobs'[k] = jobs[k]
      /\ state' = [state EXCEPT ![d] = Outcome(w)]
      /\ StagesFall
  BY <1>1, CommitFinishes
<1>3. \A e : /\ RunsOf(e)' = RunsOf(e)
             /\ \A s : IsLatest(s, e)' <=> IsLatest(s, e)
  BY <1>2, KeptRuns
<1>4. \A e \in Rfps \ {d} : /\ state'[e] = state[e]
                            /\ Unfinished(e)' <=> Unfinished(e)
  <2>1. \A e : \A s \in RunsOf(e) : e # d => s \in RunIds \ {r}
    BY <1>1 DEF RunsOf
  <2>2. \A e \in Rfps \ {d} : Unfinished(e)' <=> Unfinished(e)
    BY <1>2, <1>3, <2>1 DEF Unfinished
  <2>. QED
    BY <1>2, <2>2 DEF IInv, TypeOK
<1>5. HasLatest'
  BY <1>3 DEF HasLatest
<1>6. ShownByRun'
  <2>1. state'[d] = Outcome(w) /\ RunsOf(d) # {}
    BY <1>1, <1>2 DEF RunsOf, IInv, TypeOK
  <2>. QED
    BY <1>2, <1>3, <1>4, <2>1 DEF ShownByRun
<1>7. UnfinishedHasJob'
  <2> SUFFICES ASSUME NEW e \in Rfps, Unfinished(e)'
      PROVE  \E k \in JobsOf(e)' : LiveJob(k)'
    BY DEF UnfinishedHasJob, LiveJob
  <2>1. CASE e # d
    <3>1. \E k \in JobsOf(e) : LiveJob(k)
      BY <1>4, <2>1 DEF UnfinishedHasJob, LiveJob
    <3>2. \A k \in JobsOf(e) : k # j
      BY <1>2, <2>1 DEF JobsOf
    <3>. QED
      BY <1>2, <3>1, <3>2 DEF JobsOf, LiveJob
  <2>2. CASE e = d
    <3>1. PICK s \in RunsOf(d) : runs'[s].stage = "reading"
      BY <1>3, <2>2 DEF Unfinished
    <3>2. s # r /\ runs[s].stage = "reading"
      BY <1>2, <3>1 DEF RunsOf
    <3>3. pc[w] \in Working \ {"claimed"}
      BY <1>2 DEF Working, Finished
    <3>4. PICK k \in JobsOf(d) \ {j} : LiveJob(k)
      BY <1>1, <1>2, <3>2, <3>3 DEF WorkerOwes
    <3>. QED
      BY <1>2, <2>2, <3>4 DEF JobsOf, LiveJob
  <2>. QED
    BY <2>1, <2>2
<1>8. ScanReading(w)' /\ WorkerOwes(w)'
  <2>1. scan[w] = {}
    BY <1>2 DEF ScanReading, Finished
  <2>2. scan' = scan /\ pc'[w] = "poll"
    BY DEF Commit, EndCycle, IInv, TypeOK
  <2>. QED
    BY <2>1, <2>2 DEF ScanReading, WorkerOwes, Working, Extracting, Finished
<1>9. \A v \in Workers : ScanReading(v)' /\ WorkerOwes(v)'
  <2>1. \A v \in Workers : v = w
    BY DEF OneWorker
  <2>. QED
    BY <1>8, <2>1
<1>. QED
  BY <1>5, <1>6, <1>7, <1>9

\* The run a boot treats is the one unfinished run of its document.
LEMMA ScannedOnly ==
  ASSUME DInv, NEW w \in Workers, NEW s \in scan[w], pc[w] = "requeue",
         NEW d \in Rfps, d = runs[s.run].rfp
  PROVE  /\ s.run \in RunsOf(d) /\ runs[s.run].stage = "reading"
         /\ \A r \in RunsOf(d) : runs[r].stage = "reading" => r = s.run
<1>. USE DEF DInv, RInv
<1>1. s.run \in RunsOf(d) /\ runs[s.run].stage = "reading"
  BY ScannedRun DEF RunsOf, ScanReading
<1>2. ASSUME NEW r \in RunsOf(d), runs[r].stage = "reading"
      PROVE  r = s.run
  <2>1. IsLatest(r, d) /\ IsLatest(s.run, d)
    BY <1>1, <1>2 DEF OnlyLatestRunActive
  <2>2. r <= s.run /\ s.run <= r /\ r \in Nat /\ s.run \in Nat
    BY <2>1 DEF IsLatest, RunsOf, RunIds
  <2>. QED
    BY <2>2
<1>. QED
  BY <1>1, <1>2

\* The other runs of a boot's scan keep their rows, and are of other documents.
LEMMA TreatedScan ==
  ASSUME OneWorker, DInv, NEW w \in Workers, NEW s \in scan[w], pc[w] = "requeue",
         pc' = pc, scan' = [scan EXCEPT ![w] = @ \ {s}],
         NEW d \in Rfps, d = runs[s.run].rfp, NEW value,
         seen' = [seen EXCEPT ![w][d] = value],
         \A r \in RunIds \ {s.run} : /\ runs'[r].stage = runs[r].stage
                                     /\ runs'[r].rfp = runs[r].rfp,
         \A e \in Rfps \ {d} : state'[e] = state[e]
  PROVE  \A v \in Workers : ScanReading(v)' /\ WorkerOwes(v)'
<1>. USE DEF DInv, RInv, IInv
<1>1. scan'[w] = scan[w] \ {s}
  BY DEF TypeOK
<1>2. \A t \in scan'[w] : t \in scan[w] /\ t.run \in RunIds /\ t.run # s.run
  BY <1>1 DEF TypeOK, ScanReading
<1>3. \A e \in Rfps \ {d} : seen'[w][e] = seen[w][e]
  BY DEF TypeOK
<1>4. ASSUME NEW t \in scan'[w], runs'[t.run].stage # "none"
      PROVE  /\ runs'[t.run].rfp \in Rfps \ {d}
             /\ runs'[t.run].rfp = runs[t.run].rfp
             /\ runs[t.run].stage # "none"
  <2>1. runs[t.run].stage = "reading" /\ runs[t.run].rfp \in Rfps
    BY <1>2, <1>4 DEF ScanReading, OwnedRows
  <2>2. t.run \in RunsOf(runs[t.run].rfp)
    BY <1>2, <2>1 DEF RunsOf
  <2>3. runs[t.run].rfp # d
    BY <1>2, <2>1, <2>2, ScannedOnly
  <2>. QED
    BY <1>2, <1>4, <2>1, <2>3
<1>5. ScanReading(w)'
  <2>1. /\ scan'[w] # {} => pc'[w] \in {"scanned", "requeue"}
        /\ \A t \in scan'[w] : runs'[t.run].stage \in {"reading", "none"}
        /\ \A t, u \in scan'[w] : t.run = u.run => t = u
    BY <1>1, <1>2 DEF ScanReading
  <2>2. ASSUME NEW t \in scan'[w], runs'[t.run].stage # "none"
        PROVE  \/ state'[runs'[t.run].rfp] = seen'[w][runs'[t.run].rfp]
               \/ /\ seen'[w][runs'[t.run].rfp] = "failed"
                  /\ state'[runs'[t.run].rfp] = "expired"
    <3>1. PICK e \in Rfps \ {d} : e = runs'[t.run].rfp /\ e = runs[t.run].rfp
      BY <1>4, <2>2
    <3>2. \/ state[e] = seen[w][e]
          \/ seen[w][e] = "failed" /\ state[e] = "expired"
      BY <1>2, <1>4, <2>2, <3>1 DEF ScanReading
    <3>. QED
      BY <1>3, <3>1, <3>2
  <2>. QED
    BY <2>1, <2>2 DEF ScanReading
<1>6. WorkerOwes(w)'
  BY DEF WorkerOwes, Working, Extracting, Finished
<1>7. \A v \in Workers : v = w
  BY DEF OneWorker
<1>. QED
  BY <1>5, <1>6, <1>7

\* What the boot's session has read of the document of s.
LEMMA ScannedSeen ==
  ASSUME DInv, NEW w \in Workers, NEW s \in scan[w], pc[w] = "requeue",
         NEW d \in Rfps, d = runs[s.run].rfp
  PROVE  \/ state[d] = seen[w][d]
         \/ seen[w][d] = "failed" /\ state[d] = "expired"
  BY ScannedOnly DEF DInv, ScanReading

LEMMA GiveUpWork ==
  ASSUME OneWorker, DInv, RInv', Asked', NEW w \in Workers, NEW s \in scan[w], GiveUp(w, s)
  PROVE  /\ DInv'
         /\ ~Unfinished(runs[s.run].rfp)'
<1>. USE DEF DInv, RInv
<1>1. PICK d : d = runs[s.run].rfp
  OBVIOUS
<1>2. /\ pc[w] = "requeue"
      /\ s.run \in RunIds /\ d \in Rfps
      /\ runs'[s.run].rfp = d /\ runs'[s.run].stage = "failed"
      /\ \A r \in RunIds \ {s.run} : runs'[r] = runs[r]
      /\ \A j \in JobIds : jobs[j].rfp # d => jobs'[j] = jobs[j]
      /\ state' = IF seen[w][d] = "failed" THEN state
                                            ELSE [state EXCEPT ![d] = "failed"]
      /\ seen' = [seen EXCEPT ![w][d] = "failed"]
      /\ StagesFall
  BY <1>1, GiveUpFinishes
<1>3. /\ s.run \in RunsOf(d)
      /\ \A r \in RunsOf(d) : runs[r].stage = "reading" => r = s.run
  BY <1>1, <1>2, ScannedOnly
<1>4. \A e : /\ RunsOf(e)' = RunsOf(e)
             /\ \A r : IsLatest(r, e)' <=> IsLatest(r, e)
  BY <1>2, KeptRuns
<1>5. ~Unfinished(d)'
  BY <1>2, <1>3, <1>4 DEF Unfinished, RunsOf
<1>6. \A e \in Rfps \ {d} : /\ state'[e] = state[e]
                            /\ Unfinished(e)' <=> Unfinished(e)
  BY <1>1, <1>2, <1>4 DEF Unfinished, RunsOf, IInv, TypeOK
<1>7. HasLatest'
  BY <1>4 DEF HasLatest
<1>8. ShownByRun'
  <2>1. state'[d] \in {"failed", "expired"}
    <3>1. state[d] = seen[w][d] \/ (seen[w][d] = "failed" /\ state[d] = "expired")
      BY <1>1, <1>2, ScannedSeen
    <3>2. state \in [Rfps -> RfpStates]
      BY DEF IInv, TypeOK
    <3>. QED
      BY ONLY <1>2, <3>1, <3>2
  <2>. QED
    BY <1>3, <1>4, <1>6, <2>1 DEF ShownByRun
<1>9. UnfinishedHasJob'
  <2> SUFFICES ASSUME NEW e \in Rfps \ {d}, Unfinished(e)
      PROVE  \E k \in JobsOf(e)' : LiveJob(k)'
    BY <1>5, <1>6 DEF UnfinishedHasJob, LiveJob
  <2>1. PICK k \in JobsOf(e) : LiveJob(k)
    BY DEF UnfinishedHasJob, LiveJob
  <2>. QED
    BY <1>2, <2>1 DEF JobsOf, LiveJob
<1>10. \A v \in Workers : ScanReading(v)' /\ WorkerOwes(v)'
  <2>1. pc' = pc /\ scan' = [scan EXCEPT ![w] = @ \ {s}]
    BY DEF GiveUp
  <2>. QED
    BY <1>1, <1>2, <1>6, <2>1, TreatedScan
<1>. QED
  BY <1>1, <1>2, <1>5, <1>7, <1>8, <1>9, <1>10

\* A re-queue leaves its document a live job and ends none.
LEMMA RequeueLive ==
  ASSUME IInv, NEW w \in Workers, NEW s \in scan[w], Requeue(w, s),
         NEW d \in Rfps, d = runs[s.run].rfp
  PROVE  /\ \E j \in JobsOf(d)' : LiveJob(j)'
         /\ \A e : \A j \in JobsOf(e) : LiveJob(j) => j \in JobsOf(e)' /\ LiveJob(j)'
<1>. USE DEF IInv, TypeOK
<1>1. ASSUME NEW k \in Revivable(d), jobs' = [jobs EXCEPT ![k] = ResetJob(@)]
      PROVE  /\ \E j \in JobsOf(d)' : LiveJob(j)'
             /\ \A e : \A j \in JobsOf(e) : LiveJob(j) =>
                                              j \in JobsOf(e)' /\ LiveJob(j)'
  <2>1. k \in JobIds /\ jobs[k].rfp = d /\ jobs[k] \in JobRows
    BY DEF Revivable, JobsOf
  <2>2. /\ jobs'[k].rfp = d /\ jobs'[k].status = "queued"
        /\ \A j \in JobIds \ {k} : jobs'[j] = jobs[j]
    BY <1>1, <2>1 DEF ResetJob, JobRows
  <2>. QED
    BY <2>1, <2>2 DEF JobsOf, LiveJob
<1>2. ASSUME Enqueue(d, UnparkedPriority(d))
      PROVE  /\ \E j \in JobsOf(d)' : LiveJob(j)'
             /\ \A e : \A j \in JobsOf(e) : LiveJob(j) =>
                                              j \in JobsOf(e)' /\ LiveJob(j)'
  <2>1. PICK k : k = njobs + 1
    OBVIOUS
  <2>2. k \in JobIds /\ ~LiveJob(k)
    BY <1>2, <2>1, BoundsAssumption DEF Enqueue, JobIds, FreshRows, NoJob, LiveJob
  <2>3. /\ jobs'[k].rfp = d /\ jobs'[k].status = "queued"
        /\ \A j \in JobIds \ {k} : jobs'[j] = jobs[j]
    BY <1>2, <2>1, <2>2 DEF Enqueue
  <2>. QED
    BY <2>2, <2>3 DEF JobsOf, LiveJob
<1>. QED
  BY <1>1, <1>2 DEF Requeue

LEMMA RequeueWork ==
  ASSUME OneWorker, DInv, RInv', Asked', NEW w \in Workers, NEW s \in scan[w], Requeue(w, s)
  PROVE  /\ DInv'
         /\ Unfinished(runs[s.run].rfp)
<1>. USE DEF DInv, RInv
<1>1. PICK d : d = runs[s.run].rfp
  OBVIOUS
<1>2. /\ pc[w] = "requeue"
      /\ s.run \in RunIds /\ d \in Rfps
      /\ state' = IF seen[w][d] = "received" THEN state
                                              ELSE [state EXCEPT ![d] = "received"]
      /\ seen' = [seen EXCEPT ![w][d] = "received"]
      /\ StagesKept
  BY <1>1, RequeueKeeps
<1>21. state'[d] = "received" /\ \A e \in Rfps \ {d} : state'[e] = state[e]
  BY <1>1, <1>2, ScannedSeen DEF IInv, TypeOK
<1>3. Unfinished(d)
  BY <1>1, <1>2, ScannedOnly DEF Unfinished
<1>4. \A e : /\ RunsOf(e)' = RunsOf(e)
             /\ \A r : IsLatest(r, e)' <=> IsLatest(r, e)
             /\ Unfinished(e)' <=> Unfinished(e)
  BY <1>2, KeptStages, KeptRuns
<1>5. HasLatest'
  BY <1>4 DEF HasLatest
<1>6. ShownByRun'
  BY <1>21, <1>3, <1>4 DEF ShownByRun
<1>7. UnfinishedHasJob'
  <2>1. /\ \E j \in JobsOf(d)' : LiveJob(j)'
        /\ \A e : \A j \in JobsOf(e) : LiveJob(j) => j \in JobsOf(e)' /\ LiveJob(j)'
    BY <1>1, <1>2, RequeueLive
  <2>. QED
    BY <1>4, <2>1 DEF UnfinishedHasJob, LiveJob
<1>8. \A v \in Workers : ScanReading(v)' /\ WorkerOwes(v)'
  <2>1. pc' = pc /\ scan' = [scan EXCEPT ![w] = @ \ {s}]
    BY DEF Requeue
  <2>2. \A r \in RunIds \ {s.run} : /\ runs'[r].stage = runs[r].stage
                                     /\ runs'[r].rfp = runs[r].rfp
    BY <1>2 DEF StagesKept
  <2>. QED
    BY <1>1, <1>2, <1>21, <2>1, <2>2, TreatedScan
<1>. QED
  BY <1>1, <1>3, <1>5, <1>6, <1>7, <1>8

LEMMA AskedStep == ASSUME DInv, [Next]_vars PROVE Asked'
<1>. USE DEF DInv, RInv, IInv
<1>1. CASE ApiStep
  <2>1. ASSUME NEW q \in Requests, NEW d \in Rfps, ReprocessRead(q, d)
        PROVE  Asked'
    <3>1. PICK n : req' = [req EXCEPT ![q] = [rfp |-> d, attempt |-> n,
                                             state |-> state[d]]]
      BY <2>1, Zenon DEF ReprocessRead
    <3>2. state[d] # "received"
      BY <2>1, ReadRequested DEF ShownByRun
    <3>. QED
      BY <3>1, <3>2 DEF Asked, TypeOK
  <2>2. ASSUME NEW q \in Requests, ReprocessWrite(q) \/ ReprocessAbort(q)
        PROVE  Asked'
    <3>1. req' = [req EXCEPT ![q] = NoRead] /\ req \in [Requests -> ReadRows]
      BY <2>2 DEF ReprocessWrite, ReprocessAbort, TypeOK
    <3>. QED
      BY ONLY <3>1, Asked DEF NoRead, Asked
  <2>3. ASSUME \/ \E d \in Rfps : Upload(d) \/ DeleteMatrix(d)
               \/ \E d, p \in Rfps : UploadClone(d, p)
        PROVE  Asked'
    BY <2>3 DEF Upload, DeleteMatrix, UploadClone, Asked
  <2>. QED
    BY <1>1, <2>1, <2>2, <2>3 DEF ApiStep
<1>2. CASE ClockStep
  BY <1>2 DEF ClockStep, ProbeProviders, MonthStart, DailyMaintenance, FallSilent,
              Asked
<1>3. ASSUME NEW w \in Workers, WorkStep(w) \/ BootStep(w) \/ FaultStep(w)
      PROVE  Asked'
  <2>1. req' = req
    BY <1>3, WorkerSteps, BetweenKeeps DEF Claim, Beat, Commit, GiveUp, Requeue
  <2>. QED
    BY <2>1 DEF Asked
<1>4. CASE UNCHANGED vars
  BY <1>4 DEF vars, Asked
<1>. QED
  BY <1>1, <1>2, <1>3, <1>4 DEF Next

LEMMA DStep == ASSUME OneRequest, OneWorker PROVE DInv /\ [Next]_vars => DInv'
<1> SUFFICES ASSUME DInv, [Next]_vars PROVE DInv'
  OBVIOUS
<1>0. RInv /\ RInv' /\ IInv /\ Asked'
  BY RStep, AskedStep DEF DInv, RInv
<1>1. CASE ApiStep
  <2>1. ASSUME NEW d \in Rfps, Upload(d) PROVE DInv'
    BY <1>0, <2>1, UploadAdds, UploadRequested, AddedWork DEF Upload
  <2>2. ASSUME NEW d \in Rfps, NEW p \in Rfps, UploadClone(d, p) PROVE DInv'
    BY <1>0, <2>2, QuietClone, QuietWork DEF UploadClone
  <2>3. ASSUME NEW q \in Requests, NEW d \in Rfps, ReprocessRead(q, d)
        PROVE  DInv'
    <3>1. UNCHANGED <<dbVars, workerVars>>
      BY <2>3, Zenon DEF ReprocessRead
    <3>. QED
      BY <1>0, <3>1, QuietDb, QuietWork DEF dbVars
  <2>4. ASSUME NEW q \in Requests, ReprocessWrite(q) PROVE DInv'
    BY <1>0, <2>4, ReprocessAdds, WriteRequested, AddedWork DEF ReprocessWrite
  <2>5. ASSUME NEW q \in Requests, ReprocessAbort(q) PROVE DInv'
    BY <1>0, <2>5, QuietDb, QuietWork DEF ReprocessAbort, dbVars
  <2>6. ASSUME NEW d \in Rfps, DeleteMatrix(d) PROVE DInv'
    BY <1>0, <2>6, DeletedWork
  <2>. QED
    BY <1>1, <2>1, <2>2, <2>3, <2>4, <2>5, <2>6 DEF ApiStep
<1>2. CASE ClockStep
  <2>1. UNCHANGED workerVars
    BY <1>2 DEF ClockStep, ProbeProviders, MonthStart, DailyMaintenance, FallSilent
  <2>. QED
    BY <1>0, <1>2, <2>1, QuietClock, QuietWork
<1>3. ASSUME NEW w \in Workers, WorkStep(w) \/ BootStep(w) \/ FaultStep(w)
      PROVE  DInv'
  <2>1. CASE Beat(w)
    BY <1>0, <2>1, QuietBeat, QuietWork DEF Beat
  <2>2. CASE Between(w)
    BY <1>0, <2>2, StartWork, ReadingWork, EndedWork, BootWork DEF Between
  <2>. QED
    BY <1>0, <1>3, <2>1, <2>2, WorkerSteps, ClaimWork, CommitWork, GiveUpWork,
       RequeueWork
<1>4. CASE UNCHANGED vars
  BY <1>0, <1>4, QuietDb, QuietWork DEF vars, dbVars
<1>. QED
  BY <1>1, <1>2, <1>3, <1>4 DEF Next

LEMMA DInit == Init => DInv
<1> SUFFICES ASSUME Init PROVE DInv
  OBVIOUS
<1>1. \A d : RunsOf(d) = {}
  BY DEF Init, RunsOf, NoRun
<1>2. \A d : ~Unfinished(d)
  BY <1>1 DEF Unfinished
<1>3. HasLatest /\ ShownByRun /\ UnfinishedHasJob
  BY <1>1, <1>2 DEF Init, HasLatest, ShownByRun, UnfinishedHasJob
<1>4. \A w \in Workers : ScanReading(w) /\ WorkerOwes(w)
  BY DEF Init, ScanReading, WorkerOwes, Working, Extracting, Finished
<1>. QED
  BY <1>3, <1>4, RInit DEF DInv, Init, Asked, NoRead

\* Every reachable state of a queue with one worker and requests one at a time
\* satisfies the inductive invariant.
THEOREM OwnerInvariance == ASSUME OneRequest, OneWorker PROVE Spec => []DInv
  BY DInit, DStep, PTL DEF Spec

\* No unfinished run is without a queued or claimed job: not after a commit
\* that finished an older run with a surplus job, which a re-queue had revived
\* by its unordered first(), and not after a boot or a database error.
THEOREM UnfinishedHasJobHolds ==
  ASSUME OneRequest, OneWorker PROVE Spec => []UnfinishedHasJob
<1>1. DInv => UnfinishedHasJob
  BY DEF DInv
<1>. QED
  BY <1>1, OwnerInvariance, PTL

\* A failed document whose file is still there can be sent again (reprocess
\* finds a finished latest run), or a job is there that will extract it.
THEOREM FailedIsRetryableHolds ==
  ASSUME OneRequest, OneWorker PROVE Spec => []FailedIsRetryable
<1>1. DInv => FailedIsRetryable
  <2> SUFFICES ASSUME DInv, NEW d \in Rfps, state[d] = "failed"
      PROVE  \/ \E r \in RunsOf(d) : /\ IsLatest(r, d)
                                     /\ runs[r].stage \in {"ready", "failed"}
             \/ \E j \in JobsOf(d) : jobs[j].status \in {"queued", "processing"}
    BY DEF FailedIsRetryable
  <2>1. PICK r \in RunsOf(d) : IsLatest(r, d)
    BY DEF DInv, ShownByRun, HasLatest
  <2>2. runs[r].stage \in {"reading", "ready", "failed"}
    BY <2>1 DEF RunsOf, DInv, RInv, IInv, TypeOK, RunRows, RunStages
  <2>3. CASE runs[r].stage = "reading"
    BY <2>1, <2>3 DEF DInv, UnfinishedHasJob, Unfinished
  <2>. QED
    BY <2>1, <2>2, <2>3
<1>. QED
  BY <1>1, OwnerInvariance, PTL

-----------------------------------------------------------------------------
(* The refinement.                                                         *)

LEMMA OneExtraction ==
  ASSUME OneWorker, NEW w \in Workers
  PROVE  /\ BeingExtracted =
              IF pc[w] \in Extracting \cup Finished THEN held[w] ELSE {}
         /\ BeingExtracted' =
              IF pc'[w] \in Extracting \cup Finished THEN held'[w] ELSE {}
  BY DEF OneWorker, BeingExtracted

\* Requests leave extractions alone and wait for them.
LEMMA RequestsAside ==
  ASSUME UNCHANGED workerVars
  PROVE  /\ BeingExtracted' = BeingExtracted
         /\ \A d : ~Locked(d) => d \notin BeingExtracted
  BY DEF workerVars, BeingExtracted, Locked

LEMMA OwnerStutters ==
  ASSUME UNCHANGED <<state, matrix>>, StagesKept, BeingExtracted' = BeingExtracted
  PROVE  UNCHANGED Owner!vars
  BY KeptStages DEF Owner!vars

LEMMA OwnerApi ==
  ASSUME DInv, OneRequest, ApiStep
  PROVE  [Owner!Next]_(Owner!vars)
<1>. USE DEF DInv, RInv
<1>1. ASSUME NEW d \in Rfps, Upload(d) PROVE Owner!Submit(d)
  <2>1. Owed' = Owed \cup {d}
    BY <1>1, UploadAdds, AddedRuns
  <2>. QED
    BY <1>1, <2>1, RequestsAside DEF Upload, Owner!Submit
<1>2. ASSUME NEW d \in Rfps, NEW p \in Rfps, UploadClone(d, p)
      PROVE  Owner!SubmitKnown(d, p)
  <2>1. Owed' = Owed
    BY <1>2, QuietClone, KeptStages DEF QuietRows
  <2>. QED
    BY <1>2, <2>1, RequestsAside DEF UploadClone, Owner!SubmitKnown
<1>3. ASSUME NEW q \in Requests, NEW d \in Rfps, ReprocessRead(q, d)
      PROVE  UNCHANGED Owner!vars
  <2>1. UNCHANGED <<dbVars, workerVars>>
    BY <1>3, Zenon DEF ReprocessRead
  <2>. QED
    BY <2>1, QuietDb, RequestsAside, OwnerStutters DEF dbVars, QuietRows
<1>4. ASSUME NEW q \in Requests, ReprocessWrite(q)
      PROVE  \E d \in Rfps : Owner!Resubmit(d)
  <2>0. req[q].state # "received"
    BY <1>4 DEF ReprocessWrite, Asked
  <2>1. PICK d : d = req[q].rfp
    OBVIOUS
  <2>2. d \in Rfps /\ Owed' = Owed \cup {d}
    BY <1>4, <2>1, ReprocessAdds, AddedRuns
  <2>3. ~Unfinished(d) /\ state[d] # "absent"
    BY <1>4, <2>1 DEF Requested, ReprocessWrite
  <2>4. state[d] \in {"ready", "failed", "expired"}
    BY <1>4, <2>1, <2>2, <2>3
    DEF ReprocessWrite, Exists, ShownByRun, IInv, TypeOK, RfpStates
  <2>5. d \notin BeingExtracted /\ BeingExtracted' = BeingExtracted
    BY <1>4, <2>0, <2>1, RequestsAside DEF ReprocessWrite
  <2>6. Owner!Resubmit(d)
    BY <1>4, <2>0, <2>1, <2>2, <2>3, <2>4, <2>5
    DEF ReprocessWrite, Assigned, Owner!Resubmit, Owner!Free, Owed
  <2>. QED
    BY <2>2, <2>6
<1>5. ASSUME NEW q \in Requests, ReprocessAbort(q)
      PROVE  UNCHANGED Owner!vars
  BY <1>5, QuietDb, RequestsAside, OwnerStutters DEF ReprocessAbort, dbVars, QuietRows
<1>6. ASSUME NEW d \in Rfps, DeleteMatrix(d) PROVE Owner!Delete(d)
  <2>1. Owed' = Owed \ {d}
    <3>1. /\ RunsOf(d)' = {} /\ \A e \in Rfps \ {d} : RunsOf(e)' = RunsOf(e)
          /\ \A r \in RunIds : runs'[r].stage # "none" => runs'[r] = runs[r]
      BY <1>6, DeleteRequested
    <3>2. ~Unfinished(d)' /\ \A e \in Rfps \ {d} : Unfinished(e)' <=> Unfinished(e)
      BY <3>1 DEF Unfinished, RunsOf
    <3>. QED
      BY <3>2 DEF Owed
  <2>2. d \notin BeingExtracted /\ BeingExtracted' = BeingExtracted
    BY <1>6, RequestsAside DEF DeleteMatrix
  <2>. QED
    BY <1>6, <2>1, <2>2 DEF DeleteMatrix, Exists, Owner!Delete, Owner!Free
<1>. QED
  BY <1>1, <1>2, <1>3, <1>4, <1>5, <1>6 DEF ApiStep, Owner!Next

LEMMA OwnerClock ==
  ASSUME DInv, ClockStep
  PROVE  [Owner!Next]_(Owner!vars)
<1>. USE DEF DInv, RInv
<1>1. UNCHANGED workerVars /\ BeingExtracted' = BeingExtracted /\ Owed' = Owed
  <2>1. UNCHANGED workerVars
    BY DEF ClockStep, ProbeProviders, MonthStart, DailyMaintenance, FallSilent
  <2>. QED
    BY <2>1, RequestsAside, QuietClock, KeptStages DEF QuietRows
<1>2. CASE ProbeProviders \/ MonthStart \/ \E r \in RunIds : FallSilent(r)
  BY <1>1, <1>2 DEF ProbeProviders, MonthStart, FallSilent, dbVars, Owner!vars
<1>3. ASSUME NEW aged \in SUBSET Rfps, DailyMaintenance(aged)
      PROVE  \E S \in SUBSET Rfps : Owner!Expire(S)
  <2>. DEFINE S == {d \in aged : state[d] = "failed"}
  <2>1. \A d \in S : d \notin BeingExtracted
    BY <1>1, <1>3, RequestsAside DEF DailyMaintenance
  <2>2. state' = [d \in Rfps |-> IF d \in S THEN "expired" ELSE state[d]]
    BY <1>3 DEF DailyMaintenance
  <2>3. matrix' = matrix
    BY <1>3 DEF DailyMaintenance
  <2>4. Owner!Expire(S)
    BY <1>1, <2>1, <2>2, <2>3 DEF Owner!Expire, Owner!Free
  <2>. QED
    BY <2>4
<1>. QED
  BY <1>2, <1>3 DEF ClockStep, Owner!Next

\* Steps before an extraction begins, and of a boot, are not seen.
LEMMA OwnerUnseen ==
  ASSUME OneWorker, DInv, NEW w \in Workers,
         \/ \E j \in JobIds : Claim(w, j)
         \/ Beat(w) \/ Start(w) \/ DocumentGone(w)
         \/ BootScan(w) \/ BootLock(w) \/ BootConflict(w) \/ BootDone(w)
  PROVE  UNCHANGED Owner!vars
<1>. USE DEF DInv, RInv, IInv
<1>1. UNCHANGED <<state, matrix>> /\ StagesKept
  <2>1. CASE Beat(w) \/ \E j \in JobIds : Claim(w, j)
    BY <2>1, QuietClaim, QuietBeat DEF QuietRows, Beat, Claim
  <2>2. CASE Between(w)
    BY <2>2, BetweenKeeps, QuietDb DEF QuietRows, dbVars
  <2>. QED
    BY <2>1, <2>2 DEF Between
<1>2. pc[w] \notin Extracting \cup Finished /\ pc'[w] \notin Extracting \cup Finished
  <2>1. pc[w] \in {"poll", "claimed", "started", "down", "scanned", "requeue"}
    BY DEF Claim, Beat, Start, DocumentGone, BootScan, BootLock, BootConflict,
           BootDone
  <2>2. pc'[w] \in {"poll", "claimed", "started", "down", "scanned", "requeue"}
    <3>1. CASE Beat(w)
      BY <2>1, <3>1 DEF Beat, workerVars
    <3>2. CASE ~Beat(w)
      BY <3>2 DEF Claim, Start, DocumentGone, Abandon, EndCycle, BootScan,
                  BootLock, BootConflict, BootDone, TypeOK
    <3>. QED
      BY <3>1, <3>2
  <2>. QED
    BY <2>1, <2>2 DEF Extracting, Finished
<1>3. BeingExtracted' = BeingExtracted
  BY <1>2, OneExtraction
<1>. QED
  BY <1>1, <1>3, OwnerStutters

LEMMA OwnerBegins ==
  ASSUME OneWorker, DInv, NEW w \in Workers, BeginReading(w)
  PROVE  \E d \in Rfps : Owner!Begin(d)
<1>. USE DEF DInv, RInv, IInv
<1>1. PICK d : d = runs[wrun[w]].rfp
  OBVIOUS
<1>2. /\ pc[w] = "started" /\ pc'[w] = "reading" /\ held'[w] = {d}
      /\ UNCHANGED <<state, matrix, runs, jobs>>
  BY <1>1 DEF BeginReading, TypeOK, dbVars
<1>3. wrun[w] \in RunsOf(d) /\ d \in Rfps
  BY <1>1, <1>2, BoundsAssumption
  DEF BeginReading, WorkerRows, WorkerRow, Working, OwnedRows, RunsOf, RunIds,
      TypeOK
<1>4. state[d] \in {"received", "ready", "failed", "expired"}
  BY <1>3 DEF RunsExist, Exists, TypeOK, RfpStates
<1>5. BeingExtracted = {} /\ BeingExtracted' = {d}
  BY <1>2, OneExtraction DEF Extracting, Finished
<1>6. Owed' = Owed
  BY <1>2, QuietDb, KeptStages DEF QuietRows
<1>. QED
  BY <1>2, <1>3, <1>4, <1>5, <1>6 DEF Owner!Begin, Owner!Free

LEMMA OwnerAdvances ==
  ASSUME OneWorker, DInv, NEW w \in Workers,
         NEW from \in Extracting, NEW to \in Extracting \cup Finished,
         Advance(w, from, to)
  PROVE  UNCHANGED Owner!vars
<1>1. UNCHANGED <<state, matrix, runs, jobs, held>> /\ pc[w] = from /\ pc'[w] = to
  BY DEF Advance, dbVars, DInv, RInv, IInv, TypeOK
<1>2. BeingExtracted' = BeingExtracted
  BY <1>1, OneExtraction
<1>. QED
  BY <1>1, <1>2, QuietDb, OwnerStutters DEF QuietRows

LEMMA OwnerBreaksOff ==
  ASSUME OneWorker, DInv, NEW w \in Workers, DatabaseError(w) \/ Crash(w)
  PROVE  UNCHANGED Owner!vars \/ \E d \in Rfps : Owner!BreakOff(d)
<1>. USE DEF DInv, RInv, IInv
<1>1. UNCHANGED <<state, matrix, runs, jobs>>
  BY DEF DatabaseError, Crash, Abandon, dbVars
<1>2. Owed' = Owed /\ StagesKept
  BY <1>1, QuietDb, KeptStages DEF QuietRows
<1>3. pc'[w] \notin Extracting \cup Finished
  BY DEF DatabaseError, Crash, Abandon, EndCycle, TypeOK, Extracting, Finished
<1>4. BeingExtracted' = {}
  BY <1>3, OneExtraction
<1>5. CASE pc[w] \notin Extracting \cup Finished
  BY <1>1, <1>2, <1>4, <1>5, OneExtraction, OwnerStutters
<1>6. CASE pc[w] \in Extracting \cup Finished
  <2>1. PICK d : d = runs[wrun[w]].rfp
    OBVIOUS
  <2>2. held[w] = {d} /\ d \in Rfps
    BY <1>6, <2>1 DEF WorkerOwes, TypeOK
  <2>3. Owner!BreakOff(d)
    BY <1>1, <1>2, <1>4, <1>6, <2>2, OneExtraction DEF Owner!BreakOff
  <2>. QED
    BY <2>2, <2>3
<1>. QED
  BY <1>5, <1>6

LEMMA OwnerCommits ==
  ASSUME OneWorker, DInv, NEW w \in Workers, Commit(w)
  PROVE  \E d \in Rfps : Owner!Publish(d) \/ Owner!FailOne(d)
<1>. USE DEF DInv, RInv, IInv
<1>1. PICK r, d : r = wrun[w] /\ d = runs[r].rfp
  OBVIOUS
<1>2. /\ r \in RunIds /\ d \in Rfps
      /\ pc[w] \in Finished
      /\ Outcome(w) \in {"ready", "failed"}
      /\ \A s \in RunIds \ {r} : runs'[s] = runs[s]
      /\ state' = [state EXCEPT ![d] = Outcome(w)]
      /\ StagesFall
  BY <1>1, CommitFinishes
<1>3. BeingExtracted = {d} /\ BeingExtracted' = {}
  <2>1. held[w] = {d}
    BY <1>1, <1>2 DEF WorkerOwes
  <2>2. pc'[w] = "poll"
    BY DEF Commit, EndCycle, TypeOK
  <2>. QED
    BY <1>2, <2>1, <2>2, OneExtraction DEF Extracting, Finished
<1>4. Owed' \in {Owed, Owed \ {d}}
  <2>1. \A e \in Rfps : Unfinished(e)' => Unfinished(e)
    BY <1>2, KeptRuns
  <2>2. \A e \in Rfps \ {d} : Unfinished(e)' <=> Unfinished(e)
    BY <1>1, <1>2, <2>1, KeptRuns DEF Unfinished, RunsOf
  <2>. QED
    BY <2>1, <2>2 DEF Owed
<1>5. CASE pc[w] = "failed"
  <2>1. Outcome(w) = "failed" /\ matrix' = matrix
    BY <1>5 DEF Outcome, Commit, TypeOK
  <2>. QED
    BY <1>2, <1>3, <1>4, <2>1 DEF Owner!FailOne, Owner!Answer
<1>6. CASE pc[w] # "failed"
  <2>1. /\ Outcome(w) = "ready"
        /\ matrix' \in {matrix, [matrix EXCEPT ![d] = "complete"]}
    BY <1>1, <1>6 DEF Outcome, Commit, TypeOK
  <2>. QED
    BY <1>2, <1>3, <1>4, <2>1 DEF Owner!Publish, Owner!Answer
<1>. QED
  BY <1>5, <1>6

LEMMA OwnerBoots ==
  ASSUME OneWorker, DInv, RInv', Asked', NEW w \in Workers, NEW s \in scan[w],
         GiveUp(w, s) \/ Requeue(w, s)
  PROVE  \E d \in Rfps : Owner!GiveUp(d) \/ Owner!TryAgain(d)
<1>. USE DEF DInv, RInv, IInv
<1>1. PICK d : d = runs[s.run].rfp
  OBVIOUS
<1>2. BeingExtracted = {} /\ BeingExtracted' = {}
  <2>1. pc[w] = "requeue" /\ pc' = pc
    BY DEF GiveUp, Requeue
  <2>. QED
    BY <2>1, OneExtraction DEF Extracting, Finished
<1>3. CASE GiveUp(w, s)
  <2>1. /\ d \in Rfps /\ s.run \in RunIds /\ pc[w] = "requeue"
        /\ state' = IF seen[w][d] = "failed" THEN state
                                              ELSE [state EXCEPT ![d] = "failed"]
        /\ \A r \in RunIds \ {s.run} : runs'[r] = runs[r]
        /\ runs'[s.run].rfp = d
        /\ StagesFall
    BY <1>1, <1>3, GiveUpFinishes
  <2>2. Unfinished(d)
    BY <1>1, <2>1, ScannedOnly DEF Unfinished
  <2>3. ~Unfinished(d)'
    BY <1>3, <2>1, GiveUpWork
  <2>4. \A e \in Rfps \ {d} : Unfinished(e)' <=> Unfinished(e)
    BY <1>1, <2>1, KeptRuns DEF Unfinished, RunsOf
  <2>5. d \in Owed /\ Owed' = Owed \ {d}
    BY <2>1, <2>2, <2>3, <2>4 DEF Owed
  <2>6. matrix' = matrix
    BY <1>3 DEF GiveUp
  <2>7. \/ state' = [state EXCEPT ![d] = "failed"]
        \/ state[d] = "expired" /\ state' = state
    <3>1. state[d] = seen[w][d] \/ (seen[w][d] = "failed" /\ state[d] = "expired")
      BY <1>1, <2>1, ScannedSeen
    <3>2. state \in [Rfps -> RfpStates]
      BY DEF TypeOK
    <3>3. state[d] = "failed" => state = [state EXCEPT ![d] = "failed"]
      BY ONLY <3>2
    <3>. QED
      BY ONLY <2>1, <3>1, <3>3
  <2>. QED
    BY <1>2, <2>1, <2>5, <2>6, <2>7 DEF Owner!GiveUp, Owner!Free
<1>4. CASE Requeue(w, s)
  <2>1. /\ d \in Rfps /\ pc[w] = "requeue"
        /\ state' = IF seen[w][d] = "received" THEN state
                                                ELSE [state EXCEPT ![d] = "received"]
        /\ StagesKept
    BY <1>1, <1>4, RequeueKeeps
  <2>11. state' = [state EXCEPT ![d] = "received"]
    BY <1>1, <2>1, ScannedSeen DEF TypeOK
  <2>2. d \in Owed /\ Owed' = Owed
    BY <1>1, <1>4, <2>1, RequeueWork, KeptStages DEF Owed
  <2>3. matrix' = [matrix EXCEPT ![d] = IF @ = "complete" THEN "pruned" ELSE @]
    BY <1>1, <1>4 DEF Requeue
  <2>. QED
    BY <1>2, <2>1, <2>11, <2>2, <2>3 DEF Owner!TryAgain, Owner!Free
<1>. QED
  BY <1>3, <1>4

LEMMA OwnerStep ==
  ASSUME OneRequest, OneWorker
  PROVE  DInv /\ [Next]_vars => [Owner!Next]_(Owner!vars)
<1> SUFFICES ASSUME DInv, [Next]_vars PROVE [Owner!Next]_(Owner!vars)
  OBVIOUS
<1>0. RInv' /\ Asked'
  BY RStep, AskedStep DEF DInv
<1>1. ASSUME NEW w \in Workers, WorkStep(w) \/ BootStep(w) \/ FaultStep(w)
      PROVE  [Owner!Next]_(Owner!vars)
  <2>1. CASE Between(w)
    <3>1. CASE BeginReading(w)
      BY <3>1, OwnerBegins DEF Owner!Next
    <3>2. CASE DatabaseError(w) \/ Crash(w)
      BY <3>2, OwnerBreaksOff DEF Owner!Next
    <3>3. CASE \E from \in Extracting, to \in Extracting \cup Finished :
                 Advance(w, from, to)
      BY <3>3, OwnerAdvances
    <3>. QED
      BY <2>1, <3>1, <3>2, <3>3, OwnerUnseen DEF Between
  <2>2. CASE Commit(w)
    BY <2>2, OwnerCommits DEF Owner!Next
  <2>3. ASSUME NEW s \in scan[w], GiveUp(w, s) \/ Requeue(w, s)
        PROVE  [Owner!Next]_(Owner!vars)
    BY <1>0, <2>3, OwnerBoots DEF Owner!Next
  <2>. QED
    BY <1>1, <2>1, <2>2, <2>3, WorkerSteps, OwnerUnseen
<1>2. CASE UNCHANGED vars
  <2>1. UNCHANGED <<state, matrix, runs, jobs, workerVars>>
    BY <1>2 DEF vars, dbVars
  <2>. QED
    BY <2>1, QuietDb, RequestsAside, OwnerStutters DEF QuietRows
<1>. QED
  BY <1>1, <1>2, OwnerApi, OwnerClock DEF Next

LEMMA OwnerInit == Init => Owner!Init
<1> SUFFICES ASSUME Init PROVE Owner!Init
  OBVIOUS
<1>1. \A d : ~Unfinished(d)
  BY DEF Init, Unfinished, RunsOf, NoRun
<1>. QED
  BY <1>1 DEF Init, Owner!Init, Owed, BeingExtracted, Extracting, Finished

\* The queue implements Documents: extractions of a document exclude each
\* other and requests, a commit publishes one whole or not at all, and a boot
\* takes a document apart or gives it up only while a request for it is
\* unanswered.
THEOREM KeepsDocumentsHolds ==
  ASSUME OneRequest, OneWorker PROVE Spec => KeepsDocuments
<1>1. Init => Owner!Init
  BY OwnerInit
<1>2. DInv /\ [Next]_vars => [Owner!Next]_(Owner!vars)
  BY OwnerStep
<1>. QED
  BY <1>1, <1>2, OwnerInvariance, PTL DEF Spec, KeepsDocuments, Owner!Spec
=============================================================================
