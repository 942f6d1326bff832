---------------------------- MODULE SourceFiles ----------------------------
(***************************************************************************)
(* Uploaded files and the rows that name them: admission of upload bodies, *)
(* intake, reprocess, deletion with its unlink after the commit, and the   *)
(* daily cleanup.                                                          *)
(*                                                                         *)
(* Rows change in transactions, files at once.  doc holds what is          *)
(* committed; a request or the cleanup writes it at its commit and holds   *)
(* the rows' locks from its flush until then.  All documents are of one    *)
(* account.                                                                *)
(***************************************************************************)
EXTENDS Naturals, FiniteSets

CONSTANTS
  Docs,           \* documents; each names the row and the file of one upload
  Requests,       \* requests served at one time
  MaxConcurrent,  \* max_concurrent upload bodies
  MaxBody,        \* max_request_bytes
  Grace,          \* GRACE_HOURS
  FailedTTL,      \* FAILED_TTL_DAYS
  MaxRuns,        \* bound: extraction runs of a document
  MaxFaults,      \* bound: crashes, refused commits, unlinks that fail
  None

ASSUME SourceBounds ==
  /\ IsFiniteSet(Requests)
  /\ MaxConcurrent \in Nat \ {0}
  /\ {MaxBody, Grace, FailedTTL, MaxRuns, MaxFaults} \subseteq Nat
  /\ Grace <= FailedTTL
  /\ None \notin Docs \cup Requests \cup Nat

VARIABLES
  account,  \* does the account exist
  doc,      \* rfps, with what counts of their runs
  files,    \* FILES_DIR/incoming
  tmp,      \* FILES_DIR/tmp: spool files, by the request that wrote them
  active,   \* UploadBodyAdmissionMiddleware._active
  req,      \* what each request does
  worker,   \* the document being extracted, and whether its file was found
  cleanup,  \* the cleanup of the sweep container
  lost,     \* history: files that a fault left without a row
  used,     \* documents ever stored: none is uploaded twice
  faults

vars == <<account, doc, files, tmp, active, req, worker, cleanup, lost, used, faults>>

\* age: since created_at; ready: since the heartbeat of the last ready run;
\* both up to where they matter.  queued: the latest run is unfinished.
Doc == [path: BOOLEAN, state: {"received", "ready", "failed", "expired"},
        queued: BOOLEAN, retain: BOOLEAN, runs: Nat, age: Nat, ready: Nat \cup {None}]
ASSUME NoneIsNoDoc == None \notin Doc

Phases == {"idle", "body", "spooled", "stored", "read", "flushed", "unlinking"}
Request == [op: {"upload", "reprocess", "delete", "close"}, phase: Phases,
            docs: SUBSET Docs, got: 0..MaxBody, clone: BOOLEAN, retain: BOOLEAN]
IdleRequest == [op |-> "upload", phase |-> "idle", docs |-> {}, got |-> 0,
                clone |-> FALSE, retain |-> FALSE]

\* pass: which query the cleanup is at; todo: rows read and not yet handled;
\* cleared, expired: what it has written; holds: rows it has flushed.
Cleanup == [pass: {"idle", "grace", "failed", "commit"}, todo: SUBSET Docs,
            cleared: SUBSET Docs, expired: SUBSET Docs, holds: SUBSET Docs]
NoCleanup == [pass |-> "idle", todo |-> {}, cleared |-> {}, expired |-> {}, holds |-> {}]

TypeOK ==
  /\ account \in BOOLEAN
  /\ doc \in [Docs -> Doc \cup {None}]
  /\ files \subseteq Docs
  /\ tmp \subseteq Requests
  /\ active \in 0..Cardinality(Requests)
  /\ req \in [Requests -> Request]
  /\ worker \in [doc: Docs \cup {None}, found: BOOLEAN]
  /\ cleanup \in Cleanup
  /\ lost \subseteq Docs /\ used \subseteq Docs
  /\ faults \in 0..MaxFaults

NoWork == [doc |-> None, found |-> FALSE]

Init ==
  /\ account = TRUE
  /\ doc = [d \in Docs |-> None]
  /\ files = {} /\ tmp = {} /\ lost = {} /\ used = {}
  /\ active = 0 /\ faults = 0
  /\ req = [q \in Requests |-> IdleRequest]
  /\ worker = NoWork
  /\ cleanup = NoCleanup

Rows == {d \in Docs : doc[d] # None}
Busy(q) == req[q].phase # "idle"

\* What a request locks: a closing account all its rows, those it has not
\* seen included.
Targets(q) == IF req[q].op = "close" THEN Rows ELSE req[q].docs

\* Rows locked by the requests other than q, by the worker, by the cleanup.
HeldByRequests(q) ==
  UNION {Targets(p) : p \in {x \in Requests \ {q} : req[x].phase = "flushed"}}
HeldByWorker == {worker.doc} \ {None}

Fault == faults < MaxFaults /\ faults' = faults + 1
NoFault == UNCHANGED faults

-----------------------------------------------------------------------------
(* Uploads: UploadBodyAdmissionMiddleware, intake_upload, process_upload.  *)

\* A body that declares too much, or finds every slot taken, is refused
\* before it is read and leaves no trace.
Admit(q) ==
  /\ ~Busy(q) /\ account
  /\ active < MaxConcurrent
  /\ active' = active + 1
  /\ req' = [req EXCEPT ![q] = [IdleRequest EXCEPT !.phase = "body"]]
  /\ UNCHANGED <<account, doc, files, tmp, worker, cleanup, lost, used>> /\ NoFault

Receive(q) ==
  /\ req[q].phase = "body"
  /\ req[q].got < MaxBody
  /\ req' = [req EXCEPT ![q].got = @ + 1]
  /\ UNCHANGED <<account, doc, files, tmp, active, worker, cleanup, lost, used>> /\ NoFault

\* The response, or the exception, has left the application.
KeepSlot(q) ==                                                \* mutant
  /\ req' = [req EXCEPT ![q] = IdleRequest]
  /\ active' = IF req[q].phase = "body" THEN active ELSE active - 1
Release(q) ==
  /\ req' = [req EXCEPT ![q] = IdleRequest]
  /\ active' = active - 1

\* One chunk too many, a client that leaves, no session, CSRF, a rate limit, a
\* form without a file: the upload ends before process_upload.
ReleaseTwice(q) ==                                            \* mutant
  /\ req[q].phase = "body"
  /\ active' = active - 1
  /\ UNCHANGED <<account, doc, files, tmp, req, worker, cleanup, lost, used>> /\ NoFault
EndEarly(q) ==
  /\ req[q].phase = "body"
  /\ Release(q)
  /\ UNCHANGED <<account, doc, files, tmp, worker, cleanup, lost, used>> /\ NoFault

Spool(q) ==
  /\ req[q].phase = "body"
  /\ tmp' = tmp \cup {q}
  /\ req' = [req EXCEPT ![q].phase = "spooled"]
  /\ UNCHANGED <<account, doc, files, active, worker, cleanup, lost, used>> /\ NoFault

\* Encrypted, unreadable, a ZIP outside the limits: IntakeRejection.
Reject(q) ==
  /\ req[q].phase = "spooled"
  /\ tmp' = tmp \ {q}
  /\ Release(q)
  /\ UNCHANGED <<account, doc, files, worker, cleanup, lost, used>> /\ NoFault

\* The file is moved.  A finished, unlocked document with the same content is
\* cloned; whether there is one is left open.
Store(q, d, clone, retain) ==
  /\ req[q].phase = "spooled"
  /\ d \notin used /\ used' = used \cup {d}
  /\ files' = files \cup {d}
  /\ tmp' = tmp \ {q}
  /\ req' = [req EXCEPT ![q].phase = "stored", ![q].docs = {d},
                        ![q].clone = clone, ![q].retain = retain]
  /\ UNCHANGED <<account, doc, active, worker, cleanup, lost>> /\ NoFault

\* The INSERT shares the account's key; without an account it raises and the
\* file stays.
Insert(q) ==
  /\ req[q].op = "upload" /\ req[q].phase = "stored"
  /\ \A p \in Requests : ~(req[p].op = "close" /\ req[p].phase = "flushed")
  /\ IF account
     THEN req' = [req EXCEPT ![q].phase = "flushed"] /\ UNCHANGED active
     ELSE Release(q)
  /\ UNCHANGED <<account, doc, files, tmp, worker, cleanup, lost, used>> /\ NoFault

NewDoc(clone, retain) ==
  [path |-> TRUE, state |-> IF clone THEN "ready" ELSE "received",
   queued |-> ~clone, retain |-> retain, runs |-> IF clone THEN 0 ELSE 1, age |-> 0, ready |-> None]

CommitUpload(q) ==
  /\ req[q].op = "upload" /\ req[q].phase = "flushed"
  /\ doc' = [d \in Docs |-> IF d \in req[q].docs THEN NewDoc(req[q].clone, req[q].retain) ELSE doc[d]]
  /\ Release(q)
  /\ UNCHANGED <<account, files, tmp, worker, cleanup, lost, used>> /\ NoFault

-----------------------------------------------------------------------------
(* Reprocess and deletion.                                                 *)

Read(q, op, docs) ==
  /\ ~Busy(q) /\ account
  /\ req' = [req EXCEPT ![q] = [IdleRequest EXCEPT !.op = op, !.phase = "read", !.docs = docs]]
  /\ UNCHANGED <<account, doc, files, tmp, active, worker, cleanup, lost, used>> /\ NoFault

\* 410 without the file; nothing to do while a run is unfinished.
ReadReprocess(q, d) ==
  /\ d \in Rows /\ doc[d].path /\ d \in files
  /\ doc[d].runs > 0 /\ ~doc[d].queued
  /\ doc[d].runs + Cardinality({p \in Requests : req[p].op = "reprocess" /\ d \in req[p].docs})
       < MaxRuns
  /\ Read(q, "reprocess", {d})

ReadDelete(q, d) == d \in Rows /\ Read(q, "delete", {d})

\* delete_account stages the files of the documents it sees and clears their
\* stored_path.
ReadClose(q) == Read(q, "close", {d \in Rows : doc[d].path})

OpenUploads == {p \in Requests : req[p].op = "upload" /\ req[p].phase = "flushed"}

\* An UPDATE whose row is gone raises, a DELETE does not mind.
Flush(q) ==
  /\ req[q].phase = "read"
  /\ Targets(q) \cap (HeldByRequests(q) \cup HeldByWorker \cup cleanup.holds) = {}
  /\ req[q].op = "close" => OpenUploads = {}
  /\ \A p \in Requests : ~(req[p].op = "close" /\ req[p].phase = "flushed")
  /\ req' = [req EXCEPT ![q] =
       IF req[q].op # "delete" /\ ~(req[q].docs \subseteq Rows)
       THEN IdleRequest ELSE [@ EXCEPT !.phase = "flushed"]]
  /\ UNCHANGED <<account, doc, files, tmp, active, worker, cleanup, lost, used>> /\ NoFault

CommitReprocess(q) ==
  /\ req[q].op = "reprocess" /\ req[q].phase = "flushed"
  /\ doc' = [d \in Docs |-> IF d \in req[q].docs
       THEN [doc[d] EXCEPT !.state = "received", !.queued = TRUE, !.runs = @ + 1]
       ELSE doc[d]]
  /\ req' = [req EXCEPT ![q] = IdleRequest]
  /\ UNCHANGED <<account, files, tmp, active, worker, cleanup, lost, used>> /\ NoFault

ForgetIntent(q) ==                                            \* mutant
  /\ req[q].op \in {"delete", "close"} /\ req[q].phase = "flushed"
  /\ doc' = [d \in Docs |-> IF d \in Targets(q) THEN None ELSE doc[d]]
  /\ account' = (account /\ req[q].op = "delete")
  /\ req' = [req EXCEPT ![q] = IdleRequest]
  /\ UNCHANGED <<files, tmp, active, worker, cleanup, lost, used>> /\ NoFault
CommitDelete(q) ==
  /\ req[q].op \in {"delete", "close"} /\ req[q].phase = "flushed"
  /\ doc' = [d \in Docs |-> IF d \in Targets(q) THEN None ELSE doc[d]]
  /\ account' = (account /\ req[q].op = "delete")
  /\ req' = [req EXCEPT ![q].phase = "unlinking",
                        ![q].docs = {d \in @ : doc[d] # None /\ doc[d].path}]
  /\ UNCHANGED <<files, tmp, active, worker, cleanup, lost, used>> /\ NoFault

\* run_deferred_unlinks: an unlink that fails leaves the file.
Unlink(q) ==
  /\ req[q].phase = "unlinking"
  /\ req' = [req EXCEPT ![q] = IdleRequest]
  /\ \/ files' = files \ req[q].docs /\ UNCHANGED lost /\ NoFault
     \/ lost' = lost \cup req[q].docs /\ UNCHANGED files /\ Fault
  /\ UNCHANGED <<account, doc, tmp, active, worker, cleanup, used>>

\* get_db: the commit is refused, or the request ends in an exception after
\* its flush.
UnlinkFirst(q) ==                                             \* mutant
  /\ req[q].phase = "flushed"
  /\ req' = [req EXCEPT ![q] = IdleRequest]
  /\ active' = IF req[q].op = "upload" THEN active - 1 ELSE active
  /\ files' = IF req[q].op = "upload" THEN files ELSE files \ req[q].docs
  /\ lost' = IF req[q].op = "upload" THEN lost \cup req[q].docs ELSE lost
  /\ UNCHANGED <<account, doc, tmp, worker, cleanup, used>> /\ Fault
Rollback(q) ==
  /\ req[q].phase = "flushed"
  /\ req' = [req EXCEPT ![q] = IdleRequest]
  /\ IF req[q].op = "upload"
     THEN active' = active - 1 /\ lost' = lost \cup req[q].docs
     ELSE UNCHANGED <<active, lost>>
  /\ UNCHANGED <<account, doc, files, tmp, worker, cleanup, used>> /\ Fault

\* The API process dies with what it was doing.  Spool files it leaves behind
\* are not followed further.
Crash ==
  /\ \E q \in Requests : Busy(q)
  /\ req' = [q \in Requests |-> IdleRequest]
  /\ active' = 0 /\ tmp' = {}
  /\ lost' = lost \cup (files \ Rows)
  /\ UNCHANGED <<account, doc, files, worker, cleanup, used>> /\ Fault

-----------------------------------------------------------------------------
(* The worker, as far as files and rows go.                                *)

StartWork(d) ==
  /\ worker = NoWork
  /\ d \in Rows /\ doc[d].queued
  /\ d \notin HeldByRequests(None) \cup cleanup.holds
  /\ worker' = [doc |-> d, found |-> doc[d].path /\ d \in files]
  /\ UNCHANGED <<account, doc, files, tmp, active, req, cleanup, lost, used>> /\ NoFault

FinishWork(ok) ==
  LET d == worker.doc
  IN /\ d # None
     /\ ok => worker.found
     /\ doc' = [doc EXCEPT ![d].queued = FALSE,
                           ![d].state = IF ok THEN "ready" ELSE "failed",
                           ![d].ready = IF ok THEN 0 ELSE @]
     /\ worker' = NoWork
     /\ UNCHANGED <<account, files, tmp, active, req, cleanup, lost, used>> /\ NoFault

-----------------------------------------------------------------------------
(* run_daily_maintenance, enforce_source_retention.                        *)

CleanupStart ==
  /\ cleanup.pass = "idle"
  /\ cleanup' = [NoCleanup EXCEPT !.pass = "grace",
       !.todo = {d \in Rows : ~doc[d].retain /\ doc[d].path /\ doc[d].state = "ready"}]
  /\ UNCHANGED <<account, doc, files, tmp, active, req, worker, lost, used>> /\ NoFault

\* Documents the cleanup has written and not flushed.
Unflushed == (cleanup.cleared \cup cleanup.expired) \ cleanup.holds

\* _ready_clock queries, which flushes what is written; of a row that is gone
\* since, either.
Elapsed(d) ==
  doc[d] # None => IF doc[d].ready # None THEN doc[d].ready > Grace ELSE doc[d].age > Grace

\* _destroy_file: unlinked at once, before anything is committed.  Of a failed
\* document the state changes also when the unlink fails.
DestroyPresent(d) ==                                          \* mutant
  LET late == cleanup.pass = "failed"
  IN /\ d \in cleanup.todo
     /\ late \/ (Unflushed = {} /\ Elapsed(d))
     /\ files' = files \ {d}
     /\ cleanup' = [cleanup EXCEPT !.todo = @ \ {d},
                      !.cleared = @ \cup ({d} \cap files),
                      !.expired = IF late THEN @ \cup {d} ELSE @]
     /\ UNCHANGED <<account, doc, tmp, active, req, worker, lost, used>> /\ NoFault
Destroy(d) ==
  LET late == cleanup.pass = "failed"
      rest == [cleanup EXCEPT !.todo = @ \ {d},
                 !.expired = IF late THEN @ \cup {d} ELSE @]
  IN /\ d \in cleanup.todo
     /\ late \/ (Unflushed = {} /\ Elapsed(d))
     /\ \/ /\ files' = files \ {d}
           /\ cleanup' = [rest EXCEPT !.cleared = @ \cup {d}]
           /\ UNCHANGED lost /\ NoFault
        \/ /\ d \in files
           /\ cleanup' = rest
           /\ lost' = (IF late THEN lost \cup {d} ELSE lost)
           /\ UNCHANGED files /\ Fault
     /\ UNCHANGED <<account, doc, tmp, active, req, worker, used>>

Skip(d) ==
  /\ cleanup.pass = "grace" /\ d \in cleanup.todo /\ Unflushed = {}
  /\ doc[d] = None \/ ~Elapsed(d)
  /\ cleanup' = [cleanup EXCEPT !.todo = @ \ {d}]
  /\ UNCHANGED <<account, doc, files, tmp, active, req, worker, lost, used>> /\ NoFault

\* The flush before the next query, or the last one: it locks the rows written,
\* and one that is gone raises and rolls the whole job back.
CleanupFlush ==
  LET written == cleanup.cleared \cup cleanup.expired
      abandoned == {d \in Rows : /\ ~doc[d].retain /\ doc[d].state = "failed"
                               /\ doc[d].age > FailedTTL}
  IN /\ cleanup.pass \in {"grace", "failed"}
     /\ cleanup.todo = {} \/ (cleanup.pass = "grace" /\ Unflushed # {})
     /\ written \cap (HeldByRequests(None) \cup HeldByWorker) = {}
     /\ cleanup' =
          IF ~(written \subseteq Rows) THEN NoCleanup
          ELSE IF cleanup.todo # {} THEN [cleanup EXCEPT !.holds = written]
          ELSE IF cleanup.pass = "grace"
          THEN [cleanup EXCEPT !.pass = "failed", !.todo = abandoned, !.holds = written]
          ELSE [cleanup EXCEPT !.pass = "commit", !.holds = written]
     /\ UNCHANGED <<account, doc, files, tmp, active, req, worker, lost, used>> /\ NoFault

CleanupCommit ==
  /\ cleanup.pass = "commit"
  /\ doc' = [d \in Docs |-> IF d \in cleanup.holds
       THEN [doc[d] EXCEPT !.path = @ /\ d \notin cleanup.cleared,
                           !.state = IF d \in cleanup.expired THEN "expired" ELSE @]
       ELSE doc[d]]
  /\ cleanup' = NoCleanup
  /\ UNCHANGED <<account, files, tmp, active, req, worker, lost, used>> /\ NoFault

\* The container dies, or a later task of the job raises.
CleanupFails ==
  /\ cleanup.pass # "idle"
  /\ cleanup' = NoCleanup
  /\ UNCHANGED <<account, doc, files, tmp, active, req, worker, lost, used>> /\ Fault

-----------------------------------------------------------------------------

Older(n, bound) == IF n # None /\ n < bound THEN n + 1 ELSE n
Tick ==
  /\ doc' = [d \in Docs |-> IF doc[d] = None THEN None ELSE
       [doc[d] EXCEPT !.age = Older(@, FailedTTL + 1),
                      !.ready = Older(@, Grace + 1)]]
  /\ UNCHANGED <<account, files, tmp, active, req, worker, cleanup, lost, used>> /\ NoFault

Serve(q) ==
  \/ Receive(q) \/ EndEarly(q) \/ Spool(q) \/ Reject(q) \/ Insert(q) \/ CommitUpload(q)
  \/ \E d \in Docs, clone, retain \in BOOLEAN : Store(q, d, clone, retain)
  \/ Flush(q) \/ CommitReprocess(q) \/ CommitDelete(q) \/ Unlink(q)

Work == (\E d \in Docs : StartWork(d)) \/ (\E ok \in BOOLEAN : FinishWork(ok))
DailyMaintenance ==
  CleanupStart \/ CleanupFlush \/ CleanupCommit \/ \E d \in Docs : Destroy(d) \/ Skip(d)

Next ==
  \/ \E q \in Requests :
       \/ Admit(q) \/ ReadClose(q) \/ Serve(q) \/ Rollback(q)
       \/ \E d \in Docs : ReadReprocess(q, d) \/ ReadDelete(q, d)
  \/ Crash \/ CleanupFails
  \/ Work \/ DailyMaintenance \/ Tick

Spec == Init /\ [][Next]_vars

\* Time passes, requests are served to their end, the worker and the cron loop
\* of the sweep container keep running.
Fairness ==
  /\ WF_vars(Tick) /\ SF_vars(Work) /\ SF_vars(DailyMaintenance)
  /\ \A q \in Requests : SF_vars(Serve(q))
FairSpec == Spec /\ Fairness

-----------------------------------------------------------------------------

\* The middleware gives a slot back on every path (its finally): what it counts
\* is the uploads under way, never more than it admits at a time.
SlotsBalance ==
  /\ active = Cardinality({q \in Requests : Busy(q) /\ req[q].op = "upload"})
  /\ active <= MaxConcurrent

\* A document whose file is gone was not to be kept and is older than the
\* grace period, whatever deletions were rolled back, cleanups failed and
\* reprocesses came in between (defer_unlink_until_commit, _destroy_file).
OnlyDueDisappears ==
  \A d \in Rows \ files : ~doc[d].retain /\ doc[d].age > Grace

\* As long as the account exists, a file without a row is in the hands of a
\* request or was left by a fault, and a spool file belongs to an upload under
\* way (process_upload: rejection keeps zero bytes).
NoStrayFiles ==
  /\ account =>
       \A d \in files \ (Rows \cup lost) : \E q \in Requests : Busy(q) /\ d \in req[q].docs
  /\ tmp = {q \in Requests : req[q].phase = "spooled"}

\* A source that is not to be kept does not stay for ever: the cleanup destroys
\* it after the grace period or the time to live, also when an earlier cleanup
\* unlinked and rolled back; only a file whose unlink failed may stay.
SourceGoesAway ==
  \A d \in Docs :
    (doc[d] # None /\ ~doc[d].retain /\ doc[d].path /\ d \notin lost)
      ~> (doc[d] = None \/ ~doc[d].path \/ d \in lost)
=============================================================================
