# TLA+ verification of RFP Shred

RFP Shred turns an uploaded solicitation into a matrix of requirements. The
modules here model the parts of it in which order, concurrency and failure
decide whether the product is right, check them with TLC on small instances,
and prove the most important invariants with TLAPS for every size.

Paths below are relative to the repository; `queue.py` means `app/core/queue.py`
and so on where the name is unique.

## 1. The system

Four processes share one Postgres database and one directory of files:

| process | code | concurrency |
|---|---|---|
| API | `app/web` under uvicorn, one process | `async def` routes share one event loop; `def` routes run in threads; every request has a session of its own that `get_db` commits after the response is sent (fastapi 0.140 in `uv.lock`), unless the route commits first |
| worker | `app/worker/main.py`, one replica | one loop, plus a heartbeat thread per extraction; each cycle is one transaction after the claim |
| sweep container | `app/sweep/scheduler.py` | a cron loop: sweep, cleanup, quality run and provider probe, one after the other, each in a transaction |
| Stripe, SAM.gov, model providers | external | at-least-once, unordered events; failing HTTP calls |

### Inventory

| component | state | operations | hard behaviour | what makes it correct | modelled in |
|---|---|---|---|---|---|
| Job queue, boot recovery (`queue.py`, `worker/main.py`) | `rfps.state`, `extraction_runs`, `jobs`, row and advisory locks | enqueue, claim, complete, re-queue, heartbeat | crashes between commits, boots during requests, retries, two workers | a waiting document has a live job or an unfinished run that a boot finds; recovery really queues it; the owner sees whole results | `ExtractionQueue`, `Documents` |
| Extraction (`pipeline/runner.py`) | uncommitted stage, rows, usage | read, mine, audit, persist, finish or fail | one long transaction, no commits in between | published matrices come from the newest run and leave nothing out | `ExtractionQueue` (control), `Mining` (content), `MatrixReview` (rows) |
| Text algorithms, model client (`app/pipeline`, `model_client.py`) | none | page map, chunks, calls, halving, page location, audit | recursion on overlong chunks, boundaries, replies of any kind | no passage is missed, rows cite the page that has their wording | `Mining`; DOCX, ZIP merging, fuzzy matching and prompts not |
| Intake, reprocess, delete (`intake_service.py`, `routes_pages.py`, `routes_account.py`) | document, run, job, file | upload, clone, reprocess, delete | read-check-write without locks | at most one unfinished run; no file without a row | `ExtractionQueue`, `SourceFiles` |
| Source files (`maintenance.py`, `deferred_cleanup.py`) | `stored_path` and bytes | expire, destroy, deferred unlink | two stores, crash in between | a file goes when it is due, and only then | `SourceFiles` |
| Upload guard (`upload_guard.py`) | in-memory slots | admit, count, release | every exit path gives back its slot | the bound holds, nothing leaks | `SourceFiles` |
| Usage cap, provider health (`usage.py`, `provider_state.json`) | inference log, flag | priority of new jobs, parking, un-parking | parked jobs | capped work waits, and only as long as the cap holds | `ExtractionQueue` |
| Sessions, accounts, reset tokens (`security.py`, `deps.py`, `routes_auth.py`) | sessions, accounts, tokens | arrive, sign up, log in, log out, reset, delete | token reuse, rows refreshed while they are deleted, waits on the event loop | what was deleted stays deleted; nothing belongs to nobody; requests are answered | `Access` |
| Rate limiter (`ratelimit.py`) | in-memory windows | hit, peek | look and count are two steps | the excess is bounded by the requests under way | `Access` |
| Stripe webhook, entitlements (`app/billing`) | `stripe_events`, `entitlements`, `unlocked_at`, audit tombstones | six event types, checkout, entitlement test | duplicates, reordering, lost commits and answers, overlapping deliveries | each event applied once and whole; cancelled stays cancelled; paid stays open | `Billing` |
| Matrix rows and review (`routes_api.py`, `routes_pages.py`, `transform.py`) | requirements, filtered lines, audit drops | persist, verify, edit, restore, clone | review while an extraction persists, restarts, double clicks | nothing found is lost, nothing a person did is taken back, rows in document order | `MatrixReview`; texts and the files `exports.py` builds not |
| Sweep, scheduler (`app/sweep`) | `sweep_runs`, rows, files, `last_runs` in memory | poll, page, match, materialise, digest | per-page errors, mail before commit, missed minutes | one document per match, none dropped silently | `Sweep`; the quality run and notice parsing not |
| Console, health, shell, settings, SMTP, evaluation and seeding scripts | I/O and wiring | | | | not modelled |

## 2. Modules

| module | contents | instances | proofs |
|---|---|---|---|
| `ExtractionQueue` | documents, runs and jobs; API requests, clock, worker and boot as actions | `MCExtractionQueue`, `MCQueue*.cfg` | `ExtractionQueueProofs` |
| `Documents` | abstract: what the queue promises to the owner of a document | refined by `ExtractionQueue` in `MCQueueRequests.cfg`, `MCQueueDocuments.cfg` | `DocumentsProofs` |
| `Mining` | one extraction run, from the PDF to its rows | `MCMining` | `MiningProofs` |
| `MatrixReview` | the rows and review panels of one document: worker, restart, person | `MCMatrixReview`, `MCReview.cfg` | `MatrixReviewProofs` |
| `SourceFiles` | uploads, files, the rows that name them, the daily cleanup | `MCSourceFiles` | `SourceFilesProofs` |
| `Access` | sessions, accounts, reset tokens, limits, the event loop | `MCAccess`, `MCAccess*.cfg` | `AccessProofs` |
| `Sweep` | the cron loop and the nightly sweep | `MCSweep` | `SweepProofs` |
| `Billing` | webhook deliveries against a Stripe that sends events | `MCBilling`, `MCBilling*.cfg` | `BillingProofs` |

Transactions are modelled alike everywhere: variables named after tables hold
what is **committed**; what a request, a delivery, the worker or the sweep has
flushed is part of its own record and appears at its commit; row locks are the
conflicts between what such records hold and what another step writes.

A definition followed by the comment "mutant" is a deliberately wrong variant of
the definition after it; the specifications do not use it. Putting it in the
place of the right one must make a run fail.

### ExtractionQueue

`state`, `file`, `matrix`, `runs` and `jobs` are **committed** rows.
`run_extraction` only flushes; nothing it writes is visible before
`process_one_job` commits. So a worker's program counter `pc[w]` is its
transaction-local `run.stage`, and `held[w]` is the set of documents whose rows
its transaction has locked. `seen[w]` is `rfps.state` as a boot's session loaded
it with its scan. SQLAlchemy writes no column whose attribute is assigned the
value it was loaded with, so `GiveUp` and `Requeue` change a document's state
only if they assign something else than was seen (`Assigned`), and `BootLock`
waits only for the rows that will really be written. A boot may therefore leave
the state that a reprocess or a worker committed after its scan, and still fail
or queue a job of that document.

| action | code |
|---|---|
| `Upload`, `UploadClone` | `process_upload`, `_clone_matrix_rows` |
| `ReprocessRead`, `ReprocessWrite`, `ReprocessAbort` | `reprocess`: the SELECT of the prior run and the writes are two steps, because the reads take no lock; `Abort` is the rollback when the document is gone |
| `DeleteMatrix` | `delete_matrix` and its cascades |
| `ProbeProviders`, `MonthStart`, `DailyMaintenance`, `FallSilent` | provider probe, the usage window, the daily job, a heartbeat growing stale |
| `Claim` | `claim_next_job` (priority, then age, SKIP LOCKED) and the commit that publishes it |
| `Start`, `Beat`, `BeginReading` | reading the latest run; the heartbeat's first tick racing the first flush; the first flush and its row locks |
| `ReadPages`, `ReadNoText`, `MineChunks`, `PersistRows`, `FailExtraction` | the flushes of `run_extraction` and its exits |
| `Commit` | the end of `process_one_job` |
| `DatabaseError`, `DocumentGone`, `Crash` | `run_worker`'s except branch; a document deleted under the claim; the process dying |
| `BootScan`, `BootLock`, `BootConflict`, `GiveUp`, `Requeue`, `BootDone` | `requeue_stale_runs`: SELECT, waiting for row locks, a run deleted meanwhile, its two branches, the commit |

Abstractions: the matrix's rows are one value (`empty`, `complete`, `pruned` to
verified rows); time is one bit per run (`stale`) and one per account
(`overCap`); the run and job tables are append-only sequences, so a smaller
index is an older row; the daily maintenance is one step. The branch
"run is None" of the worker is unreachable, since a run is inserted with its job.

### Documents

The queue as the owner of a document sees it: `state`, `matrix`, `working`, the
documents under extraction, and `owed`, those whose last request has no answer
yet. A document waits, is extracted by one worker at a time, and is finished in
one step or not at all (`Publish`, `FailOne`, `BreakOff`); nobody else touches
it meanwhile (`Free`). It is asked for again only when nothing is owed
(`Resubmit`), and only while something is owed does recovery cut its rows back
(`TryAgain`) or give it up (`GiveUp`, which leaves an expired document as it is).

`Owner == INSTANCE Documents WITH working <- BeingExtracted, owed <- Owed` maps a
document to `working` while some worker's transaction holds it, and to `owed`
while it has an unfinished run. `KeepsDocuments` is `Owner!Spec`. It holds with
one worker and with one request at a time, as deployed. With a second worker it
does not: its boot waits for the rows of an extraction that only looked silent
and then puts the finished document back, or gives it up.

Two steps of `Documents` are weaker than one would wish, because the code is.
`Begin` accepts documents that do not wait: a surplus job (the re-queue takes
`.first()` of an unordered SELECT) has a finished document extracted once more.
And an extraction need not answer the request (`Answer`): if such a job is
claimed just before a reprocess, the worker has read the older run and publishes
that one, beside the newer run, which stays unfinished until its own job is
claimed. A boot that comes in between takes a published matrix apart.

### Billing

`purchase` and `event` are Stripe's side (external): a purchase is a checkout
session and, for a plan, its subscription. Any event that was sent may be
delivered at any time, any number of times; that is at-least-once delivery with
reordering and no separate network variable.

`handle_webhook` runs without a suspension point in the event loop, so
`Process` is one step. The commit comes later, and after the answer: the webhook
never commits itself, and FastAPI resumes `get_db` in a thread once the response
has gone out. So another delivery may be handled in between, and a transaction
may be lost although Stripe has its 200 and will not send the event again: `lost`
remembers such events. `acked` is what was answered with a 200; an answer may
also get lost on its way while the commit succeeds.
`txn[h]` is what a delivery has flushed. `Locked` is `FOR UPDATE`, `Unsettled`
contains the primary key of `stripe_events` (a second insert waits and fails).
Columns a transaction does not write keep what is committed (`Recorded`,
`Updated`), not what it read.

| action | code |
|---|---|
| `CreateCheckout` | `create_checkout` and its refusals |
| `GrantEntitlement`, `RejectCheckout` | `checkout.session.completed`, found or missing rfp |
| `InvoicePaid`, `PaymentFailed`, `SubscriptionDeleted`, `SubscriptionUpdated` | the plan events; `PaymentFailed` has the failing mail |
| `NoMatchingPlan`, `PlanWasCanceled` | `stored_no_matching_plan`, `stored_canceled_plan` |
| `Begin`, `Acknowledge` | `handle_webhook` around `process_event` with the answer it gives; the early 200 answers |
| `Commit`, `Rollback`, `Crash` | the exit code of `get_db`; the database failing at it, the process dying with every open transaction (`Lose`) |
| `DeleteMatrix` | the cascade on single entitlements |

Time is counted in plan periods of 30 days. Left out: signatures and JSON
errors (refused before any state), event types that are only stored, the
development stub, account deletion, matrices of at most ten rows (always open
and refused by checkout).

### MatrixReview

`ExtractionQueue` knows of a matrix only whether it is complete; this module
opens it up for one document. An item stands for a normalized (clause id, page,
text), the key under which `persist_mine_result` recognises a row; a mention is
an item with what filter and audit decided. A row keeps its identity (`Id`) when
it is updated in place. `existing` is what `persist_mine_result` has read and
not yet replaced, `req[q]` what a request has read and not yet written.

| action | code |
|---|---|
| `PersistRead`, `PersistCommit` | `persist_mine_result`: the SELECT of the rows, and everything it writes, published by the worker's one commit |
| `FinishEmpty`, `FailExtraction` | `run_extraction` on a document without text; every failure, also `requeue_stale_runs` giving up |
| `Requeue` | the cleanup of `requeue_stale_runs` after a crash |
| `Reprocess`, `Expire` | `reprocess`, `enforce_source_retention` |
| `PatchRead`, `PatchWrite`, `PatchFails` | `api_patch_row` before and after it awaits the body; the row gone meanwhile |
| `RestoreRead`, `Verify`, `RestoreWrite`, `RestoreFails`, `RestoreConflict` | `restore_filtered`, `restore_audit_drop`: loading the line, the fresh audit and `_next_seq`, the writes; the line replaced meanwhile |

Abstractions: of the columns a person writes only the check mark is kept
(response and tags are written and kept by the same code); what the fresh audit
decides is a free choice, but it needs the file; a patch that changes nothing is
no step; `copy` tells rows made from one line apart; exact duplicates of a mention
are one mention; overlapping extractions, clones and entitlements stay with the
two other modules, which the export gate (`ExportOpen`) leaves out too.

### SourceFiles

A file exists from the move of its spool file until an unlink; the row that
names it exists from commit to commit. `files` and `tmp` change at once, `doc`
at commits. `req[q]` is an upload, reprocess, deletion or closing account,
`cleanup` the retention job of the sweep container between its two queries, its
flushes and its commit. `lost` remembers the files that a fault left behind.

| action | code |
|---|---|
| `Admit`, `Receive`, `EndEarly` | `UploadBodyAdmissionMiddleware`: a slot, the counted chunks, every exit before `process_upload` |
| `Spool`, `Reject`, `Store`, `Insert`, `CommitUpload` | `intake_upload`, `process_upload`: spool file, refusal, move (with the clone of a known document), INSERT, commit |
| `ReadReprocess`, `ReadDelete`, `ReadClose`, `Flush` | the reads of `reprocess`, `delete_matrix`, `delete_account`, and their first write |
| `CommitReprocess`, `CommitDelete`, `Unlink`, `Rollback` | `get_db`; `run_deferred_unlinks` after the commit, and never after a rollback |
| `StartWork`, `FinishWork` | the worker's lock on the row and the two ways an extraction ends |
| `CleanupStart`, `Destroy`, `Skip`, `CleanupFlush`, `CleanupCommit` | `enforce_source_retention`: the query for finished documents, `_destroy_file`, the query for failed ones, the commit |
| `CleanupFails`, `Crash`, `Tick` | a later task of the job that raises, a dead process, time |

An UPDATE whose row is gone raises (`StaleDataError`): in `reprocess` and in a
closing account, which clears the `stored_path` of what it has staged, it ends
the request, in the cleanup it rolls back the whole night. Each query of the
cleanup flushes what it has written (`Unflushed`), taking row locks one document
after the other; with the one document of the instance only the proofs cover
the steps between two of them. The next cleanup
finds the file missing and clears the row; `SourceGoesAway` says so.

Abstractions: whether a finished document with the same content exists is left
open; overlapping reprocesses collapse into one `queued` flag; a document is
uploaded once; the event loop is in `Access` only; spool files of a crashed
process stay in the directory and are not followed.

### Access

Requests of one API process. Dependencies and plain handlers run in threads,
async handlers run their SQL on the event loop (`OnLoop`), so a request can only
enter a body or leave for its commit while no async body waits (`LoopFree`).
`req[r].tx` is what the transaction has written, `held` and `share` its locks,
`want` what it waits for, `needs` the rows that must still be there when it gets
them.

| action | code |
|---|---|
| `Arrive` | `web_context`, `_load_session_row`: the row of the cookie with its sliding expiry, or a new anonymous one |
| `Flush`, `Deadlock` | a flush gets its locks or raises; PostgreSQL breaks a cycle of waits |
| `Begin` | `login` and `signup` up to the awaited form: `peek` or `hit` |
| `Signup`, `LoginRight`, `LoginWrong`, `Logout`, `Forgot`, `Reset`, `DeleteAccount` | the handlers, with `rotate_session` and the cascades |
| `Answer` | an error page, which keeps the session row, or an exception, which does not |
| `Exit`, `Commit`, `CommitFails` | the end of `get_db`, run after the response, handed to a thread by the loop |
| `Tick`, `Restart` | expiry; the limiters' windows are lost with the process |

Abstractions: the locks of one body are taken together; the sessions that
`reset_password` deletes are those at the time of its body, those an account's
cascade deletes are those at the time it gets its locks; hashes and signatures
cannot be forged. One bucket stands for the endpoints that only hit and refuse.

`DeadStayDead` is about rows and not about intentions: a login that compared the
old password before a reset was committed does create a session after it
(`routes_auth.py:226`). `Hung` is real: `reset_password` deletes the account's
sessions on the loop, and if a request in a thread holds one of them, its commit
needs the loop. The same holds of account rows in the async webhook.

### Sweep

`loop` is `run_scheduler` with its in-memory `last_runs`, `run` the sweep under
way (`run_sweep_once`), of which `rows`, `matched` and `nights` show nothing
before its commit, while `files` and `mails` do. Postings arrive while pages are
read: a page is a range of places in the listing as it is at that moment, and
what was fetched is a sequence in which a posting may come twice. `run.rest` are
the places in it that a founder's loop has not come to.

| action | code |
|---|---|
| `Cycle`, `StartJob`, `EndOther` | a poll that finds jobs due in this minute; the jobs one after the other |
| `Destroy` | `enforce_source_retention` of the cleanup job: swept documents are not retained, their files go a day after they are ready, the rows stay |
| `FetchPage`, `FailPage` | `fetch_postings`: newest first, a short page ends it, a failed call skips its page |
| `NextFounder`, `SkipMatch`, `FailMatch`, `Materialize` | `run_sweep_once`'s loop: known solicitation, excess, attachment errors, file and rows |
| `SendDigest`, `CommitSweep`, `FailSweep` | the mail before the commit; a refused mail or commit takes back everything written |
| `Post`, `DeleteMatrix`, `Tick`, `Crash`, `Restart` | SAM.gov, people, time, the container |

What the model makes plain and no property forbids: a lost night leaves files
without rows and mailed links that lead nowhere, and no `sweep_runs` row; the
window counts back from the day of the run, so that postings of a missed night
are looked at only if the next night runs; matches over the limit are counted
and not named; a swept matrix that was deleted is found again.

Abstractions: a day has the minutes at which a job is due and one more; of the
other jobs only the unlinks of the retention are followed, since their rows are in
`SourceFiles`; a row remembers the minute it was made (`at`), and how long after
it the document became ready is left open (`Retained` is the least); notices keep their id, day and
solicitation number.

### Mining

Text is counted in units that stay on one page; a heading begins a section. One
behaviour is one run over one document. `pos` is where `build_chunks` is, `todo`
the recursion of `_process_chunk` written as a list of chunks, `leaves` the text
of the calls whose reply was kept.

| action | code |
|---|---|
| `ReadPages`, `ReadFails` | `build_page_map`, `ocr_subpdf`: any part of the flagged pages is recognised, numbered by the sub-PDF |
| `BuildMarker`, `BuildChunk`, `StartMining`, `ChunkCapExceeded` | `build_chunks` and its limit; a heading that opens the document comes after the marker of its page, which becomes a chunk of its own |
| `HalveFirst`, `HalveAfter`, `TooDeep` | `_estimate_requirements` before a call, a truncated or overfull reply after it, `halve_chunk`, the depth limit |
| `CallUnavailable`, `CallFails`, `Malformed`, `Reply` | `complete` with its retries, the second attempt, a reply with any page |
| `EndMining`, `Audit` | a failed chunk fails the run; `locate_source_pages`, `audit_items` |

Abstractions: page markers are no units (a chunk of one has none); a reply has one item at most, and items
have no order; the comparison of wording is exact. Only kept calls are costed
and logged in the code, and the halves of a chunk share its index, so the
recorded output of the last one wins; neither is a property. `mine.py:8` says
that failed chunks are "counted while the run completes"; the code fails the run.

## 3. Runs

| run | instance | distinct states | shows |
|---|---|---|---|
| `queue_requests` | 1 document, 1 worker, 1 request, 3 runs, 4 jobs, 3 attempts, 2 faults, fairness | 85 thousand | `OnlyLatestRunActive`, `UnfinishedHasJob`, `FailedIsRetryable` when requests do not overlap, and the refinement `KeepsDocuments`; under fairness `EveryDocumentFinishes` before the first fault, `RecoveredDocumentFinishes` after the last |
| `queue_documents` | an uploaded and a swept document, 1 worker, 1 request, 2 runs, 3 jobs, 3 attempts, 2 faults | 261 thousand | `TypeOK`, and `KeepsDocuments` for two documents side by side |
| `queue_recovery` | 1 document, 1 worker, 2 overlapping requests, 4 runs, 4 jobs, 2 attempts, 1 fault | QREC | `WaitingHasWork`, `BootRecovers`, with requests committed between a boot's scan and its writes |
| `billing_delivery` | 1 purchase, 3 events, 2 deliveries at once, 2 periods, 2 lost transactions | BDEL | `TypeOK`, `OneGrantPerPurchase`, `TombstoneHolds`, `NoFreeMonth`, `PaidStaysOpen`, `AckedIsSettled` |
| `billing_liveness` | 2 purchases, 3 events, deliveries in turn, 1 replay under a second id, 1 lost transaction, fairness | BLIV | `EveryPurchaseOpens` |
| `review` | 2 items, 3 extractions of which 2 get published, 2 overlapping requests, 1 restart | REVI | `TypeOK`, `NothingLost`, `DocumentOrder`, `CopiesBounded`, `ReviewSurvives` |
| `access` | 2 requests, 1 address, 1 password, 3 sessions, expiry after 0 ticks, limits of 1 | 1.5 million | `TypeOK`, `LockoutBound`, `DeadStayDead`, `Integrity` |
| `access_liveness` | the same with 2 sessions and no clock, fairness | 16 thousand | `AnsweredUnlessHung` |
| `files` | 1 document, 2 requests, 1 slot, 1 fault, fairness | 120 thousand | `TypeOK`, `SlotsBalance`, `OnlyDueDisappears`, `NoStrayFiles`, `SourceGoesAway` |
| `sweep` | 2 postings, 1 founder, 2 days of 2 minutes and the first minute of a third, pages of 1, 1 match per run, 1 fault, fairness | SWEE | `TypeOK`, `OneMatchEach`, `FilesInStep`, `NothingSilent`, `SweepEnds` |
| `mining` | 8 documents of up to 5 units, chunks of 4 overlapping by 2, 2 chunks, depth 2, 2 tries | 2.9 million | `TypeOK` (with the bound on calls per chunk), `Covered`, `CitedWhereItIs` |

One disagreement between the code and what the repository says of it is kept as
a run that TLC finds violated:

| run | what happens | said by |
|---|---|---|
| `billing_revived` | a deletion delivered before its checkout leaves no tombstone (`webhook.py:239`); the checkout then activates a plan that nothing ends | README.md:126, "late events can't revive a cancelled subscription" |

The models show more of them, which follow from one place in the code each:

- two overlapping reprocess requests both read a finished prior run and leave two
  unfinished ones (`routes_pages.py:377`; SPECIFICATION.md:320); if a boot has
  scanned the failed document before them, its give-up writes no state and fails
  the new job (`queue.py:111`): the document shows as waiting, with failed jobs
  only, until the next boot finds the new run;
- an event whose transaction is lost after its 200 is neither processed nor kept
  for a replay, and a paid matrix stays locked (`deps.py:44`,
  `routes_billing.py:54`);
- boots alone use up the attempts of a run that is merely queued
  (`queue.py:99`; SPECIFICATION.md:316, `queue.py:29`);
- overlapping events of one checkout grant twice, because the SELECT is not
  locked (`webhook.py:165`; the comment at `webhook.py:162`);
- a late payment failure closes a paid plan (`webhook.py:216`; `webhook.py:140`);
- a restart takes unverified rows of a matrix that waits for a reprocess, and the
  export gate lets the rest through (`queue.py:122`, `routes_billing.py:106`;
  SPECIFICATION.md:186);
- the stages of `run_extraction` are never committed, so the progress page (S5,
  "live stage display") stays at "reading";
- inference of swept documents counts against the account's cap although
  SPECIFICATION exempts them;
- a worker that has claimed a surplus job and read the latest run extracts that
  run although a reprocess has added a newer one meanwhile; the next boot finds
  the newer one unfinished, prunes the matrix just published or gives the ready
  document up (`worker/main.py:87`, `queue.py:139`, `routes_pages.py:377`);
- the re-queue may revive an old finished job of a document whose current job is
  parked, so that it is extracted past the cap (`usage.py`: "a hard guard");
- a line that fails its second audit is marked `re_included`, and the panel
  lists only lines that are not, while FR-040 has the panel list every
  citation-audit failure;
- overlapping restores of one line make one row each, and may compute the same
  `seq`;
- a replay of a dead-lettered event is answered `dead_lettered` and not
  "re-attempted" (FR-014);
- a failed dunning mail commits the change of the plan although the delivery
  fails;
- an upload committed while its account is being closed leaves its file behind,
  and so does an unlink that fails in the cleanup's pass over failed documents.

Exposed in the same way, and covered by no property: the heartbeat's UPDATE waits
for the row its own extraction has locked (`worker/main.py:58`); a reprocess that
finds no text finishes and keeps the rows of the run before (`runner.py:144`); a
plan bought from a matrix that is deleted before the checkout event arrives is
dead-lettered (`webhook.py:155`); two checkout sessions of one matrix can both
be paid (`checkout.py:94`). Each is what the code does on every path, and there
is nothing else it could promise.

**Bounds.** *Queue.* `MaxRuns` and `MaxJobs` bound rows ever created. Two runs
of a document suffice for every race of a reprocess with its predecessor; the
race of a surplus job with a reprocess needs a third: a boot revives the job of
the first run beside that of the second, and the third is the newer request.
Overlapping requests need the fourth (`queue_recovery`): the run that fails, the
two that both follow it, and one to spare. Overlapping requests together with two
workers are beyond TLC's time here; `BootRecovers` is proved for them. Two
attempts reach both branches of the re-queue; `queue_requests` has the code's 3. `MaxFaults = 2`
allows a crash during the recovery from a crash. *Billing.* Three events order a
checkout, a deletion and a renewal or a decline in all ways; two handlers are all
a pairwise race needs; two lost transactions lose both deliveries of an event; `MaxEnts` leaves room for the duplicate a broken dedup
would insert. *MatrixReview.* Two published extractions are enough for a row to be reused,
dropped, renumbered behind a new one or found again; two requests restore the
same line at once, or a line and the row a person is checking. *Access.* Every hazard here
is between two requests; with lives of 0 ticks one tick expires what exists, and
three sessions allow a rotation beside a request that refreshes the old row.
`MaxHits` stops counters at or beyond their limit, except the login's, which runs
far enough to pass `LockoutBound`. *SourceFiles.* One document is what a request,
the worker and the cleanup can all be after; two requests are two deletions, an
upload against a closing account, a reprocess against a deletion. *Sweep.* Two
days have two overlapping windows, of which either night may be missed; files of
the first are due on the second and in the minute of the third; pages of one posting
shift when another arrives. *Mining.* Five units make two chunks with a real
overlap; halving twice reaches chunks of one unit. Deadlock is checked for the
queue only: elsewhere a bound, or the end of a run, may end a behaviour.

**Fairness.** *Queue:* the worker's loop and its restart policy
(`deploy/compose.prod.yml:28`), the probe and cleanup cron entries, the end of
the month. Claims are strongly fair: the worker polls every two seconds while
probes are half an hour apart. Un-parking is strongly fair: the cleanup cron
comes back every day. Users and faults are never fair. *Billing:* Stripe
redelivers what was not answered with a 200, and a handled delivery commits or is
lost.
*Access:* a request that can go on again and again does, since the loop runs its
tasks in order and PostgreSQL grants a lock in the order it was asked for.
*SourceFiles:* time passes; the worker, the cleanup and requests that were begun
are strongly fair for the same reason, since locks disable them in between.
*Sweep:* a job that was begun goes on, weakly: nothing disables it but a fault.
*Mining* has no liveness property; its calls are bounded by `TypeOK`.

## 4. Proofs

All proofs are for arbitrary constants that satisfy the assumptions of the
module.

**ExtractionQueueProofs.** `BootRecovers` (what a boot has put back has a queued
job) is proved for any number of workers and overlapping requests, from the
inductive invariant of the module, which adds what it does not say: where every
worker's `wjob` and `wrun` may point in each `pc`, that a job a worker holds
belongs to its run's document, which locks are held while a boot or an
extraction is in progress and that they exclude each other per document, and how
the scan of a boot relates to the runs it read. The proof has one lemma per
action, each split by conjunct; helper operators that build rows have typing
lemmas of their own. `WaitingHasWork` (a document in state `received` has a live
job or an unfinished run) is proved for one worker (`OneWorker`) and any number
of overlapping requests. Its case is the give-up that writes no state: `RunLeft`
says that if the document was put back since the scan, the run of the request
that did so is not among the scanned ones, and stays.

**DocumentsProofs.** What holds only in the deployment it has, stated with it as
hypotheses: `OneRequest` (reprocess requests do not overlap) and `OneWorker`
(compose runs one). `RInv`, which needs the first alone, says that only the newest
run is unfinished and that what `reprocess` has read is still so when it writes
(`Requested`). The rest needs both, and `DInv`: a document that waits has an unfinished run and one that
failed has some run (`ShownByRun`), a boot's scan holds only runs that are still
unfinished or deleted, each once (`ScanReading`), and while a worker extracts one
run another unfinished one has a job that is not the worker's own (`WorkerOwes`).
From it follow `UnfinishedHasJob`, `FailedIsRetryable`, and `KeepsDocuments`:
one lemma per action names the step of `Documents` it is, or shows that it is
none. The hypotheses are needed: two overlapping requests leave two unfinished
runs, and a second worker's boot takes a finished document back (sections 2, 3).

**BillingProofs.** `TombstoneHolds` is not inductive: a pending transaction
that activates a plan must be known to hold the lock of a row without a
tombstone (`Exclusive`, `PendingRespectsTombstone`); that is why the code's
`FOR UPDATE` before the tombstone check matters. `PaidStaysOpen` needs that a
pending checkout carries its unlock and that a sent event's purchase no longer
changes (`PendingUnlocks`, `Sent`, `Unsent`). `AckedIsSettled` says of every
answered event that it is recorded, about to be, or lost with its transaction. `NoFreeMonth` bounds every end in
flight (`EndsInTime`). `EmitIInv` and `BeginIInv` treat all of Stripe's sends
and all of `process_event`'s branches at once. Assumptions used: the constants
are naturals, and `None` is no purchase and no matrix. `OneGrantPerPurchase` has
an invariant of its own (`GInv`): which event an entitlement, a record and a
pending transaction come from, and that a checkout that is recorded as processed
is the only one of its purchase that granted anything. It is proved when every
session is reported by one event, with any number of deliveries at once, and when
deliveries come one after the other, with any number of events
(`NoOverlappingReports`). In neither case can the unlocked SELECT at
`webhook.py:165` miss a grant; with both, it does.

**MatrixReviewProofs.** `NothingLost` is carried by the invariant as it stands,
`DocumentOrder` and `ReviewSurvives` are not: both depend on what can have been
committed since `persist_mine_result` read the rows. `Unread` says that only
restored rows can, and `Sources` that those are told from generated ones by
their clause id, so they are never matched, replaced or deleted. The lemmas
`RetainedRows`, `AddedRows`, `KeptRows` and `UnseenRows` describe the four kinds
of rows of a new matrix, `RankGrows` is the numbering. Assumptions: the items
are finitely many positive naturals, the bounds are naturals. Requests may
overlap in any number. `CopiesBounded` says what double clicks can do: a line
becomes at most as many rows as requests overlap. It is carried by `OnceInv`: a
line still offered has no row of its run, and the rows of a line and the requests
still about to restore it (`Restorers`) are together no more than the requests
(`Budget`), since each of them adds one row and a later one finds the line
marked.

**MiningProofs.** `Covered` speaks of the end of a run. `CoverInv` says where a
passage is before that: ahead of `build_chunks`, whole in a chunk still to do,
whole in the text of a kept reply, or a chunk was given up, in which case the run
is not published. `CutKeeps` and `HalvesKeep` are the two facts about offsets:
of a chunk cut in two, one part holds a passage no longer than the overlap
whole, because a halving overlaps by half of it on each side of the middle. They
need only `Target > Overlap`. `CiteInv` says that a page of the page map is
empty or the page as printed, and that items cite pages of the map. Any
documents, sizes, depths and numbers of tries.

`TypeOK` contains the bound on the calls made for a chunk, which is the hard part
of it. `Budget` says that the calls made so far and what the parts still to do
may cost stay within `CallsPerChunk` together, a part of depth `d` costing
`2 * Retries` for itself and twice the cost of depth `d + 1` (`CostLaw`). A sum
over `todo` would need induction over sequences; instead a function `w` vouches
for what the parts from the k-th on may cost (`Pays`), is shifted when a part is
done (`PartDone`) and extended when one is halved (`PartHalved`).
`2^(n + 1) = 2 * 2^n`, by which `CostLaw` holds, is counted on the subsets of
`1..n` (`PowerDoubles`). `JoinedTyped`, that every unit of the joined text lies
within the page it is counted on, takes the first page that ends beyond it (`LeastElement`).

**SweepProofs.** `NothingSilent` is about a sweep that has ended, `SilentInv` about
every moment of it: a posting of the window has been fetched, or a call failed,
or the place it has moved to by now is on a page still to come (`Paged`, from the
arithmetic of pages in `PageHolds`; new postings only push it further back);
a fetched one is at a founder still to do, at a place still to look at, given, or
reported (`Handled`); and what a committed night says stays true (`NightsTell`).
It needs pages of at least one posting, as in the code. `OneMatchEach` needs that ids of rows are distinct and not
beyond `ids`; `FilesInStep` needs what the digest under way names. It says that a
document has its file for the first day, whatever the retention does
(`Retained`), and that without faults every file and every mailed link belongs to
a row or to the sweep under way. `TimeWithinDays` is only for the types.

**SourceFilesProofs.** `SlotsBalance` is carried by what each phase of a request
implies (`ReqInv`), counted with the finite-set theorems. `OnlyDueDisappears` is
not inductive: `LockInv` and `CleanInv` say that what the cleanup has unlinked
and not yet committed is old enough, and that rows it holds change under nobody
else; `RowInv` ties age to the clocks. It uses `Grace <= FailedTTL`, as in the code
(24 hours against 7 days). `NoStrayFiles` rests on `FileInv` and `StrayInv`.
`TypeOK` is that invariant and the few types it leaves out (`Places`).

**AccessProofs.** `DeadStayDead` and `Integrity` are about what a request still
writes after it has read. `RequestInv` says how it can be sure of each row it
writes: the id is its own and new (`NewId`, `NewAccount`), or it holds a lock
(`Sure`), with `DropOK` and `GoneOK` for what it deletes. `Exclusive` says that
locks exclude each other, `Counters` that ids given out are not given again,
`OneAccount` that an id has one owner and one address. A flush that does not
look whether its row is still there (the mutant `TakeStale`) breaks exactly
`Sure`. Any number of requests, addresses, sessions and limits. `LockoutBound`
counts the requests that have passed the check and not yet compared a password:
in a window that is still open, each of them may add one failure (`MayStillFail`);
in one that is over, none can, because its failure opens the next. Assumption
added: an address is no name of a bucket.

Only model-checked: liveness (`EveryDocumentFinishes`,
`RecoveredDocumentFinishes`, `EveryPurchaseOpens`, `AnsweredUnlessHung`,
`SourceGoesAway`, `SweepEnds`), which the prover does not handle under fairness.
So is `OnlyLatestRunActive`, which overlapping requests break: it is checked for
requests that come one after the other. Every other invariant and action
property of a passing run is a theorem, under the hypotheses named above where
it has any.

## 5. Not modelled

- DOCX conversion, ZIP merging and archive checks, fuzzy matching, prompts, the
  wire format of providers: data without control that matters to the rest.
- Amendments (`amends_rfp_id`), the watchlist form, responses, tags, staff
  annotations: single writes of single requests.
- The files `exports.py` builds and the export gate: read only.
- The quality run and the purge of old SAM notices; the sums of the usage log.
- Settings, SMTP, console, health, application shell, evaluation and seeding
  scripts: I/O and wiring.

Worth doing next: `MatrixReview` with responses and tags; the webhook on the event loop of `Access`; an abstract specification of
`Billing` (what a customer paid for is open), with the refinement proved.
