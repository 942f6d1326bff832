------------------------------- MODULE Sweep -------------------------------
(***************************************************************************)
(* The sweep container: a cron loop that runs its jobs one after the other *)
(* and the nightly sweep of postings, whose rows are committed at its end  *)
(* while its files are written and its mails sent on the way.              *)
(*                                                                         *)
(* Time is counted in the minutes of a day that matter: those at which a   *)
(* job is due, and the rest of the day as one more.                        *)
(***************************************************************************)
EXTENDS Naturals, Sequences, FiniteSets, SequencesExt

CONSTANTS
  Notices,       \* postings, each with its noticeId
  Solicitation,  \* solicitationNumber of each posting
  Founders,      \* staff accounts with a watchlist
  Watched,       \* the postings each founder's watchlist matches
  Jobs,          \* due_jobs, in their order
  At,            \* cron: the minute of the day each job is due
  Minutes,       \* minutes in a day
  PageLimit,     \* PAGE_LIMIT
  DeadPages,     \* pages after which a failing call ends the fetch
  MaxMatches,    \* MAX_SWEEP_MATCHES_PER_RUN
  MaxDay,        \* bound: days
  MaxTime,       \* bound: minutes since the first day
  MaxIds,        \* bound: documents ever made
  MaxFaults,     \* bound: crashes, mails and commits that fail
  None

ASSUME SweepBounds ==
  /\ Watched \in [Founders -> SUBSET Notices]
  /\ DOMAIN Solicitation = Notices
  /\ At \in [Range(Jobs) -> 0..Minutes - 1] /\ "sweep" \in Range(Jobs)
  /\ {PageLimit, Minutes} \subseteq Nat \ {0} /\ {DeadPages, MaxMatches, MaxDay, MaxTime, MaxIds, MaxFaults} \subseteq Nat

ASSUME TimeWithinDays == MaxTime < (MaxDay + 1) * Minutes

VARIABLES
  now,      \* minutes since the first day
  posted,   \* what SAM.gov has posted, in order, with its day
  loop,     \* the cron loop
  run,      \* the sweep under way
  rows,     \* rfps of origin sweep
  files,    \* their files, by id
  mails,    \* documents named in digests, by id
  ids,      \* documents ever made
  matched,  \* history: who was given which solicitation
  nights,   \* sweep_runs: the days with a committed sweep, what they report
  faults

vars == <<now, posted, loop, run, rows, files, mails, ids, matched, nights, faults>>

Day(t) == t \div Minutes
Days == 0..MaxDay
Sols == {Solicitation[n] : n \in Notices}

\* at: created_at.
Row == [who: Founders, sol: Sols, id: 1..MaxIds, at: Nat]
Report == {<<"done">>, <<"call_failed">>} \cup ({"excess"} \X Founders)
            \cup ({"attachment"} \X Founders \X Notices)

\* last: the jobs whose last_runs entry, kept in memory, is this minute; due:
\* what this cycle found due; seen: a cycle began in this minute.
Loop == [up: BOOLEAN, seen: BOOLEAN, due: SUBSET Range(Jobs), last: SUBSET Range(Jobs)]
Started == [up |-> TRUE, seen |-> FALSE, due |-> {}, last |-> {}]

\* fetched: postings as paged; todo: founders to come; rest: where fetched has
\* the current one's matches to come; count: of them processed; new: rows added;
\* entries: the digest.
Run == [phase: {"none", "fetch", "founders", "match", "commit", "cleanup", "other"},
        to: Days, offset: Nat, fetched: Seq(Notices), todo: SUBSET Founders,
        who: Founders \cup {None}, rest: SUBSET Nat, count: Nat,
        new: SUBSET Row, entries: SUBSET (1..MaxIds), errors: SUBSET Report]
NoRun == [phase |-> "none", to |-> 0, offset |-> 0, fetched |-> <<>>, todo |-> {},
          who |-> None, rest |-> {}, count |-> 0, new |-> {}, entries |-> {},
          errors |-> {}]

TypeOK ==
  /\ now \in 0..MaxTime
  /\ posted \in Seq([notice: Notices, day: Days])
  /\ loop \in Loop
  /\ run \in Run
  /\ rows \subseteq Row
  /\ files \subseteq 1..MaxIds /\ mails \subseteq 1..MaxIds
  /\ ids \in 0..MaxIds
  /\ matched \subseteq Founders \X Sols
  /\ nights \in [Days -> SUBSET Report]
  /\ faults \in 0..MaxFaults

Init ==
  /\ now = 0 /\ ids = 0 /\ faults = 0
  /\ posted = <<>>
  /\ loop = Started /\ run = NoRun
  /\ matched = {} /\ rows = {} /\ files = {} /\ mails = {}
  /\ nights = [d \in Days |-> {}]

Fault == faults < MaxFaults /\ faults' = faults + 1

-----------------------------------------------------------------------------
(* The world outside.                                                      *)

\* The loop polls twice a minute: no minute passes unseen while it is idle.
Idle == loop.due = {} /\ run.phase = "none"
Tick ==
  /\ now < MaxTime
  /\ loop.up /\ Idle => loop.seen
  /\ now' = now + 1
  /\ loop' = [loop EXCEPT !.seen = FALSE, !.last = {}]
  /\ UNCHANGED <<posted, run, rows, files, mails, ids, matched, nights, faults>>

Post(n) ==
  /\ \A i \in DOMAIN posted : posted[i].notice # n
  /\ posted' = Append(posted, [notice |-> n, day |-> Day(now)])
  /\ UNCHANGED <<now, loop, run, rows, files, mails, ids, matched, nights, faults>>

\* delete_matrix; the link in an old mail is not followed further.
DeleteMatrix(r) ==
  /\ r \in rows
  /\ rows' = rows \ {r} /\ files' = files \ {r.id} /\ mails' = mails \ {r.id}
  /\ UNCHANGED <<now, posted, loop, run, ids, matched, nights, faults>>

-----------------------------------------------------------------------------
(* run_scheduler.                                                          *)

\* is_due: the minute matches, and the job has not begun in it.
Due(j) == At[j] = now % Minutes /\ j \notin loop.last

Cycle ==
  /\ loop.up /\ Idle
  /\ LET due == {j \in Range(Jobs) : Due(j)}
     IN loop' = [loop EXCEPT !.seen = TRUE, !.due = due, !.last = @ \cup due]
  /\ loop' # loop
  /\ UNCHANGED <<now, posted, run, rows, files, mails, ids, matched, nights, faults>>

\* The first of the jobs found due.  A sweep fixes its window when it starts.
StartJob(j) ==
  /\ loop.up /\ run.phase = "none" /\ j \in loop.due
  /\ \A i \in DOMAIN Jobs : Jobs[i] = j => \A h \in 1..i - 1 : Jobs[h] \notin loop.due
  /\ loop' = [loop EXCEPT !.due = @ \ {j}]
  /\ run' = IF j = "sweep" THEN [NoRun EXCEPT !.phase = "fetch", !.to = Day(now)]
            ELSE [NoRun EXCEPT !.phase = IF j = "cleanup" THEN j ELSE "other"]
  /\ UNCHANGED <<now, posted, rows, files, mails, ids, matched, nights, faults>>

\* enforce_source_retention: a swept document is not retained, and its file is
\* destroyed a day after it became ready, later still if it failed.  When its
\* extraction finished is left open: not before the row was made.  The row
\* stays; the unlink is out whatever becomes of the job.
Retained(r) == now < r.at + Minutes
DestroyAtOnce(r) ==                                           \* mutant
  /\ run.phase = "cleanup"
  /\ r \in rows
  /\ files' = files \ {r.id}
  /\ UNCHANGED <<now, posted, loop, run, rows, mails, ids, matched, nights, faults>>
Destroy(r) ==
  /\ run.phase = "cleanup"
  /\ r \in rows /\ ~Retained(r)
  /\ files' = files \ {r.id}
  /\ UNCHANGED <<now, posted, loop, run, rows, mails, ids, matched, nights, faults>>

EndOther ==
  /\ run.phase \in {"cleanup", "other"}
  /\ run' = NoRun
  /\ UNCHANGED <<now, posted, loop, rows, files, mails, ids, matched, nights, faults>>

-----------------------------------------------------------------------------
(* fetch_postings: pages of what was posted yesterday or today, the latest *)
(* first; what is posted meanwhile shifts them.                            *)

TodayOnly(p) == p.day = run.to                                \* mutant
InWindow(p) == p.day <= run.to /\ p.day + 1 >= run.to

PageOfRecords ==                                              \* mutant
  SelectSeq(posted, LAMBDA p : InWindow(p) /\ run.offset = 0)
\* Postings come in the order of their days: a window is a stretch of posted.
Page ==
  LET window == {i \in DOMAIN posted : InWindow(posted[i])}
      found == Cardinality(window)
      end == IF run.offset + PageLimit < found THEN run.offset + PageLimit ELSE found
  IN [i \in 1..(IF end > run.offset THEN end - run.offset ELSE 0) |->
        posted[Max(window) + 1 - (run.offset + i)].notice]

\* The notices are added to sam_notices and the founders are read.
Fetched(r) == [r EXCEPT !.phase = "founders", !.todo = Founders, !.offset = 0]

FetchPage ==
  /\ run.phase = "fetch"
  /\ run' = LET got == [run EXCEPT !.fetched = @ \o Page, !.offset = @ + PageLimit]
            IN IF Len(Page) < PageLimit THEN Fetched(got) ELSE got
  /\ UNCHANGED <<now, posted, loop, rows, files, mails, ids, matched, nights, faults>>

\* A failed call skips its page.
StartOver ==                                                  \* mutant
  /\ run.phase = "fetch"
  /\ run' = [run EXCEPT !.errors = @ \cup {<<"call_failed">>}, !.offset = 0, !.fetched = <<>>]
  /\ UNCHANGED <<now, posted, loop, rows, files, mails, ids, matched, nights, faults>>
FailPage ==
  /\ run.phase = "fetch"
  /\ run' = LET next == [run EXCEPT !.errors = @ \cup {<<"call_failed">>}, !.offset = @ + PageLimit]
            IN IF next.offset > DeadPages * PageLimit THEN Fetched(next) ELSE next
  /\ UNCHANGED <<now, posted, loop, rows, files, mails, ids, matched, nights, faults>>

-----------------------------------------------------------------------------
(* Founders, matches, digests.                                             *)

NextFounder(f) ==
  /\ run.phase = "founders" /\ f \in run.todo
  /\ run' = [run EXCEPT !.phase = "match", !.todo = @ \ {f}, !.who = f, !.count = 0,
               !.entries = {},
               !.rest = {i \in DOMAIN run.fetched : run.fetched[i] \in Watched[f]}]
  /\ UNCHANGED <<now, posted, loop, rows, files, mails, ids, matched, nights, faults>>

Match == run.fetched[Min(run.rest)]

\* _already_matched, which sees what this run has added.
MatchedInRun(n) ==                                            \* mutant
  \E r \in run.new : r.who = run.who /\ r.sol = Solicitation[n]
AlreadyMatched(n) ==
  \E r \in rows \cup run.new : r.who = run.who /\ r.sol = Solicitation[n]

\* The matches that are skipped, up to the next to be processed.
SkipMatch ==
  /\ run.phase = "match" /\ run.rest # {}
  /\ AlreadyMatched(Match) \/ run.count >= MaxMatches
  /\ run' = [run EXCEPT !.rest = @ \ {Min(@)},
               !.errors = IF AlreadyMatched(Match) THEN @
                          ELSE @ \cup {<<"excess", run.who>>}]
  /\ UNCHANGED <<now, posted, loop, rows, files, mails, ids, matched, nights, faults>>

\* _materialize_match: the attachment is missing, refused or not fetched.
WriteThenFail ==                                              \* mutant
  /\ run.phase = "match" /\ run.rest # {}
  /\ ~AlreadyMatched(Match) /\ run.count < MaxMatches
  /\ ids < MaxIds /\ ids' = ids + 1 /\ files' = files \cup {ids + 1}
  /\ run' = [run EXCEPT !.rest = @ \ {Min(@)}, !.count = @ + 1,
               !.errors = @ \cup {<<"attachment", run.who, Match>>}]
  /\ UNCHANGED <<now, posted, loop, rows, mails, matched, nights, faults>>
FailMatch ==
  /\ run.phase = "match" /\ run.rest # {}
  /\ ~AlreadyMatched(Match) /\ run.count < MaxMatches
  /\ run' = [run EXCEPT !.rest = @ \ {Min(@)}, !.count = @ + 1,
               !.errors = @ \cup {<<"attachment", run.who, Match>>}]
  /\ UNCHANGED <<now, posted, loop, rows, files, mails, ids, matched, nights, faults>>

\* The file is written, rfp, run and job are added.
Materialize ==
  LET id == ids + 1
  IN /\ run.phase = "match" /\ run.rest # {}
     /\ ~AlreadyMatched(Match) /\ run.count < MaxMatches
     /\ id <= MaxIds
     /\ ids' = id
     /\ files' = files \cup {id}
     /\ run' = [run EXCEPT !.rest = @ \ {Min(@)}, !.count = @ + 1,
          !.entries = @ \cup {id},
          !.new = @ \cup {[who |-> run.who, sol |-> Solicitation[Match], id |-> id,
                            at |-> now]}]
     /\ UNCHANGED <<now, posted, loop, rows, mails, matched, nights, faults>>

\* send_digest: nothing without entries.
SendDigest ==
  /\ run.phase = "match" /\ run.rest = {}
  /\ mails' = mails \cup run.entries
  /\ run' = [run EXCEPT !.phase = "founders", !.who = None, !.entries = {}, !.count = 0]
  /\ UNCHANGED <<now, posted, loop, rows, files, ids, matched, nights, faults>>

CommitSweep ==
  /\ run.phase = "founders" /\ run.todo = {}
  /\ rows' = rows \cup run.new
  /\ matched' = matched \cup {<<r.who, r.sol>> : r \in run.new}
  /\ nights' = [nights EXCEPT ![run.to] = @ \cup run.errors \cup {<<"done">>}]
  /\ run' = NoRun
  /\ UNCHANGED <<now, posted, loop, files, mails, ids, faults>>

\* A mail that is not accepted, or a refused commit, ends the job: what it has
\* written is rolled back.
FailSweep ==
  /\ \/ run.phase = "match" /\ run.rest = {} /\ run.entries # {}
     \/ run.phase = "founders" /\ run.todo = {}
  /\ run' = NoRun /\ Fault
  /\ UNCHANGED <<now, posted, loop, rows, files, mails, ids, matched, nights>>

Crash ==
  /\ loop.up
  /\ loop' = [Started EXCEPT !.up = FALSE] /\ run' = NoRun /\ Fault
  /\ UNCHANGED <<now, posted, rows, files, mails, ids, matched, nights>>

Restart ==
  /\ ~loop.up
  /\ loop' = Started
  /\ UNCHANGED <<now, posted, run, rows, files, mails, ids, matched, nights, faults>>

-----------------------------------------------------------------------------

RunSweep ==
  \/ FetchPage \/ FailPage \/ SkipMatch \/ FailMatch \/ Materialize \/ SendDigest
  \/ CommitSweep \/ \E f \in Founders : NextFounder(f)
Step ==
  \/ RunSweep \/ Cycle \/ EndOther
  \/ \E j \in Range(Jobs) : StartJob(j)
  \/ \E r \in rows : Destroy(r)

Next ==
  \/ Tick \/ Step \/ FailSweep \/ Crash \/ Restart
  \/ \E n \in Notices : Post(n)
  \/ \E r \in rows : DeleteMatrix(r)

Spec == Init /\ [][Next]_vars
\* A job that was begun goes on; nothing is asked of the loop and its restarts.
FairSpec == Spec /\ WF_vars(RunSweep \/ EndOther)

-----------------------------------------------------------------------------

\* A founder has at most one swept document of a solicitation, whatever is
\* paged twice, reposted, swept again after a restart or in the next night's
\* overlapping window (_already_matched).
OneMatchEach ==
  \A r, q \in rows \cup run.new : r.who = q.who /\ r.sol = q.sol => r = q

Made == {r.id : r \in rows \cup run.new}

\* Files are written and digests mailed before the sweep's one commit.  Only
\* the retention takes a document's file away, not within its first day; as
\* long as no sweep is lost there is no file without its document and no
\* mailed link that leads nowhere.
FilesInStep ==
  /\ \A r \in rows \cup run.new : r.id \in files \/ ~Retained(r)
  /\ faults = 0 => files \cup mails \subseteq Made

\* A posting that a watchlist matches is not dropped silently: once the last
\* night whose window holds it is over, it has a document, or a sweep that saw
\* its window reports why not, or that night's sweep was not completed.
NothingSilent ==
  \A i \in DOMAIN posted, f \in Founders :
    LET n == posted[i].notice
        last == posted[i].day + 1
        reports == nights[posted[i].day] \cup nights[last]
    IN (n \in Watched[f] /\ last <= MaxDay /\ Day(now) > last /\ run.phase = "none") =>
         \/ <<f, Solicitation[n]>> \in matched
         \/ reports \cap {<<"call_failed">>, <<"excess", f>>, <<"attachment", f, n>>} # {}
         \/ <<"done">> \notin nights[last]

\* Every sweep comes to an end, also against an endpoint that only fails.
SweepEnds == (run.phase # "none") ~> (run.phase = "none")
=============================================================================
