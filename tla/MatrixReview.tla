---------------------------- MODULE MatrixReview ----------------------------
(***************************************************************************)
(* The matrix of one document: requirement rows, the two review panels     *)
(* (filtered_lines, audit_drops), what a person does to them, and what an  *)
(* extraction and a restart do to them meanwhile.                          *)
(*                                                                         *)
(* rows, lines, state and file are COMMITTED.  persist_mine_result reads   *)
(* the rows it will replace in one step and commits in another; requests   *)
(* read and commit in separate steps too, since no request locks what it   *)
(* reads.                                                                  *)
(*                                                                         *)
(* An item stands for a normalized (clause_id, page, text), numbered in    *)
(* document order.  A mention is an item with what the filter and the      *)
(* citation audit made of it.                                              *)
(***************************************************************************)
EXTENDS Naturals, FiniteSets

CONSTANTS
  Items,        \* what an extraction may find, in document order
  Extractions,  \* the sets of mentions an extraction may end with
  Requests,     \* concurrently served requests
  MaxRuns,      \* bound: extractions ever published
  MaxRestarts,  \* bound: restarts of the worker that re-queue a run
  MaxCopies,    \* bound: rows ever restored from one line
  None          \* no row, no line

Panels == {"filtered", "dropped"}
Mentions == [item: Items, verdict: {"row"} \cup Panels]

ASSUME ReviewBounds == /\ Items \subseteq Nat \ {0}
                       /\ IsFiniteSet(Items)
                       /\ Extractions \subseteq SUBSET Mentions
                       /\ IsFiniteSet(Requests)
                       /\ MaxRuns \in Nat
                       /\ MaxRestarts \in Nat
                       /\ MaxCopies \in Nat

VARIABLES
  state,     \* rfps.state: "received" while an extraction is due
  file,      \* the source file is still there
  mined,     \* the mentions of the latest extraction that got to "ready"
  nruns,     \* extractions published so far
  rows,      \* requirements
  lines,     \* filtered_lines and audit_drops
  existing,  \* the rows persist_mine_result read, None when it is not running
  req,       \* what each request read
  restarts   \* restarts so far

vars == <<state, file, mined, nruns, rows, lines, existing, req, restarts>>

\* Identified by run (the extraction that found it), item, source and copy.
\* line is N of the clause id "restored.N", 0 for a generated row.
Row == [run: 1..MaxRuns, item: Items, source: {"model"} \cup Panels,
        copy: 0..MaxCopies, line: Nat, seq: Nat, checked: BOOLEAN]

\* failed: re_included by a request that could not verify the citation.
Line == [run: 1..MaxRuns, item: Items, panel: Panels, seq: Nat,
         re_included: BOOLEAN, failed: BOOLEAN]

Id(row) == <<row.run, row.item, row.source, row.copy>>
LineId(line) == <<line.run, line.item, line.panel>>

RowIds == (1..MaxRuns) \X Items \X ({"model"} \cup Panels) \X (0..MaxCopies)
LineIds == (1..MaxRuns) \X Items \X Panels

\* What a request holds between two of its steps: the row or the line it
\* loaded, what it will write, the next seq it computed.
Idle == [op |-> "none", target |-> None, seq |-> 0]
Patching == [op: {"check", "uncheck"}, target: RowIds, seq: {0}]
Restoring == [op: {"restore", "insert"}, target: LineIds, seq: Nat]

TypeOK ==
  /\ state \in {"received", "ready", "failed", "expired"}
  /\ file \in BOOLEAN
  /\ mined \subseteq Mentions
  /\ nruns \in 0..MaxRuns
  /\ rows \subseteq Row
  /\ lines \subseteq Line
  /\ existing = None \/ existing \subseteq Row
  /\ req \in [Requests -> {Idle} \cup Patching \cup Restoring]
  /\ restarts \in 0..MaxRestarts

-----------------------------------------------------------------------------
(* persist_mine_result.                                                    *)

\* The position of i among the items S, in document order.
Rank(i, S) == Cardinality({j \in S : j <= i})

Found(m, verdict) == {i \in Items : [item |-> i, verdict |-> verdict] \in m}

\* _requirement_key and _item_key agree: a generated row of the item.
Matches(row, i) == row.line = 0 /\ row.item = i

\* The columns an in-place update writes; verified_at, response and tags are
\* not among them.
SnapshotUpdate(row, i, m) ==                                  \* mutant
  [row EXCEPT !.seq = Rank(i, Found(m, "row")),
              !.checked = \E old \in existing :
                            Id(old) = Id(row) /\ old.checked]
StaleNumber(row, i, m) == row                                 \* mutant
InPlaceUpdate(row, i, m) == [row EXCEPT !.seq = Rank(i, Found(m, "row"))]

UnderPriorRun(i, m) ==                                        \* mutant
  [run |-> nruns, item |-> i, source |-> "model", copy |-> 0, line |-> 0,
   seq |-> Rank(i, Found(m, "row")), checked |-> FALSE]
NewRow(i, m) ==
  [run |-> nruns + 1, item |-> i, source |-> "model", copy |-> 0, line |-> 0,
   seq |-> Rank(i, Found(m, "row")), checked |-> FALSE]

Retained(m) ==
  {row \in rows : /\ \E old \in existing : Id(old) = Id(row)
                  /\ \E i \in Found(m, "row") : Matches(row, i)}

\* Rows of a person: section "(restored)", no match among the new items.
Forgotten(m) == {}                                            \* mutant
Preserved(m) == {row \in existing : row.source # "model"}

\* A restore that committed after persist_mine_result read the rows: its row
\* is not in existing and stays as it is.
Unseen == {row \in rows : \A old \in existing : Id(old) # Id(row)}

\* Items no earlier row stands for.
Missing(m) == {i \in Found(m, "row") : \A row \in Retained(m) : ~Matches(row, i)}

\* Preserved rows as they are by now: only seq is written.
Kept(m) == {row \in rows : \E old \in Preserved(m) : Id(old) = Id(row)}

Renumbered(row, m, order) ==
  [row EXCEPT !.seq = Cardinality(Found(m, "row")) + order[Id(row)]]

\* The surviving rows, restored ones numbered after the generated ones in
\* some order.
NewRows(m, order) ==
  {InPlaceUpdate(row, row.item, m) : row \in Retained(m)}
    \cup {NewRow(i, m) : i \in Missing(m)}
    \cup {Renumbered(row, m, order) : row \in Kept(m)}
    \cup Unseen

Orders(S) == {f \in [{Id(row) : row \in S} -> 1..Cardinality(S)] :
                \A a, b \in DOMAIN f : f[a] = f[b] => a = b}

\* Audit failures and noise are written to their tables; re_included starts
\* as FALSE.
OnlyFiltered(m) ==                                            \* mutant
  {[run |-> nruns + 1, item |-> i, panel |-> "filtered",
    seq |-> Rank(i, Found(m, "filtered")), re_included |-> FALSE,
    failed |-> FALSE] : i \in Found(m, "filtered")}
NewLines(m) ==
  UNION {{[run |-> nruns + 1, item |-> i, panel |-> p,
           seq |-> Rank(i, Found(m, p)), re_included |-> FALSE,
           failed |-> FALSE] : i \in Found(m, p)} : p \in Panels}

-----------------------------------------------------------------------------
(* The worker.                                                             *)

\* SELECT the rows of the document.
PersistRead ==
  /\ state = "received"
  /\ existing = None
  /\ nruns < MaxRuns
  /\ existing' = rows
  /\ UNCHANGED <<state, file, mined, nruns, rows, lines, req, restarts>>

\* The writes and their commit, together with _finish_ready's.
PersistCommit(m) ==
  /\ existing # None
  /\ \E order \in Orders(Kept(m)) : rows' = NewRows(m, order)
  /\ lines' = NewLines(m)
  /\ mined' = m
  /\ nruns' = nruns + 1
  /\ state' = "ready"
  /\ existing' = None
  /\ UNCHANGED <<file, req, restarts>>

\* The page map has no text: ready, the rows untouched.
FinishEmpty ==
  /\ state = "received"
  /\ existing = None
  /\ state' = "ready"
  /\ mined' = {}
  /\ UNCHANGED <<file, nruns, rows, lines, existing, req, restarts>>

\* The run fails, or its retries are exhausted at a boot: no row is touched.
FailExtraction ==
  /\ state = "received"
  /\ existing' = None
  /\ state' = "failed"
  /\ UNCHANGED <<file, mined, nruns, rows, lines, req, restarts>>

\* requeue_stale_runs cleans partial output: everything but verified rows.
KeepRestored == {row \in rows : row.source # "model"}         \* mutant
Verified == {row \in rows : row.checked}

Requeue ==
  /\ state = "received"
  /\ restarts < MaxRestarts
  /\ restarts' = restarts + 1
  /\ rows' = Verified
  /\ lines' = {}
  /\ existing' = None
  /\ UNCHANGED <<state, file, mined, nruns, req>>

-----------------------------------------------------------------------------
(* The person.                                                             *)

Reprocess ==
  /\ state \in {"ready", "failed"}
  /\ file
  /\ state' = "received"
  /\ UNCHANGED <<file, mined, nruns, rows, lines, existing, req, restarts>>

\* The retention period ends (enforce_source_retention).
Expire ==
  /\ state \in {"ready", "failed"}
  /\ file
  /\ file' = FALSE
  /\ state' = IF state = "failed" THEN "expired" ELSE state
  /\ UNCHANGED <<mined, nruns, rows, lines, existing, req, restarts>>

Answer(q) == req' = [req EXCEPT ![q] = Idle]

\* api_patch_row loads the row, then awaits the body.  The verified_at it
\* loaded decides whether it writes: a request that finds the mark as it asks
\* for changes nothing and is no step.
PatchRead(q, row) ==
  /\ req[q] = Idle
  /\ req' = [req EXCEPT ![q] = [op |-> IF row.checked THEN "uncheck" ELSE "check",
                                target |-> Id(row), seq |-> 0]]
  /\ UNCHANGED <<state, file, mined, nruns, rows, lines, existing, restarts>>

PatchWrite(q) ==
  /\ req[q].op \in {"check", "uncheck"}
  /\ \E row \in rows :
       /\ Id(row) = req[q].target
       /\ rows' = (rows \ {row})
                    \cup {[row EXCEPT !.checked = req[q].op = "check"]}
  /\ Answer(q)
  /\ UNCHANGED <<state, file, mined, nruns, lines, existing, restarts>>

\* The row is gone: the UPDATE finds nothing and the request fails.
PatchFails(q) ==
  /\ req[q].op \in {"check", "uncheck"}
  /\ \A row \in rows : Id(row) # req[q].target
  /\ Answer(q)
  /\ UNCHANGED <<state, file, mined, nruns, rows, lines, existing, restarts>>

\* restore_filtered and restore_audit_drop load the line.
RestoreRead(q, line) ==
  /\ req[q] = Idle
  /\ ~line.re_included
  /\ req' = [req EXCEPT ![q] = [op |-> "restore", target |-> LineId(line),
                                seq |-> 0]]
  /\ UNCHANGED <<state, file, mined, nruns, rows, lines, existing, restarts>>

\* _next_seq, and for a dropped line the fresh audit before it.
Seqs == {row.seq : row \in rows} \cup {0}
NextSeq == {s + 1 : s \in {t \in Seqs : \A u \in Seqs : u <= t}}

Verify(q) ==
  /\ req[q].op = "restore"
  /\ req[q].target[3] = "dropped" => file
  /\ \E s \in NextSeq :
       req' = [req EXCEPT ![q] = [op |-> "insert", target |-> req[q].target,
                                  seq |-> s]]
  /\ UNCHANGED <<state, file, mined, nruns, rows, lines, existing, restarts>>

Copies(line) == {row \in rows : /\ row.run = line.run
                                /\ row.item = line.item
                                /\ row.source = line.panel}

RestoredRow(line, copy, seq) ==
  [run |-> line.run, item |-> line.item, source |-> line.panel, copy |-> copy,
   line |-> line.seq, seq |-> seq, checked |-> FALSE]

\* How many rows the line has been restored to before.
IsNextCopy(line, c) ==
  /\ \A row \in Copies(line) : row.copy # c
  /\ c = 0 \/ \E row \in Copies(line) : row.copy + 1 = c

\* The line as a restore leaves it.
StillOffered(line, failed) == [line EXCEPT !.failed = failed]  \* mutant
Marked(line, failed) == [line EXCEPT !.re_included = TRUE, !.failed = failed]

\* The UPDATE of the line fails when the line is gone.
RestoreWrite(q) ==
  /\ req[q].op = "insert"
  /\ \E line \in lines, c \in 0..MaxCopies :
       /\ LineId(line) = req[q].target
       /\ IsNextCopy(line, c)
       /\ rows' = rows \cup {RestoredRow(line, c, req[q].seq)}
       /\ lines' = (lines \ {line}) \cup {Marked(line, line.failed)}
  /\ Answer(q)
  /\ UNCHANGED <<state, file, mined, nruns, existing, restarts>>

\* The fresh audit fails, or there is no source to audit against.
RestoreFails(q) ==
  /\ req[q].op = "restore"
  /\ \E line \in lines :
       /\ LineId(line) = req[q].target
       /\ line.panel = "dropped"
       /\ lines' = (lines \ {line}) \cup {Marked(line, TRUE)}
  /\ Answer(q)
  /\ UNCHANGED <<state, file, mined, nruns, rows, existing, restarts>>

\* The line was replaced meanwhile: the request fails.
RestoreConflict(q) ==
  /\ req[q].op \in {"restore", "insert"}
  /\ \A line \in lines : LineId(line) # req[q].target
  /\ Answer(q)
  /\ UNCHANGED <<state, file, mined, nruns, rows, lines, existing, restarts>>

-----------------------------------------------------------------------------

Init ==
  /\ state = "received"
  /\ file = TRUE
  /\ mined = {}
  /\ nruns = 0
  /\ rows = {}
  /\ lines = {}
  /\ existing = None
  /\ req = [q \in Requests |-> Idle]
  /\ restarts = 0

Worker ==
  \/ PersistRead
  \/ \E m \in Extractions : PersistCommit(m)
  \/ FinishEmpty
  \/ FailExtraction
  \/ Requeue

Person(q) ==
  \/ \E row \in rows : PatchRead(q, row)
  \/ PatchWrite(q)
  \/ PatchFails(q)
  \/ \E line \in lines : RestoreRead(q, line)
  \/ Verify(q)
  \/ RestoreWrite(q)
  \/ RestoreFails(q)
  \/ RestoreConflict(q)

Next ==
  \/ Worker
  \/ Reprocess
  \/ Expire
  \/ \E q \in Requests : Person(q)

Spec == Init /\ [][Next]_vars

-----------------------------------------------------------------------------
(* Properties.                                                             *)

Placed(mention) ==
  IF mention.verdict = "row"
  THEN \E row \in rows : Matches(row, mention.item)
  ELSE \E line \in lines :
         /\ line.panel = mention.verdict /\ line.item = mention.item
         /\ \/ ~line.re_included
            \/ line.failed
            \/ Copies(line) # {}

\* Nothing the model found is silently discarded: in a ready matrix every
\* mention is a row, or a panel line that waits, was restored to a row or
\* failed its second audit.
NothingLost == state = "ready" => \A mention \in mined : Placed(mention)

\* A new extraction keeps what a person did, also what was done while it was
\* being persisted: restored rows stay, and a row found again keeps its check
\* mark.  A restart, which cleans up behind an extraction, takes no checked row.
ReviewSurvives ==
  [][/\ nruns' # nruns =>
          \A row \in rows :
            (row.source # "model" \/ row.item \in Found(mined', "row")) =>
              \E new \in rows' : Id(new) = Id(row) /\ new.checked = row.checked
     /\ restarts' # restarts =>
          \A row \in rows : row.checked => row \in rows']_vars

\* Generated rows are numbered in document order, each item once, whatever
\* was reused, restored or pruned.
DocumentOrder ==
  \A a, b \in rows : (a.source = "model" /\ b.source = "model" /\ a # b)
    => (a.item < b.item /\ a.seq < b.seq) \/ (b.item < a.item /\ b.seq < a.seq)

\* A line becomes at most as many rows as requests are served at once (copy
\* numbers a line's rows from 0).  No request locks the line it restores, so
\* clicks that overlap may each add a row, but a click that starts after one
\* of them was answered adds none: whatever extractions, restarts and failed
\* audits come between the steps of either.
CopiesBounded ==
  \A row \in rows : row.source # "model" => row.copy < Cardinality(Requests)
=============================================================================
